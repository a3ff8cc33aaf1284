------------------------- MODULE OutputCursor_proofs ------------------------
(***************************************************************************)
(* What the primitives of output ports do to a port, for any strings and   *)
(* numbers of bytes: the lemmas on the operators of QueuedOutput that      *)
(* Ports_proofs rests on.  No byte is lost, duplicated or overtaken by     *)
(* write_bytes, c_writev, qout_flush and handle_std_write_event.           *)
(***************************************************************************)
EXTENDS EventPoll, FiniteSetTheorems, SequenceTheorems, WellFoundedInduction, TLAPS

-----------------------------------------------------------------------------
(* Induction: a set of naturals has a least member, and what a loop does   *)
(* from one turn to the next defines what it does in all of them.          *)

\* The order of the naturals.
Below == {pair \in Nat \X Nat : pair[1] < pair[2]}

\* A set of naturals has a least member ...
LEMMA LeastMember ==
  ASSUME NEW T, T \subseteq Nat, T # {}
  PROVE  \E m \in T : \A k \in T : m <= k
<1>1. IsWellFoundedOn(Below, Nat)
  BY NatLessThanWellFounded DEF OpToRel, Below
<1>2. PICK m \in T : \A k \in T : ~(<<k, m>> \in Below)
  BY <1>1, WFMin
<1>3. ASSUME NEW k \in T  PROVE m <= k
  <2>1. <<k, m>> \in Nat \X Nat /\ <<k, m>>[1] = k /\ <<k, m>>[2] = m
    OBVIOUS
  <2> QED  BY <1>2, <2>1 DEF Below
<1> QED  BY <1>3

\* ... and a bounded one a greatest.
LEMMA GreatestMember ==
  ASSUME NEW n \in Nat, NEW T, T \subseteq 0 .. n, T # {}
  PROVE  \E m \in T : \A k \in T : k <= m
<1> DEFINE Left == {n - k : k \in T}
<1>1. Left \subseteq Nat /\ Left # {}
  <2>1. \A k \in T : n - k \in Nat
    OBVIOUS
  <2> QED  BY <2>1
<1>2. PICK m \in Left : \A k \in Left : m <= k
  <2> HIDE DEF Left
  <2> QED  BY <1>1, LeastMember
<1>3. PICK g \in T : m = n - g
  OBVIOUS
<1>4. ASSUME NEW k \in T  PROVE k <= g
  <2>1. n - g <= n - k
    BY <1>2, <1>3
  <2> QED  BY <2>1
<1> QED  BY <1>4

\* What holds of 0 and goes from each number to the next holds of all up to n.
LEMMA FromZero ==
  ASSUME NEW n \in Nat, NEW G, 0 \in G, \A m \in 1 .. n : m - 1 \in G => m \in G
  PROVE  0 .. n \subseteq G
<1> DEFINE Bad == 0 .. n \ G
<1> SUFFICES ASSUME Bad # {}  PROVE FALSE
  OBVIOUS
<1>1. PICK m \in Bad : \A k \in Bad : m <= k
  <2>1. Bad \subseteq Nat
    OBVIOUS
  <2> HIDE DEF Bad
  <2> QED  BY <2>1, LeastMember
<1>2. m \in 1 .. n /\ m - 1 \in 0 .. n /\ m - 1 \notin Bad
  BY <1>1
<1> QED  BY <1>1, <1>2

\* s goes through what a loop of n turns does to x.
Goes(s, X, x, n, F) ==
  /\ s \in [0 .. n -> X]
  /\ s[0] = x /\ \A i \in 1 .. n : s[i] = F[i][s[i - 1]]

\* Such an s exists: a recursive function that repeats F is well defined.
LEMMA Iterates ==
  ASSUME NEW X, NEW base \in X, NEW n \in Nat, NEW F,
         \A i \in 1 .. n : F[i] \in [X -> X]
  PROVE  \E s : Goes(s, X, base, n, F)
<1> DEFINE Right(k, s) == s[0] = base /\ \A i \in 1 .. k : s[i] = F[i][s[i - 1]]
           Some(k) == \E s \in [0 .. k -> X] : Right(k, s)
           G == {k \in 0 .. n : Some(k)}
<1>1. Some(0)
  <2> DEFINE s == [i \in 0 .. 0 |-> base]
  <2>1. s \in [0 .. 0 -> X] /\ Right(0, s)
    OBVIOUS
  <2> QED  BY <2>1
<1>2. ASSUME NEW m \in 1 .. n, Some(m - 1)  PROVE Some(m)
  <2>1. PICK s \in [0 .. m - 1 -> X] : Right(m - 1, s)
    BY <1>2
  <2> DEFINE t == [i \in 0 .. m |-> IF i = m THEN F[m][s[m - 1]] ELSE s[i]]
  <2>2. t \in [0 .. m -> X]
    OBVIOUS
  <2>3. ASSUME NEW i \in 1 .. m  PROVE t[i] = F[i][t[i - 1]]
    <3>1. i - 1 \in 0 .. m /\ i - 1 # m /\ t[i - 1] = s[i - 1]
      OBVIOUS
    <3>2. CASE i = m
      BY <3>1, <3>2
    <3>3. CASE i # m
      <4>1. i \in 1 .. m - 1 /\ t[i] = s[i]
        BY <3>3
      <4> QED  BY <2>1, <3>1, <4>1
    <3> QED  BY <3>2, <3>3
  <2>4. t[0] = base
    BY <2>1
  <2>5. Right(m, t)
    BY <2>3, <2>4
  <2> QED  BY <2>2, <2>5
<1> HIDE DEF Some
<1>3. 0 .. n \subseteq G
  <2>1. 0 \in G /\ \A m \in 1 .. n : m - 1 \in G => m \in G
    BY <1>1, <1>2
  <2> HIDE DEF G
  <2> QED  BY <2>1, FromZero
<1>4. Some(n)
  BY <1>3
<1> QED  BY <1>4 DEF Some, Goes

-----------------------------------------------------------------------------
(* Lists                                                                   *)

\* Taking entries out of a list of events leaves the others.
LEMMA ThoseAre ==
  ASSUME NEW X, NEW list \in Seq(X), NEW S
  PROVE  Those(list, S) \in Seq(X) /\ ToSet(Those(list, S)) = ToSet(list) \cap S
<1> DEFINE n == Len(list)
           F == [i \in 1 .. n |-> [x \in Seq(X) |->
                   IF list[i] \in S THEN Append(x, list[i]) ELSE x]]
           Kept(s) == s = [i \in 0 .. n |->
                             IF i = 0 THEN <<>>
                             ELSE IF list[i] \in S THEN Append(s[i - 1], list[i])
                             ELSE s[i - 1]]
           kept == CHOOSE s : Kept(s)
<1>1. n \in Nat /\ \A i \in 1 .. n : list[i] \in X
  BY LenProperties, ElementOfSeq
<1>2. \E s \in [0 .. n -> Seq(X)] : Kept(s)
  <2>1. \A i \in 1 .. n : \A x \in Seq(X) :
          F[i][x] = IF list[i] \in S THEN Append(x, list[i]) ELSE x
    OBVIOUS
  <2>2. \A i \in 1 .. n : F[i] \in [Seq(X) -> Seq(X)]
    BY <1>1, AppendProperties
  <2>3. PICK s : Goes(s, Seq(X), <<>>, n, F)
    <3> HIDE DEF F
    <3> QED  BY <1>1, <2>2, EmptySeq, Iterates
  <2> HIDE DEF F
  <2>4. ASSUME NEW i \in 0 .. n
        PROVE  s[i] = IF i = 0 THEN <<>>
                      ELSE IF list[i] \in S THEN Append(s[i - 1], list[i]) ELSE s[i - 1]
    <3>1. i = 0 \/ (i \in 1 .. n /\ i - 1 \in 0 .. n)
      OBVIOUS
    <3> QED  BY <2>1, <2>3, <3>1 DEF Goes
  <2> QED  BY <2>3, <2>4 DEF Goes
<1>3. Kept(kept) /\ Those(list, S) = kept[n]
  BY <1>2 DEF Those
<1> HIDE DEF kept
<1> DEFINE Good(k) == kept[k] \in Seq(X) /\ ToSet(kept[k]) = {list[i] : i \in 1 .. k} \cap S
           G == {k \in 0 .. n : Good(k)}
<1>4. Good(0)
  <2>1. kept[0] = <<>> /\ <<>> \in Seq(X)
    BY <1>1, <1>3, EmptySeq
  <2>2. ToSet(<<>>) = {} /\ {list[i] : i \in 1 .. 0} = {}
    BY DEF ToSet
  <2> QED  BY <2>1, <2>2
<1>5. ASSUME NEW m \in 1 .. n, Good(m - 1)  PROVE Good(m)
  <2>1. kept[m] = IF list[m] \in S THEN Append(kept[m - 1], list[m]) ELSE kept[m - 1]
    <3>1. m \in 0 .. n /\ m # 0
      BY <1>1
    <3> HIDE DEF n
    <3> QED  BY <1>3, <3>1
  <2>2. {list[i] : i \in 1 .. m} = {list[i] : i \in 1 .. m - 1} \cup {list[m]}
    OBVIOUS
  <2>3. CASE list[m] \notin S
    BY <1>5, <2>1, <2>2, <2>3
  <2>4. CASE list[m] \in S
    <3> DEFINE a == kept[m - 1]  b == Append(a, list[m])
    <3>1. a \in Seq(X) /\ list[m] \in X
      BY <1>1, <1>5
    <3>2. /\ b \in Seq(X) /\ Len(b) = Len(a) + 1 /\ Len(a) \in Nat
          /\ \A i \in 1 .. Len(a) : b[i] = a[i]
          /\ b[Len(a) + 1] = list[m]
      BY <3>1, AppendProperties, LenProperties
    <3>3. ToSet(b) = ToSet(a) \cup {list[m]}
      <4>1. DOMAIN b = 1 .. Len(a) + 1 /\ DOMAIN a = 1 .. Len(a)
        BY <3>1, <3>2, LenProperties
      <4> HIDE DEF a, b
      <4> QED  BY <3>2, <4>1 DEF ToSet
    <3> QED  BY <1>5, <2>1, <2>2, <2>4, <3>2, <3>3
  <2> QED  BY <2>3, <2>4
<1> HIDE DEF Good
<1>6. 0 .. n \subseteq G
  <2>1. n \in Nat /\ 0 \in G /\ \A m \in 1 .. n : m - 1 \in G => m \in G
    BY <1>1, <1>4, <1>5
  <2> HIDE DEF G, n
  <2> QED  BY <2>1, FromZero
<1>7. Good(n)
  BY <1>1, <1>6
<1>8. ToSet(list) = {list[i] : i \in 1 .. n}
  BY LenProperties DEF ToSet
<1> QED  BY <1>3, <1>7, <1>8 DEF Good

-----------------------------------------------------------------------------
(* The bytes of a queue                                                    *)

\* The items of a queue whose bytes are members of S.
ItemOf(S) == [kind : {"data"}, bytes : Seq(S) \ {<<>>}]
             \cup [kind : {"thread"}, bytes : {<<>>}, thread : Thread]

\* Only data items have bytes, and only thread items have a thread.
LEMMA ItemFacts ==
  ASSUME NEW S, NEW x \in ItemOf(S)
  PROVE  /\ x.bytes \in Seq(S)
         /\ x.kind = "data" <=> x.bytes # <<>>
         /\ x.kind # "data" => x.kind = "thread" /\ x.thread \in Thread /\ x = ThreadItem(x.thread)
  BY EmptySeq DEF ItemOf, ThreadItem

\* DataItem and ThreadItem make items.
LEMMA ItemMade ==
  ASSUME NEW S
  PROVE  /\ \A t \in Thread : /\ ThreadItem(t) \in ItemOf(S) /\ ThreadItem(t).kind = "thread"
                              /\ ThreadItem(t).bytes = <<>> /\ ThreadItem(t).thread = t
         /\ \A b \in Seq(S) \ {<<>>} : /\ DataItem(b) \in ItemOf(S) /\ DataItem(b).bytes = b
                                       /\ DataItem(b).kind = "data"
  BY DEF ItemOf, ThreadItem, DataItem

\* Items of few bytes are items of more.
LEMMA ItemsMore ==
  ASSUME NEW S, NEW T, S \subseteq T
  PROVE  ItemOf(S) \subseteq ItemOf(T)
<1>1. \A b \in Seq(S) : b \in Seq(T)
  BY SeqMonotonic
<1> QED  BY <1>1 DEF ItemOf

\* Pieces are put together in any order.
\* S is a set of whatever.
Associates(S) == \A x, y, z \in Seq(S) : (x \o y) \o z = x \o (y \o z)

LEMMA Associative == \A S : Associates(S)
  BY ConcatAssociative DEF Associates

\* The recursion of BytesUpTo, which goes through the queue as handle_std_write_event
\* does.
LEMMA BytesUpToAre ==
  ASSUME NEW S, NEW q \in Seq(ItemOf(S))
  PROVE  /\ BytesUpTo(q) \in [0 .. Len(q) -> Seq(S)]
         /\ BytesUpTo(q)[0] = <<>>
         /\ \A k \in 1 .. Len(q) : BytesUpTo(q)[k] = BytesUpTo(q)[k - 1] \o q[k].bytes
<1> DEFINE n == Len(q)
           F == [k \in 1 .. n |-> [b \in Seq(S) |-> b \o q[k].bytes]]
           Are(s) == s = [k \in 0 .. n |-> IF k = 0 THEN <<>> ELSE s[k - 1] \o q[k].bytes]
<1>1. n \in Nat /\ \A k \in 1 .. n : q[k].bytes \in Seq(S)
  BY LenProperties, ElementOfSeq, ItemFacts
<1>2. \A k \in 1 .. n : \A b \in Seq(S) : F[k][b] = b \o q[k].bytes
  OBVIOUS
<1>3. \A k \in 1 .. n : F[k] \in [Seq(S) -> Seq(S)]
  BY <1>1, ConcatProperties
<1>4. PICK s : Goes(s, Seq(S), <<>>, n, F)
  <2> HIDE DEF F
  <2> QED  BY <1>1, <1>3, EmptySeq, Iterates
<1> HIDE DEF F
<1>5. ASSUME NEW k \in 0 .. n  PROVE s[k] = IF k = 0 THEN <<>> ELSE s[k - 1] \o q[k].bytes
  <2>1. k = 0 \/ (k \in 1 .. n /\ k - 1 \in 0 .. n)
    OBVIOUS
  <2> QED  BY <1>2, <1>4, <2>1 DEF Goes
<1>6. Are(s)
  BY <1>4, <1>5 DEF Goes
<1>7. Are(BytesUpTo(q))
  BY <1>6 DEF BytesUpTo
<1> DEFINE B == BytesUpTo(q)
           G == {k \in 0 .. n : B[k] \in Seq(S)}
<1> HIDE DEF B
<1>8. B[0] = <<>> /\ \A k \in 1 .. n : B[k] = B[k - 1] \o q[k].bytes
  <2> HIDE DEF n
  <2> QED  BY <1>1, <1>7 DEF B
<1>9. 0 .. n \subseteq G
  <2>1. n \in Nat /\ <<>> \in Seq(S)
    BY <1>1, EmptySeq
  <2> HIDE DEF n
  <2>2. 0 \in G
    <3>1. 0 \in 0 .. n /\ B[0] = <<>>
      BY <1>8, <2>1
    <3>2. B[0] \in Seq(S)
      BY <2>1, <3>1
    <3> QED  BY <3>1, <3>2
  <2>3. ASSUME NEW k \in 1 .. n, k - 1 \in G  PROVE k \in G
    <3>1. B[k - 1] \in Seq(S) /\ q[k].bytes \in Seq(S) /\ B[k] = B[k - 1] \o q[k].bytes
      BY <1>1, <1>8, <2>3
    <3>2. B[k] \in Seq(S)
      BY <3>1, ConcatProperties
    <3> QED  BY <3>2
  <2> HIDE DEF G
  <2> QED  BY <2>1, <2>2, <2>3, FromZero
<1>10. B \in [0 .. n -> Seq(S)]
  BY <1>7, <1>9 DEF B
<1> QED  BY <1>8, <1>10 DEF B

\* Two queues have the same items behind the a-th, up to the n-th, r being d items shorter.
SameItems(q, r, d, a, n) ==
  /\ d <= a /\ a <= n /\ n <= Len(q) /\ n - d <= Len(r)
  /\ \A k \in a + 1 .. n : r[k - d] = q[k]

\* W takes the place of what r has lost.
Shifted(q, r, W, d, k) == BytesUpTo(q)[k] = W \o BytesUpTo(r)[k - d]

\* Then their bytes differ by W all the way.
LEMMA BytesShift ==
  ASSUME NEW S, NEW q \in Seq(ItemOf(S)), NEW r \in Seq(ItemOf(S)), NEW W \in Seq(S),
         NEW d \in Nat, NEW a \in Nat, NEW n \in Nat,
         SameItems(q, r, d, a, n), Shifted(q, r, W, d, a)
  PROVE  \A k \in a .. n : Shifted(q, r, W, d, k)
<1>0. /\ d <= a /\ a <= n /\ n <= Len(q) /\ n - d <= Len(r)
      /\ \A k \in a + 1 .. n : r[k - d] = q[k]
      /\ BytesUpTo(q)[a] = W \o BytesUpTo(r)[a - d]
  BY DEF SameItems, Shifted
<1> DEFINE A == BytesUpTo(q)  B == BytesUpTo(r)
           G == {i \in 0 .. n - a : A[a + i] = W \o B[a + i - d]}
<1>1. Len(q) \in Nat /\ Len(r) \in Nat /\ n - a \in Nat
  BY <1>0, LenProperties
<1>2. /\ A \in [0 .. Len(q) -> Seq(S)]
      /\ \A k \in 1 .. Len(q) : A[k] = A[k - 1] \o q[k].bytes
      /\ B \in [0 .. Len(r) -> Seq(S)]
      /\ \A k \in 1 .. Len(r) : B[k] = B[k - 1] \o r[k].bytes
  BY BytesUpToAre
<1> HIDE DEF A, B
<1>3. 0 \in G
  <2>1. a + 0 = a /\ a + 0 - d = a - d
    OBVIOUS
  <2> QED  BY <1>0, <1>1, <2>1 DEF A, B
<1>4. ASSUME NEW i \in 1 .. n - a, i - 1 \in G  PROVE i \in G
  <2> DEFINE k == a + i
  <2>1. /\ k \in a + 1 .. n /\ k \in 1 .. Len(q) /\ k - d \in 1 .. Len(r)
        /\ k - 1 = a + (i - 1) /\ a + (i - 1) - d = (k - d) - 1 /\ i \in 0 .. n - a
        /\ (k - d) - 1 \in 0 .. Len(r)
    <3>1. i \in Nat /\ 1 <= i /\ i <= n - a
      BY <1>1
    <3>2. k \in Nat /\ k - d \in Nat /\ a + 1 <= k /\ k <= n /\ 1 <= k - d
          /\ k - d <= n - d
      BY <1>0, <3>1
    <3>3. k - d <= Len(r) /\ k <= Len(q)
      BY <1>0, <1>1, <3>2
    <3> QED  BY <1>1, <3>1, <3>2, <3>3
  <2> HIDE DEF k
  <2>2. A[k - 1] = W \o B[(k - d) - 1]
    BY <1>4, <2>1
  <2>3. q[k].bytes = r[k - d].bytes /\ q[k].bytes \in Seq(S)
    BY <1>0, <2>1, ElementOfSeq, ItemFacts
  <2>4. A[k] = (W \o B[(k - d) - 1]) \o q[k].bytes
    BY <1>2, <2>1, <2>2
  <2>5. B[(k - d) - 1] \in Seq(S)
    BY <1>2, <2>1
  <2>6. A[k] = W \o (B[(k - d) - 1] \o q[k].bytes)
    <3> DEFINE b == B[(k - d) - 1]  c == q[k].bytes
    <3>1. b \in Seq(S) /\ c \in Seq(S) /\ A[k] = (W \o b) \o c
      BY <2>3, <2>4, <2>5
    <3> HIDE DEF b, c, G
    <3>2. (W \o b) \o c = W \o (b \o c)
      <4>1. Associates(S)
        BY Associative, Zenon
      <4> QED  BY <3>1, <4>1, ZenonT(30) DEF Associates
    <3> QED  BY <3>1, <3>2 DEF b, c
  <2>7. A[k] = W \o B[k - d]
    BY <1>2, <2>1, <2>3, <2>6
  <2> QED  BY <2>1, <2>7 DEF k
<1>5. 0 .. n - a \subseteq G
  <2> HIDE DEF G
  <2> QED  BY <1>1, <1>3, <1>4, FromZero
<1>6. ASSUME NEW k \in a .. n  PROVE A[k] = W \o B[k - d]
  <2>1. k - a \in 0 .. n - a /\ a + (k - a) = k
    BY <1>0
  <2>2. k - a \in G
    BY <1>5, <2>1
  <2>3. A[a + (k - a)] = W \o B[a + (k - a) - d]
    BY <2>2
  <2> QED  BY <2>1, <2>3
<1> QED  BY <1>6 DEF A, B, Shifted

\* Queues that begin alike have the same first bytes.
LEMMA BytesPrefix ==
  ASSUME NEW S, NEW q \in Seq(ItemOf(S)), NEW r \in Seq(ItemOf(S)),
         NEW n \in Nat, n <= Len(q), n <= Len(r), \A k \in 1 .. n : r[k] = q[k]
  PROVE  \A k \in 0 .. n : BytesUpTo(r)[k] = BytesUpTo(q)[k]
<1> DEFINE A == BytesUpTo(q)  B == BytesUpTo(r)
           G == {k \in 0 .. n : B[k] = A[k]}
<1>1. Len(q) \in Nat /\ Len(r) \in Nat
  BY LenProperties
<1>2. /\ A[0] = <<>> /\ \A k \in 1 .. Len(q) : A[k] = A[k - 1] \o q[k].bytes
      /\ B[0] = <<>> /\ \A k \in 1 .. Len(r) : B[k] = B[k - 1] \o r[k].bytes
  BY BytesUpToAre
<1> HIDE DEF A, B
<1>3. ASSUME NEW k \in 1 .. n, k - 1 \in G  PROVE k \in G
  <2>1. k \in 1 .. Len(q) /\ k \in 1 .. Len(r) /\ B[k - 1] = A[k - 1] /\ r[k] = q[k]
    BY <1>1, <1>3
  <2>2. A[k] = A[k - 1] \o q[k].bytes /\ B[k] = B[k - 1] \o r[k].bytes
    BY <1>2, <2>1
  <2>3. B[k] = A[k]
    BY <2>1, <2>2
  <2> QED  BY <2>3
<1>4. 0 .. n \subseteq G
  <2>1. 0 \in G
    BY <1>2
  <2> HIDE DEF G
  <2> QED  BY <1>3, <2>1, FromZero
<1> QED  BY <1>4 DEF A, B

\* The bytes of a queue are a sequence of bytes.
LEMMA AllBytesIs ==
  ASSUME NEW S, NEW q \in Seq(ItemOf(S))
  PROVE  AllBytes(q) \in Seq(S) /\ AllBytes(<<>>) = <<>>
<1>1. Len(q) \in Nat /\ <<>> \in Seq(ItemOf(S)) /\ Len(<<>>) = 0
  BY LenProperties, EmptySeq
<1>2. BytesUpTo(<<>>)[0] = <<>>
  <2> DEFINE none == <<>>
  <2>1. none \in Seq(ItemOf(S))
    BY <1>1
  <2> HIDE DEF none
  <2>2. BytesUpTo(none)[0] = <<>>
    BY <2>1, BytesUpToAre
  <2> QED  BY <2>2 DEF none
<1>3. BytesUpTo(q)[Len(q)] \in Seq(S)
  <2>1. Len(q) \in 0 .. Len(q)
    BY <1>1
  <2>2. BytesUpTo(q) \in [0 .. Len(q) -> Seq(S)]
    BY BytesUpToAre, Zenon
  <2> QED  BY <2>1, <2>2
<1>4. AllBytes(<<>>) = <<>>
  BY <1>1, <1>2 DEF AllBytes
<1> QED  BY <1>3, <1>4 DEF AllBytes

\* An item at the end adds its bytes.
LEMMA AllBytesAppend ==
  ASSUME NEW S, NEW q \in Seq(ItemOf(S)), NEW x \in ItemOf(S)
  PROVE  /\ AllBytes(Append(q, x)) = AllBytes(q) \o x.bytes
         /\ \A k \in 0 .. Len(q) : BytesUpTo(Append(q, x))[k] = BytesUpTo(q)[k]
<1> DEFINE r == Append(q, x)  n == Len(q)
<1>1. /\ r \in Seq(ItemOf(S)) /\ Len(r) = n + 1 /\ n \in Nat
      /\ \A k \in 1 .. n : r[k] = q[k]
      /\ r[n + 1] = x
  BY AppendProperties, LenProperties
<1> HIDE DEF r
<1>2. \A k \in 0 .. n : BytesUpTo(r)[k] = BytesUpTo(q)[k]
  BY <1>1, BytesPrefix
<1>3. BytesUpTo(r)[n + 1] = BytesUpTo(r)[n] \o r[n + 1].bytes
  <2>1. PICK m \in 1 .. Len(r) : m = n + 1 /\ m - 1 = n
    BY <1>1
  <2>2. \A k \in 1 .. Len(r) : BytesUpTo(r)[k] = BytesUpTo(r)[k - 1] \o r[k].bytes
    BY <1>1, BytesUpToAre, Zenon
  <2>3. ASSUME NEW k \in 1 .. Len(r)
        PROVE  BytesUpTo(r)[k] = BytesUpTo(r)[k - 1] \o r[k].bytes
    BY <2>2
  <2>4. BytesUpTo(r)[m] = BytesUpTo(r)[m - 1] \o r[m].bytes
    BY <2>3
  <2> QED  BY <2>1, <2>4
<1>4. n \in 0 .. n
  BY <1>1
<1>5. BytesUpTo(r)[n + 1] = BytesUpTo(q)[n] \o x.bytes
  BY <1>1, <1>2, <1>3, <1>4
<1>6. AllBytes(r) = BytesUpTo(r)[n + 1] /\ AllBytes(q) = BytesUpTo(q)[n]
  BY <1>1 DEF AllBytes
<1> QED  BY <1>2, <1>5, <1>6 DEF r

-----------------------------------------------------------------------------
(* Sequences that are put together, and the order of the bytes in them.    *)

\* The members of two sequences put together, and their places.
LEMMA ConcatAre ==
  ASSUME NEW S, NEW a \in Seq(S), NEW b \in Seq(S)
  PROVE  /\ a \o b \in Seq(S) /\ Len(a \o b) = Len(a) + Len(b)
         /\ \A i \in 1 .. Len(a) : (a \o b)[i] = a[i]
         /\ \A i \in 1 .. Len(b) : (a \o b)[Len(a) + i] = b[i]
         /\ ToSet(a \o b) = ToSet(a) \cup ToSet(b)
<1> DEFINE w == a \o b
<1>1. /\ w \in Seq(S) /\ Len(w) = Len(a) + Len(b) /\ Len(a) \in Nat /\ Len(b) \in Nat
      /\ \A i \in 1 .. Len(a) + Len(b) : w[i] = IF i <= Len(a) THEN a[i] ELSE b[i - Len(a)]
  BY ConcatProperties, LenProperties
<1> HIDE DEF w
<1>2. \A i \in 1 .. Len(a) : w[i] = a[i]
  BY <1>1
<1>3. \A i \in 1 .. Len(b) : w[Len(a) + i] = b[i]
  <2>1. ASSUME NEW i \in 1 .. Len(b)  PROVE w[Len(a) + i] = b[i]
    <3>1. /\ Len(a) + i \in 1 .. Len(a) + Len(b) /\ ~(Len(a) + i <= Len(a))
          /\ (Len(a) + i) - Len(a) = i
      BY <1>1
    <3> QED  BY <1>1, <3>1
  <2> QED  BY <2>1
<1>4. ToSet(w) = ToSet(a) \cup ToSet(b)
  <2>1. /\ DOMAIN w = 1 .. Len(a) + Len(b) /\ DOMAIN a = 1 .. Len(a)
        /\ DOMAIN b = 1 .. Len(b)
    BY <1>1, LenProperties
  <2>2. \A i \in 1 .. Len(a) + Len(b) :
          i \in 1 .. Len(a) \/ \E j \in 1 .. Len(b) : i = Len(a) + j
    <3>1. ASSUME NEW i \in 1 .. Len(a) + Len(b), i \notin 1 .. Len(a)
          PROVE  \E j \in 1 .. Len(b) : i = Len(a) + j
      <4>1. i - Len(a) \in 1 .. Len(b) /\ i = Len(a) + (i - Len(a))
        BY <1>1, <3>1
      <4> QED  BY <4>1
    <3> QED  BY <3>1
  <2>3. ASSUME NEW x \in ToSet(w)  PROVE x \in ToSet(a) \cup ToSet(b)
    <3>1. PICK i \in 1 .. Len(a) + Len(b) : x = w[i]
      BY <2>1 DEF ToSet
    <3>2. CASE i \in 1 .. Len(a)
      BY <1>2, <2>1, <3>1, <3>2 DEF ToSet
    <3>3. CASE i \notin 1 .. Len(a)
      <4>1. PICK j \in 1 .. Len(b) : i = Len(a) + j
        BY <2>2, <3>3
      <4>2. x = b[j]
        BY <1>3, <3>1, <4>1
      <4> QED  BY <2>1, <4>2 DEF ToSet
    <3> QED  BY <3>2, <3>3
  <2>4. ASSUME NEW x \in ToSet(a)  PROVE x \in ToSet(w)
    BY <1>1, <1>2, <2>1 DEF ToSet
  <2>5. ASSUME NEW x \in ToSet(b)  PROVE x \in ToSet(w)
    <3>1. PICK j \in 1 .. Len(b) : x = b[j]
      BY <2>1 DEF ToSet
    <3>2. Len(a) + j \in 1 .. Len(a) + Len(b)
      BY <1>1
    <3> QED  BY <1>3, <2>1, <3>1, <3>2 DEF ToSet
  <2> QED  BY <2>3, <2>4, <2>5
<1> QED  BY <1>1, <1>2, <1>3, <1>4 DEF w

\* A sequence that is cut in two.
LEMMA SplitAt ==
  ASSUME NEW S, NEW s \in Seq(S), NEW n \in 0 .. Len(s)
  PROVE  /\ SubSeq(s, 1, n) \in Seq(S) /\ Len(SubSeq(s, 1, n)) = n
         /\ \A i \in 1 .. n : SubSeq(s, 1, n)[i] = s[i]
         /\ Rest(s, n) \in Seq(S) /\ Len(Rest(s, n)) = Len(s) - n
         /\ \A i \in 1 .. Len(s) - n : Rest(s, n)[i] = s[n + i]
         /\ SubSeq(s, 1, n) \o Rest(s, n) = s
         /\ Rest(s, n) = <<>> <=> n = Len(s)
         /\ n = 0 => SubSeq(s, 1, n) = <<>> /\ Rest(s, n) = s
<1> DEFINE x == SubSeq(s, 1, n)  y == Rest(s, n)  N == Len(s)
<1>1. N \in Nat /\ n \in Nat /\ n <= N /\ \A i \in 1 .. N : s[i] \in S
  BY LenProperties, ElementOfSeq
<1>2. x \in Seq(S) /\ Len(x) = n /\ \A i \in 1 .. n : x[i] = s[i]
  <2>1. \A i \in 1 .. n : s[i] \in S
    BY <1>1
  <2>2. CASE n = 0
    <3>1. x = <<>>
      BY <2>2, SubSeqProperties
    <3> QED  BY <2>2, <3>1, EmptySeq
  <2>3. CASE n # 0
    <3>1. 1 \in 1 .. n + 1 /\ n \in 1 - 1 .. N
      BY <1>1, <2>3
    <3> QED  BY <1>1, <2>1, SubSeqProperties
  <2> QED  BY <2>2, <2>3
<1>3. y \in Seq(S) /\ Len(y) = N - n /\ \A i \in 1 .. N - n : y[i] = s[n + i]
  <2>1. y = SubSeq(s, n + 1, N)
    BY DEF Rest
  <2>2. \A i \in n + 1 .. N : s[i] \in S
    BY <1>1
  <2> QED  BY <1>1, <2>1, <2>2, SubSeqProperties
<1>4. x \o y = s
  <2>1. 1 \in 1 .. N + 1 /\ n \in 1 - 1 .. N /\ N \in n .. N
    BY <1>1
  <2> QED  BY <2>1, ConcatAdjacentSubSeq, SubSeqFull DEF Rest
<1>5. y = <<>> <=> n = N
  BY <1>1, <1>3, EmptySeq
<1>6. ASSUME n = 0  PROVE x = <<>> /\ y = s
  <2>1. x = <<>>
    BY <1>2, <1>6, EmptySeq
  <2> QED  BY <1>3, <1>4, <2>1, ConcatEmptySeq
<1> QED  BY <1>2, <1>3, <1>4, <1>5, <1>6

\* There is nothing in an empty sequence.
LEMMA NoBytes == ASSUME NEW x, x = <<>>  PROVE ToSet(x) = {} /\ Len(x) = 0
<1>1. Len(<<>>) = 0 /\ DOMAIN <<>> = 1 .. 0
  BY EmptySeq, LenProperties
<1> QED  BY <1>1 DEF ToSet

\* The bytes of a port are in order, so many were written and some of them given up.
Ordered(s, n, gone) ==
  /\ gone \subseteq 1 .. n
  /\ \A i, j \in 1 .. Len(s) : i < j => s[i] < s[j]
  /\ ToSet(s) = (1 .. n) \ gone

\* The next bytes that a client writes come last.
LEMMA OrderedMore ==
  ASSUME NEW s \in Seq(Nat), NEW n \in Nat, NEW gone, Ordered(s, n, gone),
         NEW len \in Nat, NEW more \in Seq(Nat), Len(more) = len,
         \A i \in 1 .. len : more[i] = n + i
  PROVE  Ordered(s \o more, n + len, gone)
<1> DEFINE w == s \o more  L == Len(s)
<1>1. /\ L \in Nat /\ Len(w) = L + len /\ w \in Seq(Nat)
      /\ \A i \in 1 .. L : w[i] = s[i]
      /\ \A i \in 1 .. len : w[L + i] = more[i]
      /\ ToSet(w) = ToSet(s) \cup ToSet(more)
  <2>1. L \in Nat /\ Len(w) = L + Len(more) /\ w \in Seq(Nat)
    BY ConcatAre, LenProperties
  <2>2. \A i \in 1 .. Len(more) : w[L + i] = more[i]
    BY ConcatAre
  <2>3. \A i \in 1 .. L : w[i] = s[i]
    BY ConcatAre
  <2> QED  BY <2>1, <2>2, <2>3, ConcatAre
<1> HIDE DEF w
<1>2. DOMAIN more = 1 .. len /\ DOMAIN s = 1 .. L
  BY LenProperties
<1>3. ToSet(more) = n + 1 .. n + len
  <2>1. ASSUME NEW x \in n + 1 .. n + len  PROVE \E i \in 1 .. len : x = more[i]
    <3>1. x - n \in 1 .. len /\ x = n + (x - n)
      OBVIOUS
    <3> QED  BY <3>1
  <2>2. ToSet(more) = {more[i] : i \in 1 .. len}
    BY <1>2 DEF ToSet
  <2>3. ASSUME NEW i \in 1 .. len  PROVE more[i] \in n + 1 .. n + len
    OBVIOUS
  <2> QED  BY <2>1, <2>2, <2>3
<1>4. \A i \in 1 .. L : s[i] \in 1 .. n
  <2>1. \A i \in 1 .. L : s[i] \in ToSet(s)
    BY <1>2 DEF ToSet
  <2> QED  BY <2>1 DEF Ordered
<1>5. ASSUME NEW i \in 1 .. L + len, NEW j \in 1 .. L + len, i < j  PROVE w[i] < w[j]
  <2>1. CASE j <= L
    <3>1. i \in 1 .. L /\ j \in 1 .. L
      BY <1>1, <1>5, <2>1
    <3> QED  BY <1>1, <1>5, <3>1 DEF Ordered
  <2>2. CASE L < j
    <3>1. j - L \in 1 .. len /\ L + (j - L) = j
      BY <1>1, <2>2
    <3>2. w[j] = n + (j - L)
      <4>1. w[L + (j - L)] = more[j - L]
        BY <1>1, <3>1
      <4> QED  BY <3>1, <4>1
    <3>3. CASE i <= L
      <4>1. i \in 1 .. L
        BY <1>1, <3>3
      <4>2. w[i] \in 1 .. n
        BY <1>1, <1>4, <4>1
      <4> QED  BY <1>1, <3>1, <3>2, <4>2
    <3>4. CASE L < i
      <4>1. i - L \in 1 .. len /\ L + (i - L) = i
        BY <1>1, <3>4
      <4>2. w[L + (i - L)] = more[i - L]
        BY <1>1, <4>1
      <4> QED  BY <1>1, <1>5, <3>1, <3>2, <4>1, <4>2
    <3> QED  BY <1>1, <3>3, <3>4
  <2> QED  BY <1>1, <2>1, <2>2
<1>6. gone \subseteq 1 .. n + len
  BY DEF Ordered
<1>7. ToSet(w) = (1 .. n + len) \ gone
  BY <1>1, <1>3 DEF Ordered
<1> QED  BY <1>1, <1>5, <1>6, <1>7 DEF Ordered, w

\* Bytes that are given up leave the others in order.
LEMMA OrderedWithout ==
  ASSUME NEW a \in Seq(Nat), NEW b \in Seq(Nat), NEW c \in Seq(Nat), NEW n \in Nat,
         NEW gone, Ordered(a \o (b \o c), n, gone)
  PROVE  Ordered(a \o c, n, gone \cup ToSet(b))
<1> DEFINE u == b \o c  v == a \o c  w == a \o u
<1>1. /\ Len(a) \in Nat /\ Len(b) \in Nat /\ Len(c) \in Nat /\ u \in Seq(Nat)
      /\ DOMAIN a = 1 .. Len(a) /\ DOMAIN b = 1 .. Len(b) /\ DOMAIN c = 1 .. Len(c)
  BY LenProperties, ConcatProperties
<1>2. /\ Len(u) = Len(b) + Len(c) /\ ToSet(u) = ToSet(b) \cup ToSet(c)
      /\ \A i \in 1 .. Len(b) : u[i] = b[i]
      /\ \A i \in 1 .. Len(c) : u[Len(b) + i] = c[i]
  BY ConcatAre
<1>3. /\ Len(v) = Len(a) + Len(c) /\ ToSet(v) = ToSet(a) \cup ToSet(c) /\ v \in Seq(Nat)
      /\ \A i \in 1 .. Len(a) : v[i] = a[i]
      /\ \A i \in 1 .. Len(c) : v[Len(a) + i] = c[i]
  BY ConcatAre
<1>4. /\ Len(w) = Len(a) + Len(u) /\ ToSet(w) = ToSet(a) \cup ToSet(u)
      /\ \A i \in 1 .. Len(a) : w[i] = a[i]
      /\ \A i \in 1 .. Len(u) : w[Len(a) + i] = u[i]
  <2> HIDE DEF u
  <2> QED  BY <1>1, ConcatAre
<1>5. Ordered(w, n, gone)
  OBVIOUS
<1> HIDE DEF u, v, w
<1> DEFINE A == Len(a)  B == Len(b)  C == Len(c)
<1>6. \A i \in 1 .. B : w[A + i] = b[i]
  BY <1>1, <1>2, <1>4
<1>7. ASSUME NEW i \in 1 .. C  PROVE w[A + B + i] = c[i]
  <2>1. B + i \in 1 .. Len(u) /\ A + (B + i) = A + B + i
    BY <1>1, <1>2
  <2>2. w[A + (B + i)] = u[B + i] /\ u[B + i] = c[i]
    BY <1>2, <1>4, <2>1
  <2> QED  BY <2>1, <2>2
<1> DEFINE At(i) == IF i <= A THEN i ELSE i + B
<1>8. ASSUME NEW i \in 1 .. A + C  PROVE At(i) \in 1 .. A + B + C /\ v[i] = w[At(i)]
  <2>1. CASE i <= A
    BY <1>1, <1>3, <1>4, <2>1
  <2>2. CASE ~(i <= A)
    <3>1. i - A \in 1 .. C /\ A + (i - A) = i /\ A + B + (i - A) = i + B
          /\ i + B \in 1 .. A + B + C
      BY <1>1, <2>2
    <3>2. v[A + (i - A)] = c[i - A] /\ w[A + B + (i - A)] = c[i - A]
      BY <1>3, <1>7, <3>1
    <3> QED  BY <2>2, <3>1, <3>2
  <2> QED  BY <2>1, <2>2
<1>9. Len(w) = A + B + C /\ Len(v) = A + C
  BY <1>1, <1>2, <1>3, <1>4
<1>10. ASSUME NEW i \in 1 .. A + C, NEW j \in 1 .. A + C, i < j  PROVE v[i] < v[j]
  <2>1. At(i) < At(j)
    BY <1>1, <1>10
  <2>2. /\ At(i) \in 1 .. Len(w) /\ At(j) \in 1 .. Len(w)
        /\ v[i] = w[At(i)] /\ v[j] = w[At(j)]
    BY <1>8, <1>9
  <2> HIDE DEF At
  <2> QED  BY <1>5, <2>1, <2>2 DEF Ordered
<1>11. ASSUME NEW x \in ToSet(b)  PROVE x \notin ToSet(v) /\ x \in 1 .. n
  <2>1. PICK k \in 1 .. B : x = b[k]
    BY <1>1 DEF ToSet
  <2>2. A + k \in 1 .. Len(w) /\ w[A + k] = x
    <3>1. A + k \in 1 .. A + B + C
      BY <1>1
    <3> QED  BY <1>6, <1>9, <2>1, <3>1
  <2>3. x \in 1 .. n /\ x \in Nat
    BY <1>2, <1>4, <1>5 DEF Ordered
  <2>4. ASSUME NEW i \in 1 .. A + C, v[i] = x  PROVE FALSE
    <3>1. At(i) \in 1 .. Len(w) /\ w[At(i)] = x /\ At(i) # A + k
      BY <1>1, <1>8, <1>9, <2>4
    <3>2. At(i) < A + k \/ A + k < At(i)
      BY <1>1, <3>1
    <3> HIDE DEF At
    <3>3. w[At(i)] < w[A + k] \/ w[A + k] < w[At(i)]
      BY <1>5, <2>2, <3>1, <3>2 DEF Ordered
    <3> QED  BY <2>2, <2>3, <3>1, <3>3
  <2>5. DOMAIN v = 1 .. A + C
    BY <1>3, LenProperties
  <2> QED  BY <2>3, <2>4, <2>5 DEF ToSet
<1>12. gone \cup ToSet(b) \subseteq 1 .. n
  BY <1>5, <1>11 DEF Ordered
<1>13. ToSet(v) = (1 .. n) \ (gone \cup ToSet(b))
  BY <1>2, <1>3, <1>4, <1>5, <1>11 DEF Ordered
<1> QED  BY <1>9, <1>10, <1>12, <1>13 DEF Ordered, v

-----------------------------------------------------------------------------
(* Cursors: what a port is while a primitive works on it, and what stays true*)
(* of it when its buffer is flushed or filled.                             *)

\* The provers take sequences apart; with these they do not.
Cat(a, b) == a \o b
First(b, k) == SubSeq(b, 1, k)

\* What Cat makes.
LEMMA CatIs ==
  ASSUME NEW S, NEW a \in Seq(S), NEW b \in Seq(S)
  PROVE  /\ Cat(a, b) \in Seq(S) /\ Len(Cat(a, b)) = Len(a) + Len(b)
         /\ ToSet(Cat(a, b)) = ToSet(a) \cup ToSet(b)
         /\ ToSet(a) \subseteq ToSet(Cat(a, b))
<1>1. /\ Cat(a, b) \in Seq(S) /\ Len(Cat(a, b)) = Len(a) + Len(b)
      /\ ToSet(Cat(a, b)) = ToSet(a) \cup ToSet(b)
  BY ConcatAre DEF Cat
<1> QED  BY <1>1

\* Cat is associative.
LEMMA CatThree ==
  ASSUME NEW S, NEW a \in Seq(S), NEW b \in Seq(S), NEW c \in Seq(S)
  PROVE  Cat(Cat(a, b), c) = Cat(a, Cat(b, c))
  BY ConcatAssociative DEF Cat

\* Nothing in front or behind.
LEMMA CatNone ==
  ASSUME NEW S, NEW a \in Seq(S)
  PROVE  Cat(a, <<>>) = a /\ Cat(<<>>, a) = a
  BY ConcatEmptySeq DEF Cat

\* First and Rest are the two parts of a string.
LEMMA CatSplit ==
  ASSUME NEW S, NEW b \in Seq(S), NEW k \in 0 .. Len(b)
  PROVE  /\ First(b, k) \in Seq(S) /\ Len(First(b, k)) = k
         /\ Rest(b, k) \in Seq(S) /\ Len(Rest(b, k)) = Len(b) - k
         /\ Cat(First(b, k), Rest(b, k)) = b
         /\ Rest(b, k) = <<>> <=> k = Len(b)
  BY SplitAt DEF Cat, First

\* The bytes of a queue with one more item.
LEMMA CatAppend ==
  ASSUME NEW S, NEW q \in Seq(ItemOf(S)), NEW x \in ItemOf(S)
  PROVE  AllBytes(Append(q, x)) = Cat(AllBytes(q), x.bytes)
  BY AllBytesAppend DEF Cat

\* A block is at least twice as large as what is kept without an event.
LEMMA Threshold ==
  /\ BlockSize \in Nat /\ CREATE_EVENT_THRESHOLD \in Nat
  /\ 1 <= CREATE_EVENT_THRESHOLD /\ 2 * CREATE_EVENT_THRESHOLD <= BlockSize
  BY OutputAssumption DEF CREATE_EVENT_THRESHOLD

\* The numbers of the first n bytes that are written to a port.
Bytes(n) == 1 .. n

\* The cursors of ports whose bytes are at most n.
Cursors(n) ==
  [buf : {Closed} \cup Seq(Bytes(n)), lim : {BlockSize - 1, BlockSize},
   queue : Seq(ItemOf(Bytes(n))), event : BOOLEAN, room : 0 .. Room, count : 0 .. n,
   sent : Seq(Bytes(n)), woken : SUBSET Thread, failed : SUBSET Thread,
   discarded : SUBSET Bytes(n)]

\* Those of ports that are open.
OpenCursors(n) == {c \in Cursors(n) : c.buf \in Seq(Bytes(n))}

\* A queue that has got longer by data.
Longer(q, r) ==
  /\ Len(q) <= Len(r)
  /\ \A k \in 1 .. Len(q) : r[k] = q[k]
  /\ \A k \in Len(q) + 1 .. Len(r) : r[k].kind = "data"

\* There is something to write first when the event goes off.
Begins(q) == q # <<>> => q[1].kind = "data"

\* There is a write event when there is something to write.
Tidy(c) ==
  (c.event <=> c.queue # <<>>) /\ Begins(c.queue)

\* All the bytes of a port, from those that were sent to the last one written.
Line(c) == Cat(c.sent, Cat(AllBytes(c.queue), c.buf))

\* What no write or flush of a client changes, or takes back.
Kept(c, d) ==
  /\ d.discarded = c.discarded /\ d.woken = c.woken /\ d.failed = c.failed
  /\ Longer(c.queue, d.queue) /\ ToSet(c.sent) \subseteq ToSet(d.sent)

\* What was in the buffer goes on its way.
Passes(n, c, d) ==
  d \in OpenCursors(n) /\ Kept(c, d) /\ d.count = c.count
    /\ (Tidy(c) => Tidy(d) /\ Line(d) = Line(c))

\* Longer is reflexive ...
LEMMA LongerSame == ASSUME NEW S, NEW q \in Seq(S)  PROVE Longer(q, q)
<1>1. Len(q) \in Nat
  BY LenProperties
<1> QED  BY <1>1 DEF Longer

\* ... and transitive.
LEMMA LongerMore ==
  ASSUME NEW S, NEW q \in Seq(S), NEW r \in Seq(S), NEW s \in Seq(S),
         Longer(q, r), Longer(r, s)
  PROVE  Longer(q, s)
<1>1. Len(q) \in Nat /\ Len(r) \in Nat /\ Len(s) \in Nat
  BY LenProperties
<1>2. Len(q) <= Len(s) /\ \A k \in 1 .. Len(q) : s[k] = q[k]
  BY <1>1 DEF Longer
<1>3. ASSUME NEW k \in Len(q) + 1 .. Len(s)  PROVE s[k].kind = "data"
  <2>1. CASE k <= Len(r)
    <3>1. k \in 1 .. Len(r) /\ k \in Len(q) + 1 .. Len(r)
      BY <1>1, <2>1
    <3> QED  BY <3>1 DEF Longer
  <2>2. CASE ~(k <= Len(r))
    <3>1. k \in Len(r) + 1 .. Len(s)
      BY <1>1, <2>2
    <3> QED  BY <3>1 DEF Longer
  <2> QED  BY <2>1, <2>2
<1> QED  BY <1>2, <1>3 DEF Longer

\* A data item at the end makes a queue longer.
LEMMA LongerAppend ==
  ASSUME NEW S, NEW q \in Seq(S), NEW x \in S, x.kind = "data"
  PROVE  Longer(q, Append(q, x))
<1> DEFINE r == Append(q, x)
<1>1. Len(q) \in Nat /\ Len(r) = Len(q) + 1 /\ (\A k \in 1 .. Len(q) : r[k] = q[k])
      /\ r[Len(q) + 1] = x
  BY AppendProperties, LenProperties
<1> HIDE DEF r
<1>2. \A k \in Len(q) + 1 .. Len(r) : k = Len(q) + 1
  BY <1>1
<1> QED  BY <1>1, <1>2 DEF Longer, r

\* A data item is enqued.
Enq(q, b) == Append(q, DataItem(b))

\* enq_wr leaves what is pending in front, and adds the bytes behind it.
LEMMA Enqueued ==
  ASSUME NEW S, NEW q \in Seq(ItemOf(S)), NEW b \in Seq(S), b # <<>>
  PROVE  /\ Enq(q, b) \in Seq(ItemOf(S)) /\ Enq(q, b) # <<>> /\ Longer(q, Enq(q, b))
         /\ AllBytes(Enq(q, b)) = Cat(AllBytes(q), b)
         /\ Begins(q) => Begins(Enq(q, b))
<1> DEFINE r == Enq(q, b)
<1>1. DataItem(b) \in ItemOf(S) /\ DataItem(b).bytes = b /\ DataItem(b).kind = "data"
  BY ItemMade
<1>2. r \in Seq(ItemOf(S)) /\ r # <<>> /\ Longer(q, r)
  BY <1>1, AppendProperties, LongerAppend DEF Enq
<1>3. AllBytes(r) = Cat(AllBytes(q), b)
  BY <1>1, CatAppend DEF Enq
<1>4. ASSUME Begins(q)  PROVE Begins(r)
  <2>1. CASE q = <<>>
    <3>1. Len(q) = 0 /\ r[Len(q) + 1] = DataItem(b)
      BY <1>1, <2>1, AppendProperties, EmptySeq DEF Enq
    <3> QED  BY <1>1, <3>1 DEF Begins
  <2>2. CASE q # <<>>
    <3>1. 1 \in 1 .. Len(q)
      <4>1. Len(q) \in Nat /\ Len(q) # 0
        BY <2>2, LenProperties, EmptySeq
      <4> QED  BY <4>1
    <3>2. r[1] = q[1]
      BY <1>1, <3>1, AppendProperties DEF Enq
    <3> QED  BY <1>4, <2>2, <3>2 DEF Begins
  <2> QED  BY <2>1, <2>2
<1> QED  BY <1>2, <1>3, <1>4

\* The types of the fields of a cursor.
LEMMA CursorTypes ==
  ASSUME NEW n \in Nat, NEW c \in OpenCursors(n)
  PROVE  /\ c \in Cursors(n) /\ c.buf \in Seq(Bytes(n)) /\ c.queue \in Seq(ItemOf(Bytes(n)))
         /\ c.event \in BOOLEAN /\ c.room \in 0 .. Room /\ c.room \in Nat
         /\ c.count \in 0 .. n /\ c.sent \in Seq(Bytes(n)) /\ c.lim \in {BlockSize - 1, BlockSize}
         /\ AllBytes(c.queue) \in Seq(Bytes(n)) /\ Line(c) \in Seq(Bytes(n))
         /\ Len(c.buf) \in Nat
<1>1. c \in Cursors(n) /\ c.buf \in Seq(Bytes(n))
  BY DEF OpenCursors
<1>2. c.queue \in Seq(ItemOf(Bytes(n))) /\ c.sent \in Seq(Bytes(n))
  BY <1>1 DEF Cursors
<1>3. AllBytes(c.queue) \in Seq(Bytes(n))
  BY <1>2, AllBytesIs
<1>4. Line(c) \in Seq(Bytes(n))
  <2>1. Cat(AllBytes(c.queue), c.buf) \in Seq(Bytes(n))
    BY <1>1, <1>3, CatIs
  <2> QED  BY <1>2, <2>1, CatIs DEF Line
<1>5. c.room \in 0 .. Room /\ c.room \in Nat
  BY <1>1, OutputAssumption DEF Cursors
<1> QED  BY <1>1, <1>2, <1>3, <1>4, <1>5, LenProperties DEF Cursors

\* The descriptor takes no more than there is, and no more than it has room for.
LEMMA SomeTaken ==
  ASSUME NEW n \in Nat, NEW c \in OpenCursors(n), NEW b \in Seq(Bytes(n))
  PROVE  Taken(c, Len(b)) \in 0 .. Len(b) /\ Taken(c, Len(b)) <= c.room
<1>1. c.room \in Nat /\ Len(b) \in Nat
  BY CursorTypes, LenProperties
<1> QED  BY <1>1 DEF Taken

\* Some of b is written when nothing is pending.
LEMMA PartWritten ==
  ASSUME NEW S, NEW s \in Seq(S), NEW b \in Seq(S), NEW k \in 0 .. Len(b)
  PROVE  /\ Cat(s, First(b, k)) \in Seq(S) /\ ToSet(s) \subseteq ToSet(Cat(s, First(b, k)))
         /\ Cat(Cat(s, First(b, k)), Rest(b, k)) = Cat(s, b)
<1>1. First(b, k) \in Seq(S) /\ Rest(b, k) \in Seq(S) /\ Cat(First(b, k), Rest(b, k)) = b
  BY CatSplit
<1>2. Cat(Cat(s, First(b, k)), Rest(b, k)) = Cat(s, b)
  BY <1>1, CatThree
<1>3. Cat(s, First(b, k)) \in Seq(S) /\ ToSet(s) \subseteq ToSet(Cat(s, First(b, k)))
  BY <1>1, CatIs
<1> QED  BY <1>2, <1>3

\* write_to_flush, which is called when nothing is pending: what is not written stays
\* in the buffer when it is little, and becomes pending, with an event, otherwise.
LEMMA BufferWritten ==
  ASSUME NEW n \in Nat, NEW c \in OpenCursors(n), NEW must \in BOOLEAN, ~c.event,
         NEW d, d = write_to_flush(c, must)
  PROVE  /\ d \in OpenCursors(n) /\ Kept(c, d) /\ d.count = c.count
         /\ Len(d.buf) < CREATE_EVENT_THRESHOLD /\ (must => d.buf = <<>>)
         /\ c.queue = <<>> => Tidy(d) /\ Line(d) = Line(c)
<1> DEFINE k == Taken(c, Len(c.buf))
           some == Cat(c.sent, First(c.buf, k))
           left == Rest(c.buf, k)
           e == [c EXCEPT !.sent = some, !.room = @ - k]
           q == Enq(c.queue, left)
<1>1. /\ c.buf \in Seq(Bytes(n)) /\ c.sent \in Seq(Bytes(n)) /\ c.queue \in Seq(ItemOf(Bytes(n)))
      /\ c.room \in Nat /\ c.room <= Room /\ Len(c.buf) \in Nat /\ c \in Cursors(n)
      /\ k \in 0 .. Len(c.buf) /\ k <= c.room
  BY CursorTypes, SomeTaken, OutputAssumption
<1>2. /\ some \in Seq(Bytes(n)) /\ ToSet(c.sent) \subseteq ToSet(some)
      /\ Cat(some, left) = Cat(c.sent, c.buf)
      /\ left \in Seq(Bytes(n))
  <2> HIDE DEF k
  <2>1. Cat(some, left) = Cat(c.sent, c.buf)
    BY <1>1, PartWritten
  <2>2. some \in Seq(Bytes(n)) /\ ToSet(c.sent) \subseteq ToSet(some)
    BY <1>1, PartWritten
  <2>3. left \in Seq(Bytes(n))
    BY <1>1, CatSplit
  <2> QED  BY <2>1, <2>2, <2>3
<1>3. c.room - k \in 0 .. Room
  BY <1>1, OutputAssumption
<1> HIDE DEF k, some, left
<1>4. e \in Cursors(n)
  BY <1>1, <1>2, <1>3 DEF Cursors
<1>5. d = IF left = <<>> THEN [e EXCEPT !.buf = <<>>]
          ELSE IF Len(left) >= CREATE_EVENT_THRESHOLD \/ must
          THEN [[[e EXCEPT !.event = TRUE] EXCEPT !.queue = Enq(@, left)]
                  EXCEPT !.buf = <<>>, !.lim = BlockSize - 1]
          ELSE [e EXCEPT !.buf = left]
  BY DEF write_to_flush, AfterWrite, new_buffer, enq_wr, mk_event, Enq, k, some, left, Cat, First
<1>6. <<>> \in Seq(Bytes(n)) /\ Len(<<>>) = 0 /\ Len(left) \in Nat
  BY <1>2, EmptySeq, LenProperties
<1>7. AllBytes(<<>>) = <<>> /\ AllBytes(c.queue) \in Seq(Bytes(n))
  BY <1>1, AllBytesIs
<1>8. CASE left = <<>>
  <2>1. d = [c EXCEPT !.sent = some, !.room = @ - k, !.buf = <<>>]
    BY <1>5, <1>8
  <2>2. d \in OpenCursors(n)
    BY <1>1, <1>2, <1>3, <1>6, <2>1 DEF OpenCursors, Cursors
  <2>3. /\ d.buf = <<>> /\ d.sent = some /\ d.queue = c.queue /\ d.count = c.count
        /\ d.discarded = c.discarded /\ d.woken = c.woken /\ d.failed = c.failed
        /\ d.event = c.event
    BY <1>1, <2>1 DEF Cursors
  <2>4. Kept(c, d)
    BY <1>1, <1>2, <2>3, LongerSame DEF Kept
  <2>5. ASSUME c.queue = <<>>  PROVE Tidy(d) /\ Line(d) = Line(c)
    <3>1. Tidy(d)
      BY <2>3, <2>5 DEF Tidy, Begins
    <3>2. Cat(<<>>, c.buf) = c.buf /\ Cat(<<>>, <<>>) = <<>>
      BY <1>1, <1>6, CatNone
    <3>3. Line(c) = Cat(c.sent, c.buf) /\ Line(d) = Cat(some, <<>>)
      BY <1>7, <2>3, <2>5, <3>2 DEF Line
    <3> QED  BY <1>2, <1>8, <3>1, <3>3
  <2> QED  BY <1>6, <2>2, <2>3, <2>4, <2>5, Threshold
<1>9. CASE left # <<>> /\ (Len(left) >= CREATE_EVENT_THRESHOLD \/ must)
  <2>1. d = [c EXCEPT !.sent = some, !.room = @ - k, !.event = TRUE, !.queue = q,
                      !.buf = <<>>, !.lim = BlockSize - 1]
    BY <1>1, <1>5, <1>9 DEF Cursors
  <2>2. /\ q \in Seq(ItemOf(Bytes(n))) /\ q # <<>> /\ Longer(c.queue, q)
        /\ AllBytes(q) = Cat(AllBytes(c.queue), left)
        /\ c.queue = <<>> => Begins(q)
    <3>1. c.queue = <<>> => Begins(c.queue)
      BY DEF Begins
    <3> QED  BY <1>1, <1>2, <1>9, <3>1, Enqueued
  <2> HIDE DEF q
  <2>3. d \in OpenCursors(n)
    BY <1>1, <1>2, <1>3, <1>6, <2>1, <2>2 DEF OpenCursors, Cursors
  <2>4. /\ d.buf = <<>> /\ d.sent = some /\ d.queue = q /\ d.count = c.count
        /\ d.discarded = c.discarded /\ d.woken = c.woken /\ d.failed = c.failed
        /\ d.event = TRUE
    BY <1>1, <2>1 DEF Cursors
  <2>5. Kept(c, d)
    BY <1>1, <1>2, <2>2, <2>4 DEF Kept
  <2>6. ASSUME c.queue = <<>>  PROVE Tidy(d) /\ Line(d) = Line(c)
    <3>1. Tidy(d)
      BY <2>2, <2>4, <2>6 DEF Tidy
    <3>2. Cat(<<>>, c.buf) = c.buf /\ Cat(<<>>, left) = left /\ Cat(left, <<>>) = left
      BY <1>1, <1>2, CatNone
    <3>3. Line(c) = Cat(c.sent, c.buf) /\ Line(d) = Cat(some, left)
      BY <1>7, <2>2, <2>4, <2>6, <3>2 DEF Line
    <3> QED  BY <1>2, <3>1, <3>3
  <2> QED  BY <1>6, <2>3, <2>4, <2>5, <2>6, Threshold
<1>10. CASE left # <<>> /\ ~(Len(left) >= CREATE_EVENT_THRESHOLD \/ must)
  <2>1. d = [c EXCEPT !.sent = some, !.room = @ - k, !.buf = left]
    BY <1>5, <1>10
  <2>2. d \in OpenCursors(n)
    BY <1>1, <1>2, <1>3, <2>1 DEF OpenCursors, Cursors
  <2>3. /\ d.buf = left /\ d.sent = some /\ d.queue = c.queue /\ d.count = c.count
        /\ d.discarded = c.discarded /\ d.woken = c.woken /\ d.failed = c.failed
        /\ d.event = c.event
    BY <1>1, <2>1 DEF Cursors
  <2>4. Kept(c, d)
    BY <1>1, <1>2, <2>3, LongerSame DEF Kept
  <2>5. ASSUME c.queue = <<>>  PROVE Tidy(d) /\ Line(d) = Line(c)
    <3>1. Tidy(d)
      BY <2>3, <2>5 DEF Tidy, Begins
    <3>2. Cat(<<>>, c.buf) = c.buf /\ Cat(<<>>, left) = left
      BY <1>1, <1>2, CatNone
    <3>3. Line(c) = Cat(c.sent, c.buf) /\ Line(d) = Cat(some, left)
      BY <1>7, <2>3, <2>5, <3>2 DEF Line
    <3> QED  BY <1>2, <3>1, <3>3
  <2> QED  BY <1>6, <1>10, <2>2, <2>3, <2>4, <2>5, Threshold
<1> QED  BY <1>8, <1>9, <1>10

\* flush_buffer: no byte is lost, and little or nothing is left in the buffer.
LEMMA BufferFlushed ==
  ASSUME NEW n \in Nat, NEW c \in OpenCursors(n), NEW must \in BOOLEAN
  PROVE  /\ Passes(n, c, flush_buffer(c, must))
         /\ Len(flush_buffer(c, must).buf) < CREATE_EVENT_THRESHOLD
         /\ must => flush_buffer(c, must).buf = <<>>
<1> DEFINE d == flush_buffer(c, must)
<1>1. /\ c.buf \in Seq(Bytes(n)) /\ c.sent \in Seq(Bytes(n)) /\ c.queue \in Seq(ItemOf(Bytes(n)))
      /\ c \in Cursors(n) /\ c.event \in BOOLEAN /\ AllBytes(c.queue) \in Seq(Bytes(n))
  BY CursorTypes
<1>2. <<>> \in Seq(Bytes(n)) /\ Len(<<>>) = 0
  BY EmptySeq
<1>3. CASE c.buf = <<>>
  <2>1. d = c
    BY <1>3 DEF flush_buffer
  <2>2. Kept(c, c)
    BY <1>1, LongerSame DEF Kept
  <2> QED  BY <1>2, <1>3, <2>1, <2>2, Threshold DEF Passes
<1>4. CASE c.buf # <<>> /\ c.event
  <2> DEFINE q == Enq(c.queue, c.buf)
  <2>1. d = [c EXCEPT !.queue = q, !.buf = <<>>, !.lim = BlockSize - 1]
    BY <1>1, <1>4 DEF flush_buffer, new_buffer, enq_wr, Enq, Cursors
  <2>2. /\ q \in Seq(ItemOf(Bytes(n))) /\ q # <<>> /\ Longer(c.queue, q)
        /\ AllBytes(q) = Cat(AllBytes(c.queue), c.buf) /\ (Begins(c.queue) => Begins(q))
    BY <1>1, <1>4, Enqueued
  <2> HIDE DEF q
  <2>3. d \in OpenCursors(n)
    BY <1>1, <1>2, <2>1, <2>2 DEF OpenCursors, Cursors
  <2>4. /\ d.buf = <<>> /\ d.sent = c.sent /\ d.queue = q /\ d.count = c.count
        /\ d.discarded = c.discarded /\ d.woken = c.woken /\ d.failed = c.failed
        /\ d.event = c.event
    BY <1>1, <2>1 DEF Cursors
  <2>5. Kept(c, d)
    BY <1>1, <2>2, <2>4 DEF Kept
  <2>6. ASSUME Tidy(c)  PROVE Tidy(d) /\ Line(d) = Line(c)
    <3>1. Tidy(d)
      BY <1>4, <2>2, <2>4, <2>6 DEF Tidy
    <3>2. Cat(AllBytes(q), <<>>) = AllBytes(q)
      <4>1. AllBytes(q) \in Seq(Bytes(n))
        BY <2>2, AllBytesIs
      <4> QED  BY <4>1, CatNone
    <3> QED  BY <2>2, <2>4, <3>1, <3>2 DEF Line
  <2> QED  BY <1>2, <2>3, <2>4, <2>5, <2>6, Threshold DEF Passes
<1>5. CASE c.buf # <<>> /\ ~c.event
  <2>1. d = write_to_flush(c, must)
    BY <1>5 DEF flush_buffer
  <2> HIDE DEF d
  <2>2. /\ d \in OpenCursors(n) /\ Kept(c, d) /\ d.count = c.count
        /\ Len(d.buf) < CREATE_EVENT_THRESHOLD /\ (must => d.buf = <<>>)
        /\ c.queue = <<>> => Tidy(d) /\ Line(d) = Line(c)
    BY <1>5, <2>1, BufferWritten
  <2>3. Tidy(c) => c.queue = <<>>
    BY <1>5 DEF Tidy
  <2> QED  BY <2>2, <2>3 DEF Passes, d
<1> QED  BY <1>1, <1>3, <1>4, <1>5

\* Bytes that are written come last.
Adds(n, c, b, d) ==
  d \in OpenCursors(n) /\ Kept(c, d) /\ d.count = c.count
    /\ (Tidy(c) => Tidy(d) /\ Line(d) = Cat(Line(c), b))

\* Kept is transitive.
LEMMA KeptMore ==
  ASSUME NEW n \in Nat, NEW c \in OpenCursors(n), NEW d \in OpenCursors(n),
         NEW e \in OpenCursors(n), Kept(c, d), Kept(d, e)
  PROVE  Kept(c, e)
<1>1. /\ c.queue \in Seq(ItemOf(Bytes(n))) /\ d.queue \in Seq(ItemOf(Bytes(n)))
      /\ e.queue \in Seq(ItemOf(Bytes(n)))
  BY CursorTypes
<1>2. Longer(c.queue, e.queue)
  BY <1>1, LongerMore DEF Kept
<1> QED  BY <1>2 DEF Kept

\* b goes behind what is in the buffer.
Filled(c, b) == [c EXCEPT !.buf = @ \o b]

\* A string that is copied into the buffer comes last.
LEMMA BufferFilled ==
  ASSUME NEW n \in Nat, NEW c \in OpenCursors(n), NEW b \in Seq(Bytes(n))
  PROVE  /\ Adds(n, c, b, Filled(c, b)) /\ Filled(c, b).lim = c.lim
         /\ Len(Filled(c, b).buf) = Len(c.buf) + Len(b)
<1> DEFINE d == Filled(c, b)
<1>1. /\ c.buf \in Seq(Bytes(n)) /\ c.sent \in Seq(Bytes(n)) /\ c.queue \in Seq(ItemOf(Bytes(n)))
      /\ c \in Cursors(n) /\ AllBytes(c.queue) \in Seq(Bytes(n))
  BY CursorTypes
<1> DEFINE both == Cat(c.buf, b)
<1>2. both \in Seq(Bytes(n)) /\ Len(both) = Len(c.buf) + Len(b)
  BY <1>1, CatIs
<1>3. d = [c EXCEPT !.buf = both]
  BY <1>1 DEF Cat, Filled
<1> HIDE DEF both, d
<1>4. d \in OpenCursors(n)
  BY <1>1, <1>2, <1>3 DEF OpenCursors, Cursors
<1>5. /\ d.buf = both /\ d.sent = c.sent /\ d.queue = c.queue /\ d.count = c.count
      /\ d.discarded = c.discarded /\ d.woken = c.woken /\ d.failed = c.failed
      /\ d.event = c.event /\ d.lim = c.lim
  BY <1>1, <1>3 DEF Cursors
<1>6. Kept(c, d) /\ (Tidy(c) => Tidy(d))
  BY <1>1, <1>5, LongerSame DEF Kept, Tidy
<1>7. Line(d) = Cat(Line(c), b)
  <2> DEFINE m == AllBytes(c.queue)
  <2>1. m \in Seq(Bytes(n)) /\ Line(d) = Cat(c.sent, Cat(m, both)) /\ Line(c) = Cat(c.sent, Cat(m, c.buf))
    BY <1>1, <1>5 DEF Line
  <2> HIDE DEF m
  <2>2. Cat(m, Cat(c.buf, b)) = Cat(Cat(m, c.buf), b)
    BY <1>1, <2>1, CatThree
  <2>3. Cat(m, c.buf) \in Seq(Bytes(n))
    BY <1>1, <2>1, CatIs
  <2>4. Cat(Cat(c.sent, Cat(m, c.buf)), b) = Cat(c.sent, Cat(Cat(m, c.buf), b))
    BY <1>1, <2>3, CatThree
  <2> QED  BY <2>1, <2>2, <2>4 DEF both
<1> QED  BY <1>2, <1>4, <1>5, <1>6, <1>7 DEF Adds, d

-----------------------------------------------------------------------------
(* Strings that are written directly, and by way of the buffer.            *)

\* The bytes of a port that has nothing pending.
LEMMA LineShort ==
  ASSUME NEW n \in Nat, NEW c \in OpenCursors(n), c.queue = <<>>
  PROVE  Line(c) = Cat(c.sent, c.buf)
<1>1. c.buf \in Seq(Bytes(n)) /\ c.queue \in Seq(ItemOf(Bytes(n)))
  BY CursorTypes
<1>2. AllBytes(<<>>) = <<>>
  BY <1>1, AllBytesIs
<1>3. Cat(<<>>, c.buf) = c.buf
  BY <1>1, CatNone
<1> QED  BY <1>2, <1>3 DEF Line

\* A flush before a string is added ...
LEMMA PassesThenAdds ==
  ASSUME NEW n \in Nat, NEW c \in OpenCursors(n), NEW d, NEW e, NEW b,
         Passes(n, c, d), Adds(n, d, b, e)
  PROVE  Adds(n, c, b, e)
<1>1. d \in OpenCursors(n) /\ e \in OpenCursors(n) /\ Kept(c, d) /\ Kept(d, e)
  BY DEF Passes, Adds
<1>2. Kept(c, e)
  BY <1>1, KeptMore
<1> QED  BY <1>1, <1>2 DEF Passes, Adds

\* ... or after it changes nothing of the order.
LEMMA AddsThenPasses ==
  ASSUME NEW n \in Nat, NEW c \in OpenCursors(n), NEW d, NEW e, NEW b,
         Adds(n, c, b, d), Passes(n, d, e)
  PROVE  Adds(n, c, b, e)
<1>1. d \in OpenCursors(n) /\ e \in OpenCursors(n) /\ Kept(c, d) /\ Kept(d, e)
  BY DEF Passes, Adds
<1>2. Kept(c, e)
  BY <1>1, KeptMore
<1> QED  BY <1>1, <1>2 DEF Passes, Adds

\* One string after the other.
LEMMA AddsMore ==
  ASSUME NEW n \in Nat, NEW c \in OpenCursors(n), NEW d, NEW e,
         NEW a \in Seq(Bytes(n)), NEW b \in Seq(Bytes(n)), Adds(n, c, a, d), Adds(n, d, b, e)
  PROVE  Adds(n, c, Cat(a, b), e)
<1>1. d \in OpenCursors(n) /\ e \in OpenCursors(n) /\ Kept(c, d) /\ Kept(d, e)
  BY DEF Adds
<1>2. Kept(c, e)
  BY <1>1, KeptMore
<1>3. Cat(Cat(Line(c), a), b) = Cat(Line(c), Cat(a, b))
  <2>1. Line(c) \in Seq(Bytes(n))
    BY CursorTypes
  <2> QED  BY <2>1, CatThree
<1>4. ASSUME Tidy(c)  PROVE Tidy(e) /\ Line(e) = Cat(Line(c), Cat(a, b))
  <2>1. Tidy(d) /\ Line(d) = Cat(Line(c), a)
    BY <1>4 DEF Adds
  <2>2. Tidy(e) /\ Line(e) = Cat(Line(d), b)
    BY <2>1 DEF Adds
  <2> QED  BY <1>3, <2>1, <2>2
<1> QED  BY <1>1, <1>2, <1>4 DEF Adds

\* write_bytes_ov, for a string that is not put into the buffer: what the descriptor
\* does not take is pending, or little enough to be kept in the buffer.
LEMMA DirectlyWritten ==
  ASSUME NEW n \in Nat, NEW c \in OpenCursors(n), NEW b \in Seq(Bytes(n)), b # <<>>
  PROVE  /\ Adds(n, c, b, WriteDirectly(c, b))
         /\ Len(WriteDirectly(c, b).buf) < CREATE_EVENT_THRESHOLD
<1> DEFINE d == flush_buffer(c, TRUE)
           k == Taken(d, Len(b))
           some == Cat(d.sent, First(b, k))
           left == Rest(b, k)
           w == WriteDirectly(c, b)
<1>1. Passes(n, c, d) /\ d.buf = <<>>
  BY BufferFlushed
<1>2. w = IF d.event THEN [d EXCEPT !.queue = Enq(@, b)]
          ELSE IF Len(left) >= CREATE_EVENT_THRESHOLD
          THEN [[[d EXCEPT !.sent = some, !.room = @ - k] EXCEPT !.event = TRUE]
                  EXCEPT !.queue = Enq(@, left)]
          ELSE [[d EXCEPT !.sent = some, !.room = @ - k] EXCEPT !.buf = @ \o left]
  BY DEF WriteDirectly, AfterWrite, enq_wr, mk_event, Enq, Cat, First
<1> HIDE DEF d, w
<1>3. d \in OpenCursors(n)
  BY <1>1 DEF Passes
<1>4. /\ d.buf = <<>> /\ d.sent \in Seq(Bytes(n)) /\ d.queue \in Seq(ItemOf(Bytes(n)))
      /\ d.room \in Nat /\ d.room <= Room /\ d \in Cursors(n) /\ d.event \in BOOLEAN
      /\ k \in 0 .. Len(b) /\ k <= d.room /\ AllBytes(d.queue) \in Seq(Bytes(n))
  <2>1. /\ d.sent \in Seq(Bytes(n)) /\ d.queue \in Seq(ItemOf(Bytes(n)))
        /\ d.room \in 0 .. Room /\ d \in Cursors(n) /\ d.event \in BOOLEAN
        /\ AllBytes(d.queue) \in Seq(Bytes(n))
    BY <1>3, CursorTypes
  <2>2. k \in 0 .. Len(b) /\ k <= d.room
    BY <1>3, SomeTaken
  <2>3. d.room \in Nat /\ d.room <= Room
    BY <2>1, OutputAssumption
  <2> QED  BY <1>1, <2>1, <2>2, <2>3
<1> HIDE DEF k
<1>5. /\ some \in Seq(Bytes(n)) /\ ToSet(d.sent) \subseteq ToSet(some)
      /\ Cat(some, left) = Cat(d.sent, b)
      /\ left \in Seq(Bytes(n))
  <2>1. Cat(some, left) = Cat(d.sent, b)
    BY <1>4, PartWritten
  <2>2. some \in Seq(Bytes(n)) /\ ToSet(d.sent) \subseteq ToSet(some)
    BY <1>4, PartWritten
  <2>3. left \in Seq(Bytes(n))
    BY <1>4, CatSplit
  <2> QED  BY <2>1, <2>2, <2>3
<1>6. d.room - k \in 0 .. Room
  BY <1>4, OutputAssumption
<1> HIDE DEF some, left
<1>7. <<>> \in Seq(Bytes(n)) /\ Len(<<>>) = 0 /\ Len(left) \in Nat
  BY <1>5, EmptySeq, LenProperties
<1>8. CASE d.event
  <2> DEFINE q == Enq(d.queue, b)
  <2>1. w = [d EXCEPT !.queue = q]
    BY <1>2, <1>8
  <2>2. /\ q \in Seq(ItemOf(Bytes(n))) /\ q # <<>> /\ Longer(d.queue, q)
        /\ AllBytes(q) = Cat(AllBytes(d.queue), b) /\ (Begins(d.queue) => Begins(q))
    BY <1>4, Enqueued
  <2> HIDE DEF q
  <2>3. w \in OpenCursors(n)
    BY <1>4, <1>7, <2>1, <2>2 DEF OpenCursors, Cursors
  <2>4. /\ w.buf = <<>> /\ w.sent = d.sent /\ w.queue = q /\ w.count = d.count
        /\ w.discarded = d.discarded /\ w.woken = d.woken /\ w.failed = d.failed
        /\ w.event = d.event
    BY <1>4, <2>1 DEF Cursors
  <2>5. Kept(d, w)
    BY <1>4, <2>2, <2>4 DEF Kept
  <2>6. Tidy(d) => Tidy(w)
    BY <1>8, <2>2, <2>4 DEF Tidy
  <2>7. Line(w) = Cat(Line(d), b)
    <3> DEFINE m == AllBytes(d.queue)
    <3>1. Cat(m, b) \in Seq(Bytes(n))
      BY <1>4, CatIs
    <3>2. Line(w) = Cat(d.sent, Cat(Cat(m, b), <<>>)) /\ Line(d) = Cat(d.sent, Cat(m, <<>>))
      BY <1>4, <2>2, <2>4 DEF Line
    <3>3. Cat(Cat(m, b), <<>>) = Cat(m, b) /\ Cat(m, <<>>) = m
      BY <1>4, <3>1, CatNone
    <3> HIDE DEF m
    <3>4. Cat(Cat(d.sent, m), b) = Cat(d.sent, Cat(m, b))
      BY <1>4, CatThree DEF m
    <3> QED  BY <3>2, <3>3, <3>4
  <2>8. Adds(n, d, b, w)
    BY <2>3, <2>4, <2>5, <2>6, <2>7 DEF Adds
  <2> QED  BY <1>1, <1>7, <2>4, <2>8, PassesThenAdds, Threshold DEF w
<1>9. CASE ~d.event /\ Len(left) >= CREATE_EVENT_THRESHOLD
  <2> DEFINE q == Enq(d.queue, left)
  <2>1. w = [d EXCEPT !.sent = some, !.room = @ - k, !.event = TRUE, !.queue = q]
    BY <1>2, <1>4, <1>9 DEF Cursors
  <2>2. left # <<>>
    BY <1>7, <1>9, Threshold
  <2>3. /\ q \in Seq(ItemOf(Bytes(n))) /\ q # <<>> /\ Longer(d.queue, q)
        /\ AllBytes(q) = Cat(AllBytes(d.queue), left) /\ (Begins(d.queue) => Begins(q))
    BY <1>4, <1>5, <2>2, Enqueued
  <2> HIDE DEF q
  <2>4. w \in OpenCursors(n)
    BY <1>4, <1>5, <1>6, <1>7, <2>1, <2>3 DEF OpenCursors, Cursors
  <2>5. /\ w.buf = <<>> /\ w.sent = some /\ w.queue = q /\ w.count = d.count
        /\ w.discarded = d.discarded /\ w.woken = d.woken /\ w.failed = d.failed
        /\ w.event = TRUE
    BY <1>4, <2>1 DEF Cursors
  <2>6. Kept(d, w)
    BY <1>4, <1>5, <2>3, <2>5 DEF Kept
  <2>7. ASSUME Tidy(d)  PROVE Tidy(w) /\ Line(w) = Cat(Line(d), b)
    <3>1. d.queue = <<>>
      BY <1>9, <2>7 DEF Tidy
    <3>2. Tidy(w)
      BY <2>3, <2>5, <2>7 DEF Tidy
    <3>3. Line(d) = Cat(d.sent, <<>>)
      BY <1>3, <1>4, <3>1, LineShort
    <3>4. AllBytes(<<>>) = <<>>
      BY <1>4, AllBytesIs
    <3>5. Cat(<<>>, left) = left /\ Cat(left, <<>>) = left /\ Cat(d.sent, <<>>) = d.sent
      BY <1>4, <1>5, CatNone
    <3>6. Line(w) = Cat(some, left)
      BY <2>3, <2>5, <3>1, <3>4, <3>5 DEF Line
    <3> QED  BY <1>5, <3>2, <3>3, <3>5, <3>6
  <2>8. Adds(n, d, b, w)
    BY <2>4, <2>5, <2>6, <2>7 DEF Adds
  <2> QED  BY <1>1, <1>7, <2>5, <2>8, PassesThenAdds, Threshold DEF w
<1>10. CASE ~d.event /\ ~(Len(left) >= CREATE_EVENT_THRESHOLD)
  <2>1. <<>> \o left = left
    BY <1>5, ConcatEmptySeq
  <2>2. w = [d EXCEPT !.sent = some, !.room = @ - k, !.buf = left]
    BY <1>2, <1>4, <1>10, <2>1 DEF Cursors
  <2>3. w \in OpenCursors(n)
    BY <1>4, <1>5, <1>6, <2>2 DEF OpenCursors, Cursors
  <2>4. /\ w.buf = left /\ w.sent = some /\ w.queue = d.queue /\ w.count = d.count
        /\ w.discarded = d.discarded /\ w.woken = d.woken /\ w.failed = d.failed
        /\ w.event = d.event
    BY <1>4, <2>2 DEF Cursors
  <2>5. Kept(d, w)
    BY <1>4, <1>5, <2>4, LongerSame DEF Kept
  <2>6. ASSUME Tidy(d)  PROVE Tidy(w) /\ Line(w) = Cat(Line(d), b)
    <3>1. d.queue = <<>>
      BY <1>10, <2>6 DEF Tidy
    <3>2. Tidy(w)
      BY <2>4, <2>6 DEF Tidy
    <3>3. Line(d) = Cat(d.sent, <<>>) /\ Line(w) = Cat(some, left)
      BY <1>3, <1>4, <2>3, <2>4, <3>1, LineShort
    <3>4. Cat(d.sent, <<>>) = d.sent
      BY <1>4, CatNone
    <3> QED  BY <1>5, <3>2, <3>3, <3>4
  <2>7. Adds(n, d, b, w)
    BY <2>3, <2>4, <2>5, <2>6 DEF Adds
  <2> QED  BY <1>1, <1>7, <1>10, <2>4, <2>7, PassesThenAdds, Threshold DEF w
<1> QED  BY <1>4, <1>8, <1>9, <1>10

\* The limits of the buffers.
LEMMA LimitIs ==
  ASSUME NEW n \in Nat, NEW c \in OpenCursors(n)
  PROVE  c.lim \in Nat /\ BlockSize - 1 <= c.lim /\ c.lim <= BlockSize
<1>1. c.lim \in {BlockSize - 1, BlockSize}
  BY CursorTypes
<1> QED  BY <1>1, Threshold

\* The empty string adds nothing.
LEMMA AddsNothing ==
  ASSUME NEW n \in Nat, NEW c \in OpenCursors(n)
  PROVE  Adds(n, c, <<>>, c)
<1>1. c.queue \in Seq(ItemOf(Bytes(n))) /\ Line(c) \in Seq(Bytes(n))
  BY CursorTypes
<1>2. Kept(c, c)
  BY <1>1, LongerSame DEF Kept
<1>3. Cat(Line(c), <<>>) = Line(c)
  BY <1>1, CatNone
<1> QED  BY <1>2, <1>3 DEF Adds

\* Of r, s is left when the buffer of c has been filled and flushed.
Fills(n, c, r, d, s) ==
  s \in Seq(Bytes(n)) /\ \E a \in Seq(Bytes(n)) : Adds(n, c, a, d) /\ Cat(a, s) = r

\* One turn after the other.
LEMMA FillsMore ==
  ASSUME NEW n \in Nat, NEW c \in OpenCursors(n), NEW r, NEW d, NEW s, NEW e, NEW u,
         Fills(n, c, r, d, s), Fills(n, d, s, e, u)
  PROVE  Fills(n, c, r, e, u)
<1>1. PICK a \in Seq(Bytes(n)) : Adds(n, c, a, d) /\ Cat(a, s) = r
  BY DEF Fills
<1>2. PICK b \in Seq(Bytes(n)) : Adds(n, d, b, e) /\ Cat(b, u) = s
  BY DEF Fills
<1>3. Adds(n, c, Cat(a, b), e)
  BY <1>1, <1>2, AddsMore
<1>4. u \in Seq(Bytes(n))
  BY DEF Fills
<1>5. Cat(Cat(a, b), u) = Cat(a, Cat(b, u))
  BY <1>4, CatThree
<1>6. Cat(a, b) \in Seq(Bytes(n))
  BY CatIs
<1> QED  BY <1>1, <1>2, <1>3, <1>4, <1>5, <1>6 DEF Fills

\* A turn of the loop: the string fits, or the buffer is filled and flushed.
LEMMA TurnFills ==
  ASSUME NEW n \in Nat, NEW c \in OpenCursors(n), NEW r \in Seq(Bytes(n)),
         Len(c.buf) <= c.lim, NEW t, t = Turn([cursor |-> c, rest |-> r])
  PROVE  /\ Fills(n, c, r, t.cursor, t.rest) /\ t = [cursor |-> t.cursor, rest |-> t.rest]
         /\ \/ /\ Len(r) <= c.lim - Len(c.buf) /\ t.cursor = c /\ t.rest = r
            \/ /\ Len(r) > c.lim - Len(c.buf) /\ Len(t.cursor.buf) < CREATE_EVENT_THRESHOLD
               /\ Len(t.rest) = Len(r) - (c.lim - Len(c.buf))
<1> DEFINE m == c.lim - Len(c.buf)
<1>1. /\ Len(c.buf) \in Nat /\ c.lim \in Nat /\ m \in Nat /\ Len(r) \in Nat
      /\ <<>> \in Seq(Bytes(n))
  <2>1. Len(c.buf) \in Nat /\ c.lim \in Nat
    BY CursorTypes, LimitIs
  <2>2. m \in Nat
    BY <2>1
  <2> QED  BY <2>1, <2>2, LenProperties, EmptySeq
<1>2. CASE Len(r) <= m
  <2>1. t = [cursor |-> c, rest |-> r]
    BY <1>2 DEF Turn
  <2>2. Cat(<<>>, r) = r
    BY CatNone
  <2>3. Fills(n, c, r, c, r)
    BY <1>1, <2>2, AddsNothing DEF Fills
  <2> QED  BY <1>2, <2>1, <2>3
<1>3. CASE ~(Len(r) <= m)
  <2> DEFINE a == First(r, m)  f == Filled(c, a)  d == flush_buffer(f, FALSE)
             s == Rest(r, m)
  <2>1. t = [cursor |-> d, rest |-> s]
    BY <1>3 DEF Turn, First, Filled
  <2>2. m \in 0 .. Len(r)
    BY <1>1, <1>3
  <2> HIDE DEF m
  <2>3. /\ a \in Seq(Bytes(n)) /\ s \in Seq(Bytes(n)) /\ Len(s) = Len(r) - m
        /\ Cat(a, s) = r
    BY <2>2, CatSplit
  <2> HIDE DEF a, s
  <2>4. Adds(n, c, a, f)
    BY <2>3, BufferFilled
  <2>5. f \in OpenCursors(n)
    BY <2>4 DEF Adds
  <2> HIDE DEF f
  <2>6. Passes(n, f, d) /\ Len(d.buf) < CREATE_EVENT_THRESHOLD
    BY <2>5, BufferFlushed
  <2> HIDE DEF d
  <2>7. Adds(n, c, a, d)
    BY <2>4, <2>6, AddsThenPasses
  <2>8. Fills(n, c, r, d, s)
    BY <2>3, <2>7 DEF Fills
  <2> QED  BY <1>1, <1>3, <2>1, <2>3, <2>6, <2>8 DEF m
<1> QED  BY <1>2, <1>3

\* What is left fits into the buffer.
LEMMA RestFilled ==
  ASSUME NEW n \in Nat, NEW c \in OpenCursors(n), NEW r, NEW d, NEW s, Fills(n, c, r, d, s),
         Len(s) <= d.lim - Len(d.buf)
  PROVE  Adds(n, c, r, Filled(d, s)) /\ Len(Filled(d, s).buf) <= Filled(d, s).lim
<1> DEFINE e == Filled(d, s)
<1>1. PICK a \in Seq(Bytes(n)) : Adds(n, c, a, d) /\ Cat(a, s) = r
  BY DEF Fills
<1>2. d \in OpenCursors(n) /\ s \in Seq(Bytes(n))
  BY <1>1 DEF Fills, Adds
<1>3. Adds(n, d, s, e) /\ e.lim = d.lim /\ Len(e.buf) = Len(d.buf) + Len(s)
  BY <1>2, BufferFilled
<1> HIDE DEF e
<1>4. Adds(n, c, Cat(a, s), e)
  BY <1>1, <1>2, <1>3, AddsMore
<1>5. Len(d.buf) \in Nat /\ d.lim \in Nat /\ Len(s) \in Nat
  BY <1>2, CursorTypes, LimitIs, LenProperties
<1> QED  BY <1>1, <1>3, <1>4, <1>5 DEF e

\* A buffer of size m or m - 1 that is filled twice has room for the rest of a string.
LEMMA RoomForRest ==
  ASSUME NEW m \in Nat, NEW least \in Nat, 2 * least <= m,
         NEW had \in Nat, had < least, NEW lim \in Nat, m - 1 <= lim, NEW r \in Nat, r < m,
         NEW have \in Nat, have < least, NEW max \in Nat, m - 1 <= max,
         NEW rest \in Nat, rest = r - (lim - had)
  PROVE  rest <= max - have
  OBVIOUS

\* Two turns are enough for a string that is smaller than a block.
LEMMA BuffersFilled ==
  ASSUME NEW n \in Nat, NEW c \in OpenCursors(n), NEW r \in Seq(Bytes(n)),
         Len(c.buf) <= c.lim, Len(r) <= c.lim - Len(c.buf) \/ Len(r) < BlockSize
  PROVE  /\ Adds(n, c, r, FillBuffers(c, r))
         /\ Len(FillBuffers(c, r).buf) <= FillBuffers(c, r).lim
<1> DEFINE t == Turn([cursor |-> c, rest |-> r])  tc == t.cursor  tr == t.rest
           u == Turn([cursor |-> tc, rest |-> tr])  uc == u.cursor  ur == u.rest
           e == FillBuffers(c, r)
<1>1. /\ Fills(n, c, r, tc, tr) /\ t = [cursor |-> tc, rest |-> tr]
      /\ \/ Len(r) <= c.lim - Len(c.buf) /\ tc = c /\ tr = r
         \/ /\ Len(r) > c.lim - Len(c.buf) /\ Len(tc.buf) < CREATE_EVENT_THRESHOLD
            /\ Len(tr) = Len(r) - (c.lim - Len(c.buf))
  BY TurnFills
<1>2. e = Filled(uc, ur)
  BY <1>1 DEF FillBuffers, Filled
<1> HIDE DEF t, tc, tr, e
<1>3. tc \in OpenCursors(n) /\ tr \in Seq(Bytes(n))
  BY <1>1 DEF Fills, Adds
<1>4. /\ Len(c.buf) \in Nat /\ Len(r) \in Nat /\ Len(tc.buf) \in Nat /\ Len(tr) \in Nat
      /\ c.lim \in Nat /\ BlockSize - 1 <= c.lim /\ c.lim <= BlockSize
      /\ tc.lim \in Nat /\ BlockSize - 1 <= tc.lim /\ tc.lim <= BlockSize
      /\ BlockSize \in Nat
  BY <1>3, CursorTypes, LimitIs, LenProperties, Threshold
<1>5. Len(tc.buf) <= tc.lim
  BY <1>1, <1>4, Threshold
<1>6. /\ Fills(n, tc, tr, uc, ur)
      /\ \/ Len(tr) <= tc.lim - Len(tc.buf) /\ uc = tc /\ ur = tr
         \/ /\ Len(tr) > tc.lim - Len(tc.buf) /\ Len(uc.buf) < CREATE_EVENT_THRESHOLD
            /\ Len(ur) = Len(tr) - (tc.lim - Len(tc.buf))
  BY <1>3, <1>5, TurnFills
<1> HIDE DEF u, uc, ur
<1>7. uc \in OpenCursors(n) /\ ur \in Seq(Bytes(n))
  BY <1>6 DEF Fills, Adds
<1>8. /\ Len(uc.buf) \in Nat /\ Len(ur) \in Nat
      /\ uc.lim \in Nat /\ BlockSize - 1 <= uc.lim /\ uc.lim <= BlockSize
  BY <1>7, CursorTypes, LimitIs, LenProperties
<1>9. Len(ur) <= uc.lim - Len(uc.buf)
  <2>1. CASE Len(tr) <= tc.lim - Len(tc.buf)
    BY <1>4, <1>6, <2>1
  <2>2. CASE Len(tr) > tc.lim - Len(tc.buf)
    <3>1. Len(uc.buf) < CREATE_EVENT_THRESHOLD /\ Len(ur) = Len(tr) - (tc.lim - Len(tc.buf))
      BY <1>4, <1>6, <2>2
    <3>2. Len(tr) < BlockSize /\ Len(tc.buf) < CREATE_EVENT_THRESHOLD
      <4>1. CASE tc = c /\ tr = r /\ Len(r) <= c.lim - Len(c.buf)
        BY <1>4, <2>2, <4>1
      <4>2. CASE /\ Len(r) > c.lim - Len(c.buf) /\ Len(tc.buf) < CREATE_EVENT_THRESHOLD
                 /\ Len(tr) = Len(r) - (c.lim - Len(c.buf))
        BY <1>4, <4>2
      <4>3. \/ Len(r) <= c.lim - Len(c.buf) /\ tc = c /\ tr = r
            \/ /\ Len(r) > c.lim - Len(c.buf) /\ Len(tc.buf) < CREATE_EVENT_THRESHOLD
               /\ Len(tr) = Len(r) - (c.lim - Len(c.buf))
        BY <1>1
      <4> QED  BY <4>1, <4>2, <4>3
    <3> QED  BY <1>4, <1>8, <3>1, <3>2, Threshold, RoomForRest
  <2> QED  BY <1>4, <2>1, <2>2
<1>10. Fills(n, c, r, uc, ur)
  BY <1>1, <1>6, FillsMore
<1>11. Adds(n, c, r, e) /\ Len(e.buf) <= e.lim
  BY <1>2, <1>9, <1>10, RestFilled
<1> QED  BY <1>11 DEF e

-----------------------------------------------------------------------------
(* Whole strings, vectors of strings, and flushes.                         *)

\* The bytes of a port that have not been given up are on their way, in order.
Sound(c) == Tidy(c) /\ Ordered(Line(c), c.count, c.discarded)

\* The buffer is not overrun.
Fits(c) == Len(c.buf) <= c.lim

\* A client has written to the port c, which is now d.
WritesTo(n, c, d) ==
  /\ d \in OpenCursors(n) /\ Kept(c, d) /\ c.count <= d.count /\ Fits(d)
  /\ Sound(c) => Sound(d)

\* More bytes, and all of them numbers.
LEMMA BytesMore ==
  ASSUME NEW m \in Nat, NEW n \in Nat, m <= n
  PROVE  Bytes(m) \subseteq Bytes(n) /\ Bytes(m) \subseteq Nat
  BY DEF Bytes

\* A cursor with few bytes is one with at most as many more.
LEMMA CursorsMore ==
  ASSUME NEW m \in Nat, NEW n \in Nat, m <= n
  PROVE  Cursors(m) \subseteq Cursors(n) /\ OpenCursors(m) \subseteq OpenCursors(n)
<1>1. Bytes(m) \subseteq Bytes(n)
  BY BytesMore
<1>2. ItemOf(Bytes(m)) \subseteq ItemOf(Bytes(n))
  BY <1>1, ItemsMore
<1>3. Seq(Bytes(m)) \subseteq Seq(Bytes(n))
  BY <1>1, SeqMonotonic
<1>4. Seq(ItemOf(Bytes(m))) \subseteq Seq(ItemOf(Bytes(n)))
  BY <1>2, SeqMonotonic
<1>5. Cursors(m) \subseteq Cursors(n)
  <2>1. 0 .. m \subseteq 0 .. n
    OBVIOUS
  <2> QED  BY <1>1, <1>3, <1>4, <2>1 DEF Cursors
<1> QED  BY <1>3, <1>5 DEF OpenCursors

\* The numbers of the next bytes, and the cursor that has counted them.
Counted(c, len) == [c EXCEPT !.count = @ + len]
Numbers(c, len) == [i \in 1 .. len |-> c.count + i]

\* Counting moves nothing.
LEMMA CountedIs ==
  ASSUME NEW n \in Nat, NEW c \in OpenCursors(n), NEW len \in Nat, c.count + len <= n
  PROVE  /\ Counted(c, len) \in OpenCursors(n) /\ Counted(c, len).count = c.count + len
         /\ Counted(c, len).buf = c.buf /\ Counted(c, len).lim = c.lim
         /\ Counted(c, len).discarded = c.discarded
         /\ Kept(c, Counted(c, len)) /\ Line(Counted(c, len)) = Line(c)
         /\ Tidy(c) => Tidy(Counted(c, len))
<1> DEFINE d == Counted(c, len)
<1>1. /\ c \in Cursors(n) /\ c.buf \in Seq(Bytes(n)) /\ c.queue \in Seq(ItemOf(Bytes(n)))
      /\ c.count \in 0 .. n
  BY CursorTypes
<1>2. c.count + len \in 0 .. n
  BY <1>1
<1>3. d \in OpenCursors(n)
  BY <1>1, <1>2 DEF OpenCursors, Cursors, Counted
<1>4. /\ d.buf = c.buf /\ d.lim = c.lim /\ d.sent = c.sent /\ d.queue = c.queue
      /\ d.count = c.count + len /\ d.event = c.event
      /\ d.discarded = c.discarded /\ d.woken = c.woken /\ d.failed = c.failed
  BY <1>1 DEF Cursors, Counted
<1>5. Kept(c, d)
  BY <1>1, <1>4, LongerSame DEF Kept
<1>6. Line(d) = Line(c)
  BY <1>4 DEF Line
<1>7. Tidy(c) => Tidy(d)
  BY <1>4 DEF Tidy
<1> QED  BY <1>3, <1>4, <1>5, <1>6, <1>7

\* The numbers of the next bytes go on where the last ones ended.
LEMMA NumbersAre ==
  ASSUME NEW n \in Nat, NEW c \in OpenCursors(n), NEW len \in Nat, c.count + len <= n, len > 0
  PROVE  /\ Numbers(c, len) \in Seq(Bytes(n)) /\ Len(Numbers(c, len)) = len
         /\ Numbers(c, len) # <<>> /\ \A i \in 1 .. len : Numbers(c, len)[i] = c.count + i
<1>1. c.count \in 0 .. n
  BY CursorTypes
<1>2. \A i \in 1 .. len : c.count + i \in Bytes(n)
  BY <1>1 DEF Bytes
<1>3. Numbers(c, len) \in [1 .. len -> Bytes(n)]
  BY <1>2 DEF Numbers
<1>4. Numbers(c, len) \in Seq(Bytes(n))
  BY <1>3, IsASeq
<1>5. Len(Numbers(c, len)) = len
  BY <1>3, <1>4, LenProperties
<1>6. Numbers(c, len) # <<>>
  BY <1>5, EmptySeq
<1> QED  BY <1>4, <1>5, <1>6 DEF Numbers

\* write_bytes
LEMMA BytesWritten ==
  ASSUME NEW n \in Nat, NEW c \in OpenCursors(n), Fits(c), NEW len \in Nat \ {0},
         c.count + len <= n
  PROVE  WritesTo(n, c, write_bytes(c, len)) /\ write_bytes(c, len).count = c.count + len
<1> DEFINE d == Counted(c, len)  b == Numbers(c, len)  e == write_bytes(c, len)
<1>1. e = IF Len(c.buf) + len > c.lim /\ len >= BlockSize THEN WriteDirectly(d, b)
          ELSE FillBuffers(d, b)
  BY DEF write_bytes, Counted, Numbers
<1>2. /\ d \in OpenCursors(n) /\ d.count = c.count + len /\ d.buf = c.buf /\ d.lim = c.lim
      /\ d.discarded = c.discarded
      /\ Kept(c, d) /\ Line(d) = Line(c) /\ (Tidy(c) => Tidy(d))
  BY CountedIs
<1>3. /\ b \in Seq(Bytes(n)) /\ Len(b) = len /\ b # <<>>
      /\ \A i \in 1 .. len : b[i] = c.count + i
  BY NumbersAre
<1> HIDE DEF d, b, e
<1>4. /\ Len(c.buf) \in Nat /\ c.lim \in Nat /\ BlockSize - 1 <= c.lim /\ BlockSize \in Nat
      /\ c.count \in Nat /\ Line(c) \in Seq(Bytes(n))
  BY CursorTypes, LimitIs, Threshold
<1>5. Adds(n, d, b, e) /\ Fits(e)
  <2>1. CASE Len(c.buf) + len > c.lim /\ len >= BlockSize
    <3>1. e = WriteDirectly(d, b)
      BY <1>1, <2>1
    <3>2. Adds(n, d, b, e) /\ Len(e.buf) < CREATE_EVENT_THRESHOLD
      BY <1>2, <1>3, <3>1, DirectlyWritten
    <3>3. e \in OpenCursors(n)
      BY <3>2 DEF Adds
    <3>4. Len(e.buf) \in Nat /\ e.lim \in Nat /\ BlockSize - 1 <= e.lim
      BY <3>3, CursorTypes, LimitIs
    <3> QED  BY <3>2, <3>4, Threshold DEF Fits
  <2>2. CASE ~(Len(c.buf) + len > c.lim /\ len >= BlockSize)
    <3>1. e = FillBuffers(d, b)
      BY <1>1, <2>2
    <3>2. Len(b) <= d.lim - Len(d.buf) \/ Len(b) < BlockSize
      BY <1>2, <1>3, <1>4, <2>2
    <3>3. Len(d.buf) <= d.lim
      BY <1>2 DEF Fits
    <3> QED  BY <1>2, <1>3, <3>1, <3>2, <3>3, BuffersFilled DEF Fits
  <2> QED  BY <2>1, <2>2
<1>6. e \in OpenCursors(n) /\ Kept(d, e) /\ e.count = d.count
  BY <1>5 DEF Adds
<1>7. Kept(c, e)
  BY <1>2, <1>6, KeptMore
<1>8. ASSUME Sound(c)  PROVE Sound(e)
  <2>1. Tidy(e) /\ Line(e) = Cat(Line(c), b)
    BY <1>2, <1>5, <1>8 DEF Sound, Adds
  <2>2. e.discarded = c.discarded /\ e.count = c.count + len
    BY <1>2, <1>6 DEF Kept
  <2>3. Line(c) \in Seq(Nat) /\ b \in Seq(Nat)
    BY <1>3, <1>4, BytesMore, SeqMonotonic
  <2>4. Ordered(Line(c), c.count, c.discarded)
    BY <1>8 DEF Sound
  <2>5. Ordered(Cat(Line(c), b), c.count + len, c.discarded)
    BY <1>3, <1>4, <2>3, <2>4, OrderedMore DEF Cat
  <2> QED  BY <2>1, <2>2, <2>5 DEF Sound
<1>9. c.count <= e.count /\ e.count = c.count + len
  BY <1>2, <1>4, <1>6
<1> QED  BY <1>5, <1>6, <1>7, <1>8, <1>9 DEF WritesTo, e

\* WritesTo is transitive ...
LEMMA WritesMore ==
  ASSUME NEW n \in Nat, NEW c \in OpenCursors(n), NEW d, NEW e,
         WritesTo(n, c, d), WritesTo(n, d, e)
  PROVE  WritesTo(n, c, e)
<1>1. d \in OpenCursors(n) /\ e \in OpenCursors(n) /\ Kept(c, d) /\ Kept(d, e)
  BY DEF WritesTo
<1>2. Kept(c, e)
  BY <1>1, KeptMore
<1>3. c.count \in Nat /\ d.count \in Nat /\ e.count \in Nat
  BY <1>1, CursorTypes
<1>4. c.count <= e.count
  BY <1>3 DEF WritesTo
<1> QED  BY <1>1, <1>2, <1>4 DEF WritesTo

\* ... and reflexive.
LEMMA WritesNothing ==
  ASSUME NEW n \in Nat, NEW c \in OpenCursors(n), Fits(c)
  PROVE  WritesTo(n, c, c)
<1>1. c.queue \in Seq(ItemOf(Bytes(n))) /\ c.count \in Nat
  BY CursorTypes
<1>2. Kept(c, c)
  BY <1>1, LongerSame DEF Kept
<1> QED  BY <1>1, <1>2 DEF WritesTo

\* The cursors of ports, whatever bytes they have.
ReadyCursors == {c \in UNION {OpenCursors(n) : n \in Nat} : Fits(c)}

\* The loop of c_writev stays among such cursors, so that it is defined for any vector.
LEMMA ReadyWritten ==
  ASSUME NEW c \in ReadyCursors, NEW len \in Nat \ {0}
  PROVE  /\ write_bytes(c, len) \in ReadyCursors
         /\ c.count \in Nat /\ write_bytes(c, len).count = c.count + len
<1>1. PICK m \in Nat : c \in OpenCursors(m) /\ Fits(c)
  BY DEF ReadyCursors
<1> DEFINE n == m + len  d == write_bytes(c, len)
<1>2. n \in Nat /\ m <= n
  OBVIOUS
<1>3. c \in OpenCursors(n)
  BY <1>1, <1>2, CursorsMore
<1>4. c.count \in 0 .. m
  BY <1>1, CursorTypes
<1>5. c.count + len <= n
  BY <1>4
<1> HIDE DEF n, d
<1>6. WritesTo(n, c, d) /\ d.count = c.count + len
  BY <1>1, <1>2, <1>3, <1>5, BytesWritten DEF d
<1>7. d \in OpenCursors(n) /\ Fits(d)
  BY <1>6 DEF WritesTo
<1> QED  BY <1>2, <1>4, <1>6, <1>7 DEF ReadyCursors, d

\* c_writev
LEMMA VectorWritten ==
  ASSUME NEW N \in Nat, NEW c \in OpenCursors(N), Fits(c), NEW lens \in Seq(Nat \ {0}),
         c_writev(c, lens).count <= N
  PROVE  WritesTo(N, c, c_writev(c, lens))
<1> DEFINE n == Len(lens)
           F == [i \in 1 .. n |-> [x \in ReadyCursors |-> write_bytes(x, lens[i])]]
           Are(s) == s = [i \in 0 .. n |-> IF i = 0 THEN c
                                           ELSE write_bytes(s[i - 1], lens[i])]
           after == CHOOSE s : Are(s)
<1>1. n \in Nat /\ \A i \in 1 .. n : lens[i] \in Nat \ {0}
  BY LenProperties, ElementOfSeq
<1>2. c \in ReadyCursors
  BY DEF ReadyCursors
<1>3. \A i \in 1 .. n : \A x \in ReadyCursors : F[i][x] = write_bytes(x, lens[i])
  OBVIOUS
<1>4. \A i \in 1 .. n : F[i] \in [ReadyCursors -> ReadyCursors]
  BY <1>1, ReadyWritten
<1>5. PICK s : Goes(s, ReadyCursors, c, n, F)
  <2> HIDE DEF F
  <2> QED  BY <1>1, <1>2, <1>4, Iterates
<1> HIDE DEF F
<1>6. ASSUME NEW i \in 0 .. n
      PROVE  s[i] = IF i = 0 THEN c ELSE write_bytes(s[i - 1], lens[i])
  <2>1. i = 0 \/ (i \in 1 .. n /\ i - 1 \in 0 .. n)
    OBVIOUS
  <2> QED  BY <1>3, <1>5, <2>1 DEF Goes
<1>7. Are(s)
  BY <1>5, <1>6 DEF Goes
<1>8. Are(after) /\ c_writev(c, lens) = after[n]
  BY <1>7 DEF c_writev
<1> HIDE DEF after
<1>9. after[0] = c /\ \A i \in 1 .. n : after[i] = write_bytes(after[i - 1], lens[i])
  <2>1. after[0] = c
    <3>1. 0 \in 0 .. n
      BY <1>1
    <3> HIDE DEF n
    <3> QED  BY <1>8, <3>1
  <2>2. ASSUME NEW i \in 1 .. n  PROVE after[i] = write_bytes(after[i - 1], lens[i])
    <3>1. i \in 0 .. n /\ i # 0
      BY <1>1
    <3> HIDE DEF n
    <3> QED  BY <1>8, <3>1
  <2> QED  BY <2>1, <2>2
<1> DEFINE Good(i) == after[i] \in ReadyCursors
                      /\ (after[i].count <= N => WritesTo(N, c, after[i]))
           G == {i \in 0 .. n : Good(i)}
<1>10. Good(0)
  BY <1>2, <1>9, WritesNothing
<1>11. ASSUME NEW i \in 1 .. n, Good(i - 1)  PROVE Good(i)
  <2> DEFINE d == after[i - 1]  e == after[i]
  <2>1. e = write_bytes(d, lens[i]) /\ lens[i] \in Nat \ {0} /\ d \in ReadyCursors
        /\ (d.count <= N => WritesTo(N, c, d))
    BY <1>1, <1>9, <1>11
  <2> HIDE DEF d, e, Good
  <2>2. e \in ReadyCursors /\ d.count \in Nat /\ e.count = d.count + lens[i]
    BY <2>1, ReadyWritten
  <2>3. ASSUME e.count <= N  PROVE WritesTo(N, c, e)
    <3>1. d.count <= N /\ d.count + lens[i] <= N
      BY <2>1, <2>2, <2>3
    <3>2. WritesTo(N, c, d)
      BY <2>1, <3>1
    <3>3. d \in OpenCursors(N) /\ Fits(d)
      BY <3>2 DEF WritesTo
    <3>4. WritesTo(N, d, e)
      BY <2>1, <3>1, <3>3, BytesWritten
    <3> QED  BY <3>2, <3>4, WritesMore
  <2> QED  BY <2>2, <2>3 DEF Good, e
<1> HIDE DEF Good
<1>12. 0 .. n \subseteq G
  <2>1. 0 \in G /\ \A m \in 1 .. n : m - 1 \in G => m \in G
    BY <1>1, <1>10, <1>11
  <2> HIDE DEF G, n
  <2> QED  BY <1>1, <2>1, FromZero DEF n
<1>13. Good(n)
  BY <1>1, <1>12
<1> QED  BY <1>8, <1>13 DEF Good

\* FlushAll
LEMMA AllFlushed ==
  ASSUME NEW n \in Nat, NEW c \in OpenCursors(n)
  PROVE  Passes(n, c, FlushAll(c)) /\ FlushAll(c).buf = <<>>
<1> DEFINE d == FlushAll(c)
<1>1. /\ c.buf \in Seq(Bytes(n)) /\ c.sent \in Seq(Bytes(n)) /\ c.queue \in Seq(ItemOf(Bytes(n)))
      /\ c \in Cursors(n) /\ c.event \in BOOLEAN /\ AllBytes(c.queue) \in Seq(Bytes(n))
  BY CursorTypes
<1>2. <<>> \in Seq(Bytes(n))
  BY EmptySeq
<1>3. CASE ~c.event
  <2>1. d = write_to_flush(c, TRUE)
    BY <1>3 DEF FlushAll
  <2> HIDE DEF d
  <2>2. /\ d \in OpenCursors(n) /\ Kept(c, d) /\ d.count = c.count /\ d.buf = <<>>
        /\ c.queue = <<>> => Tidy(d) /\ Line(d) = Line(c)
    BY <1>3, <2>1, BufferWritten
  <2>3. Tidy(c) => c.queue = <<>>
    BY <1>3 DEF Tidy
  <2> QED  BY <2>2, <2>3 DEF Passes, d
<1>4. CASE c.event /\ c.buf = <<>>
  <2>1. d = c
    BY <1>4 DEF FlushAll
  <2>2. Kept(c, c)
    BY <1>1, LongerSame DEF Kept
  <2> QED  BY <1>4, <2>1, <2>2 DEF Passes
<1>5. CASE c.event /\ c.buf # <<>>
  <2> DEFINE q == Enq(c.queue, c.buf)
  <2>1. d = [c EXCEPT !.queue = q, !.buf = <<>>]
    BY <1>1, <1>5 DEF FlushAll, enq_wr, Enq, Cursors
  <2>2. /\ q \in Seq(ItemOf(Bytes(n))) /\ q # <<>> /\ Longer(c.queue, q)
        /\ AllBytes(q) = Cat(AllBytes(c.queue), c.buf) /\ (Begins(c.queue) => Begins(q))
    BY <1>1, <1>5, Enqueued
  <2> HIDE DEF q
  <2>3. d \in OpenCursors(n)
    BY <1>1, <1>2, <2>1, <2>2 DEF OpenCursors, Cursors
  <2>4. /\ d.buf = <<>> /\ d.sent = c.sent /\ d.queue = q /\ d.count = c.count
        /\ d.discarded = c.discarded /\ d.woken = c.woken /\ d.failed = c.failed
        /\ d.event = c.event
    BY <1>1, <2>1 DEF Cursors
  <2>5. Kept(c, d)
    BY <1>1, <2>2, <2>4 DEF Kept
  <2>6. ASSUME Tidy(c)  PROVE Tidy(d) /\ Line(d) = Line(c)
    <3>1. Tidy(d)
      BY <1>5, <2>2, <2>4, <2>6 DEF Tidy
    <3>2. Cat(AllBytes(q), <<>>) = AllBytes(q)
      <4>1. AllBytes(q) \in Seq(Bytes(n))
        BY <2>2, AllBytesIs
      <4> QED  BY <4>1, CatNone
    <3> QED  BY <2>2, <2>4, <3>1, <3>2 DEF Line
  <2> QED  BY <2>3, <2>4, <2>5, <2>6 DEF Passes
<1> QED  BY <1>1, <1>3, <1>4, <1>5

-----------------------------------------------------------------------------
(* What a write event deals with: so many items, and a part of the next.   *)

\* The members of Cat(a, b).
LEMMA CatAt ==
  ASSUME NEW S, NEW a \in Seq(S), NEW b \in Seq(S)
  PROVE  /\ Cat(a, b) \in Seq(S) /\ Len(Cat(a, b)) = Len(a) + Len(b)
         /\ \A i \in 1 .. Len(a) : Cat(a, b)[i] = a[i]
         /\ \A i \in 1 .. Len(b) : Cat(a, b)[Len(a) + i] = b[i]
  BY ConcatAre DEF Cat

\* Of two pieces, the first bytes are the first ones of the first piece, or all of them
\* and some of the second.
LEMMA FirstOfTwo ==
  ASSUME NEW S, NEW a \in Seq(S), NEW b \in Seq(S), NEW k \in 0 .. Len(b)
  PROVE  First(Cat(a, b), Len(a) + k) = Cat(a, First(b, k))
<1> DEFINE w == Cat(a, b)  L == Len(a)
           x == First(w, L + k)  f == First(b, k)  y == Cat(a, f)
<1>1. L \in Nat /\ Len(b) \in Nat /\ k \in Nat /\ k <= Len(b)
  BY LenProperties
<1>2. /\ w \in Seq(S) /\ Len(w) = L + Len(b)
      /\ \A i \in 1 .. L : w[i] = a[i]
      /\ \A i \in 1 .. Len(b) : w[L + i] = b[i]
  BY ConcatAre DEF Cat
<1>3. f \in Seq(S) /\ Len(f) = k /\ \A i \in 1 .. k : f[i] = b[i]
  BY SplitAt DEF First
<1> HIDE DEF w, f
<1>4. /\ y \in Seq(S) /\ Len(y) = L + Len(f)
      /\ \A i \in 1 .. L : y[i] = a[i]
      /\ \A i \in 1 .. Len(f) : y[L + i] = f[i]
  <2>1. f \in Seq(S)
    BY <1>3
  <2>2. y \in Seq(S) /\ Len(y) = L + Len(f)
    BY <2>1, CatAt
  <2>3. \A i \in 1 .. L : y[i] = a[i]
    BY <2>1, CatAt
  <2>4. \A i \in 1 .. Len(f) : y[L + i] = f[i]
    BY <2>1, CatAt
  <2> QED  BY <2>2, <2>3, <2>4
<1>5. L + k \in 0 .. Len(w)
  BY <1>1, <1>2
<1>6. x \in Seq(S) /\ Len(x) = L + k /\ \A i \in 1 .. L + k : x[i] = w[i]
  BY <1>2, <1>5, SplitAt DEF First
<1> HIDE DEF x, y
<1>7. ASSUME NEW i \in 1 .. L + k  PROVE x[i] = y[i]
  <2>1. CASE i <= L
    <3>1. i \in 1 .. L
      BY <1>1, <2>1
    <3> QED  BY <1>2, <1>4, <1>6, <3>1
  <2>2. CASE L < i
    <3>1. i - L \in 1 .. k /\ i - L \in 1 .. Len(b) /\ L + (i - L) = i
      BY <1>1, <2>2
    <3>2. w[L + (i - L)] = b[i - L] /\ y[L + (i - L)] = f[i - L] /\ f[i - L] = b[i - L]
      BY <1>2, <1>3, <1>4, <3>1
    <3> QED  BY <1>6, <3>1, <3>2
  <2> QED  BY <1>1, <2>1, <2>2
<1>8. x = y
  BY <1>3, <1>4, <1>6, <1>7, SeqEqual
<1> QED  BY <1>8 DEF x, y, w, f

\* The first bytes of the first piece.
LEMMA FirstOfFirst ==
  ASSUME NEW S, NEW a \in Seq(S), NEW b \in Seq(S), NEW k \in 0 .. Len(a)
  PROVE  First(Cat(a, b), k) = First(a, k)
<1> DEFINE w == Cat(a, b)  x == First(w, k)  y == First(a, k)
<1>1. Len(a) \in Nat /\ Len(b) \in Nat
  BY LenProperties
<1>2. w \in Seq(S) /\ Len(w) = Len(a) + Len(b) /\ \A i \in 1 .. Len(a) : w[i] = a[i]
  BY ConcatAre DEF Cat
<1>3. y \in Seq(S) /\ Len(y) = k /\ \A i \in 1 .. k : y[i] = a[i]
  BY SplitAt DEF First
<1> HIDE DEF w
<1>4. k \in 0 .. Len(w)
  BY <1>1, <1>2
<1>5. x \in Seq(S) /\ Len(x) = k /\ \A i \in 1 .. k : x[i] = w[i]
  BY <1>2, <1>4, SplitAt DEF First
<1> HIDE DEF x, y
<1>6. \A i \in 1 .. k : x[i] = y[i]
  BY <1>1, <1>2, <1>3, <1>5
<1>7. x = y
  BY <1>3, <1>5, <1>6, SeqEqual
<1> QED  BY <1>7 DEF x, y, w

\* The bytes of the first items are in front of all the bytes.
LEMMA BytesBegin ==
  ASSUME NEW S, NEW q \in Seq(ItemOf(S)), NEW k \in 0 .. Len(q), NEW l \in k .. Len(q)
  PROVE  \E r \in Seq(S) : BytesUpTo(q)[l] = Cat(BytesUpTo(q)[k], r)
<1> DEFINE B == BytesUpTo(q)
           Begun(i) == \E r \in Seq(S) : B[k + i] = Cat(B[k], r)
           G == {i \in 0 .. l - k : Begun(i)}
<1>1. Len(q) \in Nat /\ l - k \in Nat /\ k \in Nat /\ l <= Len(q)
  BY LenProperties
<1>2. B \in [0 .. Len(q) -> Seq(S)] /\ \A i \in 1 .. Len(q) : B[i] = B[i - 1] \o q[i].bytes
  BY BytesUpToAre
<1> HIDE DEF B
<1>3. B[k] \in Seq(S)
  BY <1>2
<1>4. Begun(0)
  <2>1. k + 0 = k /\ <<>> \in Seq(S)
    BY <1>1, EmptySeq
  <2>2. B[k] = Cat(B[k], <<>>)
    BY <1>3, CatNone
  <2> QED  BY <2>1, <2>2
<1>5. ASSUME NEW i \in 1 .. l - k, Begun(i - 1)  PROVE Begun(i)
  <2>1. PICK r \in Seq(S) : B[k + (i - 1)] = Cat(B[k], r)
    BY <1>5
  <2> DEFINE b == q[k + i].bytes
  <2>2. k + i \in 1 .. Len(q) /\ (k + i) - 1 = k + (i - 1)
    BY <1>1
  <2>3. b \in Seq(S)
    BY <2>2, ElementOfSeq, ItemFacts
  <2>4. B[k + i] = Cat(Cat(B[k], r), b)
    BY <1>2, <2>1, <2>2 DEF Cat
  <2> HIDE DEF b
  <2>5. B[k + i] = Cat(B[k], Cat(r, b))
    BY <1>3, <2>3, <2>4, CatThree
  <2>6. Cat(r, b) \in Seq(S)
    BY <2>3, CatIs
  <2> QED  BY <2>5, <2>6
<1> HIDE DEF Begun
<1>6. 0 .. l - k \subseteq G
  <2>1. 0 \in G /\ \A m \in 1 .. l - k : m - 1 \in G => m \in G
    BY <1>1, <1>4, <1>5
  <2> HIDE DEF G
  <2> QED  BY <1>1, <2>1, FromZero
<1>7. Begun(l - k) /\ k + (l - k) = l
  BY <1>1, <1>6
<1> QED  BY <1>7 DEF Begun, B

\* DoneItems
LEMMA ItemsDone ==
  ASSUME NEW S, NEW q \in Seq(ItemOf(S)), NEW n \in Nat
  PROVE  /\ DoneItems(q, n) \in 0 .. Len(q) /\ Cost(q, DoneItems(q, n)) <= n
         /\ \A j \in DoneItems(q, n) + 1 .. Len(q) : Cost(q, j) > n
         /\ \A j \in 0 .. Len(q) : Cost(q, j) \in Nat
<1> DEFINE T == {k \in 0 .. Len(q) : Cost(q, k) <= n}
<1>1. Len(q) \in Nat /\ Cost(q, 0) = 0 /\ \A j \in 0 .. Len(q) : Cost(q, j) \in Nat
  <2>1. /\ BytesUpTo(q) \in [0 .. Len(q) -> Seq(S)] /\ BytesUpTo(q)[0] = <<>>
    BY BytesUpToAre
  <2>2. \A j \in 0 .. Len(q) : BytesUpTo(q)[j] \in Seq(S)
    BY <2>1
  <2> QED  BY <2>1, <2>2, LenProperties, EmptySeq DEF Cost
<1>2. 0 \in T /\ T \subseteq 0 .. Len(q)
  BY <1>1
<1>3. PICK k \in T : \A j \in T : j <= k
  <2> HIDE DEF T
  <2> QED  BY <1>1, <1>2, GreatestMember
<1>4. \A j \in k + 1 .. Len(q) : Cost(q, j) > n
  <2>1. ASSUME NEW j \in k + 1 .. Len(q)  PROVE Cost(q, j) > n
    <3>1. j \in 0 .. Len(q) /\ ~(j <= k)
      BY <1>1, <1>3
    <3> QED  BY <1>1, <1>3, <3>1
  <2> QED  BY <2>1
<1>5. \E i \in 0 .. Len(q) : Cost(q, i) <= n /\ \A j \in i + 1 .. Len(q) : Cost(q, j) > n
  BY <1>3, <1>4
<1> QED  BY <1>1, <1>5 DEF DoneItems

\* A list with another first member.
FirstIs(x, s) == <<x>> \o Tail(s)

\* The other members stay.
LEMMA FirstChanged ==
  ASSUME NEW S, NEW s \in Seq(S), s # <<>>, NEW x \in S
  PROVE  /\ FirstIs(x, s) \in Seq(S) /\ Len(FirstIs(x, s)) = Len(s) /\ FirstIs(x, s)[1] = x
         /\ \A j \in 2 .. Len(s) : FirstIs(x, s)[j] = s[j]
<1> DEFINE a == <<x>>  b == Tail(s)  w == FirstIs(x, s)
<1>1. a \in Seq(S) /\ Len(a) = 1 /\ a[1] = x
  OBVIOUS
<1>2. b \in Seq(S) /\ Len(b) = Len(s) - 1 /\ (\A i \in 1 .. Len(s) - 1 : b[i] = s[i + 1])
      /\ Len(s) \in Nat
  BY HeadTailProperties, LenProperties
<1>3. w = Cat(a, b)
  BY DEF FirstIs, Cat
<1> HIDE DEF a, b, w
<1>a. /\ w \in Seq(S) /\ Len(w) = Len(a) + Len(b)
      /\ \A i \in 1 .. Len(a) : w[i] = a[i]
      /\ \A i \in 1 .. Len(b) : w[Len(a) + i] = b[i]
  <2>1. a \in Seq(S) /\ b \in Seq(S)
    BY <1>1, <1>2
  <2>2. Cat(a, b) \in Seq(S) /\ Len(Cat(a, b)) = Len(a) + Len(b)
    BY <2>1, CatAt
  <2>3. \A i \in 1 .. Len(a) : Cat(a, b)[i] = a[i]
    BY <2>1, CatAt
  <2>4. \A i \in 1 .. Len(b) : Cat(a, b)[Len(a) + i] = b[i]
    BY <2>1, CatAt
  <2> QED  BY <1>3, <2>2, <2>3, <2>4
<1>4. w \in Seq(S) /\ Len(w) = Len(s)
  BY <1>1, <1>2, <1>a
<1>5. w[1] = x
  BY <1>1, <1>2, <1>a
<1>6. ASSUME NEW j \in 2 .. Len(s)  PROVE w[j] = s[j]
  <2>1. j - 1 \in 1 .. Len(b) /\ Len(a) + (j - 1) = j /\ (j - 1) + 1 = j
    BY <1>1, <1>2
  <2>2. w[Len(a) + (j - 1)] = b[j - 1]
    BY <1>a, <2>1
  <2>3. b[j - 1] = s[j]
    BY <1>2, <2>1
  <2> QED  BY <2>1, <2>2, <2>3
<1> QED  BY <1>4, <1>5, <1>6 DEF w

\* The queue when so many of its bytes have been written.
Unwritten(q, n) ==
  LET left == Rest(q, DoneItems(q, n))
  IN IF left = <<>> THEN <<>>
     ELSE FirstIs(DataItem(Rest(left[1].bytes, n - Cost(q, DoneItems(q, n)))), left)

\* The rest of the item that was written in part is what comes first.
LEMMA UnwrittenIs ==
  ASSUME NEW S, NEW q \in Seq(ItemOf(S)), NEW n \in 0 .. Len(AllBytes(q)),
         DoneItems(q, n) < Len(q)
  PROVE  LET k == DoneItems(q, n)
             m == n - Cost(q, k)
             b == q[k + 1].bytes
             r == Unwritten(q, n)
         IN /\ m \in 0 .. Len(b) /\ Rest(b, m) # <<>> /\ b \in Seq(S)
            /\ r \in Seq(ItemOf(S)) /\ Len(r) = Len(q) - k /\ r[1] = DataItem(Rest(b, m))
            /\ \A j \in 2 .. Len(r) : r[j] = q[k + j]
<1> DEFINE k == DoneItems(q, n)  m == n - Cost(q, k)  b == q[k + 1].bytes
           r == Unwritten(q, n)  left == Rest(q, k)
<1>1. /\ k \in 0 .. Len(q) /\ k < Len(q) /\ Cost(q, k) <= n /\ Len(q) \in Nat
      /\ \A j \in k + 1 .. Len(q) : Cost(q, j) > n
      /\ \A j \in 0 .. Len(q) : Cost(q, j) \in Nat
      /\ AllBytes(q) \in Seq(S) /\ Len(AllBytes(q)) \in Nat /\ n \in Nat
  <2>1. AllBytes(q) \in Seq(S) /\ Len(AllBytes(q)) \in Nat
    BY AllBytesIs, LenProperties
  <2>2. n \in Nat
    BY <2>1
  <2> QED  BY <2>1, <2>2, ItemsDone, LenProperties
<1> HIDE DEF k
<1>2. /\ left \in Seq(ItemOf(S)) /\ Len(left) = Len(q) - k /\ left # <<>>
      /\ \A i \in 1 .. Len(q) - k : left[i] = q[k + i]
  <2>1. k \in 0 .. Len(q) /\ k # Len(q)
    BY <1>1
  <2>2. left \in Seq(ItemOf(S)) /\ Len(left) = Len(q) - k
    BY <2>1, SplitAt
  <2>3. left # <<>>
    BY <2>1, SplitAt
  <2>4. \A i \in 1 .. Len(q) - k : left[i] = q[k + i]
    BY <2>1, SplitAt
  <2> QED  BY <2>2, <2>3, <2>4
<1>3. k + 1 \in 1 .. Len(q) /\ 1 \in 1 .. Len(q) - k /\ (k + 1) - 1 = k
      /\ k \in 0 .. Len(q) /\ k + 1 \in 0 .. Len(q) /\ k + 1 \in k + 1 .. Len(q)
  BY <1>1
<1>4. b \in Seq(S) /\ left[1] = q[k + 1]
  BY <1>2, <1>3, ElementOfSeq, ItemFacts
<1>5. r = FirstIs(DataItem(Rest(b, m)), left)
  BY <1>2, <1>4 DEF Unwritten, k
<1>6. Cost(q, k + 1) = Cost(q, k) + Len(b)
  <2>1. /\ BytesUpTo(q) \in [0 .. Len(q) -> Seq(S)]
        /\ \A j \in 1 .. Len(q) : BytesUpTo(q)[j] = BytesUpTo(q)[j - 1] \o q[j].bytes
    BY BytesUpToAre
  <2> DEFINE B == BytesUpTo(q)
  <2>2. B[k + 1] = Cat(B[k], b) /\ B[k] \in Seq(S)
    <3> QED  BY <1>3, <2>1 DEF Cat
  <2> HIDE DEF B, b
  <2>3. Len(B[k + 1]) = Len(B[k]) + Len(b)
    BY <1>4, <2>2, CatAt
  <2> QED  BY <2>3 DEF Cost, B
<1> HIDE DEF b, r, left
<1>7. m \in 0 .. Len(b) /\ m # Len(b)
  <2>1. Cost(q, k + 1) > n /\ Cost(q, k) \in Nat /\ Len(b) \in Nat /\ Cost(q, k) <= n
    BY <1>1, <1>3, <1>4, LenProperties
  <2> QED  BY <1>1, <1>6, <2>1
<1> HIDE DEF m
<1>8. Rest(b, m) \in Seq(S) /\ Rest(b, m) # <<>>
  BY <1>4, <1>7, CatSplit
<1> DEFINE x == DataItem(Rest(b, m))
<1>9. x \in ItemOf(S)
  BY <1>8, ItemMade
<1> HIDE DEF x
<1>10. /\ r \in Seq(ItemOf(S)) /\ Len(r) = Len(left) /\ r[1] = x
       /\ \A j \in 2 .. Len(left) : r[j] = left[j]
  <2>1. left \in Seq(ItemOf(S)) /\ left # <<>> /\ r = FirstIs(x, left)
    BY <1>2, <1>5 DEF x
  <2>2. r \in Seq(ItemOf(S)) /\ Len(r) = Len(left) /\ r[1] = x
    BY <1>9, <2>1, FirstChanged
  <2>3. \A T : \A s \in Seq(T) : \A y \in T : s # <<>> =>
          \A j \in 2 .. Len(s) : FirstIs(y, s)[j] = s[j]
    BY FirstChanged
  <2>4. \A j \in 2 .. Len(left) : FirstIs(x, left)[j] = left[j]
    BY <1>9, <2>1, <2>3, Zenon
  <2> QED  BY <2>1, <2>2, <2>4
<1>11. ASSUME NEW j \in 2 .. Len(r)  PROVE r[j] = q[k + j]
  <2>1. j \in 1 .. Len(q) - k /\ j \in 2 .. Len(left)
    BY <1>1, <1>2, <1>10
  <2> QED  BY <1>2, <1>10, <2>1
<1> QED  BY <1>2, <1>4, <1>7, <1>8, <1>10, <1>11 DEF k, m, b, r, x

\* The bytes up to an item, and up to the next.
LEMMA BytesAt ==
  ASSUME NEW S, NEW q \in Seq(ItemOf(S)), NEW k \in 0 .. Len(q)
  PROVE  /\ BytesUpTo(q)[k] \in Seq(S)
         /\ k < Len(q) => BytesUpTo(q)[k + 1] = Cat(BytesUpTo(q)[k], q[k + 1].bytes)
<1>1. /\ BytesUpTo(q) \in [0 .. Len(q) -> Seq(S)]
      /\ \A j \in 1 .. Len(q) : BytesUpTo(q)[j] = BytesUpTo(q)[j - 1] \o q[j].bytes
  BY BytesUpToAre
<1>2. Len(q) \in Nat
  BY LenProperties
<1>3. ASSUME k < Len(q)  PROVE BytesUpTo(q)[k + 1] = Cat(BytesUpTo(q)[k], q[k + 1].bytes)
  <2>1. k + 1 \in 1 .. Len(q) /\ (k + 1) - 1 = k
    BY <1>2, <1>3
  <2> QED  BY <1>1, <2>1 DEF Cat
<1>4. BytesUpTo(q)[k] \in Seq(S)
  BY <1>1
<1> QED  BY <1>3, <1>4

\* What was written and what is left are the bytes that were there.
LEMMA BytesLeft ==
  ASSUME NEW S, NEW q \in Seq(ItemOf(S)), NEW n \in 0 .. Len(AllBytes(q)),
         DoneItems(q, n) < Len(q)
  PROVE  \A j \in 1 .. Len(Unwritten(q, n)) :
           BytesUpTo(q)[DoneItems(q, n) + j]
             = Cat(First(AllBytes(q), n), BytesUpTo(Unwritten(q, n))[j])
<1> DEFINE k == DoneItems(q, n)  m == n - Cost(q, k)  b == q[k + 1].bytes
           r == Unwritten(q, n)  W == First(AllBytes(q), n)  B == BytesUpTo(q)
           R == BytesUpTo(r)
<1>1. /\ m \in 0 .. Len(b) /\ Rest(b, m) # <<>> /\ b \in Seq(S)
      /\ r \in Seq(ItemOf(S)) /\ Len(r) = Len(q) - k /\ r[1] = DataItem(Rest(b, m))
      /\ \A j \in 2 .. Len(r) : r[j] = q[k + j]
  BY UnwrittenIs
<1>2. AllBytes(q) \in Seq(S) /\ Len(AllBytes(q)) \in Nat /\ Len(q) \in Nat /\ n \in Nat
  <2>1. AllBytes(q) \in Seq(S) /\ Len(AllBytes(q)) \in Nat /\ Len(q) \in Nat
    BY AllBytesIs, LenProperties
  <2> QED  BY <2>1
<1>3. k \in 0 .. Len(q) /\ k < Len(q) /\ Cost(q, k) \in Nat /\ k \in Nat
  <2>1. k \in 0 .. Len(q) /\ \A j \in 0 .. Len(q) : Cost(q, j) \in Nat
    BY <1>2, ItemsDone
  <2> QED  BY <1>2, <2>1
<1>4. Cost(q, k) = Len(B[k])
  BY DEF Cost
<1>5. B[k] \in Seq(S) /\ B[k + 1] = Cat(B[k], b)
  BY <1>3, BytesAt
<1>6. k + 1 \in 0 .. Len(q) /\ Len(q) \in k + 1 .. Len(q) /\ n = Cost(q, k) + m
  BY <1>1, <1>2, <1>3
<1>7. AllBytes(q) = B[Len(q)]
  BY DEF AllBytes
<1> HIDE DEF k, m, b, r, W, B, R
<1>8. PICK z \in Seq(S) : B[Len(q)] = Cat(B[k + 1], z)
  BY <1>6, BytesBegin DEF B
<1>9. W = Cat(B[k], First(b, m))
  <2>1. B[k + 1] \in Seq(S)
    BY <1>1, <1>5, CatIs
  <2>2. Len(B[k + 1]) = Len(B[k]) + Len(b)
    BY <1>1, <1>5, CatIs
  <2>3. n \in 0 .. Len(B[k + 1])
    <3>1. Len(b) \in Nat /\ m \in Nat /\ m <= Len(b)
      <4>1. Len(b) \in Nat
        BY <1>1, LenProperties
      <4> QED  BY <1>1, <4>1
    <3> QED  BY <1>2, <1>3, <1>4, <1>6, <2>2, <3>1
  <2>4. First(Cat(B[k + 1], z), n) = First(B[k + 1], n)
    BY <2>1, <2>3, FirstOfFirst
  <2>5. First(Cat(B[k], b), Len(B[k]) + m) = Cat(B[k], First(b, m))
    BY <1>1, <1>5, FirstOfTwo
  <2>6. W = First(B[k + 1], n)
    BY <1>7, <1>8, <2>4 DEF W
  <2> QED  BY <1>4, <1>5, <1>6, <2>5, <2>6
<1>10. R[1] = Rest(b, m) /\ Rest(b, m) \in Seq(S) /\ First(b, m) \in Seq(S)
       /\ Cat(First(b, m), Rest(b, m)) = b
  <2>1. Rest(b, m) \in Seq(S) /\ First(b, m) \in Seq(S) /\ Cat(First(b, m), Rest(b, m)) = b
    BY <1>1, CatSplit
  <2>2. 0 \in 0 .. Len(r) /\ 0 < Len(r)
    BY <1>1, <1>2, <1>3
  <2>3. R[0 + 1] = Cat(R[0], r[0 + 1].bytes) /\ R[0] = <<>>
    BY <1>1, <2>2, BytesAt, BytesUpToAre DEF R
  <2>4. r[1].bytes = Rest(b, m)
    BY <1>1 DEF DataItem
  <2>5. Cat(<<>>, Rest(b, m)) = Rest(b, m)
    BY <2>1, CatNone
  <2> QED  BY <2>1, <2>3, <2>4, <2>5
<1>11. B[k + 1] = Cat(W, R[1]) /\ W \in Seq(S)
  <2>1. Cat(Cat(B[k], First(b, m)), Rest(b, m)) = Cat(B[k], Cat(First(b, m), Rest(b, m)))
    BY <1>5, <1>10, CatThree
  <2>2. W \in Seq(S)
    BY <1>5, <1>9, <1>10, CatIs
  <2> QED  BY <1>5, <1>9, <1>10, <2>1, <2>2
<1>12. \A i \in k + 1 .. Len(q) : B[i] = Cat(W, R[i - k])
  <2> DEFINE a == k + 1
  <2>1. /\ k <= a /\ a <= Len(q) /\ Len(q) - k <= Len(r) /\ a \in Nat /\ a - k = 1
    BY <1>1, <1>2, <1>3
  <2>2. SameItems(q, r, k, a, Len(q))
    <3>1. ASSUME NEW i \in a + 1 .. Len(q)  PROVE r[i - k] = q[i]
      <4>1. i - k \in 2 .. Len(r) /\ k + (i - k) = i
        BY <1>1, <1>2, <1>3
      <4> QED  BY <1>1, <4>1
    <3> HIDE DEF a
    <3> QED  BY <1>2, <2>1, <3>1 DEF SameItems
  <2>3. Shifted(q, r, W, k, a)
    BY <1>11, <2>1 DEF Shifted, Cat, B, R
  <2> HIDE DEF a
  <2>4. \A i \in a .. Len(q) : Shifted(q, r, W, k, i)
    BY <1>1, <1>2, <1>3, <1>11, <2>1, <2>2, <2>3, BytesShift
  <2> QED  BY <2>4 DEF a, B, R, Cat, Shifted
<1>13. ASSUME NEW j \in 1 .. Len(r)  PROVE B[k + j] = Cat(W, R[j])
  <2>1. k + j \in k + 1 .. Len(q) /\ (k + j) - k = j
    BY <1>1, <1>2, <1>3
  <2> QED  BY <1>12, <2>1
<1> QED  BY <1>13 DEF k, r, W, B, R

\* Both cases together: all items are done, or one is left in part.
LEMMA UnwrittenAre ==
  ASSUME NEW S, NEW q \in Seq(ItemOf(S)), NEW n \in 0 .. Len(AllBytes(q))
  PROVE  LET k == DoneItems(q, n)
             r == Unwritten(q, n)
             W == First(AllBytes(q), n)
         IN /\ k \in 0 .. Len(q) /\ r \in Seq(ItemOf(S)) /\ Len(r) = Len(q) - k /\ W \in Seq(S)
            /\ Begins(r)
            /\ \A j \in 2 .. Len(r) : r[j] = q[k + j]
            /\ \A j \in 1 .. Len(r) : BytesUpTo(q)[k + j] = Cat(W, BytesUpTo(r)[j])
            /\ AllBytes(q) = Cat(W, AllBytes(r))
            /\ \A j \in 0 .. k : ToSet(BytesUpTo(q)[j]) \subseteq ToSet(W)
<1> DEFINE k == DoneItems(q, n)  r == Unwritten(q, n)  W == First(AllBytes(q), n)
<1>1. AllBytes(q) \in Seq(S) /\ Len(AllBytes(q)) \in Nat /\ Len(q) \in Nat /\ n \in Nat
  <2>1. AllBytes(q) \in Seq(S) /\ Len(AllBytes(q)) \in Nat /\ Len(q) \in Nat
    BY AllBytesIs, LenProperties
  <2> QED  BY <2>1
<1>2. /\ k \in 0 .. Len(q) /\ Cost(q, k) <= n /\ k \in Nat
      /\ \A j \in 0 .. Len(q) : Cost(q, j) \in Nat
  <2>1. /\ k \in 0 .. Len(q) /\ Cost(q, k) <= n
        /\ \A j \in 0 .. Len(q) : Cost(q, j) \in Nat
    BY <1>1, ItemsDone
  <2> QED  BY <1>1, <2>1
<1>3. W \in Seq(S)
  BY <1>1, CatSplit
<1>4. ASSUME NEW j \in 0 .. k  PROVE ToSet(BytesUpTo(q)[j]) \subseteq ToSet(W)
  <2> DEFINE B == BytesUpTo(q)
  <2>1. j \in 0 .. Len(q) /\ k \in j .. Len(q) /\ Len(q) \in k .. Len(q)
    BY <1>1, <1>2
  <2> HIDE DEF k
  <2>2. B[j] \in Seq(S) /\ B[k] \in Seq(S) /\ Len(B[k]) = Cost(q, k) /\ AllBytes(q) = B[Len(q)]
    BY <1>2, <2>1, BytesAt DEF Cost, AllBytes
  <2>3. PICK x \in Seq(S) : B[k] = Cat(B[j], x)
    BY <2>1, BytesBegin
  <2>4. PICK y \in Seq(S) : B[Len(q)] = Cat(B[k], y)
    BY <1>2, <2>1, BytesBegin
  <2> HIDE DEF B
  <2>5. PICK i \in 0 .. Len(y) : n = Len(B[k]) + i
    <3>1. Len(B[Len(q)]) = Len(B[k]) + Len(y)
      BY <2>2, <2>4, CatIs
    <3>2. Len(y) \in Nat /\ Len(B[k]) \in Nat
      BY <2>2, LenProperties
    <3>3. n - Len(B[k]) \in 0 .. Len(y) /\ n = Len(B[k]) + (n - Len(B[k]))
      BY <1>1, <1>2, <2>2, <3>1, <3>2
    <3> QED  BY <3>3
  <2>6. W = Cat(B[k], First(y, i))
    <3>1. First(Cat(B[k], y), Len(B[k]) + i) = Cat(B[k], First(y, i))
      BY <2>2, FirstOfTwo
    <3> QED  BY <2>2, <2>4, <2>5, <3>1
  <2>7. First(y, i) \in Seq(S)
    BY CatSplit
  <2>8. ToSet(B[j]) \subseteq ToSet(B[k])
    BY <2>2, <2>3, CatIs
  <2>9. ToSet(B[k]) \subseteq ToSet(W)
    BY <2>2, <2>6, <2>7, CatIs
  <2> QED  BY <2>8, <2>9 DEF B
<1>5. CASE k = Len(q)
  <2>1. Rest(q, k) = <<>>
    BY <1>2, <1>5, CatSplit
  <2>2. r = <<>>
    BY <2>1 DEF Unwritten
  <2>3. r \in Seq(ItemOf(S)) /\ Len(r) = 0
    BY <2>2, EmptySeq
  <2>4. W = AllBytes(q)
    <3>1. Cost(q, Len(q)) = Len(AllBytes(q))
      BY DEF Cost, AllBytes
    <3>2. n = Len(AllBytes(q))
      BY <1>1, <1>2, <1>5, <3>1
    <3>3. Rest(AllBytes(q), n) = <<>> /\ Cat(W, Rest(AllBytes(q), n)) = AllBytes(q)
      BY <1>1, <3>2, CatSplit
    <3> QED  BY <1>3, <3>3, CatNone
  <2>5. AllBytes(r) = <<>> /\ Cat(W, <<>>) = W
    BY <1>3, <2>2, AllBytesIs, CatNone
  <2>6. \A j \in 1 .. Len(r) : FALSE
    BY <2>3
  <2>7. \A j \in 2 .. Len(r) : FALSE
    BY <2>3
  <2> HIDE DEF k, r, W
  <2> QED  BY <1>1, <1>2, <1>3, <1>4, <1>5, <2>2, <2>3, <2>4, <2>5, <2>6, <2>7
           DEF Begins, k, r, W
<1>6. CASE k # Len(q)
  <2>1. k < Len(q)
    BY <1>1, <1>2, <1>6
  <2> DEFINE b == q[k + 1].bytes  m == n - Cost(q, k)
  <2>2. /\ Rest(b, m) # <<>>
        /\ r \in Seq(ItemOf(S)) /\ Len(r) = Len(q) - k /\ r[1] = DataItem(Rest(b, m))
        /\ \A j \in 2 .. Len(r) : r[j] = q[k + j]
    BY <2>1, UnwrittenIs
  <2>3. \A j \in 1 .. Len(r) : BytesUpTo(q)[k + j] = Cat(W, BytesUpTo(r)[j])
    BY <2>1, BytesLeft
  <2>4. Begins(r)
    BY <2>2 DEF Begins, DataItem
  <2>5. AllBytes(q) = Cat(W, AllBytes(r))
    <3>1. Len(r) \in 1 .. Len(r) /\ k + Len(r) = Len(q)
      BY <1>1, <1>2, <2>1, <2>2
    <3> QED  BY <2>3, <3>1 DEF AllBytes
  <2> HIDE DEF k, r, W, b, m
  <2> QED  BY <1>2, <1>3, <1>4, <2>2, <2>3, <2>4, <2>5 DEF k, r, W
<1> QED  BY <1>5, <1>6

-----------------------------------------------------------------------------
(* The outcomes of a write event.                                          *)

\* handle_std_write_event cannot write, or writes so many bytes and deals with so many items.
Failing(p) == broken[p] \/ p \notin hasFd
ToWrite(p, c) == IF Failing(p) THEN 0 ELSE Taken(c, Len(AllBytes(c.queue)))
Done(p, c) == DoneItems(c.queue, ToWrite(p, c))
Wrote(p, c) == First(AllBytes(c.queue), ToWrite(p, c))

\* What every outcome has in common.
HandledAs(p, c, e) ==
  /\ e.sent = Cat(c.sent, Wrote(p, c)) /\ e.room = c.room - ToWrite(p, c)
  /\ e.buf = c.buf /\ e.lim = c.lim /\ e.count = c.count
  /\ e.woken = Threads(First(c.queue, Done(p, c)))

AllWritten(p, c, e) ==
  /\ Rest(c.queue, Done(p, c)) = <<>> /\ e.queue = <<>> /\ e.event = FALSE
  /\ e.failed = c.failed /\ e.discarded = c.discarded

ErrorKept(p, c, e) ==
  /\ Failing(p) /\ p \in HasErrorProc /\ e.queue = Rest(c.queue, Done(p, c)) /\ e.event = FALSE
  /\ e.failed = c.failed /\ e.discarded = c.discarded

ErrorTold(p, c, e) ==
  /\ Failing(p) /\ p \notin HasErrorProc /\ e.queue = <<>> /\ e.event = FALSE
  /\ e.failed = Threads(Rest(c.queue, Done(p, c)))
  /\ e.discarded = c.discarded \cup ToSet(AllBytes(Rest(c.queue, Done(p, c))))

SomeLeft(p, c, e) ==
  /\ ~Failing(p) /\ Rest(c.queue, Done(p, c)) # <<>>
  /\ e.queue = Unwritten(c.queue, ToWrite(p, c))
  /\ e.event = c.event /\ e.failed = c.failed /\ e.discarded = c.discarded

\* The cursor when some bytes have been written and some threads woken.
Written(p, c) ==
  [AfterWrite(c, AllBytes(c.queue), ToWrite(p, c)) EXCEPT
     !.woken = Threads(First(c.queue, Done(p, c)))]

Outcome(p, c, q, v, f, g) ==
  [Written(p, c) EXCEPT !.queue = q, !.event = v, !.failed = f, !.discarded = g]

\* A record with the fields of a cursor.
Fields(e) ==
  [buf |-> e.buf, lim |-> e.lim, queue |-> e.queue, event |-> e.event, room |-> e.room,
   count |-> e.count, sent |-> e.sent, woken |-> e.woken, failed |-> e.failed,
   discarded |-> e.discarded]

\* The fields of an outcome.
LEMMA OutcomeIs ==
  ASSUME NEW n \in Nat, NEW c \in Cursors(n), NEW p \in Port, NEW q, NEW v, NEW f, NEW g
  PROVE  /\ HandledAs(p, c, Outcome(p, c, q, v, f, g))
         /\ Outcome(p, c, q, v, f, g).queue = q /\ Outcome(p, c, q, v, f, g).event = v
         /\ Outcome(p, c, q, v, f, g).failed = f /\ Outcome(p, c, q, v, f, g).discarded = g
         /\ Outcome(p, c, q, v, f, g) = Fields(Outcome(p, c, q, v, f, g))
<1> DEFINE s == Cat(c.sent, Wrote(p, c))  r == c.room - ToWrite(p, c)
           w == Threads(First(c.queue, Done(p, c)))  e == Outcome(p, c, q, v, f, g)
<1>1. Written(p, c) = [c EXCEPT !.sent = s, !.room = r, !.woken = w]
  BY DEF Written, AfterWrite, Cat, Wrote, First, Cursors
<1> HIDE DEF s, r, w
<1>2. e = [c EXCEPT !.sent = s, !.room = r, !.woken = w, !.queue = q, !.event = v,
                    !.failed = f, !.discarded = g]
  BY <1>1 DEF Cursors, Outcome
<1>3. e = [buf |-> c.buf, lim |-> c.lim, queue |-> q, event |-> v, room |-> r,
           count |-> c.count, sent |-> s, woken |-> w, failed |-> f, discarded |-> g]
  BY <1>2 DEF Cursors
<1> HIDE DEF e
<1>4. /\ e.buf = c.buf /\ e.lim = c.lim /\ e.queue = q /\ e.event = v /\ e.room = r
      /\ e.count = c.count /\ e.sent = s /\ e.woken = w /\ e.failed = f /\ e.discarded = g
  BY <1>3
<1>5. e = Fields(e)
  BY <1>3, <1>4 DEF Fields
<1>6. HandledAs(p, c, e)
  BY <1>4 DEF HandledAs, s, r, w
<1> QED  BY <1>4, <1>5, <1>6 DEF e

\* handle_std_write_event does one of four things.
LEMMA EventHandled ==
  ASSUME NEW n \in Nat, NEW c \in Cursors(n), NEW p \in Port
  PROVE  LET e == handle_std_write_event(p, c)
         IN /\ HandledAs(p, c, e)
            /\ AllWritten(p, c, e) \/ ErrorKept(p, c, e) \/ ErrorTold(p, c, e) \/ SomeLeft(p, c, e)
            /\ e = Fields(e)
<1> DEFINE e == handle_std_write_event(p, c)  d == Written(p, c)
           left == Rest(c.queue, Done(p, c))  k == ToWrite(p, c)  q == Unwritten(c.queue, k)
<1>1. /\ left = <<>> => e = [d EXCEPT !.queue = <<>>, !.event = FALSE]
      /\ left # <<>> /\ Failing(p) => e = WriteError(p, [d EXCEPT !.queue = left])
      /\ left # <<>> /\ ~Failing(p) => e = [d EXCEPT !.queue = q]
  BY DEF handle_std_write_event, Written, Done, ToWrite, Failing, First, Unwritten, FirstIs
<1>2. /\ d = [d EXCEPT !.queue = c.queue, !.event = c.event, !.failed = c.failed,
                       !.discarded = c.discarded]
      /\ DOMAIN d = {"buf", "lim", "queue", "event", "room", "count", "sent", "woken",
                     "failed", "discarded"}
      /\ d.queue = c.queue /\ d.event = c.event /\ d.failed = c.failed
      /\ d.discarded = c.discarded
  <2> DEFINE s == c.sent \o SubSeq(AllBytes(c.queue), 1, ToWrite(p, c))
             r == c.room - ToWrite(p, c)  w == Threads(First(c.queue, Done(p, c)))
  <2>1. d = [c EXCEPT !.sent = s, !.room = r, !.woken = w]
    BY DEF Written, AfterWrite, Cursors
  <2> HIDE DEF s, r, w, d
  <2> QED  BY <2>1 DEF Cursors
<1> HIDE DEF e, d, left, k, q
<1> DEFINE off == FALSE
<1> HIDE DEF off
<1>3. CASE left = <<>>
  <2>1. e = Outcome(p, c, <<>>, off, c.failed, c.discarded)
    BY <1>1, <1>2, <1>3 DEF Outcome, d, off
  <2>2. /\ HandledAs(p, c, e) /\ e.queue = <<>> /\ e.event = off /\ e.failed = c.failed
        /\ e.discarded = c.discarded
    BY <2>1, OutcomeIs
  <2>3. AllWritten(p, c, e)
    BY <1>3, <2>2 DEF AllWritten, left, off
  <2>4. e = Fields(e)
    BY <2>1, OutcomeIs
  <2> QED  BY <2>2, <2>3, <2>4 DEF e
<1>4. CASE left # <<>> /\ Failing(p) /\ p \in HasErrorProc
  <2>1. e = Outcome(p, c, left, off, c.failed, c.discarded)
    <3>1. e = [[d EXCEPT !.queue = left] EXCEPT !.event = FALSE]
      BY <1>1, <1>4 DEF WriteError
    <3> QED  BY <1>2, <3>1 DEF Outcome, d, off
  <2>2. /\ HandledAs(p, c, e) /\ e.queue = left /\ e.event = off /\ e.failed = c.failed
        /\ e.discarded = c.discarded
    BY <2>1, OutcomeIs
  <2>3. ErrorKept(p, c, e)
    BY <1>4, <2>2 DEF ErrorKept, left, off
  <2>4. e = Fields(e)
    BY <2>1, OutcomeIs
  <2> QED  BY <2>2, <2>3, <2>4 DEF e
<1>5. CASE left # <<>> /\ Failing(p) /\ p \notin HasErrorProc
  <2> DEFINE gone == c.discarded \cup ToSet(AllBytes(left))  told == Threads(left)
  <2>1. e = Outcome(p, c, <<>>, off, told, gone)
    <3> DEFINE dd == [d EXCEPT !.queue = left]
    <3>1. dd.queue = left /\ dd.discarded = c.discarded
      BY <1>2
    <3>2. e = [dd EXCEPT !.event = FALSE, !.queue = <<>>, !.failed = Threads(dd.queue),
                         !.discarded = @ \cup ToSet(AllBytes(dd.queue))]
      BY <1>1, <1>5 DEF WriteError
    <3>3. e = [dd EXCEPT !.event = FALSE, !.queue = <<>>, !.failed = told,
                         !.discarded = gone]
      <4> HIDE DEF dd
      <4> QED  BY <3>1, <3>2
    <3> HIDE DEF told, gone
    <3> QED  BY <1>2, <3>3 DEF Outcome, d, off
  <2>2. /\ HandledAs(p, c, e) /\ e.queue = <<>> /\ e.event = off /\ e.failed = told
        /\ e.discarded = gone
    BY <2>1, OutcomeIs
  <2>3. ErrorTold(p, c, e)
    BY <1>5, <2>2 DEF ErrorTold, left, off
  <2>4. e = Fields(e)
    BY <2>1, OutcomeIs
  <2> QED  BY <2>2, <2>3, <2>4 DEF e
<1>6. CASE left # <<>> /\ ~Failing(p)
  <2>1. e = Outcome(p, c, q, c.event, c.failed, c.discarded)
    BY <1>1, <1>2, <1>6 DEF Outcome, d, off
  <2>2. /\ HandledAs(p, c, e) /\ e.queue = q /\ e.event = c.event /\ e.failed = c.failed
        /\ e.discarded = c.discarded
    BY <2>1, OutcomeIs
  <2>3. SomeLeft(p, c, e)
    BY <1>6, <2>2 DEF SomeLeft, left, q, k
  <2>4. e = Fields(e)
    BY <2>1, OutcomeIs
  <2> QED  BY <2>2, <2>3, <2>4 DEF e
<1> QED  BY <1>3, <1>4, <1>5, <1>6

\* Of a queue, what lies behind the first k items is left, but for data.
Remains(q, r, k) ==
  Len(r) = Len(q) - k /\ \A j \in 1 .. Len(r) : r[j].kind = "data" \/ r[j] = q[k + j]

\* Threads are found in queues.
LEMMA ThreadsAre == \A q : Threads(q) \subseteq Thread
  BY DEF Threads

\* A write event writes what the descriptor takes, and deals with items that exist.
LEMMA WriteBounds ==
  ASSUME NEW n \in Nat, NEW c \in Cursors(n), NEW p \in Port
  PROVE  /\ c.queue \in Seq(ItemOf(Bytes(n))) /\ AllBytes(c.queue) \in Seq(Bytes(n))
         /\ c.sent \in Seq(Bytes(n)) /\ Len(AllBytes(c.queue)) \in Nat /\ c.room \in Nat
         /\ ToWrite(p, c) \in 0 .. Len(AllBytes(c.queue)) /\ ToWrite(p, c) \in Nat
         /\ ToWrite(p, c) <= c.room
         /\ Done(p, c) \in 0 .. Len(c.queue)
         /\ Wrote(p, c) \in Seq(Bytes(n)) /\ Cat(c.sent, Wrote(p, c)) \in Seq(Bytes(n))
<1>1. /\ c.queue \in Seq(ItemOf(Bytes(n))) /\ c.sent \in Seq(Bytes(n)) /\ c.room \in Nat
  BY OutputAssumption DEF Cursors
<1>2. AllBytes(c.queue) \in Seq(Bytes(n)) /\ Len(AllBytes(c.queue)) \in Nat
  BY <1>1, AllBytesIs, LenProperties
<1>3. /\ ToWrite(p, c) \in 0 .. Len(AllBytes(c.queue)) /\ ToWrite(p, c) \in Nat
      /\ ToWrite(p, c) <= c.room
  BY <1>1, <1>2 DEF ToWrite, Taken
<1>4. Done(p, c) \in 0 .. Len(c.queue)
  BY <1>1, <1>3, ItemsDone DEF Done
<1>5. Wrote(p, c) \in Seq(Bytes(n))
  BY <1>2, <1>3, CatSplit DEF Wrote
<1>6. Cat(c.sent, Wrote(p, c)) \in Seq(Bytes(n))
  BY <1>1, <1>5, CatIs
<1> QED  BY <1>1, <1>2, <1>3, <1>4, <1>5, <1>6

\* What remains when whole items are done ...
LEMMA RestRemains ==
  ASSUME NEW S, NEW q \in Seq(S), NEW k \in 0 .. Len(q)
  PROVE  Remains(q, Rest(q, k), k)
<1>1. Len(Rest(q, k)) = Len(q) - k
  BY SplitAt
<1>2. \A i \in 1 .. Len(q) - k : Rest(q, k)[i] = q[k + i]
  BY SplitAt
<1> QED  BY <1>1, <1>2 DEF Remains

\* ... and when one is done in part.
LEMMA UnwrittenRemains ==
  ASSUME NEW S, NEW q \in Seq(ItemOf(S)), NEW n \in 0 .. Len(AllBytes(q))
  PROVE  Remains(q, Unwritten(q, n), DoneItems(q, n)) /\ Unwritten(q, n) \in Seq(ItemOf(S))
<1> DEFINE r == Unwritten(q, n)  k == DoneItems(q, n)
<1>1. /\ r \in Seq(ItemOf(S)) /\ Len(r) = Len(q) - k /\ Begins(r)
      /\ \A j \in 2 .. Len(r) : r[j] = q[k + j]
  BY UnwrittenAre
<1> HIDE DEF r, k
<1>2. ASSUME NEW j \in 1 .. Len(r)  PROVE r[j].kind = "data" \/ r[j] = q[k + j]
  <2>1. CASE j = 1
    <3>1. r # <<>>
      <4>1. Len(r) # 0
        BY <2>1
      <4> QED  BY <4>1, EmptySeq
    <3> QED  BY <1>1, <2>1, <3>1 DEF Begins
  <2>2. CASE j # 1
    <3>1. j \in 2 .. Len(r)
      BY <2>2
    <3> QED  BY <1>1, <3>1
  <2> QED  BY <2>1, <2>2
<1> QED  BY <1>1, <1>2 DEF Remains, r, k

\* What a poll does to the queue of a port.
LEMMA QueueHandled ==
  ASSUME NEW n \in Nat, NEW c \in Cursors(n), NEW p \in Port, c.failed = {},
         NEW e, e = handle_std_write_event(p, c)
  PROVE  /\ e \in Cursors(n) /\ e.count = c.count /\ c.discarded \subseteq e.discarded
         /\ ToSet(c.sent) \subseteq ToSet(e.sent)
         /\ e.woken = Threads(First(c.queue, Done(p, c)))
         /\ \/ e.queue = <<>> /\ e.failed \subseteq Threads(Rest(c.queue, Done(p, c)))
            \/ Remains(c.queue, e.queue, Done(p, c)) /\ e.failed = {}
<1> DEFINE k == Done(p, c)  m == ToWrite(p, c)  q == c.queue  left == Rest(q, k)
<1>1. /\ q \in Seq(ItemOf(Bytes(n))) /\ AllBytes(q) \in Seq(Bytes(n))
      /\ c.sent \in Seq(Bytes(n)) /\ c.room \in Nat /\ m \in 0 .. Len(AllBytes(q))
      /\ m \in Nat /\ m <= c.room /\ k \in 0 .. Len(q) /\ Wrote(p, c) \in Seq(Bytes(n))
      /\ Cat(c.sent, Wrote(p, c)) \in Seq(Bytes(n))
  BY WriteBounds
<1>2. /\ HandledAs(p, c, e) /\ e = Fields(e)
      /\ AllWritten(p, c, e) \/ ErrorKept(p, c, e) \/ ErrorTold(p, c, e) \/ SomeLeft(p, c, e)
  BY EventHandled
<1> HIDE DEF k, m, q, left
<1>3. ToSet(c.sent) \subseteq ToSet(e.sent)
  <2>1. ToSet(c.sent) \subseteq ToSet(Cat(c.sent, Wrote(p, c)))
    BY <1>1, CatIs
  <2> QED  BY <1>2, <2>1 DEF HandledAs
<1>4. left \in Seq(ItemOf(Bytes(n))) /\ AllBytes(left) \in Seq(Bytes(n))
  <2>1. left \in Seq(ItemOf(Bytes(n)))
    BY <1>1, CatSplit DEF left
  <2> QED  BY <2>1, AllBytesIs
<1>5. ToSet(AllBytes(left)) \subseteq Bytes(n)
  <2>1. \A i \in 1 .. Len(AllBytes(left)) : AllBytes(left)[i] \in Bytes(n)
    BY <1>4, ElementOfSeq
  <2>2. DOMAIN AllBytes(left) = 1 .. Len(AllBytes(left))
    BY <1>4, LenProperties
  <2> QED  BY <2>1, <2>2 DEF ToSet
<1>6. /\ c.buf \in {Closed} \cup Seq(Bytes(n)) /\ c.lim \in {BlockSize - 1, BlockSize}
      /\ c.event \in BOOLEAN /\ c.room \in 0 .. Room /\ c.count \in 0 .. n
      /\ c.discarded \in SUBSET Bytes(n) /\ c.failed \in SUBSET Thread
  BY DEF Cursors
<1>7. <<>> \in Seq(ItemOf(Bytes(n)))
  BY EmptySeq
<1>8. c.room - m \in 0 .. Room
  BY <1>1, <1>6, OutputAssumption, SMTT(30)
<1>9. /\ e.queue \in Seq(ItemOf(Bytes(n))) /\ e.event \in BOOLEAN
      /\ e.failed \in SUBSET Thread /\ e.discarded \in SUBSET Bytes(n)
      /\ c.discarded \subseteq e.discarded
      /\ \/ e.queue = <<>> /\ e.failed \subseteq Threads(left)
         \/ Remains(q, e.queue, k) /\ e.failed = {}
  <2>1. CASE AllWritten(p, c, e)
    BY <1>6, <1>7, <2>1 DEF AllWritten
  <2>2. CASE ErrorKept(p, c, e)
    <3>1. e.queue = left /\ e.event = FALSE /\ e.failed = c.failed /\ e.discarded = c.discarded
      BY <1>2, <2>2, EventHandled DEF ErrorKept, left, q, k
    <3>2. Remains(q, left, k)
      BY <1>1, RestRemains DEF left
    <3> QED  BY <1>4, <1>6, <3>1, <3>2
  <2>3. CASE ErrorTold(p, c, e)
    <3>1. /\ e.queue = <<>> /\ e.failed = Threads(left)
          /\ e.discarded = c.discarded \cup ToSet(AllBytes(left)) /\ e.event = FALSE
      BY <2>3 DEF ErrorTold, left, q, k
    <3> QED  BY <1>5, <1>6, <1>7, <2>3, <3>1, ThreadsAre DEF ErrorTold
  <2>4. CASE SomeLeft(p, c, e)
    <3>1. e.queue = Unwritten(q, m) /\ e.event = c.event /\ e.failed = c.failed
          /\ e.discarded = c.discarded
      BY <2>4 DEF SomeLeft, q, m
    <3>2. Remains(q, e.queue, k) /\ e.queue \in Seq(ItemOf(Bytes(n)))
      BY <1>1, <3>1, UnwrittenRemains DEF k, q, m, Done
    <3> QED  BY <1>6, <3>1, <3>2
  <2> QED  BY <1>2, <2>1, <2>2, <2>3, <2>4
<1>10. e \in Cursors(n)
  <2>1. /\ e.buf = c.buf /\ e.lim = c.lim /\ e.count = c.count /\ e.room = c.room - m
        /\ e.sent = Cat(c.sent, Wrote(p, c)) /\ e.woken \in SUBSET Thread
    BY <1>2, ThreadsAre DEF HandledAs, m
  <2> QED  BY <1>1, <1>2, <1>6, <1>8, <1>9, <2>1 DEF Fields, Cursors
<1> QED  BY <1>2, <1>3, <1>9, <1>10 DEF HandledAs, k, q, left

-----------------------------------------------------------------------------
(* The threads that wait in the queue of a port.                           *)

\* No thread waits twice in a queue.
Once(q) == \A i, j \in 1 .. Len(q) : q[i].kind = "thread" /\ q[i] = q[j] => i = j

\* Who is in a queue has an item there.
LEMMA ThreadsIn ==
  ASSUME NEW S, NEW q \in Seq(ItemOf(S)), NEW t
  PROVE  t \in Threads(q) <=> t \in Thread /\ \E i \in 1 .. Len(q) : q[i] = ThreadItem(t)
<1>1. DOMAIN q = 1 .. Len(q)
  BY LenProperties
<1> QED  BY <1>1 DEF Threads, ToSet

\* An item of a thread is no data.
LEMMA ThreadKind ==
  ASSUME NEW S, NEW x \in ItemOf(S), NEW t \in Thread
  PROVE  x = ThreadItem(t) => x.kind = "thread" /\ x.kind # "data" /\ x.thread = t
  BY DEF ThreadItem

\* Who was woken is no longer in what remains of the queue.
LEMMA ThreadsRemain ==
  ASSUME NEW S, NEW q \in Seq(ItemOf(S)), NEW r \in Seq(ItemOf(S)), NEW k \in 0 .. Len(q),
         Remains(q, r, k), Once(q)
  PROVE  /\ Threads(r) \subseteq Threads(q) /\ Once(r)
         /\ Threads(r) \cap Threads(First(q, k)) = {}
<1>1. Len(q) \in Nat /\ Len(r) = Len(q) - k /\ k \in Nat
  <2>1. Len(q) \in Nat
    BY LenProperties
  <2> QED  BY <2>1 DEF Remains
<1>2. ASSUME NEW j \in 1 .. Len(r), r[j].kind = "thread"
      PROVE  k + j \in 1 .. Len(q) /\ k + j > k /\ r[j] = q[k + j]
  BY <1>1, <1>2 DEF Remains
<1>3. ASSUME NEW t \in Threads(r)  PROVE t \in Threads(q) /\ t \notin Threads(First(q, k))
  <2>1. PICK j \in 1 .. Len(r) : r[j] = ThreadItem(t)
    BY ThreadsIn
  <2>2. t \in Thread /\ r[j].kind = "thread"
    BY <2>1, ElementOfSeq, ThreadKind, ThreadsAre
  <2>3. k + j \in 1 .. Len(q) /\ k + j > k /\ q[k + j] = ThreadItem(t)
    BY <1>2, <2>1, <2>2
  <2>4. t \in Threads(q)
    BY <2>2, <2>3, ThreadsIn
  <2>5. ASSUME t \in Threads(First(q, k))  PROVE FALSE
    <3> DEFINE f == First(q, k)
    <3>1. f \in Seq(ItemOf(S)) /\ Len(f) = k
      BY CatSplit
    <3>2. \A i \in 1 .. k : f[i] = q[i]
      BY SplitAt DEF First
    <3> HIDE DEF f
    <3>3. PICK i \in 1 .. Len(f) : f[i] = ThreadItem(t)
      BY <2>5, <3>1, ThreadsIn DEF f
    <3>4. i \in 1 .. Len(q) /\ q[i] = ThreadItem(t) /\ i <= k
      BY <1>1, <3>1, <3>2, <3>3
    <3>5. q[i].kind = "thread"
      BY <2>1, <2>2, <3>4
    <3>6. i = k + j
      BY <2>3, <3>4, <3>5 DEF Once
    <3> QED  BY <1>1, <2>3, <3>4, <3>6
  <2> QED  BY <2>4, <2>5
<1>4. Once(r)
  <2>1. ASSUME NEW i \in 1 .. Len(r), NEW j \in 1 .. Len(r), r[i].kind = "thread", r[i] = r[j]
        PROVE  i = j
    <3>1. /\ k + i \in 1 .. Len(q) /\ k + j \in 1 .. Len(q)
          /\ q[k + i].kind = "thread" /\ q[k + i] = q[k + j]
      BY <1>2, <2>1
    <3>2. k + i = k + j
      BY <3>1 DEF Once
    <3> QED  BY <1>1, <3>2
  <2> QED  BY <2>1 DEF Once
<1> QED  BY <1>3, <1>4

\* Parts of a queue hold some of its threads.
LEMMA ThreadsSplit ==
  ASSUME NEW S, NEW q \in Seq(ItemOf(S)), NEW k \in 0 .. Len(q)
  PROVE  Threads(First(q, k)) \subseteq Threads(q) /\ Threads(Rest(q, k)) \subseteq Threads(q)
<1> DEFINE f == First(q, k)  r == Rest(q, k)
<1>1. f \in Seq(ItemOf(S)) /\ r \in Seq(ItemOf(S)) /\ Cat(f, r) = q
  BY CatSplit
<1> HIDE DEF f, r
<1>2. ToSet(q) = ToSet(f) \cup ToSet(r)
  BY <1>1, CatIs
<1> QED  BY <1>2 DEF Threads, f, r

\* Data items add no threads.
LEMMA ThreadsLonger ==
  ASSUME NEW S, NEW q \in Seq(ItemOf(S)), NEW r \in Seq(ItemOf(S)), Longer(q, r)
  PROVE  Threads(r) = Threads(q) /\ (Once(q) => Once(r))
<1>1. Len(q) \in Nat /\ Len(r) \in Nat /\ Len(q) <= Len(r)
  BY LenProperties DEF Longer
<1>2. ASSUME NEW j \in 1 .. Len(r), r[j].kind = "thread"
      PROVE  j \in 1 .. Len(q) /\ r[j] = q[j]
  <2>1. ASSUME j \notin 1 .. Len(q)  PROVE FALSE
    <3>1. j \in Len(q) + 1 .. Len(r)
      BY <1>1, <2>1
    <3> QED  BY <1>2, <3>1 DEF Longer
  <2> QED  BY <2>1 DEF Longer
<1>3. ASSUME NEW t \in Threads(r)  PROVE t \in Threads(q)
  <2>1. PICK j \in 1 .. Len(r) : r[j] = ThreadItem(t)
    BY ThreadsIn
  <2>2. t \in Thread /\ r[j].kind = "thread"
    BY <2>1, ElementOfSeq, ThreadKind, ThreadsAre
  <2>3. j \in 1 .. Len(q) /\ q[j] = ThreadItem(t)
    BY <1>2, <2>1, <2>2
  <2> QED  BY <2>2, <2>3, ThreadsIn
<1>4. ASSUME NEW t \in Threads(q)  PROVE t \in Threads(r)
  <2>1. PICK j \in 1 .. Len(q) : q[j] = ThreadItem(t)
    BY ThreadsIn
  <2>2. t \in Thread /\ j \in 1 .. Len(r) /\ r[j] = ThreadItem(t)
    BY <1>1, <2>1, ThreadsAre DEF Longer
  <2> QED  BY <2>2, ThreadsIn
<1>5. ASSUME Once(q)  PROVE Once(r)
  <2>1. ASSUME NEW i \in 1 .. Len(r), NEW j \in 1 .. Len(r), r[i].kind = "thread", r[i] = r[j]
        PROVE  i = j
    <3>1. /\ i \in 1 .. Len(q) /\ j \in 1 .. Len(q) /\ q[i].kind = "thread" /\ q[i] = q[j]
      BY <1>2, <2>1
    <3> QED  BY <1>5, <3>1 DEF Once
  <2> QED  BY <2>1 DEF Once
<1> QED  BY <1>3, <1>4, <1>5

\* A thread is enqueued.
Enter(q, t) == Append(q, ThreadItem(t))

\* Who waits for a flush comes last, behind all bytes.
LEMMA ThreadEnters ==
  ASSUME NEW S, NEW q \in Seq(ItemOf(S)), NEW t \in Thread, t \notin Threads(q)
  PROVE  /\ Enter(q, t) \in Seq(ItemOf(S)) /\ Enter(q, t) # <<>>
         /\ Len(Enter(q, t)) = Len(q) + 1 /\ Enter(q, t)[Len(q) + 1] = ThreadItem(t)
         /\ \A k \in 1 .. Len(q) : Enter(q, t)[k] = q[k]
         /\ AllBytes(Enter(q, t)) = AllBytes(q)
         /\ BytesUpTo(Enter(q, t))[Len(q) + 1] = AllBytes(q)
         /\ \A k \in 0 .. Len(q) : BytesUpTo(Enter(q, t))[k] = BytesUpTo(q)[k]
         /\ Threads(Enter(q, t)) = Threads(q) \cup {t}
         /\ Once(q) => Once(Enter(q, t))
<1> DEFINE r == Enter(q, t)  x == ThreadItem(t)  n == Len(q)
<1>1. x \in ItemOf(S) /\ x.kind = "thread" /\ x.bytes = <<>> /\ x.thread = t
  BY ItemMade
<1>2. AllBytes(r) = Cat(AllBytes(q), x.bytes)
  BY <1>1, CatAppend DEF Enter
<1>3. \A k \in 0 .. Len(q) : BytesUpTo(r)[k] = BytesUpTo(q)[k]
  BY <1>1, AllBytesAppend DEF Enter
<1> HIDE DEF x
<1>4. /\ r \in Seq(ItemOf(S)) /\ r # <<>> /\ Len(r) = n + 1 /\ r[n + 1] = x /\ n \in Nat
      /\ \A k \in 1 .. n : r[k] = q[k]
  BY <1>1, AppendProperties, LenProperties DEF Enter, x
<1>5. AllBytes(r) = AllBytes(q)
  <2>1. AllBytes(q) \in Seq(S)
    BY AllBytesIs
  <2>2. Cat(AllBytes(q), <<>>) = AllBytes(q)
    BY <2>1, CatNone
  <2> QED  BY <1>1, <1>2, <2>2
<1> HIDE DEF r
<1>6. BytesUpTo(r)[n + 1] = AllBytes(q)
  BY <1>4, <1>5 DEF AllBytes
<1>7. Threads(r) = Threads(q) \cup {t}
  <2>1. ToSet(r) = ToSet(q) \cup {x}
    <3>1. DOMAIN r = 1 .. n + 1 /\ DOMAIN q = 1 .. n
      BY <1>4, LenProperties
    <3> QED  BY <1>4, <3>1 DEF ToSet
  <2>2. \A u \in Thread : ThreadItem(u) = x <=> u = t
    BY DEF ThreadItem, x
  <2> QED  BY <2>1, <2>2 DEF Threads
<1>8. ASSUME Once(q)  PROVE Once(r)
  <2>1. ASSUME NEW i \in 1 .. n  PROVE q[i] # x
    BY <2>1, ThreadsIn DEF x
  <2>2. ASSUME NEW i \in 1 .. Len(r), NEW j \in 1 .. Len(r), r[i].kind = "thread", r[i] = r[j]
        PROVE  i = j
    <3>1. i \in 1 .. n \/ i = n + 1
      BY <1>4
    <3>2. j \in 1 .. n \/ j = n + 1
      BY <1>4
    <3>3. CASE i \in 1 .. n /\ j \in 1 .. n
      <4>1. q[i].kind = "thread" /\ q[i] = q[j]
        BY <1>4, <2>2, <3>3
      <4> QED  BY <1>8, <3>3, <4>1 DEF Once
    <3> QED  BY <1>4, <2>1, <2>2, <3>1, <3>2, <3>3
  <2> QED  BY <2>2 DEF Once
<1> QED  BY <1>3, <1>4, <1>5, <1>6, <1>7, <1>8 DEF r, x

\* Without its k-th item
Without(q, k) == RemoveAt(q, k)

\* The others stay in order.
LEMMA WithoutIs ==
  ASSUME NEW S, NEW q \in Seq(S), NEW k \in 1 .. Len(q)
  PROVE  /\ Without(q, k) \in Seq(S) /\ Len(Without(q, k)) = Len(q) - 1
         /\ \A i \in 1 .. k - 1 : Without(q, k)[i] = q[i]
         /\ \A i \in k + 1 .. Len(q) : Without(q, k)[i - 1] = q[i]
<1> DEFINE f == First(q, k - 1)  r == Rest(q, k)  w == Without(q, k)
<1>1. Len(q) \in Nat /\ k - 1 \in 0 .. Len(q) /\ k \in 0 .. Len(q) /\ k \in Nat
  <2>1. Len(q) \in Nat
    BY LenProperties
  <2> QED  BY <2>1
<1>2. w = Cat(f, r)
  BY DEF Without, RemoveAt, Cat, First, Rest
<1>3. f \in Seq(S) /\ Len(f) = k - 1
  BY <1>1, CatSplit
<1>4. r \in Seq(S) /\ Len(r) = Len(q) - k
  BY <1>1, CatSplit
<1>5. \A i \in 1 .. k - 1 : f[i] = q[i]
  BY <1>1, SplitAt DEF First
<1>6. \A i \in 1 .. Len(q) - k : r[i] = q[k + i]
  BY <1>1, SplitAt
<1> HIDE DEF f, r, w
<1>7. w \in Seq(S) /\ Len(w) = Len(q) - 1
  <2>1. w \in Seq(S) /\ Len(w) = Len(f) + Len(r)
    BY <1>2, <1>3, <1>4, CatIs
  <2> QED  BY <1>1, <1>3, <1>4, <2>1
<1>8. \A i \in 1 .. Len(f) : Cat(f, r)[i] = f[i]
  BY <1>3, <1>4, CatAt
<1>9. \A i \in 1 .. Len(r) : Cat(f, r)[Len(f) + i] = r[i]
  <2>1. f \in Seq(S) /\ r \in Seq(S)
    BY <1>3, <1>4
  <2> QED  BY <2>1, CatAt
<1>10. \A i \in 1 .. k - 1 : w[i] = q[i]
  BY <1>2, <1>3, <1>5, <1>8
<1>11. ASSUME NEW i \in k + 1 .. Len(q)  PROVE w[i - 1] = q[i]
  <2>1. i - k \in 1 .. Len(r) /\ Len(f) + (i - k) = i - 1 /\ k + (i - k) = i
        /\ i - k \in 1 .. Len(q) - k
    BY <1>1, <1>3, <1>4
  <2>2. w[Len(f) + (i - k)] = r[i - k]
    BY <1>2, <1>9, <2>1
  <2>3. r[i - k] = q[k + (i - k)]
    BY <1>6, <2>1
  <2> QED  BY <2>1, <2>2, <2>3
<1> QED  BY <1>7, <1>10, <1>11 DEF w

\* A thread that is halted takes its item along, and no bytes.
LEMMA ThreadLeaves ==
  ASSUME NEW S, NEW q \in Seq(ItemOf(S)), NEW k \in 1 .. Len(q), NEW t \in Thread,
         q[k] = ThreadItem(t), Once(q)
  PROVE  LET r == Without(q, k)
         IN /\ r \in Seq(ItemOf(S)) /\ Once(r) /\ Threads(r) = Threads(q) \ {t}
            /\ AllBytes(r) = AllBytes(q) /\ (Begins(q) => Begins(r) /\ r # <<>>)
            /\ \A i \in 1 .. k - 1 : r[i] = q[i] /\ BytesUpTo(r)[i] = BytesUpTo(q)[i]
            /\ \A i \in k + 1 .. Len(q) :
                 r[i - 1] = q[i] /\ BytesUpTo(r)[i - 1] = BytesUpTo(q)[i]
<1> DEFINE r == Without(q, k)  n == Len(q)
<1>1. /\ r \in Seq(ItemOf(S)) /\ Len(r) = n - 1
      /\ \A i \in 1 .. k - 1 : r[i] = q[i]
      /\ \A i \in k + 1 .. n : r[i - 1] = q[i]
  BY WithoutIs
<1> HIDE DEF r
<1>2. n \in Nat /\ k \in Nat /\ 1 <= k /\ k <= n /\ k - 1 \in Nat /\ k - 1 \in 0 .. n
  <2>1. n \in Nat
    BY LenProperties
  <2> QED  BY <2>1
<1>3. q[k].bytes = <<>> /\ q[k].kind = "thread" /\ q[k] \in ItemOf(S)
  BY ItemMade
<1>4. \A i \in 0 .. k - 1 : BytesUpTo(r)[i] = BytesUpTo(q)[i]
  <2>1. k - 1 <= Len(q) /\ k - 1 <= Len(r)
    BY <1>1, <1>2
  <2> QED  BY <1>1, <1>2, <2>1, BytesPrefix
<1>5. Shifted(q, r, <<>>, 1, k)
  <2>1. BytesUpTo(q)[(k - 1) + 1] = Cat(BytesUpTo(q)[k - 1], q[(k - 1) + 1].bytes)
        /\ BytesUpTo(q)[k - 1] \in Seq(S)
    <3>1. k - 1 < Len(q)
      BY <1>2
    <3> QED  BY <1>2, <3>1, BytesAt
  <2>2. (k - 1) + 1 = k
    BY <1>2
  <2>3. BytesUpTo(q)[k] = BytesUpTo(q)[k - 1]
    <3>1. Cat(BytesUpTo(q)[k - 1], <<>>) = BytesUpTo(q)[k - 1]
      BY <2>1, CatNone
    <3> QED  BY <1>3, <2>1, <2>2, <3>1
  <2>4. k - 1 \in 0 .. k - 1
    BY <1>2
  <2>5. Cat(<<>>, BytesUpTo(q)[k - 1]) = BytesUpTo(q)[k - 1]
    BY <2>1, CatNone
  <2> QED  BY <1>4, <2>3, <2>4, <2>5 DEF Shifted, Cat
<1>6. SameItems(q, r, 1, k, n)
  BY <1>1, <1>2 DEF SameItems
<1>7. \A i \in k .. n : Shifted(q, r, <<>>, 1, i)
  BY <1>1, <1>2, <1>5, <1>6, EmptySeq, BytesShift
<1>8. ASSUME NEW i \in k .. n  PROVE BytesUpTo(r)[i - 1] = BytesUpTo(q)[i]
  <2>1. BytesUpTo(q)[i] = Cat(<<>>, BytesUpTo(r)[i - 1])
    BY <1>7 DEF Shifted, Cat
  <2>2. i - 1 \in 0 .. Len(r)
    BY <1>1, <1>2
  <2>3. BytesUpTo(r)[i - 1] \in Seq(S)
    BY <1>1, <2>2, BytesAt
  <2> QED  BY <2>1, <2>3, CatNone
<1>9. AllBytes(r) = AllBytes(q)
  <2>1. n \in k .. n /\ Len(r) = n - 1
    BY <1>1, <1>2
  <2> QED  BY <1>8, <2>1 DEF AllBytes
<1>10. ASSUME Begins(q)  PROVE Begins(r) /\ r # <<>>
  <2>1. q # <<>>
    BY <1>2, EmptySeq
  <2>2. q[1].kind = "data"
    BY <1>10, <2>1 DEF Begins
  <2>3. k # 1
    BY <1>3, <2>2
  <2>4. 1 \in 1 .. k - 1 /\ Len(r) # 0
    BY <1>1, <1>2, <2>3
  <2> QED  BY <1>1, <2>2, <2>4, EmptySeq DEF Begins
<1>11. ASSUME NEW j \in 1 .. Len(r)
       PROVE  \E i \in 1 .. n : i # k /\ r[j] = q[i] /\ i = IF j < k THEN j ELSE j + 1
  <2>1. CASE j < k
    <3>1. j \in 1 .. k - 1 /\ j \in 1 .. n /\ j # k
      BY <1>1, <1>2, <2>1
    <3> QED  BY <1>1, <2>1, <3>1
  <2>2. CASE ~(j < k)
    <3>1. j + 1 \in k + 1 .. n /\ j + 1 \in 1 .. n /\ j + 1 # k /\ (j + 1) - 1 = j
      BY <1>1, <1>2, <2>2
    <3> QED  BY <1>1, <2>2, <3>1
  <2> QED  BY <2>1, <2>2
<1>12. ASSUME NEW i \in 1 .. n, i # k  PROVE \E j \in 1 .. Len(r) : r[j] = q[i]
  <2>1. CASE i < k
    <3>1. i \in 1 .. k - 1 /\ i \in 1 .. Len(r)
      BY <1>1, <1>2, <2>1
    <3> QED  BY <1>1, <3>1
  <2>2. CASE ~(i < k)
    <3>1. i \in k + 1 .. n /\ i - 1 \in 1 .. Len(r)
      BY <1>1, <1>2, <1>12, <2>2
    <3> QED  BY <1>1, <3>1
  <2> QED  BY <2>1, <2>2
<1>13. Threads(r) = Threads(q) \ {t}
  <2>1. ASSUME NEW u \in Threads(r)  PROVE u \in Threads(q) /\ u # t
    <3>1. PICK j \in 1 .. Len(r) : r[j] = ThreadItem(u)
      BY <1>1, ThreadsIn
    <3>2. PICK i \in 1 .. n : i # k /\ q[i] = ThreadItem(u)
      BY <1>11, <3>1
    <3>3. u \in Thread
      BY ThreadsAre
    <3>4. u \in Threads(q)
      BY <3>2, <3>3, ThreadsIn
    <3>5. u # t
      BY <1>3, <3>2 DEF Once
    <3> QED  BY <3>4, <3>5
  <2>2. ASSUME NEW u \in Threads(q), u # t  PROVE u \in Threads(r)
    <3>1. PICK i \in 1 .. n : q[i] = ThreadItem(u)
      BY ThreadsIn
    <3>2. u \in Thread
      BY ThreadsAre
    <3>3. ThreadItem(u) # ThreadItem(t)
      BY <2>2 DEF ThreadItem
    <3>4. PICK j \in 1 .. Len(r) : r[j] = ThreadItem(u)
      BY <1>12, <3>1, <3>3
    <3> QED  BY <1>1, <3>2, <3>4, ThreadsIn
  <2> QED  BY <2>1, <2>2
<1>14. Once(r)
  <2>1. ASSUME NEW a \in 1 .. Len(r), NEW b \in 1 .. Len(r), r[a].kind = "thread", r[a] = r[b]
        PROVE  a = b
    <3>1. PICK i \in 1 .. n : r[a] = q[i] /\ i = IF a < k THEN a ELSE a + 1
      BY <1>11
    <3>2. PICK j \in 1 .. n : r[b] = q[j] /\ j = IF b < k THEN b ELSE b + 1
      BY <1>11
    <3>3. i = j
      BY <2>1, <3>1, <3>2 DEF Once
    <3>4. (IF a < k THEN a ELSE a + 1) = (IF b < k THEN b ELSE b + 1)
      BY <3>1, <3>2, <3>3
    <3>5. a \in Nat /\ b \in Nat
      OBVIOUS
    <3> QED  BY <1>2, <3>4, <3>5
  <2> QED  BY <2>1 DEF Once
<1>15. ASSUME NEW i \in k + 1 .. n
       PROVE  r[i - 1] = q[i] /\ BytesUpTo(r)[i - 1] = BytesUpTo(q)[i]
  <2>1. i \in k .. n
    BY <1>2
  <2> QED  BY <1>1, <1>8, <2>1
<1>16. ASSUME NEW i \in 1 .. k - 1  PROVE r[i] = q[i] /\ BytesUpTo(r)[i] = BytesUpTo(q)[i]
  <2>1. i \in 0 .. k - 1
    BY <1>2
  <2> QED  BY <1>1, <1>4, <2>1
<1> QED  BY <1>1, <1>9, <1>10, <1>13, <1>14, <1>15, <1>16 DEF r

-----------------------------------------------------------------------------
(* What a waiting thread is promised.                                      *)

\* What was there when a thread called for its flush has been written, or was given up, or
\* lies in front of it.
Covered(u, q, s, g) ==
  \A k \in 1 .. Len(q) : q[k].kind = "thread" =>
    1 .. u[q[k].thread] \subseteq ToSet(s) \cup g \cup ToSet(BytesUpTo(q)[k])

\* More data, sent or pending, uncover nobody.
LEMMA CoveredLonger ==
  ASSUME NEW S, NEW q \in Seq(ItemOf(S)), NEW r \in Seq(ItemOf(S)), Longer(q, r),
         NEW u, NEW s, NEW z, NEW g, NEW h, ToSet(s) \subseteq ToSet(z), g \subseteq h,
         Covered(u, q, s, g)
  PROVE  Covered(u, r, z, h)
<1>1. Len(q) \in Nat /\ Len(r) \in Nat /\ Len(q) <= Len(r) /\ \A k \in 1 .. Len(q) : r[k] = q[k]
  BY LenProperties DEF Longer
<1>2. \A k \in 0 .. Len(q) : BytesUpTo(r)[k] = BytesUpTo(q)[k]
  BY <1>1, BytesPrefix
<1>3. ASSUME NEW k \in 1 .. Len(r), r[k].kind = "thread"
      PROVE  1 .. u[r[k].thread] \subseteq ToSet(z) \cup h \cup ToSet(BytesUpTo(r)[k])
  <2>1. k \in 1 .. Len(q)
    <3>1. ASSUME k \notin 1 .. Len(q)  PROVE FALSE
      <4>1. k \in Len(q) + 1 .. Len(r)
        BY <1>1, <3>1
      <4> QED  BY <1>3, <4>1 DEF Longer
    <3> QED  BY <3>1
  <2>2. r[k] = q[k] /\ BytesUpTo(r)[k] = BytesUpTo(q)[k]
    BY <1>1, <1>2, <2>1
  <2> DEFINE o == 1 .. u[q[k].thread]  b == ToSet(BytesUpTo(q)[k])
  <2>3. o \subseteq ToSet(s) \cup g \cup b
    BY <1>3, <2>1, <2>2 DEF Covered
  <2> HIDE DEF o, b
  <2>4. o \subseteq ToSet(z) \cup h \cup b
    BY <2>3
  <2> QED  BY <2>2, <2>4 DEF o, b
<1> QED  BY <1>3 DEF Covered

\* Who enters a queue when the buffer is empty has all his bytes in front of him.
LEMMA CoveredEnter ==
  ASSUME NEW S, NEW q \in Seq(ItemOf(S)), NEW t \in Thread, t \notin Threads(q),
         NEW u, NEW s, NEW g, Covered(u, q, s, g),
         1 .. u[t] \subseteq ToSet(s) \cup g \cup ToSet(AllBytes(q))
  PROVE  Covered(u, Enter(q, t), s, g)
<1> DEFINE r == Enter(q, t)
<1>1. /\ r \in Seq(ItemOf(S)) /\ Len(r) = Len(q) + 1 /\ r[Len(q) + 1] = ThreadItem(t)
      /\ (\A k \in 1 .. Len(q) : r[k] = q[k]) /\ BytesUpTo(r)[Len(q) + 1] = AllBytes(q)
      /\ \A k \in 0 .. Len(q) : BytesUpTo(r)[k] = BytesUpTo(q)[k]
  BY ThreadEnters
<1>2. Len(q) \in Nat /\ ThreadItem(t).thread = t
  BY LenProperties, ItemMade
<1> HIDE DEF r
<1>3. ASSUME NEW k \in 1 .. Len(r), r[k].kind = "thread"
      PROVE  1 .. u[r[k].thread] \subseteq ToSet(s) \cup g \cup ToSet(BytesUpTo(r)[k])
  <2>1. CASE k \in 1 .. Len(q)
    <3>1. k \in 0 .. Len(q)
      BY <1>2, <2>1
    <3>2. r[k] = q[k] /\ BytesUpTo(r)[k] = BytesUpTo(q)[k]
      BY <1>1, <2>1, <3>1
    <3> QED  BY <1>3, <2>1, <3>2 DEF Covered
  <2>2. CASE k \notin 1 .. Len(q)
    <3>1. k = Len(q) + 1
      BY <1>1, <1>2, <2>2
    <3> QED  BY <1>1, <1>2, <3>1
  <2> QED  BY <2>1, <2>2
<1> QED  BY <1>3 DEF Covered, r

\* The others stay covered when a thread is halted.
LEMMA CoveredLeaves ==
  ASSUME NEW S, NEW q \in Seq(ItemOf(S)), NEW k \in 1 .. Len(q), NEW t \in Thread,
         q[k] = ThreadItem(t), Once(q), NEW u, NEW s, NEW g, Covered(u, q, s, g)
  PROVE  Covered(u, Without(q, k), s, g)
<1> DEFINE r == Without(q, k)
<1>1. Len(r) = Len(q) - 1 /\ Len(q) \in Nat /\ k \in Nat /\ 1 <= k
  <2>1. Len(q) \in Nat
    BY LenProperties
  <2> QED  BY <2>1, WithoutIs
<1>2. /\ \A i \in 1 .. k - 1 : r[i] = q[i] /\ BytesUpTo(r)[i] = BytesUpTo(q)[i]
      /\ \A i \in k + 1 .. Len(q) : r[i - 1] = q[i] /\ BytesUpTo(r)[i - 1] = BytesUpTo(q)[i]
  BY ThreadLeaves
<1> HIDE DEF r
<1>3. ASSUME NEW j \in 1 .. Len(r), r[j].kind = "thread"
      PROVE  1 .. u[r[j].thread] \subseteq ToSet(s) \cup g \cup ToSet(BytesUpTo(r)[j])
  <2>1. PICK i \in 1 .. Len(q) : r[j] = q[i] /\ BytesUpTo(r)[j] = BytesUpTo(q)[i]
    <3>1. CASE j < k
      <4>1. j \in 1 .. k - 1 /\ j \in 1 .. Len(q)
        BY <1>1, <3>1
      <4> QED  BY <1>2, <4>1
    <3>2. CASE ~(j < k)
      <4>1. j + 1 \in k + 1 .. Len(q) /\ j + 1 \in 1 .. Len(q) /\ (j + 1) - 1 = j
        BY <1>1, <3>2
      <4>2. r[(j + 1) - 1] = q[j + 1] /\ BytesUpTo(r)[(j + 1) - 1] = BytesUpTo(q)[j + 1]
        BY <1>2, <4>1
      <4> QED  BY <4>1, <4>2
    <3> QED  BY <3>1, <3>2
  <2> QED  BY <1>3, <2>1 DEF Covered
<1> QED  BY <1>3 DEF Covered, r

\* A write event covers those who stay, and those whom it wakes had all their bytes
\* sent.
LEMMA CoveredUnwritten ==
  ASSUME NEW S, NEW q \in Seq(ItemOf(S)), NEW n \in 0 .. Len(AllBytes(q)), NEW s \in Seq(S),
         NEW u, NEW g, Covered(u, q, s, g)
  PROVE  /\ Covered(u, Unwritten(q, n), Cat(s, First(AllBytes(q), n)), g)
         /\ \A t \in Threads(First(q, DoneItems(q, n))) :
              1 .. u[t] \subseteq ToSet(Cat(s, First(AllBytes(q), n))) \cup g
<1> DEFINE k == DoneItems(q, n)  r == Unwritten(q, n)  W == First(AllBytes(q), n)
           z == Cat(s, W)  B == BytesUpTo(q)  R == BytesUpTo(r)
<1>1. /\ k \in 0 .. Len(q) /\ r \in Seq(ItemOf(S)) /\ Len(r) = Len(q) - k /\ W \in Seq(S)
      /\ Begins(r)
      /\ \A j \in 2 .. Len(r) : r[j] = q[k + j]
  BY UnwrittenAre
<1>2. \A j \in 1 .. Len(r) : B[k + j] = Cat(W, R[j])
  BY UnwrittenAre
<1>3. \A j \in 0 .. k : ToSet(B[j]) \subseteq ToSet(W)
  BY UnwrittenAre
<1> HIDE DEF k, r, W, B, R
<1>4. ToSet(z) = ToSet(s) \cup ToSet(W)
  BY <1>1, CatIs
<1> HIDE DEF z
<1>5. Len(q) \in Nat /\ k \in Nat /\ Len(r) \in Nat
  <2>1. Len(q) \in Nat
    BY LenProperties
  <2> QED  BY <1>1, <2>1
<1>6. ASSUME NEW j \in 1 .. Len(r), r[j].kind = "thread"
      PROVE  1 .. u[r[j].thread] \subseteq ToSet(z) \cup g \cup ToSet(R[j])
  <2>1. j # 1
    <3>1. r # <<>>
      BY <1>5, EmptySeq
    <3> QED  BY <1>1, <1>6, <3>1 DEF Begins
  <2>2. j \in 2 .. Len(r) /\ k + j \in 1 .. Len(q)
    BY <1>1, <1>5, <2>1
  <2>3. r[j] = q[k + j]
    BY <1>1, <2>2
  <2>4. 1 .. u[r[j].thread] \subseteq ToSet(s) \cup g \cup ToSet(B[k + j])
    BY <1>6, <2>2, <2>3 DEF Covered, B
  <2>5. R[j] \in Seq(S)
    <3>1. j \in 0 .. Len(r)
      BY <1>5
    <3> QED  BY <1>1, <3>1, BytesAt DEF R
  <2>6. ToSet(B[k + j]) = ToSet(W) \cup ToSet(R[j])
    <3> DEFINE w == R[j]  b == B[k + j]
    <3>1. w \in Seq(S) /\ W \in Seq(S) /\ b = Cat(W, w)
      BY <1>1, <1>2, <2>5
    <3> HIDE DEF w, b
    <3>2. ToSet(Cat(W, w)) = ToSet(W) \cup ToSet(w)
      BY <3>1, CatIs
    <3> QED  BY <3>1, <3>2 DEF w, b
  <2> HIDE DEF z
  <2> QED  BY <1>4, <2>4, <2>6
<1>7. ASSUME NEW t \in Threads(First(q, k))  PROVE 1 .. u[t] \subseteq ToSet(z) \cup g
  <2> DEFINE f == First(q, k)
  <2>1. f \in Seq(ItemOf(S)) /\ Len(f) = k
    BY <1>1, CatSplit
  <2>2. \A i \in 1 .. k : f[i] = q[i]
    BY <1>1, SplitAt DEF First
  <2> HIDE DEF f
  <2>3. PICK i \in 1 .. Len(f) : f[i] = ThreadItem(t)
    BY <2>1, ThreadsIn DEF f
  <2>4. i \in 1 .. Len(q) /\ i \in 0 .. k /\ q[i] = ThreadItem(t)
    BY <1>1, <1>5, <2>1, <2>2, <2>3
  <2>5. t \in Thread /\ q[i].kind = "thread" /\ q[i].thread = t
    BY <2>4, ThreadsAre, ItemMade
  <2>6. 1 .. u[t] \subseteq ToSet(s) \cup g \cup ToSet(B[i])
    BY <2>4, <2>5 DEF Covered, B
  <2>7. ToSet(B[i]) \subseteq ToSet(W)
    BY <1>3, <2>4
  <2> QED  BY <1>4, <2>6, <2>7
<1>8. Covered(u, r, z, g)
  BY <1>6 DEF Covered, R
<1> QED  BY <1>7, <1>8 DEF k, r, z, W

\* An event that writes nothing wakes nobody.
LEMMA NothingDone ==
  ASSUME NEW S, NEW q \in Seq(ItemOf(S)), Begins(q)
  PROVE  DoneItems(q, 0) = 0
<1> DEFINE k == DoneItems(q, 0)
<1>1. k \in 0 .. Len(q) /\ Cost(q, k) <= 0 /\ Len(q) \in Nat
  BY ItemsDone, LenProperties
<1> HIDE DEF k
<1>2. SUFFICES ASSUME k # 0  PROVE FALSE
  BY DEF k
<1>3. 0 \in 0 .. Len(q) /\ 1 \in 0 .. Len(q) /\ k \in 1 .. Len(q) /\ 0 < Len(q) /\ 1 \in 1 .. Len(q)
  BY <1>1, <1>2
<1>4. q # <<>> /\ q[1] \in ItemOf(S)
  BY <1>1, <1>3, EmptySeq, ElementOfSeq
<1>5. q[1].bytes # <<>> /\ q[1].bytes \in Seq(S)
  BY <1>4, ItemFacts DEF Begins
<1> DEFINE B == BytesUpTo(q)
<1>6. B[1] = q[1].bytes
  <2>1. B[0 + 1] = Cat(B[0], q[0 + 1].bytes) /\ B[0] = <<>>
    BY <1>3, BytesAt, BytesUpToAre
  <2>2. Cat(<<>>, q[1].bytes) = q[1].bytes
    BY <1>5, CatNone
  <2> QED  BY <2>1, <2>2
<1>7. PICK r \in Seq(S) : B[k] = Cat(B[1], r)
  BY <1>3, BytesBegin
<1>8. Cost(q, k) = Len(B[k])
  BY DEF Cost
<1> HIDE DEF B
<1>9. Len(B[k]) = Len(q[1].bytes) + Len(r)
  BY <1>5, <1>6, <1>7, CatIs
<1>10. Len(q[1].bytes) \in Nat /\ Len(q[1].bytes) # 0 /\ Len(r) \in Nat
  BY <1>5, LenProperties, EmptySeq
<1> QED  BY <1>1, <1>8, <1>9, <1>10

\* What was sent, what is pending and b are all there is, in order.
InLine(c, b) == Ordered(Cat(c.sent, Cat(AllBytes(c.queue), b)), c.count, c.discarded)

\* What is written moves from the front of the queue to the end of what was sent.
LEMMA MovedAlong ==
  ASSUME NEW S, NEW s \in Seq(S), NEW W \in Seq(S), NEW m \in Seq(S), NEW b \in Seq(S)
  PROVE  Cat(Cat(s, W), Cat(m, b)) = Cat(s, Cat(Cat(W, m), b))
<1>1. Cat(m, b) \in Seq(S)
  BY CatIs
<1>2. Cat(Cat(s, W), Cat(m, b)) = Cat(s, Cat(W, Cat(m, b)))
  BY <1>1, CatThree
<1>3. Cat(Cat(W, m), b) = Cat(W, Cat(m, b))
  BY CatThree
<1> QED  BY <1>2, <1>3

\* What a poll does to a port whose errors are told to the threads that wait.
LEMMA PortHandled ==
  ASSUME NEW n \in Nat, NEW c \in Cursors(n), NEW p \in Port, c.failed = {}, Tidy(c),
         HasErrorProc = {}, NEW e, e = handle_std_write_event(p, c)
  PROVE  /\ Tidy(e)
         /\ \A b \in Seq(Bytes(n)) : InLine(c, b) => InLine(e, b)
         /\ \A u : Covered(u, c.queue, c.sent, c.discarded) =>
              /\ Covered(u, e.queue, e.sent, e.discarded)
              /\ \A t \in e.woken : 1 .. u[t] \subseteq ToSet(e.sent) \cup e.discarded
<1> DEFINE k == Done(p, c)  m == ToWrite(p, c)  q == c.queue  W == Wrote(p, c)
           r == Unwritten(q, m)
<1>1. /\ q \in Seq(ItemOf(Bytes(n))) /\ AllBytes(q) \in Seq(Bytes(n))
      /\ c.sent \in Seq(Bytes(n)) /\ m \in 0 .. Len(AllBytes(q))
      /\ k \in 0 .. Len(q) /\ W \in Seq(Bytes(n))
  BY WriteBounds
<1>2. /\ HandledAs(p, c, e)
      /\ AllWritten(p, c, e) \/ ErrorKept(p, c, e) \/ ErrorTold(p, c, e) \/ SomeLeft(p, c, e)
  BY EventHandled
<1>3. /\ e.sent = Cat(c.sent, W) /\ e.count = c.count /\ e.woken = Threads(First(q, k))
  BY <1>2 DEF HandledAs
<1>4. /\ r \in Seq(ItemOf(Bytes(n))) /\ Len(r) = Len(q) - k /\ Begins(r)
      /\ AllBytes(q) = Cat(W, AllBytes(r))
  BY <1>1, UnwrittenAre DEF Wrote, Done
<1>5. \A u : Covered(u, q, c.sent, c.discarded) =>
        /\ Covered(u, r, e.sent, c.discarded)
        /\ \A t \in e.woken : 1 .. u[t] \subseteq ToSet(e.sent) \cup c.discarded
  BY <1>1, <1>3, CoveredUnwritten DEF Wrote, Done
<1>6. AllBytes(r) \in Seq(Bytes(n)) /\ Len(q) \in Nat
  BY <1>1, <1>4, AllBytesIs, LenProperties
<1> HIDE DEF k, m, q, W, r
<1>8. ASSUME e.queue = r, e.discarded = c.discarded, e.event = (r # <<>>)
      PROVE  /\ Tidy(e)
             /\ \A b \in Seq(Bytes(n)) : InLine(c, b) => InLine(e, b)
             /\ \A u : Covered(u, c.queue, c.sent, c.discarded) =>
                  /\ Covered(u, e.queue, e.sent, e.discarded)
                  /\ \A t \in e.woken : 1 .. u[t] \subseteq ToSet(e.sent) \cup e.discarded
  <2>1. Tidy(e)
    BY <1>4, <1>8 DEF Tidy
  <2>2. ASSUME NEW b \in Seq(Bytes(n)), InLine(c, b)  PROVE InLine(e, b)
    <3>1. Cat(e.sent, Cat(AllBytes(r), b)) = Cat(c.sent, Cat(AllBytes(q), b))
      BY <1>1, <1>3, <1>4, <1>6, MovedAlong
    <3> QED  BY <1>3, <1>8, <2>2, <3>1 DEF InLine, q
  <2> QED  BY <1>5, <1>8, <2>1, <2>2 DEF q
<1>9. CASE AllWritten(p, c, e)
  <2>1. k = Len(q)
    BY <1>1, <1>9, CatSplit DEF AllWritten, k, q
  <2>2. r = <<>>
    <3>1. Len(r) = 0
      BY <1>4, <1>6, <2>1
    <3> QED  BY <1>4, <3>1, EmptySeq
  <2>3. e.queue = r /\ e.discarded = c.discarded /\ e.event = (r # <<>>)
    BY <1>9, <2>2 DEF AllWritten
  <2> QED  BY <1>8, <2>3
<1>10. CASE ErrorKept(p, c, e)
  BY <1>10 DEF ErrorKept
<1>11. CASE SomeLeft(p, c, e)
  <2>1. Rest(q, k) # <<>> /\ e.queue = r /\ e.discarded = c.discarded /\ e.event = c.event
    BY <1>11 DEF SomeLeft, q, k, r, m
  <2>2. k # Len(q)
    BY <1>1, <2>1, CatSplit
  <2>3. r # <<>> /\ q # <<>>
    <3>1. Len(r) # 0 /\ Len(q) # 0
      BY <1>1, <1>4, <1>6, <2>2
    <3> QED  BY <1>1, <1>4, <3>1, EmptySeq
  <2>4. c.event \in BOOLEAN /\ c.event
    BY <2>3 DEF Tidy, q, Cursors
  <2>5. e.event = (r # <<>>)
    BY <2>1, <2>3, <2>4
  <2> QED  BY <1>8, <2>1, <2>5
<1>12. CASE ErrorTold(p, c, e)
  <2>1. Failing(p) /\ e.queue = <<>> /\ e.event = FALSE
        /\ e.discarded = c.discarded \cup ToSet(AllBytes(Rest(q, k)))
    BY <1>12 DEF ErrorTold, q, k
  <2>2. m = 0 /\ k = 0
    <3>1. m = 0
      BY <2>1 DEF m, ToWrite
    <3>2. Begins(q)
      BY DEF Tidy, q
    <3> QED  BY <1>1, <3>1, <3>2, NothingDone DEF k, Done, m, q
  <2>3. Rest(q, 0) = q /\ W = <<>>
    <3>1. 0 \in 0 .. Len(q) /\ 0 \in 0 .. Len(AllBytes(q))
      BY <1>1, <1>6, <2>2
    <3>2. Rest(q, 0) = q
      BY <1>1, <3>1, SplitAt
    <3>3. SubSeq(AllBytes(q), 1, 0) = <<>>
      BY <1>1, <3>1, SplitAt
    <3> QED  BY <2>2, <3>2, <3>3 DEF W, Wrote, First, m, q
  <2>4. e.sent = c.sent
    BY <1>1, <1>3, <2>3, CatNone
  <2>5. e.discarded = c.discarded \cup ToSet(AllBytes(q))
    BY <2>1, <2>2, <2>3
  <2>6. Tidy(e)
    BY <2>1 DEF Tidy, Begins
  <2>7. ASSUME NEW b \in Seq(Bytes(n)), InLine(c, b)  PROVE InLine(e, b)
    <3>1. c.sent \in Seq(Nat) /\ AllBytes(q) \in Seq(Nat) /\ b \in Seq(Nat)
      <4>1. Bytes(n) \subseteq Nat
        BY DEF Bytes
      <4> QED  BY <1>1, <4>1, SeqMonotonic
    <3>2. c.count \in Nat
      BY DEF Cursors
    <3>3. Ordered(c.sent \o (AllBytes(q) \o b), c.count, c.discarded)
      BY <2>7 DEF InLine, Cat, q
    <3>4. Ordered(c.sent \o b, c.count, c.discarded \cup ToSet(AllBytes(q)))
      BY <3>1, <3>2, <3>3, OrderedWithout
    <3>5. AllBytes(<<>>) = <<>> /\ Cat(<<>>, b) = b
      BY <1>1, AllBytesIs, CatNone
    <3>6. Cat(e.sent, Cat(AllBytes(e.queue), b)) = c.sent \o b
      BY <2>1, <2>4, <3>5 DEF Cat
    <3> QED  BY <1>3, <2>5, <3>4, <3>6 DEF InLine
  <2>8. ASSUME NEW u, Covered(u, c.queue, c.sent, c.discarded)
        PROVE  /\ Covered(u, e.queue, e.sent, e.discarded)
               /\ \A t \in e.woken : 1 .. u[t] \subseteq ToSet(e.sent) \cup e.discarded
    <3>1. \A t \in e.woken : 1 .. u[t] \subseteq ToSet(e.sent) \cup e.discarded
      BY <1>5, <2>5, <2>8 DEF q
    <3>2. \A j \in 1 .. Len(e.queue) : FALSE
      BY <2>1, EmptySeq
    <3> QED  BY <3>1, <3>2 DEF Covered
  <2> QED  BY <2>6, <2>7, <2>8
<1> QED  BY <1>2, <1>9, <1>10, <1>11, <1>12
=============================================================================
