----------------------------- MODULE StableStore -----------------------------
(***************************************************************************)
(* What a store of records promises: a commit keeps all that was written   *)
(* before it, whole; what comes after a crash is the last commit, or the   *)
(* one that was being made; and earlier commits can be gone back to.       *)
(***************************************************************************)
CONSTANTS Record, Value, Absent

VARIABLES
  up,       \* FALSE between a crash and the recovery
  current,  \* what a client reads
  stable,   \* what the last commit has kept
  offered,  \* at most one: a commit that has not been acknowledged
  past      \* what commits have kept

vars == <<up, current, stable, offered, past>>

Init ==
  /\ up = TRUE
  /\ current = [r \in Record |-> Absent]
  /\ stable = current /\ offered = {} /\ past = {current}

Change(r, val) ==
  /\ up /\ offered = {}
  /\ current' = [current EXCEPT ![r] = val]
  /\ UNCHANGED <<up, stable, offered, past>>

Offer ==
  /\ up
  /\ offered' = {current} /\ past' = past \cup {current}
  /\ UNCHANGED <<up, current, stable>>

Acknowledge ==
  /\ up
  /\ stable' = current /\ offered' = {}
  /\ UNCHANGED <<up, current, past>>

Return(kept) ==
  /\ up /\ offered = {}
  /\ current' = kept
  /\ UNCHANGED <<up, stable, offered, past>>

\* Nothing but commits outlives a crash.
Crash == up' = FALSE /\ current' = stable /\ UNCHANGED <<stable, offered, past>>

Recover(kept) ==
  /\ ~up /\ up'
  /\ current' = kept /\ stable' = kept /\ offered' = {}
  /\ UNCHANGED past

Next ==
  \/ \E r \in Record, val \in Value \cup {Absent} : Change(r, val)
  \/ Offer \/ Acknowledge \/ Crash
  \/ \E kept \in past : Return(kept)
  \/ \E kept \in {stable} \cup offered : Recover(kept)

Spec == Init /\ [][Next]_vars
=============================================================================
