---------------------------- MODULE MailboxSpec -----------------------------
(***************************************************************************)
(* What mailboxes promise, whatever their receivers go through: messages   *)
(* are numbered as they are sent; each is in at most one place; messages   *)
(* leave a mailbox in order; and one that is handed to a waiting receiver  *)
(* never overtakes a message that is still in the mailbox.  There are no   *)
(* queues of threads here, no suspension and no scheduler.                 *)
(***************************************************************************)
EXTENDS Naturals, Sequences

CONSTANTS Threads, Mailboxes, None, NoValue

VARIABLES
    pending,    \* the messages in each mailbox, in order
    inHand,     \* what a receiver has been given and has not yet looked at
    sent        \* the number of messages sent

vars == <<pending, inHand, sent>>

Init ==
    /\ pending = [m \in Mailboxes |-> <<>>]
    /\ inHand = [t \in Threads |-> None]
    /\ sent = 0

(* A message goes to the end of the mailbox, or to its front.              *)
Send(m) ==
    /\ \/ pending' = [pending EXCEPT ![m] = Append(@, sent + 1)]
       \/ pending' = [pending EXCEPT ![m] = <<sent + 1>> \o @]
    /\ sent' = sent + 1
    /\ UNCHANGED inHand

(* A message goes straight to a receiver, if no message is before it.      *)
HandOver(m, t) ==
    /\ pending[m] = <<>>
    /\ inHand[t] = None
    /\ inHand' = [inHand EXCEPT ![t] = sent + 1]
    /\ sent' = sent + 1
    /\ UNCHANGED pending

(* A receiver takes the first message, at once or to look at later.        *)
Take(m, t) ==
    /\ pending[m] # <<>>
    /\ pending' = [pending EXCEPT ![m] = Tail(@)]
    /\ \/ UNCHANGED inHand
       \/ inHand[t] = None /\ inHand' = [inHand EXCEPT ![t] = Head(pending[m])]
    /\ UNCHANGED sent

(* Receivers learn that their mailbox is closed.                           *)
Refuse(S) ==
    /\ \A t \in S : inHand[t] = None
    /\ inHand' = [t \in Threads |-> IF t \in S THEN NoValue ELSE inHand[t]]
    /\ UNCHANGED <<pending, sent>>

(* A receiver looks at what it was given, or dies before it does.          *)
Consume(t) ==
    /\ inHand[t] # None
    /\ inHand' = [inHand EXCEPT ![t] = None]
    /\ UNCHANGED <<pending, sent>>

Next ==
    \/ \E m \in Mailboxes : Send(m) \/ \E t \in Threads : HandOver(m, t) \/ Take(m, t)
    \/ \E S \in SUBSET Threads : Refuse(S)
    \/ \E t \in Threads : Consume(t)

Spec == Init /\ [][Next]_vars
=============================================================================
