----------------------------- MODULE MCThreads ------------------------------
(***************************************************************************)
(* Model values and bounds for checking ThreadManager with TLC.            *)
(***************************************************************************)
EXTENDS ThreadManager

CONSTANTS t1, t2, t3

(* thread-priority's default.                                              *)
EqualPriority == [t \in Threads |-> 5]

(* One thread of better priority, as the finalizer of shell/run.scm is.    *)
FinalizerFirst == [t \in Threads |-> IF t = t1 THEN 4 ELSE 5]

(* Threads of equal priority are alike.                                    *)
ThreadSymmetry == Permutations(Threads)
=============================================================================
