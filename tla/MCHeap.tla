------------------------------- MODULE MCHeap -------------------------------
EXTENDS CollectedHeap, TLC

CONSTANTS a, w, p, q, S1, S2

NoSlots   == <<>>
OneSlot   == p :> S1
TwoStores == p :> S1 @@ q :> S2
=============================================================================
