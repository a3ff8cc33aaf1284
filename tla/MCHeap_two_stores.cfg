SPECIFICATION Spec
CONSTANTS
    a = a
    w = w
    p = p
    q = q
    S1 = S1
    S2 = S2
    Objects = {a, w}
    WeakObjects = {w}
    Finalizable = {}
    Slots = {1}
    FirstSlot = 1
    NStable = 0
    NRegs = 1
    NCells = 2
    Stores = {S1, S2}
    PSlots = {p, q}
    StoreOf <- TwoStores
    Nil = Nil
    BucketSize = 1
    MaxBuckets = 2
    MaxSig = 2
    Risks = {"commit one of several"}
INVARIANTS NoDangling
