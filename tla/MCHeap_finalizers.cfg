SPECIFICATION FairSpec
CONSTANTS
    a = a
    w = w
    p = p
    q = q
    S1 = S1
    S2 = S2
    Objects = {a, w}
    WeakObjects = {w}
    Finalizable = {a}
    Slots = {1}
    FirstSlot = 1
    NStable = 0
    NRegs = 1
    NCells = 2
    Stores = {}
    PSlots = {}
    StoreOf <- NoSlots
    Nil = Nil
    BucketSize = 1
    MaxBuckets = 1
    MaxSig = 2
    Risks = {}
PROPERTIES FinalizersHandedOver
