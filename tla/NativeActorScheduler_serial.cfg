SPECIFICATION Spec
CONSTANTS
    i1 = i1  i2 = i2  i3 = i3
    k1 = k1  k2 = k2  a1 = a1  m1 = m1  m2 = m2
    Invocations = {i1, i2, i3}
    Keys = {k1}
    Actors = {a1}
    Messages = {m1, m2}
    KeyOf <- KeysThree
    ActorOf <- OneActor
    MessageOf <- SharedIds
    Workers = {w1, w2}
    Callers = {c1}
    IoThreads = {o1}
    None = None
    UseGlobalSharing = FALSE
    MaxPendingTasks = 0
    MaxPendingPerActor = 0
    MaxPendingPerPartition = 0
    MaxIdleHandoffYields = 2
    MaxLocalHandoffs = 1
    ShutdownModes = {}
    MaxSuspensions = 1
SYMMETRY SerialSymmetry
CHECK_DEADLOCK FALSE
INVARIANTS
    ExclusiveExecution
    FifoPerKey
    OneResultInOrder
    UnmappedMailboxIsDead
