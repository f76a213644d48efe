SPECIFICATION Spec
CONSTANTS
    i1 = i1  i2 = i2  i3 = i3
    k1 = k1  k2 = k2  a1 = a1  m1 = m1  m2 = m2
    Invocations = {i1, i2}
    Keys = {k1}
    Actors = {a1}
    Messages = {m1, m2}
    KeyOf <- KeysSame
    ActorOf <- OneActor
    MessageOf <- DistinctIds
    Workers = {w1, w2}
    Callers = {c1, c2}
    IoThreads = {o1}
    None = None
    UseGlobalSharing = FALSE
    MaxPendingTasks = 2
    MaxPendingPerActor = 2
    MaxPendingPerPartition = 2
    MaxIdleHandoffYields = 2
    MaxLocalHandoffs = 1
    ShutdownModes = {"Drain", "Cancel"}
    MaxSuspensions = 1
SYMMETRY ThreadSymmetry
CHECK_DEADLOCK FALSE
INVARIANTS
    TypeOK
    WorkerOwnsMailbox
    NoLostWork
    StoppedIsQuiescent
    BackpressureCounters
