----------------------- MODULE MCNativeActorScheduler -----------------------
(* Instances of NativeActorScheduler for TLC.                              *)
EXTENDS NativeActorScheduler

CONSTANTS i1, i2, i3, k1, k2, a1, m1, m2

\* Three invocations of one key.
KeysThree == (i1 :> k1) @@ (i2 :> k1) @@ (i3 :> k1)
OneActor == [k \in Keys |-> a1]
\* The first and the last invocation carry the same message id.
SharedIds == (i1 :> m1) @@ (i2 :> m2) @@ (i3 :> m1)

KeysSame == [i \in Invocations |-> k1]
SameIds == [i \in Invocations |-> m1]
DistinctIds == [i \in Invocations |-> IF i = i1 THEN m1 ELSE m2]

ThreadSymmetry == Permutations(Workers) \cup Permutations(Callers)
\* i1 and i3 have the same key and message id.
SerialSymmetry == ThreadSymmetry \cup Permutations({i1, i3})
=============================================================================
