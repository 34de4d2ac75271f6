---------------------------- MODULE MCDBSession ----------------------------
(* DBSession on small sets, as model values, with their symmetries. *)
EXTENDS DBSession, TLC

QueueSymmetry == Permutations(Queues)

\* Safety only: queue identities and threads of the same role are alike.
SafetySymmetry ==
    QueueSymmetry \cup Permutations(Managers) \cup Permutations(Threads \ Managers)
        \cup Permutations(Paths)
=============================================================================
