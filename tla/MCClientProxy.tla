--------------------------- MODULE MCClientProxy ---------------------------
(* ClientProxy on small instances: the units that may appear, and the symmetry *)
(* of the sources and of the connections for the runs without liveness.       *)
EXTENDS ClientProxy, TLC

Symmetric == Permutations(Sources) \cup Permutations(Conns)

AllUnits == (Sources \cup Conns) \X (1..MaxUnits)
=============================================================================
