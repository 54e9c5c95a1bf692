------------------------ MODULE MCReliableTransport ------------------------
(* Small instances of ReliableTransport for TLC. *)
EXTENDS ReliableTransport

Both(c, s) == [p \in Endpoint |-> IF p = "client" THEN c ELSE s]

\* Safety and liveness: windows of two.
WindowTwo == Both(2, 2)
SafetyFragments == Both(3, 1)
LiveFragments == Both(2, 1)

AllDrain == Endpoint
NobodyDrains == {}
=============================================================================
