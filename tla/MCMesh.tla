-------------------------------- MODULE MCMesh --------------------------------
(* Two hosts, and two processes that share the directory of the configs. *)
EXTENDS Mesh, TLC

CONSTANTS r1, r2   \* two processes

MCSymmetry == Permutations(Runners)

MCNames == {"edge", "edge-1", "edge-2", "a", "b"}
MCHosts == {"h1", "h2"}
MCNumbered == <<"edge-1", "edge-2">>

MCEdge(name, host) == [name |-> name, host |-> host]

\* A mesh that grows and shrinks at its end: a host keeps its name and position.
MCNamedLists ==
  { <<MCEdge("a", "h1")>>, <<MCEdge("a", "h1"), MCEdge("b", "h2")>> }
=============================================================================
