----------------------------- MODULE MCReplication -----------------------------
(***************************************************************************)
(* Instances of Replication for TLC: kernels that ask for the same child,  *)
(* and requests with an empty ID.                                          *)
(***************************************************************************)
EXTENDS Replication, TLC

CONSTANTS parent, child

AnyIDs     == {<<parent, child>>, <<NoAgent, child>>, <<parent, NoAgent>>}

Faithful == [t \in 0..MaxTrust |-> t]
Symmetry == Permutations(Kernels) \cup Permutations(Policies)
=============================================================================
