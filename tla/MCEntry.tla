------------------------------ MODULE MCEntry ------------------------------
(***************************************************************************)
(* Entry with stubs linked every sixteen bytes.                            *)
(***************************************************************************)
EXTENDS Entry

MCStubAddress == [v \in Vectors |-> 7 + 5 * v]
============================================================================
