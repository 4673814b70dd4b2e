-------------------------- MODULE MCControlServer --------------------------
(***************************************************************************)
(* Requests are interchangeable, and so are connections.                    *)
(***************************************************************************)
EXTENDS ControlServer

ServerSymmetry == Permutations(Calls) \cup Permutations(Conns)
=============================================================================
