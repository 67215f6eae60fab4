------------------------------ MODULE MC_FpCounter ------------------------------
(* A small instance of FpCounter for TLC.                                 *)
EXTENDS FpCounter, TLC

(* Requests are interchangeable: each handler reads only its own request. *)
MCSymmetry == Permutations(Req)

=============================================================================
