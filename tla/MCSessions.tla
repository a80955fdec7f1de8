----------------------------- MODULE MCSessions -----------------------------
(***************************************************************************)
(* Scenarios for model checking Sessions.                                  *)
(***************************************************************************)
EXTENDS Sessions, TLC

\* Request handlers are interchangeable.
RequestSymmetry == Permutations(Requests)
=============================================================================
