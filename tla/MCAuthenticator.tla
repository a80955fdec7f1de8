--------------------------- MODULE MCAuthenticator --------------------------
(***************************************************************************)
(* Scenarios for model checking Authenticator.                             *)
(***************************************************************************)
EXTENDS Authenticator, TLC

\* Request handlers are interchangeable.
RequestSymmetry == Permutations(Requests)
=============================================================================
