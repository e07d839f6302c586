------------------------------- MODULE MCOAuth -------------------------------
(***************************************************************************)
(* Instances of OAuth for TLC.                                             *)
(***************************************************************************)
EXTENDS OAuth, TLC

CONSTANTS h1, h2

(* With two windows: a code and a refresh token for each of two logins, or  *)
(* one login with three refreshes, and two revocations.                    *)
Limits == [token |-> 2, revoke |-> 1]

Symmetry == Permutations(Handlers)

=============================================================================
