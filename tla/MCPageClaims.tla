---------------------------- MODULE MCPageClaims ----------------------------
(* The instances of PageClaims that TLC checks.                            *)
EXTENDS PageClaims
=============================================================================
