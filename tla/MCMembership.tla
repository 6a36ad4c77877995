------------------------------ MODULE MCMembership ------------------------------
(***************************************************************************)
(* Membership for TLC.                                                     *)
(***************************************************************************)
EXTENDS Membership

CONSTANTS n1, n2

OneNode  == {n1}
TwoNodes == {n1, n2}
TwoModes == {"approve", "deny"}
=============================================================================
