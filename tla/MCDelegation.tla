---------------------------- MODULE MCDelegation ----------------------------
(* An instance of Delegation: a timer that leaves one unit before the        *)
(* certificate expires, so that a failed rotation is followed by a gap.      *)
EXTENDS Delegation, TLC

CONSTANTS r1, r2

=============================================================================
