--------------------------- MODULE MCChatApproval ---------------------------
(***************************************************************************)
(* The instances of ChatApproval that TLC checks.                          *)
(***************************************************************************)
EXTENDS ChatApproval, TLC

CONSTANTS s1, s2, k1
=============================================================================
