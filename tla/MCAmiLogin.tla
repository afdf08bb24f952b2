----------------------------- MODULE MCAmiLogin -----------------------------
(* TLC instance of AmiLogin.                                                   *)
EXTENDS AmiLogin

CONSTANTS a1, a2
=============================================================================
