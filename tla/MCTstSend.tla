----------------------------- MODULE MCTstSend ------------------------------
(* TLC instance of TstSend.                                                    *)
EXTENDS TstSend

CONSTANT w1
=============================================================================
