------------------------------- MODULE MCSession -------------------------------
(* A session in which each side says at most MaxRead things.                    *)
EXTENDS Session
=============================================================================
