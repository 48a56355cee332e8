------------------------------- MODULE MCProxy ------------------------------
(* The three kinds of relay, with up to two chunks each way. *)
EXTENDS Proxy
=============================================================================
