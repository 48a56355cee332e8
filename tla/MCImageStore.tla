---------------------------- MODULE MCImageStore ----------------------------
(* States of one to four blocks in parts of two, and two changes of state. *)
EXTENDS ImageStore
MCSizes == 1..4
=============================================================================
