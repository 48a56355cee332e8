-------------------------------- MODULE Fifo --------------------------------
(****************************************************************************)
(* What a stream that loses nothing promises: on each way, what comes out   *)
(* is what went in, in order, and neither is ever taken back.  How much is  *)
(* on its way, and in what pieces it travels, is left open.                 *)
(****************************************************************************)
EXTENDS Sequences, SequencesExt

CONSTANT Ways

VARIABLES put,  \* put[w]: what went in on way w
          got   \* got[w]: what came out

Delivered == \A w \in Ways : IsPrefix(got[w], put[w])

Init ==
    /\ put = [w \in Ways |-> <<>>]
    /\ got = [w \in Ways |-> <<>>]

Advance ==
    /\ \A w \in Ways : IsPrefix(put[w], put'[w]) /\ IsPrefix(got[w], got'[w])
    /\ Delivered'

Spec == Init /\ [][Advance]_<<put, got>>
=============================================================================
