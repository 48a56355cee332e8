------------------------------- MODULE Streams -------------------------------
(****************************************************************************)
(* The three streams between a page and its VM: the network (/net), serial  *)
(* port 1 (/guest) and the terminal (a channel of /ctl).  They share no     *)
(* state, so one of them carries traffic while the others are idle.         *)
(****************************************************************************)
EXTENDS NetAdapter, GuestLink, Terminal

VARIABLE busy   \* the stream that carries traffic

streamVars == <<adapterVars, linkVars, ttyVars, busy>>

Init ==
    /\ busy \in {"net", "guest", "tty"}
    /\ AdapterInit /\ (busy = "net" \/ (inbox = <<>> /\ outbox = <<>>))
    /\ LinkInit /\ (busy = "guest" \/ outgoing = <<>>)
    /\ TerminalInit /\ (busy = "tty" \/ (pattern = <<>> /\ ~restored))

NetStep == busy = "net" /\ AdapterNext /\ UNCHANGED <<linkVars, ttyVars, busy>>
GuestStep == busy = "guest" /\ LinkNext /\ UNCHANGED <<adapterVars, ttyVars, busy>>
TTYStep == busy = "tty" /\ TerminalNext /\ UNCHANGED <<adapterVars, linkVars, busy>>

CopierStep == busy = "tty" /\ Copier /\ UNCHANGED <<adapterVars, linkVars, busy>>
ScannerStep == busy = "tty" /\ Scanner /\ UNCHANGED <<adapterVars, linkVars, busy>>

Next == NetStep \/ GuestStep \/ TTYStep

\* The two goroutines of a terminal session run; machines and users need not.
Spec == Init /\ [][Next]_streamVars /\ WF_streamVars(CopierStep) /\ WF_streamVars(ScannerStep)

----------------------------------------------------------------------------
\* The offsets, counts and stages of the three streams stay in their ranges: no
\* buffer holds more than was given to it.
TypeOK == AdapterTypes /\ LinkTypes /\ TerminalTypes

\* What goes in and comes out of the adapter and of the terminal, each of which
\* has two ways.  Serial port 1 drops messages, and keeps what it does not drop
\* in order (LinkBytesInOrder).
Ways == {"toNet", "toPage", "toScreen", "toMachine"}
Taken == [toNet |-> FetchedStream, toPage |-> WrittenFrames, toScreen |-> serial, toMachine |-> typed]
Passed == [toNet |-> read, toPage |-> sent, toScreen |-> printed, toMachine |-> toGuest]

Ordered == INSTANCE Fifo WITH put <- Taken, got <- Passed

\* The network reads the frames of the page, each after its length, the page
\* gets the frames that the network has written, stdout shows what the machine
\* wrote and the machine gets what was typed: whole, in order, nothing twice.
StreamsInOrder == Ordered!Spec
=============================================================================
