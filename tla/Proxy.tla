-------------------------------- MODULE Proxy -------------------------------
(****************************************************************************)
(* Two connections joined by two goroutines that each copy one way with     *)
(* io.Copy.  forwardPort (cmd/env86/boot.go) closes both connections when   *)
(* the first copy ends; Guest.Mount (guest.go) and Dial, Terminal and       *)
(* Mount9P of the guest service (cmd/guest86) wait for both copies and then *)
(* close the channel; joinSerialPipe (tty.go) waits and closes nothing.     *)
(****************************************************************************)
EXTENDS Naturals

CONSTANT MaxChunks   \* bound: chunks that go one way

ASSUME ChunksAssumption == MaxChunks \in Nat

Modes == {"first", "both", "serial"}
Sides == {"conn", "channel"}
Ways == {"in", "out"}
Source(w) == IF w = "in" THEN "conn" ELSE "channel"
Target(w) == IF w = "in" THEN "channel" ELSE "conn"

VARIABLES
    mode,    \* "first" (forwardPort), "both", or "serial" (joinSerialPipe)
    app,     \* app[s]: the program at the far end of side s
    reads,   \* reads[s]: that program still reads what comes
    isOpen,  \* isOpen[s]: the relay has not closed side s
    sent,    \* sent[w]: chunks given to the relay
    taken,   \* taken[w]: chunks that the copier has read
    got,     \* got[w]: chunks that reached the other end
    copier,  \* copier[w]: the goroutine that copies one way
    relay    \* copying or returned

vars == <<mode, app, reads, isOpen, sent, taken, got, copier, relay>>

\* A copier that is done has met the end of its source or a write error; in
\* mode "first" it then still has to be received from, and is gone after that.
TypeOK ==
    /\ mode \in Modes
    /\ app \in [Sides -> {"open", "half", "closed"}]
    /\ reads \in [Sides -> BOOLEAN]
    /\ isOpen \in [Sides -> BOOLEAN]
    /\ sent \in [Ways -> 0..MaxChunks]
    /\ taken \in [Ways -> 0..MaxChunks]
    /\ got \in [Ways -> 0..MaxChunks]
    /\ \A w \in Ways : got[w] <= taken[w] /\ taken[w] <= sent[w]
    /\ copier \in [Ways -> {"reading", "writing", "done", "gone"}]
    /\ relay \in {"copying", "returned"}

Init ==
    /\ mode \in Modes
    /\ app = [s \in Sides |-> "open"]
    /\ reads = [s \in Sides |-> TRUE]
    /\ isOpen = [s \in Sides |-> TRUE]
    /\ sent = [w \in Ways |-> 0]
    /\ taken = [w \in Ways |-> 0]
    /\ got = [w \in Ways |-> 0]
    /\ copier = [w \in Ways |-> "reading"]
    /\ relay = "copying"

----------------------------------------------------------------------------
(* the programs at both ends *)

AppSends(w) ==
    /\ app[Source(w)] = "open"
    /\ isOpen[Source(w)]
    /\ sent[w] < MaxChunks
    /\ sent' = [sent EXCEPT ![w] = @ + 1]
    /\ UNCHANGED <<mode, app, reads, isOpen, taken, got, copier, relay>>

\* A program ends its output, or leaves altogether.
AppEnds(s) ==
    /\ \E e \in {"half", "closed"} :
         /\ app[s] = "open" \/ (app[s] = "half" /\ e = "closed")
         /\ app' = [app EXCEPT ![s] = e]
    /\ UNCHANGED <<mode, reads, isOpen, sent, taken, got, copier, relay>>

\* A program reads no more, though it has not left.
AppStopsReading(s) ==
    /\ reads[s]
    /\ reads' = [reads EXCEPT ![s] = FALSE]
    /\ UNCHANGED <<mode, app, isOpen, sent, taken, got, copier, relay>>

----------------------------------------------------------------------------
(* io.Copy *)

\* Mutant: the copier looks at the end of its source before it reads.
CopyReadsOpen(w) ==
    /\ copier[w] = "reading"
    /\ isOpen[Source(w)]
    /\ taken[w] < sent[w]
    /\ taken' = [taken EXCEPT ![w] = @ + 1]
    /\ copier' = [copier EXCEPT ![w] = IF app[Source(w)] = "open" THEN "writing" ELSE "done"]
    /\ UNCHANGED <<mode, app, reads, isOpen, sent, got, relay>>

CopyReads(w) ==
    /\ copier[w] = "reading"
    /\ isOpen[Source(w)]
    /\ taken[w] < sent[w]
    /\ taken' = [taken EXCEPT ![w] = @ + 1]
    /\ copier' = [copier EXCEPT ![w] = "writing"]
    /\ UNCHANGED <<mode, app, reads, isOpen, sent, got, relay>>

\* Mutant: a write is begun again after it has gone through.
CopyWritesTwice(w) ==
    /\ copier[w] = "writing"
    /\ isOpen[Target(w)]
    /\ app[Target(w)] # "closed"
    /\ got' = [got EXCEPT ![w] = @ + 1]
    /\ copier' \in {copier, [copier EXCEPT ![w] = "reading"]}
    /\ UNCHANGED <<mode, app, reads, isOpen, sent, taken, relay>>

\* The Write goes through: the receiver reads, or there is room on the way.
CopyWrites(w) ==
    /\ copier[w] = "writing"
    /\ isOpen[Target(w)]
    /\ app[Target(w)] # "closed"
    /\ got' = [got EXCEPT ![w] = @ + 1]
    /\ copier' = [copier EXCEPT ![w] = "reading"]
    /\ UNCHANGED <<mode, app, reads, isOpen, sent, taken, relay>>

\* Mutant: a copy that fails does not report that it is done.
CopyFailsSilently(w) ==
    /\ copier[w] = "writing"
    /\ ~isOpen[Target(w)] \/ app[Target(w)] = "closed"
    /\ copier' = [copier EXCEPT ![w] = "gone"]
    /\ UNCHANGED <<mode, app, reads, isOpen, sent, taken, got, relay>>

\* The write fails at once, or is lost and the next one fails.
CopyFails(w) ==
    /\ copier[w] = "writing"
    /\ ~isOpen[Target(w)] \/ app[Target(w)] = "closed"
    /\ \/ copier' = [copier EXCEPT ![w] = "done"]
       \/ isOpen[Target(w)] /\ copier' = [copier EXCEPT ![w] = "reading"]
    /\ UNCHANGED <<mode, app, reads, isOpen, sent, taken, got, relay>>

\* The end of the source, or a source that the relay itself has closed.
CopyEnds(w) ==
    /\ copier[w] = "reading"
    /\ ~isOpen[Source(w)] \/ (taken[w] = sent[w] /\ app[Source(w)] # "open")
    /\ copier' = [copier EXCEPT ![w] = "done"]
    /\ UNCHANGED <<mode, app, reads, isOpen, sent, taken, got, relay>>

\* What a copier does of itself, whatever the programs do.
CopyGoesOn(w) == CopyReads(w) \/ CopyFails(w) \/ CopyEnds(w)

CopyStep(w) == CopyGoesOn(w) \/ CopyWrites(w)

----------------------------------------------------------------------------
(* the end of the relay *)

\* Mutant: handle forgets to close the connection to the backend.
FirstDoneOneSide ==
    /\ mode = "first" /\ relay = "copying"
    /\ \E w \in Ways : copier[w] = "done" /\ copier' = [copier EXCEPT ![w] = "gone"]
    /\ relay' = "returned"
    /\ isOpen' = [isOpen EXCEPT !["conn"] = FALSE]
    /\ UNCHANGED <<mode, app, reads, sent, taken, got>>

\* forwardPort: one receive from done, then the deferred Closes.  The copier
\* that comes second finds nobody to send its done to.
FirstDone ==
    /\ mode = "first" /\ relay = "copying"
    /\ \E w \in Ways : copier[w] = "done" /\ copier' = [copier EXCEPT ![w] = "gone"]
    /\ relay' = "returned"
    /\ isOpen' = [s \in Sides |-> FALSE]
    /\ UNCHANGED <<mode, app, reads, sent, taken, got>>

\* Mutant: one Add for two goroutines.
BothDoneEarly ==
    /\ mode # "first" /\ relay = "copying"
    /\ \E w \in Ways : copier[w] = "done"
    /\ relay' = "returned"
    /\ isOpen' = [isOpen EXCEPT !["channel"] = mode = "serial"]
    /\ UNCHANGED <<mode, app, reads, sent, taken, got, copier>>

\* wg.Wait and then, but for joinSerialPipe, ch.Close: nobody closes the
\* connection.
BothDone ==
    /\ mode # "first" /\ relay = "copying"
    /\ \A w \in Ways : copier[w] = "done"
    /\ relay' = "returned"
    /\ isOpen' = [isOpen EXCEPT !["channel"] = mode = "serial"]
    /\ UNCHANGED <<mode, app, reads, sent, taken, got, copier>>

RelayStep == FirstDone \/ BothDone

----------------------------------------------------------------------------
Next ==
    \/ \E w \in Ways : AppSends(w) \/ CopyStep(w)
    \/ \E s \in Sides : AppEnds(s) \/ AppStopsReading(s)
    \/ RelayStep

\* The relay's goroutines run; the programs at both ends need not.  A Write gets
\* through for certain only while its receiver reads: one that does not can hold
\* the copier for ever.
Fairness ==
    /\ WF_vars(RelayStep)
    /\ \A w \in Ways : WF_vars(CopyGoesOn(w)) /\ WF_vars(reads[Target(w)] /\ CopyWrites(w))

Spec == Init /\ [][Next]_vars /\ Fairness

----------------------------------------------------------------------------
\* The program at side s may hold up what is written to it: it has not left, and
\* reads no more.
Deaf(s) == ~reads[s] /\ app[s] # "closed"

\* A relay that waits for both copies returns only when everything sent either
\* way has arrived, unless its receiver had left: programs may half-close.
JoinedNothingLost ==
    mode # "first" /\ relay = "returned" =>
      \A w \in Ways : got[w] = sent[w] \/ app[Target(w)] = "closed"

\* A forwarded connection ends only with one direction complete, or with a
\* program that had left: what one side sends before it ends its output arrives.
ForwardedOneWayComplete ==
    mode = "first" /\ relay = "returned" =>
      \/ \E w \in Ways : app[Source(w)] # "open" /\ got[w] = sent[w]
      \/ \E s \in Sides : app[s] = "closed"

\* A relay that waits for both copies returns once both programs have ended
\* their output, also when a copy fails; only a program that reads no more and
\* does not leave can keep it.
JoinEnds ==
    mode # "first" /\ (\A s \in Sides : app[s] # "open")
      ~> relay = "returned" \/ \E s \in Sides : Deaf(s)

\* When one end of a forwarded connection leaves, both connections are closed,
\* so that the other end learns of it, unless that end does not read what is
\* still being written to it.
ForwardEnds ==
    \A s \in Sides :
      mode = "first" /\ app[s] = "closed"
        ~> (\A t \in Sides : ~isOpen[t]) \/ \E t \in Sides \ {s} : Deaf(t)
=============================================================================
