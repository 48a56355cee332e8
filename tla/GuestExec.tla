------------------------------ MODULE GuestExec -----------------------------
(****************************************************************************)
(* Programs that the host runs in the VM: GuestCmd.Run (guest.go), which    *)
(* writes their output and copies stdin, and API.Run of the guest service   *)
(* (cmd/guest86/exec.go), where one goroutine waits for the program and     *)
(* others read its terminal or its pipes.  The calls are made one after the *)
(* other, over the connection that GuestService sets up.                    *)
(****************************************************************************)
EXTENDS Naturals, Sequences, SequencesExt

CONSTANTS LastCall,    \* calls of Run: 1 to LastCall
          MaxOutput,   \* bound: chunks that the programs write, all in all
          Terminals,   \* the sets of calls that ask for a terminal
          MaxInput     \* bound: chunks that the user ever types

ASSUME ExecAssumption == LastCall \in Nat /\ MaxOutput \in Nat /\ MaxInput \in Nat

Calls == 1..LastCall
Streams == {"stdout", "stderr"}

VARIABLES
    link,     \* the connection between host and guest: none, up or down
    pty,      \* pty[c]: call c asks for a terminal
    host,     \* host[c]: where GuestCmd.Run stands
    prog,     \* prog[c]: the program
    quiet,    \* quiet[c]: all it wrote had been sent when it exited
    handler,  \* handler[c]: where API.Run stands
    produced, \* chunks that the programs have written, all in all
    wrote,    \* wrote[c][s]: chunks that the program wrote
    sent,     \* sent[c][s]: chunks that the reader is done with
    reader,   \* reader[c][s]: the goroutine that reads stream s
    wire,     \* wire[c]: messages from the guest that the host has not received
    got,      \* got[c][s]: chunks that the host wrote to its own stream s
    open,     \* open[c]: neither end has closed the channel of call c
    taken,    \* chunks of stdin that some copier has read
    copier,   \* copier[c]: the goroutine that copies os.Stdin to the channel
    holds,    \* holds[c]: the chunk it has read and not written, or 0
    input     \* input[c]: chunks that reached the program

hostVars  == <<host, got>>
guestVars == <<prog, quiet, handler, produced, wrote, sent, reader>>
stdinVars == <<taken, copier, holds, input>>
execVars == <<link, pty, hostVars, guestVars, wire, open, stdinVars>>

Messages == [kind : {"continue", "error", "status"}] \cup [kind : Streams, chunk : 1..MaxOutput]
Ended == {"returned", "failed"}

ExecTypeOK ==
    /\ link \in {"none", "up", "down"}
    /\ pty \in [Calls -> BOOLEAN]
    /\ host \in [Calls -> {"idle", "calling", "receiving"} \cup Ended]
    /\ prog \in [Calls -> {"none", "running", "exited"}]
    /\ quiet \in [Calls -> BOOLEAN]
    /\ handler \in [Calls -> {"none", "starting", "waiting", "reporting", "closing", "done"}]
    /\ produced \in 0..MaxOutput
    /\ wrote \in [Calls -> [Streams -> 0..MaxOutput]]
    /\ sent \in [Calls -> [Streams -> 0..MaxOutput]]
    /\ \A c \in Calls, s \in Streams : sent[c][s] <= wrote[c][s]
    /\ reader \in [Calls -> [Streams -> {"none", "reading", "sending"}]]
    /\ wire \in [Calls -> Seq(Messages)]
    /\ got \in [Calls -> [Streams -> Seq(1..MaxOutput)]]
    /\ open \in [Calls -> BOOLEAN]
    /\ taken \in 0..MaxInput
    /\ copier \in [Calls -> {"none", "reading", "writing", "ended"}]
    /\ holds \in [Calls -> 0..MaxInput]
    /\ input \in [Calls -> Seq(1..MaxInput)]

ExecInit ==
    /\ link = "none"
    /\ \E ts \in Terminals : pty = [c \in Calls |-> c \in ts]
    /\ host = [c \in Calls |-> "idle"]
    /\ prog = [c \in Calls |-> "none"]
    /\ quiet = [c \in Calls |-> FALSE]
    /\ handler = [c \in Calls |-> "none"]
    /\ produced = 0
    /\ wrote = [c \in Calls |-> [s \in Streams |-> 0]]
    /\ sent = [c \in Calls |-> [s \in Streams |-> 0]]
    /\ reader = [c \in Calls |-> [s \in Streams |-> "none"]]
    /\ wire = [c \in Calls |-> <<>>]
    /\ got = [c \in Calls |-> [s \in Streams |-> <<>>]]
    /\ open = [c \in Calls |-> FALSE]
    /\ taken = 0
    /\ copier = [c \in Calls |-> "none"]
    /\ holds = [c \in Calls |-> 0]
    /\ input = [c \in Calls |-> <<>>]

\* The terminal merges both streams.
StreamsOf(c) == IF pty[c] THEN {"stdout"} ELSE Streams

\* Where the message goes: a closed channel takes nothing, and nobody looks at
\* the error.
Sends(c, m) == wire' = IF open[c] THEN [wire EXCEPT ![c] = Append(@, m)] ELSE wire

----------------------------------------------------------------------------
(* the host: GuestCmd.Run *)

HostCall(c) ==
    /\ link # "none"
    /\ host[c] = "idle"
    /\ \A d \in Calls : d < c => host[d] \in Ended
    /\ host' = [host EXCEPT ![c] = IF link = "up" THEN "calling" ELSE "failed"]
    /\ handler' = [handler EXCEPT ![c] = IF link = "up" THEN "starting" ELSE @]
    /\ UNCHANGED <<link, pty, got, prog, quiet, produced, wrote, sent, reader, wire, open, stdinVars>>

\* The response of the call: it continues, and stdin is copied, or it fails.
HostCalled(c) ==
    /\ host[c] = "calling"
    /\ wire[c] # <<>>
    /\ wire' = [wire EXCEPT ![c] = Tail(@)]
    /\ \/ /\ Head(wire[c]).kind = "continue"
          /\ host' = [host EXCEPT ![c] = "receiving"]
          /\ copier' = [copier EXCEPT ![c] = "reading"]
       \/ /\ Head(wire[c]).kind = "error"
          /\ host' = [host EXCEPT ![c] = "failed"]
          /\ UNCHANGED copier
    /\ UNCHANGED <<link, pty, got, guestVars, open, taken, holds, input>>

HostOutput(c) ==
    /\ host[c] = "receiving"
    /\ wire[c] # <<>>
    /\ LET m == Head(wire[c]) IN
         /\ m.kind \in Streams
         /\ got' = [got EXCEPT ![c][m.kind] = Append(@, m.chunk)]
    /\ wire' = [wire EXCEPT ![c] = Tail(@)]
    /\ UNCHANGED <<link, pty, host, guestVars, open, stdinVars>>

\* Mutant: Run returns without closing the channel.
HostStatusOpen(c) ==
    /\ host[c] = "receiving"
    /\ wire[c] # <<>> /\ Head(wire[c]).kind = "status"
    /\ host' = [host EXCEPT ![c] = "returned"]
    /\ wire' = [wire EXCEPT ![c] = Tail(@)]
    /\ UNCHANGED <<link, pty, got, guestVars, open, stdinVars>>

\* The status ends Run, whose deferred Close ends the channel.
HostStatus(c) ==
    /\ host[c] = "receiving"
    /\ wire[c] # <<>> /\ Head(wire[c]).kind = "status"
    /\ host' = [host EXCEPT ![c] = "returned"]
    /\ wire' = [wire EXCEPT ![c] = Tail(@)]
    /\ open' = [open EXCEPT ![c] = FALSE]
    /\ UNCHANGED <<link, pty, got, guestVars, stdinVars>>

\* The call or a Receive fails when the connection is lost.
HostFails(c) ==
    /\ link = "down"
    /\ host[c] \in {"calling", "receiving"}
    /\ host' = [host EXCEPT ![c] = "failed"]
    /\ open' = [open EXCEPT ![c] = FALSE]
    /\ UNCHANGED <<link, pty, got, guestVars, wire, stdinVars>>

HostStep(c) == HostCalled(c) \/ HostOutput(c) \/ HostStatus(c) \/ HostFails(c)

----------------------------------------------------------------------------
(* stdin: io.Copy(resp.Channel, os.Stdin) *)

\* The user types when he likes.  Every copier reads the same stdin, the one of
\* a call that has returned too.
CopierReads(c) ==
    /\ copier[c] = "reading"
    /\ taken < MaxInput
    /\ taken' = taken + 1
    /\ holds' = [holds EXCEPT ![c] = taken']
    /\ copier' = [copier EXCEPT ![c] = "writing"]
    /\ UNCHANGED <<link, pty, hostVars, guestVars, wire, open, input>>

\* A write to a closed channel ends the copier, and its chunk is lost.
CopierWrites(c) ==
    /\ copier[c] = "writing"
    /\ holds' = [holds EXCEPT ![c] = 0]
    /\ IF open[c] /\ link = "up"
       THEN /\ input' = [input EXCEPT ![c] = Append(@, holds[c])]
            /\ copier' = [copier EXCEPT ![c] = "reading"]
       ELSE /\ copier' = [copier EXCEPT ![c] = "ended"]
            /\ UNCHANGED input
    /\ UNCHANGED <<link, pty, hostVars, guestVars, wire, open, taken>>

CopierStep(c) == CopierReads(c) \/ CopierWrites(c)

----------------------------------------------------------------------------
(* the guest: the program, API.Run and its readers, while the link is up *)

Guest(c, stage) == link = "up" /\ handler[c] = stage /\ UNCHANGED <<link, pty, hostVars, stdinVars>>

\* The program starts and the call continues with a channel of its own.
GuestStart(c) ==
    /\ Guest(c, "starting")
    /\ handler' = [handler EXCEPT ![c] = "waiting"]
    /\ prog' = [prog EXCEPT ![c] = "running"]
    /\ reader' = [reader EXCEPT ![c] = [s \in Streams |-> IF s \in StreamsOf(c) THEN "reading" ELSE "none"]]
    /\ open' = [open EXCEPT ![c] = TRUE]
    /\ wire' = [wire EXCEPT ![c] = Append(@, [kind |-> "continue"])]
    /\ UNCHANGED <<quiet, produced, wrote, sent>>

\* There is no such program: r.Return(err).
GuestStartFails(c) ==
    /\ Guest(c, "starting")
    /\ handler' = [handler EXCEPT ![c] = "done"]
    /\ wire' = [wire EXCEPT ![c] = Append(@, [kind |-> "error"])]
    /\ UNCHANGED <<prog, quiet, produced, wrote, sent, reader, open>>

ProgramWrites(c, s) ==
    /\ link = "up" /\ prog[c] = "running"
    /\ s \in StreamsOf(c)
    /\ produced < MaxOutput
    /\ produced' = produced + 1
    /\ wrote' = [wrote EXCEPT ![c][s] = @ + 1]
    /\ UNCHANGED <<link, pty, hostVars, prog, quiet, handler, sent, reader, wire, open, stdinVars>>

ProgramExits(c) ==
    /\ link = "up" /\ prog[c] = "running"
    /\ prog' = [prog EXCEPT ![c] = "exited"]
    /\ quiet' = [quiet EXCEPT ![c] = sent[c] = wrote[c]]
    /\ UNCHANGED <<link, pty, hostVars, handler, produced, wrote, sent, reader, wire, open, stdinVars>>

\* After the program, cmd.Wait closes the pipes it was read through.
PipesClosed(c) == ~pty[c] /\ handler[c] \in {"reporting", "closing", "done"}

\* Mutant: the reader sends on what an empty read leaves in its buffer.
ReaderReadsEmpty(c, s) ==
    /\ link = "up" /\ reader[c][s] = "reading"
    /\ ~PipesClosed(c)
    /\ reader' = [reader EXCEPT ![c][s] = "sending"]
    /\ UNCHANGED <<link, pty, hostVars, prog, quiet, handler, produced, wrote, sent, wire, open, stdinVars>>

\* A reader that has no more to read ends, which changes nothing.
ReaderReads(c, s) ==
    /\ link = "up" /\ reader[c][s] = "reading"
    /\ sent[c][s] < wrote[c][s]
    /\ ~PipesClosed(c)
    /\ reader' = [reader EXCEPT ![c][s] = "sending"]
    /\ UNCHANGED <<link, pty, hostVars, prog, quiet, handler, produced, wrote, sent, wire, open, stdinVars>>

\* Mutant: each chunk is sent by a goroutine that gets to it after the buffer
\* has been read into again.
ReaderSendsLate(c, s) ==
    /\ link = "up" /\ reader[c][s] = "sending"
    /\ reader' = [reader EXCEPT ![c][s] = "reading"]
    /\ sent' = [sent EXCEPT ![c][s] = @ + 1]
    /\ Sends(c, [kind |-> s, chunk |-> wrote[c][s]])
    /\ UNCHANGED <<link, pty, hostVars, prog, quiet, handler, produced, wrote, open, stdinVars>>

ReaderSends(c, s) ==
    /\ link = "up" /\ reader[c][s] = "sending"
    /\ reader' = [reader EXCEPT ![c][s] = "reading"]
    /\ sent' = [sent EXCEPT ![c][s] = @ + 1]
    /\ Sends(c, [kind |-> s, chunk |-> sent'[c][s]])
    /\ UNCHANGED <<link, pty, hostVars, prog, quiet, handler, produced, wrote, open, stdinVars>>

ReaderStep(c, s) == ReaderReads(c, s) \/ ReaderSends(c, s)

\* Mutant: API.Run does not wait for the program.
HandlerWaitNot(c) ==
    /\ Guest(c, "waiting")
    /\ handler' = [handler EXCEPT ![c] = "reporting"]
    /\ UNCHANGED <<prog, quiet, produced, wrote, sent, reader, wire, open>>

HandlerWait(c) ==
    /\ Guest(c, "waiting")
    /\ prog[c] = "exited"
    /\ handler' = [handler EXCEPT ![c] = "reporting"]
    /\ UNCHANGED <<prog, quiet, produced, wrote, sent, reader, wire, open>>

\* Mutant: a program that ends as it should has no status to send.
HandlerReportNothing(c) ==
    /\ Guest(c, "reporting")
    /\ handler' = [handler EXCEPT ![c] = "closing"]
    /\ UNCHANGED <<prog, quiet, produced, wrote, sent, reader, wire, open>>

HandlerReport(c) ==
    /\ Guest(c, "reporting")
    /\ handler' = [handler EXCEPT ![c] = "closing"]
    /\ Sends(c, [kind |-> "status"])
    /\ UNCHANGED <<prog, quiet, produced, wrote, sent, reader, open>>

\* The deferred Close.  What was sent before it still arrives.
HandlerClose(c) ==
    /\ Guest(c, "closing")
    /\ handler' = [handler EXCEPT ![c] = "done"]
    /\ open' = [open EXCEPT ![c] = FALSE]
    /\ UNCHANGED <<prog, quiet, produced, wrote, sent, reader, wire>>

HandlerStep(c) ==
    \/ GuestStart(c) \/ GuestStartFails(c)
    \/ HandlerWait(c) \/ HandlerReport(c) \/ HandlerClose(c)

----------------------------------------------------------------------------
\* All steps but the calls, which GuestService makes.
ExecStep ==
    \E c \in Calls :
      \/ HostStep(c) \/ CopierStep(c) \/ HandlerStep(c) \/ ProgramExits(c)
      \/ \E s \in Streams : ProgramWrites(c, s) \/ ReaderStep(c, s)

----------------------------------------------------------------------------
\* The host writes the chunks of a stream in the order the program wrote them,
\* and leaves none out, whatever it misses at the end.
OutputInOrder ==
    \A c \in Calls, s \in Streams :
      /\ Len(got[c][s]) <= wrote[c][s]
      /\ got[c][s] = [i \in 1..Len(got[c][s]) |-> i]

\* Nothing of a program's output is lost if all of it had been sent when the
\* program exited: the status overtakes only what a reader still has to send.
QuietExitComplete ==
    \A c \in Calls, s \in Streams :
      host[c] = "returned" /\ quiet[c] => Len(got[c][s]) = wrote[c][s]

\* What the user types reaches the programs in order, each chunk one of them:
\* a copier left behind by an earlier call loses input and never reorders it.
InputInOrder ==
    \A c, d \in Calls :
      \A i \in DOMAIN input[c], j \in DOMAIN input[d] :
        c < d \/ (c = d /\ i < j) => input[c][i] < input[d][j]
=============================================================================
