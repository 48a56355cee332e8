------------------------------ MODULE Terminal ------------------------------
(****************************************************************************)
(* The bytes of a terminal session (handleTTY in tty.go): io.Copy takes     *)
(* what the machine writes to serial 0 to stdout, through a tee and a pipe  *)
(* when an exit pattern is set; a goroutine looks for the pattern in pieces *)
(* of that output; the handler itself takes stdin to the machine until it   *)
(* meets a Ctrl-D.  Lifecycle has the same session as events only.          *)
(****************************************************************************)
EXTENDS Integers, Sequences, SequencesExt

CONSTANTS Chars,        \* what a terminal shows
          Newline,      \* the newline that asks for a new prompt
          Patterns,     \* bound: exit patterns; the empty one is none
          CopyBuffer,   \* bytes that io.Copy reads at once
          ScanBuffer,   \* bytes that the goroutine reads at once
          MaxOutput,    \* bound: bytes that the machine writes
          MaxInput      \* bound: bytes that are typed

ASSUME TerminalAssumption ==
    /\ Patterns \subseteq Seq(Chars)
    /\ CopyBuffer \in Nat \ {0} /\ ScanBuffer \in Nat \ {0}
    /\ MaxOutput \in Nat /\ MaxInput \in Nat

VARIABLES
    pattern,  \* exitPattern
    restored, \* image.HasInitialState
    serial,   \* what the machine has written
    taken,    \* how much of it io.Copy has read
    chunk,    \* what io.Copy holds and has not written yet
    pipe,     \* what of it the tee has not passed on yet
    printed,  \* stdout
    temp,     \* what the goroutine keeps of earlier pieces
    scanner,  \* the goroutine: off, scanning, found or done
    stdin,    \* the handler: starting, reading or done
    typed,    \* what the handler has read from stdin to pass on
    toGuest,  \* what the machine has been sent
    isOpen,   \* the channel of the session
    exits     \* how the session has ended

outputVars == <<serial, taken, chunk, pipe, printed, temp, scanner>>
inputVars == <<stdin, typed, toGuest>>
ttyVars == <<pattern, restored, outputVars, inputVars, isOpen, exits>>

Smaller(a, b) == IF a <= b THEN a ELSE b

\* bytes.Contains
Occurs(p, s) == \E i \in 0..Len(s) - Len(p) : SubSeq(s, i + 1, i + Len(p)) = p

TerminalInit ==
    /\ pattern \in Patterns
    /\ restored \in BOOLEAN
    /\ serial = <<>> /\ taken = 0 /\ chunk = <<>> /\ pipe = <<>> /\ printed = <<>>
    /\ temp = <<>>
    /\ scanner = IF pattern = <<>> THEN "off" ELSE "scanning"
    /\ stdin = "starting" /\ typed = <<>> /\ toGuest = <<>>
    /\ isOpen = TRUE
    /\ exits = {}

TerminalTypes ==
    /\ pattern \in Patterns
    /\ restored \in BOOLEAN
    /\ serial \in Seq(Chars)
    /\ taken \in 0..Len(serial)
    /\ chunk \in Seq(Chars) /\ Len(chunk) <= Smaller(CopyBuffer, taken)
    /\ pipe \in Seq(Chars) /\ Len(pipe) <= Len(chunk)
    /\ printed \in Seq(Chars)
    /\ temp \in Seq(Chars)
    /\ scanner \in {"off", "scanning", "found", "done"}
    /\ scanner = "off" <=> pattern = <<>>
    /\ stdin \in {"starting", "reading", "done"}
    /\ typed \in Seq(Chars \cup {Newline}) /\ toGuest \in Seq(Chars \cup {Newline})
    /\ isOpen \in BOOLEAN
    /\ exits \subseteq {"pattern", "ctrlD", "fatal"}

----------------------------------------------------------------------------
(* output *)

MachineWrites ==
    /\ isOpen
    /\ Len(serial) < MaxOutput
    /\ \E c \in Chars : serial' = Append(serial, c)
    /\ UNCHANGED <<pattern, restored, taken, chunk, pipe, printed, temp, scanner, inputVars, isOpen, exits>>

\* io.Copy reads; what TeeReader reads it writes to the pipe before it returns.
CopierTakes ==
    /\ chunk = <<>>
    /\ \E n \in 1..Smaller(CopyBuffer, Len(serial) - taken) :
         /\ chunk' = SubSeq(serial, taken + 1, taken + n)
         /\ taken' = taken + n
    /\ pipe' = IF pattern = <<>> THEN <<>> ELSE chunk'
    /\ UNCHANGED <<pattern, restored, serial, printed, temp, scanner, inputVars, isOpen, exits>>

\* The write to the pipe ends when all of it has been read.
CopierPrints ==
    /\ chunk # <<>>
    /\ pipe = <<>>
    /\ printed' = printed \o chunk
    /\ chunk' = <<>>
    /\ UNCHANGED <<pattern, restored, serial, taken, pipe, temp, scanner, inputVars, isOpen, exits>>

\* Mutant: one byte more is dropped than may be.
KeptShort(window) ==
    IF Len(window) > Len(pattern)
    THEN SubSeq(window, Len(window) - Len(pattern) + 3, Len(window))
    ELSE window

\* What is kept for the next piece: temp.Next drops all but the last
\* len(pattern)-1 bytes, if there are more than len(pattern).
Kept(window) ==
    IF Len(window) > Len(pattern)
    THEN SubSeq(window, Len(window) - Len(pattern) + 2, Len(window))
    ELSE window

\* The goroutine reads a piece from the pipe, as much as its buffer takes.
Piece == SubSeq(pipe, 1, Smaller(ScanBuffer, Len(pipe)))
Rest == SubSeq(pipe, Smaller(ScanBuffer, Len(pipe)) + 1, Len(pipe))

ScannerMisses ==
    /\ scanner = "scanning"
    /\ pipe # <<>>
    /\ ~Occurs(pattern, temp \o Piece)
    /\ temp' = Kept(temp \o Piece)
    /\ pipe' = Rest
    /\ UNCHANGED <<pattern, restored, serial, taken, chunk, printed, scanner, inputVars, isOpen, exits>>

ScannerFinds ==
    /\ scanner = "scanning"
    /\ pipe # <<>>
    /\ Occurs(pattern, temp \o Piece)
    /\ temp' = temp \o Piece
    /\ pipe' = Rest
    /\ scanner' = "found"
    /\ UNCHANGED <<pattern, restored, serial, taken, chunk, printed, inputVars, isOpen, exits>>

\* Some time later it closes the channel and calls Exit.  It reads no more: what
\* is in the pipe stays there, and io.Copy stays with it.
ScannerExits ==
    /\ scanner = "found"
    /\ isOpen' = FALSE
    /\ exits' = exits \cup {"pattern"}
    /\ scanner' = "done"
    /\ UNCHANGED <<pattern, restored, serial, taken, chunk, pipe, printed, temp, inputVars>>

----------------------------------------------------------------------------
(* input *)

\* The newline that asks for a prompt; then the handler begins to read.
StdinStarts ==
    /\ stdin = "starting"
    /\ stdin' = "reading"
    /\ typed' = IF restored THEN <<Newline>> ELSE <<>>
    /\ toGuest' = IF isOpen THEN typed' ELSE <<>>
    /\ UNCHANGED <<pattern, restored, outputVars, isOpen, exits>>

\* What is read at once: without a Ctrl-D it is passed on, if the channel is
\* open; the error of a write is logged and no more.
StdinPasses ==
    /\ stdin = "reading"
    /\ \E input \in SeqOf(Chars, MaxInput - Len(typed)) \ {<<>>} :
         /\ typed' = typed \o input
         /\ toGuest' = IF isOpen THEN toGuest \o input ELSE toGuest
    /\ UNCHANGED <<pattern, restored, outputVars, stdin, isOpen, exits>>

\* With a Ctrl-D nothing of it is passed on.
StdinCtrlD ==
    /\ stdin = "reading"
    /\ stdin' = "done"
    /\ isOpen' = FALSE
    /\ exits' = exits \cup {"ctrlD"}
    /\ UNCHANGED <<pattern, restored, outputVars, typed, toGuest>>

\* Stdin ends or fails: log.Fatal takes the process and so the channel.
StdinFails ==
    /\ stdin = "reading"
    /\ stdin' = "done"
    /\ isOpen' = FALSE
    /\ exits' = exits \cup {"fatal"}
    /\ UNCHANGED <<pattern, restored, outputVars, typed, toGuest>>

----------------------------------------------------------------------------
Copier == CopierTakes \/ CopierPrints
Scanner == ScannerMisses \/ ScannerFinds \/ ScannerExits
TerminalNext ==
    \/ MachineWrites \/ Copier \/ Scanner
    \/ StdinStarts \/ StdinPasses \/ StdinCtrlD \/ StdinFails

TerminalSpec ==
    TerminalInit /\ [][TerminalNext]_ttyVars /\ WF_ttyVars(Copier) /\ WF_ttyVars(Scanner)

----------------------------------------------------------------------------
\* What the goroutine has seen of the output.
Scanned == SubSeq(serial, 1, taken - Len(pipe))

\* The goroutine has found the pattern exactly when it occurs in all that it
\* has read, however that was cut into pieces.
PatternFound ==
    scanner # "off" => (scanner \in {"found", "done"} <=> Occurs(pattern, Scanned))

\* A machine that writes the pattern ends its session, unless it has ended.
PatternExits == pattern # <<>> /\ Occurs(pattern, serial) ~> exits # {}
=============================================================================
