------------------------------ MODULE GuestLink ------------------------------
(****************************************************************************)
(* Serial port 1 in the page (assets/env86.js): the guest service writes    *)
(* messages of the mux protocol to it, and the page puts their bytes        *)
(* together again to send each message whole on the guest websocket, where  *)
(* the host (handleGuest) reads them as one stream.  The machine may be     *)
(* restored from a state that was saved in the middle of a message, and may *)
(* write before the websocket is open.                                      *)
(****************************************************************************)
EXTENDS BigEndian, SequencesExt

CONSTANTS LinkKinds,    \* bound: the kinds of messages that the guest writes
          DataSizes,    \* bound: lengths of the contents of a data message
          MaxMessages   \* bound: messages that it writes

\* The first byte of a message is its kind; messageSizes.
Data == 104
MessageSizes == {<<100, 13>>, <<101, 17>>, <<102, 5>>, <<103, 9>>, <<Data, 9>>, <<105, 5>>, <<106, 5>>}
Kinds == {m[1] : m \in MessageSizes}
SizeOf(kind) == (CHOOSE m \in MessageSizes : m[1] = kind)[2]

ASSUME LinkAssumption ==
    /\ LinkKinds \subseteq Kinds
    /\ DataSizes \subseteq Lengths
    /\ MaxMessages \in Nat

\* What the guest service writes: a message has contents only if it is data.
Outgoing == {m \in [kind : LinkKinds, size : DataSizes \cup {0}] : m.kind # Data => m.size = 0}

VARIABLES
    outgoing, \* messages that the guest service writes
    lost,     \* bytes of the first that an earlier page took from the port
    emitted,  \* bytes that this page has taken
    buf,      \* the page's buffer
    socket,   \* the guest websocket: connecting, open or closed
    arrived,  \* messages that the host has received
    threw     \* send was called before the websocket was open, and threw

linkVars == <<outgoing, lost, emitted, buf, socket, arrived, threw>>

WireSize(m) == SizeOf(m.kind) + m.size

\* Bytes 6 to 9 of a data message are its length; its contents may look like
\* the beginning of another one.
ByteValue(m, i) ==
    IF i = 1 THEN m.kind
    ELSE IF m.kind = Data /\ i \in 6..9 THEN Bytes(m.size)[i - 5]
    ELSE IF i > SizeOf(m.kind) THEN Data ELSE 0

WireMessage(k, m) == [i \in 1..WireSize(m) |-> [n |-> ByteValue(m, i), msg |-> k, pos |-> i]]
WireStream == FlattenSeq([k \in 1..Len(outgoing) |-> WireMessage(k, outgoing[k])])

\* The messages that end within the first n bytes of the stream.
EndOf(k) == Len(FlattenSeq([j \in 1..k |-> WireMessage(j, outgoing[j])]))
CompleteMessages(n) ==
    [k \in 1..Cardinality({j \in 1..Len(outgoing) : EndOf(j) <= n}) |-> WireMessage(k, outgoing[k])]

LinkInit ==
    /\ outgoing \in SeqOf(Outgoing, MaxMessages)
    /\ lost \in 0..(IF outgoing = <<>> THEN 0 ELSE WireSize(outgoing[1]) - 1)
    /\ emitted = lost
    /\ buf = <<>>
    /\ socket = "connecting"
    /\ arrived = <<>>
    /\ threw = FALSE

LinkTypes ==
    /\ emitted \in lost..Len(WireStream)
    /\ Len(buf) <= emitted - lost
    /\ socket \in {"connecting", "open", "closed"}
    /\ arrived # <<>> => socket # "connecting"
    /\ threw \in BOOLEAN

----------------------------------------------------------------------------
(* the listener of serial1-output-byte *)

NextByte == WireStream[emitted + 1]

\* Mutant: the length is looked for one byte late.
ExpectedSizeLate(b) ==
    IF b[1].n = Data /\ Len(b) > 9 THEN {9 + Length(b[6].n, b[7].n, b[8].n, b[9].n)}
    ELSE {m[2] : m \in {s \in MessageSizes : s[1] = b[1].n}}

\* How long the message in b is: one number, or none when its kind is unknown.
ExpectedSize(b) ==
    IF b[1].n = Data /\ Len(b) >= 9 THEN {9 + Length(b[6].n, b[7].n, b[8].n, b[9].n)}
    ELSE {m[2] : m \in {s \in MessageSizes : s[1] = b[1].n}}

\* The first byte of a message is kept without a look at it.
ByteFirst ==
    /\ emitted < Len(WireStream)
    /\ buf = <<>>
    /\ buf' = <<NextByte>>
    /\ emitted' = emitted + 1
    /\ UNCHANGED <<outgoing, lost, socket, arrived, threw>>

\* A later byte, after which the page looks at the whole buffer.
ByteLater ==
    /\ emitted < Len(WireStream)
    /\ buf # <<>>
    /\ emitted' = emitted + 1
    /\ UNCHANGED <<outgoing, lost, socket>>

\* "unexpected buffer": it is thrown away.
ByteUnknown ==
    /\ ByteLater
    /\ ExpectedSize(Append(buf, NextByte)) = {}
    /\ buf' = <<>>
    /\ UNCHANGED <<arrived, threw>>

ByteKept ==
    /\ ByteLater
    /\ \E size \in ExpectedSize(Append(buf, NextByte)) : Len(buf) + 1 < size
    /\ buf' = Append(buf, NextByte)
    /\ UNCHANGED <<arrived, threw>>

\* Mutant: the buffer is not emptied once it has been sent.
ByteSendsKeeps ==
    /\ ByteLater
    /\ socket = "open"
    /\ \E size \in ExpectedSize(Append(buf, NextByte)) : Len(buf) + 1 >= size
    /\ arrived' = Append(arrived, Append(buf, NextByte))
    /\ buf' = Append(buf, NextByte)
    /\ UNCHANGED threw

\* The buffer holds a message, or more: all of it is sent.
ByteSends ==
    /\ ByteLater
    /\ socket = "open"
    /\ \E size \in ExpectedSize(Append(buf, NextByte)) : Len(buf) + 1 >= size
    /\ arrived' = Append(arrived, Append(buf, NextByte))
    /\ buf' = <<>>
    /\ UNCHANGED threw

\* send on a closed websocket drops what it is given without an error.
ByteDropped ==
    /\ ByteLater
    /\ socket = "closed"
    /\ \E size \in ExpectedSize(Append(buf, NextByte)) : Len(buf) + 1 >= size
    /\ buf' = <<>>
    /\ UNCHANGED <<arrived, threw>>

\* send before the websocket is open throws, and the buffer is not emptied.
ByteThrows ==
    /\ ByteLater
    /\ socket = "connecting"
    /\ \E size \in ExpectedSize(Append(buf, NextByte)) : Len(buf) + 1 >= size
    /\ buf' = Append(buf, NextByte)
    /\ threw' = TRUE
    /\ UNCHANGED arrived

SocketChanges ==
    /\ \/ socket = "connecting" /\ socket' \in {"open", "closed"}
       \/ socket = "open" /\ socket' = "closed"
    /\ UNCHANGED <<outgoing, lost, emitted, buf, arrived, threw>>

LinkNext ==
    \/ ByteFirst \/ ByteUnknown \/ ByteKept \/ ByteSends \/ ByteDropped \/ ByteThrows
    \/ SocketChanges

LinkSpec == LinkInit /\ [][LinkNext]_linkVars

----------------------------------------------------------------------------
\* With a machine that was saved between two messages, and a websocket that was
\* open before the first one ended, the host has got every message that the
\* guest has finished, each by itself, and none waits in the page.
LinkWhole ==
    lost = 0 /\ ~threw /\ socket = "open" => arrived = CompleteMessages(emitted)

\* Whatever was lost, thrown or dropped, the host never gets a byte twice or
\* out of order.
LinkBytesInOrder ==
    LET bytes == FlattenSeq(arrived)
    IN \A i, j \in 1..Len(bytes) :
         i < j => \/ bytes[i].msg < bytes[j].msg
                  \/ bytes[i].msg = bytes[j].msg /\ bytes[i].pos < bytes[j].pos
=============================================================================
