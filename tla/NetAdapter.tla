----------------------------- MODULE NetAdapter -----------------------------
(****************************************************************************)
(* qemuAdapter (network/handler.go): it stands between the websocket of the *)
(* page, where a message is an Ethernet frame, and the virtual network,     *)
(* which reads and writes a stream of frames, each after its length in four *)
(* bytes.  The stream is cut anywhere: a Read may ask for any number of     *)
(* bytes and a Write may bring the end of one frame and the beginning of    *)
(* another.                                                                 *)
(****************************************************************************)
EXTENDS BigEndian, SequencesExt

CONSTANTS FrameSizes,  \* bound: lengths of frames
          MaxFrames    \* bound: frames that go one way

\* A frame and its length together still have a length in four bytes.
ASSUME FramesAssumption ==
    /\ FrameSizes \subseteq {n \in Lengths : n + LengthBytes \in Lengths}
    /\ MaxFrames \in Nat

VARIABLES
    inbox,       \* lengths of the frames that the page sends
    fetched,     \* frames taken off the websocket by ReadMessage
    readBuffer,  \* fields of qemuAdapter
    readOffset,
    read,        \* the stream that the network has read
    outbox,      \* lengths of the frames that the network sends
    written,     \* bytes of their stream that it has given to Write
    writeBuffer, \* field of qemuAdapter
    sent,        \* messages given to WriteMessage
    crowded,     \* some Write brought the ends of two frames
    down         \* the websocket has failed

readVars == <<inbox, fetched, readBuffer, readOffset, read>>
writeVars == <<outbox, written, writeBuffer, sent, crowded>>
adapterVars == <<readVars, writeVars, down>>

\* Byte i of the f-th frame of a stream, the length in front included: n is
\* its value, which for the contents of a frame may be anything.
StreamByte(f, i, size) ==
    [n |-> IF i <= LengthBytes THEN Bytes(size)[i] ELSE 1, frame |-> f, pos |-> i]
Prefix(f, size) == [i \in 1..LengthBytes |-> StreamByte(f, i, size)]
Contents(f, size) == [i \in 1..size |-> StreamByte(f, LengthBytes + i, size)]
Framed(f, size) == Prefix(f, size) \o Contents(f, size)

Stream(sizes) == FlattenSeq([f \in 1..Len(sizes) |-> Framed(f, sizes[f])])
StreamLength(sizes) == Len(Stream(sizes))

\* binary.BigEndian.Uint32
Uint32(b) == Length(b[1].n, b[2].n, b[3].n, b[4].n)

\* The frames whose last byte is among the first n of the stream.
Finished(sizes, n) ==
    {f \in 1..Len(sizes) : StreamLength(SubSeq(sizes, 1, f)) <= n}
FinishedFrames(sizes, n) == [f \in 1..Cardinality(Finished(sizes, n)) |-> Contents(f, sizes[f])]

AdapterInit ==
    /\ inbox \in SeqOf(FrameSizes, MaxFrames)
    /\ outbox \in SeqOf(FrameSizes, MaxFrames)
    /\ fetched = 0 /\ readBuffer = <<>> /\ readOffset = 0 /\ read = <<>>
    /\ written = 0 /\ writeBuffer = <<>> /\ sent = <<>>
    /\ crowded = FALSE /\ down = FALSE

AdapterTypes ==
    /\ fetched \in 0..Len(inbox)
    /\ readOffset \in Nat
    /\ readBuffer # <<>> => readOffset < Len(readBuffer)
    /\ written \in 0..StreamLength(outbox)
    /\ Len(writeBuffer) <= written
    /\ Len(sent) <= Len(outbox)
    /\ crowded \in BOOLEAN /\ down \in BOOLEAN

----------------------------------------------------------------------------
(* from the page to the network *)

\* Mutant: a buffer that has been read to its end is kept.
CopyOutKeeps(buffer, offset, n) ==
    /\ read' = read \o SubSeq(buffer, offset + 1, offset + n)
    /\ readOffset' = offset + n
    /\ readBuffer' = IF offset + n > Len(buffer) THEN <<>> ELSE buffer

\* The rest of a Read once the buffer is filled: p has room for n bytes.
CopyOut(buffer, offset, n) ==
    /\ read' = read \o SubSeq(buffer, offset + 1, offset + n)
    /\ readOffset' = offset + n
    /\ readBuffer' = IF offset + n >= Len(buffer) THEN <<>> ELSE buffer

\* Mutant: a new message is read from where the last one ended.
ReadFetchNoReset ==
    /\ ~down
    /\ readBuffer = <<>>
    /\ fetched < Len(inbox)
    /\ fetched' = fetched + 1
    /\ LET buffer == Framed(fetched', inbox[fetched'])
           offset == IF readOffset < Len(buffer) THEN readOffset ELSE 0
       IN \E n \in 1..Len(buffer) - offset : CopyOut(buffer, offset, n)
    /\ UNCHANGED <<inbox, writeVars, down>>

\* Read with an empty buffer takes the next message and puts its length first.
ReadFetch ==
    /\ ~down
    /\ readBuffer = <<>>
    /\ fetched < Len(inbox)
    /\ fetched' = fetched + 1
    /\ LET buffer == Framed(fetched', inbox[fetched'])
       IN \E n \in 1..Len(buffer) : CopyOut(buffer, 0, n)
    /\ UNCHANGED <<inbox, writeVars, down>>

\* Read with something left goes on with that, even when the socket is gone.
ReadRest ==
    /\ readBuffer # <<>>
    /\ \E n \in 1..Len(readBuffer) - readOffset : CopyOut(readBuffer, readOffset, n)
    /\ UNCHANGED <<inbox, fetched, writeVars, down>>

----------------------------------------------------------------------------
(* from the network to the page; Write holds a lock *)

\* The buffer once the next n bytes of the stream are appended to it.
Appended(n) == writeBuffer \o SubSeq(Stream(outbox), written + 1, written + n)

HasFrame(buffer) == Len(buffer) >= LengthBytes /\ Len(buffer) >= Uint32(buffer) + LengthBytes

\* One call of Write that brings n bytes.
Written(n) ==
    /\ written + n <= StreamLength(outbox)
    /\ written' = written + n
    /\ crowded' = (crowded \/ Cardinality(Finished(outbox, written + n)) > Cardinality(Finished(outbox, written)) + 1)
    /\ UNCHANGED <<outbox, readVars>>

\* Without a whole frame the bytes are kept.
WriteKeeps ==
    \E n \in 1..StreamLength(outbox) - written :
      /\ ~down
      /\ Written(n)
      /\ ~HasFrame(Appended(n))
      /\ writeBuffer' = Appended(n)
      /\ UNCHANGED <<sent, down>>

\* Mutant: the buffer is looked at before the new bytes are appended to it.
WriteSendsLate ==
    \E n \in 1..StreamLength(outbox) - written :
      /\ ~down
      /\ Written(n)
      /\ HasFrame(Appended(n))
      /\ LET size == Uint32(Appended(n))
         IN IF HasFrame(writeBuffer)
            THEN /\ sent' = Append(sent, SubSeq(Appended(n), LengthBytes + 1, LengthBytes + size))
                 /\ writeBuffer' = SubSeq(Appended(n), LengthBytes + size + 1, Len(Appended(n)))
            ELSE sent' = sent /\ writeBuffer' = Appended(n)
      /\ UNCHANGED down

\* A whole frame goes out as a message; one only, whatever else is there.
WriteSends ==
    \E n \in 1..StreamLength(outbox) - written :
      /\ ~down
      /\ Written(n)
      /\ HasFrame(Appended(n))
      /\ LET size == Uint32(Appended(n))
         IN /\ sent' = Append(sent, SubSeq(Appended(n), LengthBytes + 1, LengthBytes + size))
            /\ writeBuffer' = SubSeq(Appended(n), LengthBytes + size + 1, Len(Appended(n)))
      /\ UNCHANGED down

\* WriteMessage fails: the bytes stay in the buffer and the network gives up.
WriteFails ==
    \E n \in 1..StreamLength(outbox) - written :
      /\ ~down
      /\ Written(n)
      /\ HasFrame(Appended(n))
      /\ writeBuffer' = Appended(n)
      /\ down' = TRUE
      /\ UNCHANGED sent

\* ReadMessage fails: Handler returns from AcceptQemu and closes the socket.
SocketFails ==
    /\ ~down
    /\ readBuffer = <<>>
    /\ down' = TRUE
    /\ UNCHANGED <<readVars, writeVars>>

AdapterNext == ReadFetch \/ ReadRest \/ WriteKeeps \/ WriteSends \/ WriteFails \/ SocketFails

AdapterSpec == AdapterInit /\ [][AdapterNext]_adapterVars

----------------------------------------------------------------------------
\* What went in and came out of the adapter, for the promise of Fifo.
FetchedStream == Stream(SubSeq(inbox, 1, fetched))
WrittenFrames == FinishedFrames(outbox, written)

\* As long as no Write brings the ends of two frames, no whole frame stays in
\* the buffer: what the network sends does not wait for what it sends next.
LoneFrameNotHeld == ~crowded /\ ~down => sent = WrittenFrames
=============================================================================
