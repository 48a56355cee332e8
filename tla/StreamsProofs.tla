--------------------------- MODULE StreamsProofs ---------------------------
(****************************************************************************)
(* The three streams of a VM, for frames and messages of any length that    *)
(* four bytes hold, for patterns and texts of any length, and for any way   *)
(* they are cut into pieces, whatever the radix.  Each stream has an        *)
(* inductive invariant: AdapterInv for the network, LinkInv for the page's  *)
(* part of serial port 1, TerminalInv and SessionInv for the terminal.  The *)
(* theorems, and that the network and the terminal implement Fifo, are at   *)
(* the end.                                                                 *)
(****************************************************************************)
EXTENDS Streams, DataFacts

----------------------------------------------------------------------------
(* LENGTHS in four bytes *)

\* Division with remainder, for a divisor that is not a number written down.
LEMMA DivMod ==
    ASSUME NEW n \in Nat
    PROVE  /\ n \div Radix \in Nat /\ n % Radix \in 0..Radix - 1
           /\ (n \div Radix) * Radix + (n % Radix) = n
BY RadixAssumption

LEMMA DivLess ==
    ASSUME NEW n \in Nat, NEW k \in Nat, n < Radix * k
    PROVE  n \div Radix < k
<1>1. PICK m : m = n \div Radix
  OBVIOUS
<1>2. m \in Nat /\ m * Radix <= n
  BY <1>1, DivMod, RadixAssumption
<1>3. SUFFICES ASSUME k <= m PROVE FALSE
  BY <1>1, <1>2
<1>4. k * Radix <= m * Radix
  BY <1>2, <1>3, RadixAssumption
<1>. QED
  BY <1>2, <1>4, RadixAssumption

LEMMA SmallMod ==
    ASSUME NEW n \in Nat, n < Radix
    PROVE  n % Radix = n
<1>1. n \div Radix < 1
  BY DivLess, RadixAssumption
<1>. QED
  BY <1>1, DivMod, RadixAssumption

\* A length has four bytes.
LEMMA BytesAre ==
    ASSUME NEW n \in Nat
    PROVE  /\ Len(Bytes(n)) = 4
           /\ \A i \in 1..4 : Bytes(n)[i] \in Nat
<1>1. PICK a, b, c : a = n \div Radix /\ b = a \div Radix /\ c = b \div Radix
  OBVIOUS
<1>2. a \in Nat /\ b \in Nat /\ c \in Nat
  BY <1>1, DivMod
<1>3. n % Radix \in Nat /\ a % Radix \in Nat /\ b % Radix \in Nat /\ c % Radix \in Nat
  BY <1>2, RadixAssumption, DivMod
<1>4. Bytes(n) = <<c % Radix, b % Radix, a % Radix, n % Radix>>
  BY <1>1 DEF Bytes
<1>. QED
  BY <1>3, <1>4

\* The length that is read from its four bytes is the one that was written.
LEMMA LengthOfBytes ==
    ASSUME NEW n \in Lengths
    PROVE  n \in Nat /\ Length(Bytes(n)[1], Bytes(n)[2], Bytes(n)[3], Bytes(n)[4]) = n
<1>1. PICK a, b, c : a = n \div Radix /\ b = a \div Radix /\ c = b \div Radix
  OBVIOUS
<1>2. n \in Nat /\ n < Radix * (Radix * (Radix * Radix))
  BY RadixAssumption DEF Lengths
<1>3. Radix * Radix \in Nat /\ Radix * (Radix * Radix) \in Nat
  BY RadixAssumption
<1>4. a \in Nat /\ a < Radix * (Radix * Radix) /\ n % Radix \in Nat /\ a * Radix + (n % Radix) = n
  BY <1>1, <1>2, <1>3, DivMod, DivLess
<1>5. b \in Nat /\ b < Radix * Radix /\ a % Radix \in Nat /\ b * Radix + (a % Radix) = a
  BY <1>1, <1>3, <1>4, DivMod, DivLess
<1>6. c \in Nat /\ c < Radix /\ b % Radix \in Nat /\ c * Radix + (b % Radix) = b
  <2>1. Radix \in Nat
    BY RadixAssumption
  <2>2. c \in Nat /\ b % Radix \in Nat /\ c * Radix + (b % Radix) = b
    BY <1>1, <1>5, DivMod
  <2>3. c < Radix
    BY <1>1, <1>5, <2>1, DivLess
  <2>. QED
    BY <2>2, <2>3
<1>7. Bytes(n) = <<c, b % Radix, a % Radix, n % Radix>>
  BY <1>1, <1>6, SmallMod DEF Bytes
<1>8. Length(c, b % Radix, a % Radix, n % Radix) = n
  BY <1>4, <1>5, <1>6 DEF Length
<1>. QED
  BY <1>2, <1>7, <1>8

----------------------------------------------------------------------------
(* NETWORK: frames as bytes *)

\* The bytes of a stream of frames, and where the first k of its frames end.
Byte == [n : Nat, frame : Nat, pos : Nat]
Frames(sizes) == [f \in 1..Len(sizes) |-> Framed(f, sizes[f])]
EndsAt(sizes, k) == Len(Upto(Frames(sizes), k))

\* A frame as bytes: its length, then its contents.
LEMMA FramedIs ==
    ASSUME NEW f \in Nat, NEW size \in Nat
    PROVE  /\ Framed(f, size) \in Seq(Byte) /\ Len(Framed(f, size)) = LengthBytes + size
           /\ \A i \in 1..LengthBytes + size : Framed(f, size)[i] = StreamByte(f, i, size)
           /\ Contents(f, size) \in Seq(Byte) /\ Len(Contents(f, size)) = size
           /\ \A i \in 1..size : Contents(f, size)[i] = StreamByte(f, LengthBytes + i, size)
<1>1. LengthBytes = 4
  BY DEF LengthBytes
<1>2. \A i \in Nat \ {0} : StreamByte(f, i, size) \in Byte
  <2>1. \A i \in 1..4 : Bytes(size)[i] \in Nat
    BY BytesAre
  <2>. QED
    BY <1>1, <2>1 DEF StreamByte, Byte
<1>3. /\ Prefix(f, size) \in Seq(Byte) /\ Len(Prefix(f, size)) = 4
      /\ \A i \in 1..4 : Prefix(f, size)[i] = StreamByte(f, i, size)
  <2>1. \A i \in 1..4 : StreamByte(f, i, size) \in Byte
    BY <1>2
  <2>. QED
    BY <1>1, <2>1 DEF Prefix
<1>4. /\ Contents(f, size) \in Seq(Byte) /\ Len(Contents(f, size)) = size
      /\ \A i \in 1..size : Contents(f, size)[i] = StreamByte(f, LengthBytes + i, size)
  <2>1. \A i \in 1..size : StreamByte(f, LengthBytes + i, size) \in Byte
    BY <1>1, <1>2
  <2>. QED
    BY <2>1 DEF Contents
<1>5. /\ Framed(f, size) \in Seq(Byte) /\ Len(Framed(f, size)) = 4 + size
      /\ \A i \in 1..4 + size :
           Framed(f, size)[i] = IF i <= 4 THEN Prefix(f, size)[i] ELSE Contents(f, size)[i - 4]
  <2>1. PICK a, b : a = Prefix(f, size) /\ b = Contents(f, size)
    OBVIOUS
  <2>2. /\ a \o b \in Seq(Byte) /\ Len(a \o b) = Len(a) + Len(b)
        /\ \A i \in 1..Len(a) + Len(b) : (a \o b)[i] = IF i <= Len(a) THEN a[i] ELSE b[i - Len(a)]
    BY <1>3, <1>4, <2>1, ConcatProperties
  <2>3. Len(a) = 4 /\ Len(b) = size /\ Framed(f, size) = a \o b
    BY <1>3, <1>4, <2>1 DEF Framed
  <2>. QED
    BY <2>1, <2>2, <2>3
<1>6. ASSUME NEW i \in 1..4 + size PROVE Framed(f, size)[i] = StreamByte(f, i, size)
  <2>1. CASE i <= 4
    BY <1>3, <1>5, <2>1
  <2>2. CASE ~(i <= 4)
    <3>1. i - 4 \in 1..size /\ LengthBytes + (i - 4) = i
      BY <1>1, <2>2
    <3>. QED
      BY <1>4, <1>5, <2>2, <3>1
  <2>. QED
    BY <2>1, <2>2
<1>. QED
  BY <1>1, <1>4, <1>5, <1>6

\* A stream of frames is its frames, one after the other.
LEMMA FramesIs ==
    ASSUME NEW sizes \in Seq(Nat)
    PROVE  /\ Frames(sizes) \in Seq(Seq(Byte)) /\ Len(Frames(sizes)) = Len(sizes)
           /\ \A f \in 1..Len(sizes) : Frames(sizes)[f] = Framed(f, sizes[f])
           /\ Stream(sizes) = Upto(Frames(sizes), Len(sizes))
           /\ \A k \in 0..Len(sizes) : Stream(SubSeq(sizes, 1, k)) = Upto(Frames(sizes), k)
<1>1. Len(sizes) \in Nat /\ \A f \in 1..Len(sizes) : sizes[f] \in Nat
  BY LenProperties, ElementOfSeq
<1>2. \A f \in 1..Len(sizes) : Framed(f, sizes[f]) \in Seq(Byte)
  <2>1. \A f \in 1..Len(sizes) : f \in Nat /\ sizes[f] \in Nat
    BY <1>1
  <2>. QED
    BY <2>1, FramedIs
<1>3. /\ Frames(sizes) \in Seq(Seq(Byte)) /\ Len(Frames(sizes)) = Len(sizes)
      /\ \A f \in 1..Len(sizes) : Frames(sizes)[f] = Framed(f, sizes[f])
  BY <1>1, <1>2 DEF Frames
<1>4. Stream(sizes) = Upto(Frames(sizes), Len(sizes))
  <2>1. Stream(sizes) = FlattenSeq(Frames(sizes))
    BY DEF Stream, Frames
  <2>. QED
    BY <1>3, <2>1, UptoFacts
<1>5. ASSUME NEW k \in 0..Len(sizes)
      PROVE  Stream(SubSeq(sizes, 1, k)) = Upto(Frames(sizes), k)
  <2>1. PICK few : few = SubSeq(sizes, 1, k)
    OBVIOUS
  <2>2. few \in Seq(Nat) /\ Len(few) = k /\ \A f \in 1..k : few[f] = sizes[f]
    <3>1. 0 \in Nat /\ k \in Nat /\ 0 <= k /\ k <= Len(sizes) /\ few = SubSeq(sizes, 0 + 1, k)
      BY <1>1, <2>1
    <3>2. few \in Seq(Nat) /\ Len(few) = k - 0 /\ \A j \in 1..k - 0 : few[j] = sizes[0 + j]
      BY <3>1, Between
    <3>. QED
      BY <1>1, <3>2
  <2>3. [f \in 1..Len(few) |-> Framed(f, few[f])] = [f \in 1..k |-> Frames(sizes)[f]]
    <3>1. \A f \in 1..k : Framed(f, few[f]) = Frames(sizes)[f]
      BY <1>1, <1>3, <2>2
    <3>. QED
      BY <2>2, <3>1
  <2>. QED
    BY <2>1, <2>3 DEF Stream, Upto
<1>. QED
  BY <1>3, <1>4, <1>5

\* Where frames end in their stream, and what stands before that.
LEMMA EndsFacts ==
    ASSUME NEW sizes \in Seq(Nat)
    PROVE  /\ EndsAt(sizes, 0) = 0 /\ EndsAt(sizes, Len(sizes)) = StreamLength(sizes)
           /\ Len(sizes) \in Nat /\ \A f \in 1..Len(sizes) : sizes[f] \in Nat
           /\ \A k \in 0..Len(sizes) : EndsAt(sizes, k) \in Nat /\ EndsAt(sizes, k) <= StreamLength(sizes)
           /\ \A k \in 0..Len(sizes), l \in 0..Len(sizes) : k <= l => EndsAt(sizes, k) <= EndsAt(sizes, l)
           /\ \A k \in 0..Len(sizes) - 1 :
                EndsAt(sizes, k + 1) = EndsAt(sizes, k) + LengthBytes + sizes[k + 1]
           /\ Stream(sizes) \in Seq(Byte)
           /\ \A k \in 0..Len(sizes) - 1 : \A i \in 1..LengthBytes + sizes[k + 1] :
                Stream(sizes)[EndsAt(sizes, k) + i] = StreamByte(k + 1, i, sizes[k + 1])
<1>1. PICK seqs : seqs = Frames(sizes)
  OBVIOUS
<1>2. /\ seqs \in Seq(Seq(Byte)) /\ Len(seqs) = Len(sizes)
      /\ \A f \in 1..Len(sizes) : seqs[f] = Framed(f, sizes[f])
      /\ Stream(sizes) = Upto(seqs, Len(sizes))
  BY <1>1, FramesIs
<1>3. \A k : EndsAt(sizes, k) = Len(Upto(seqs, k))
  BY <1>1 DEF EndsAt
<1>4. Len(sizes) \in Nat /\ \A f \in 1..Len(sizes) : sizes[f] \in Nat
  BY LenProperties, ElementOfSeq
<1>5. EndsAt(sizes, 0) = 0
  BY <1>2, <1>3, UptoFacts, EmptySeq
<1>6. EndsAt(sizes, Len(sizes)) = StreamLength(sizes) /\ Stream(sizes) \in Seq(Byte)
  BY <1>2, <1>3, <1>4, UptoFacts DEF StreamLength
<1>7. \A k \in 0..Len(sizes) : EndsAt(sizes, k) \in Nat
  BY <1>2, <1>3, UptoFacts
<1>8. ASSUME NEW k \in 0..Len(sizes), NEW l \in 0..Len(sizes), k <= l
      PROVE  EndsAt(sizes, k) <= EndsAt(sizes, l)
  <2>1. k \in 0..Len(seqs) /\ l \in k..Len(seqs)
    BY <1>2, <1>4, <1>8
  <2>. QED
    BY <1>2, <1>3, <2>1, UptoBegins
<1>9. ASSUME NEW k \in 0..Len(sizes) - 1
      PROVE  /\ EndsAt(sizes, k + 1) = EndsAt(sizes, k) + LengthBytes + sizes[k + 1]
             /\ \A i \in 1..LengthBytes + sizes[k + 1] :
                  Stream(sizes)[EndsAt(sizes, k) + i] = StreamByte(k + 1, i, sizes[k + 1])
  <2>1. /\ k + 1 \in 1..Len(sizes) /\ k + 1 \in Nat /\ k \in 0..Len(seqs) - 1
        /\ Len(seqs) \in k + 1..Len(seqs) /\ sizes[k + 1] \in Nat /\ k \in 0..Len(sizes)
    BY <1>2, <1>4
  <2>2. /\ Len(seqs[k + 1]) = LengthBytes + sizes[k + 1]
        /\ \A i \in 1..LengthBytes + sizes[k + 1] : seqs[k + 1][i] = StreamByte(k + 1, i, sizes[k + 1])
    <3>1. PICK f, size : f = k + 1 /\ size = sizes[k + 1]
      OBVIOUS
    <3>2. f \in Nat /\ size \in Nat /\ seqs[f] = Framed(f, size)
      BY <1>2, <2>1, <3>1
    <3>3. /\ Len(Framed(f, size)) = LengthBytes + size
          /\ \A i \in 1..LengthBytes + size : Framed(f, size)[i] = StreamByte(f, i, size)
      BY <3>2, FramedIs
    <3>. QED
      BY <3>1, <3>2, <3>3
  <2>3. EndsAt(sizes, k + 1) = EndsAt(sizes, k) + Len(seqs[k + 1])
    BY <1>2, <1>3, <2>1, UptoFacts
  <2>4. \A i \in 1..Len(seqs[k + 1]) : Upto(seqs, Len(seqs))[Len(Upto(seqs, k)) + i] = seqs[k + 1][i]
    BY <1>2, <2>1, UptoNext
  <2>5. EndsAt(sizes, k) \in Nat /\ LengthBytes \in Nat
    BY <1>7, <2>1 DEF LengthBytes
  <2>6. EndsAt(sizes, k + 1) = EndsAt(sizes, k) + LengthBytes + sizes[k + 1]
    BY <2>1, <2>2, <2>3, <2>5
  <2>7. Stream(sizes) = Upto(seqs, Len(seqs)) /\ EndsAt(sizes, k) = Len(Upto(seqs, k))
    BY <1>2, <1>3
  <2>8. \A i \in 1..LengthBytes + sizes[k + 1] :
          Stream(sizes)[EndsAt(sizes, k) + i] = StreamByte(k + 1, i, sizes[k + 1])
    BY <2>2, <2>4, <2>7
  <2>. QED
    BY <2>6, <2>8
<1>10. \A k \in 0..Len(sizes) : EndsAt(sizes, k) <= StreamLength(sizes)
  BY <1>4, <1>6, <1>8
<1>. QED
  BY <1>4, <1>5, <1>6, <1>7, <1>8, <1>9, <1>10

\* The frames that are finished within the first w bytes are the first k.
LEMMA FinishedIs ==
    ASSUME NEW sizes \in Seq(Nat), NEW w \in Nat
    PROVE  \E k \in 0..Len(sizes) :
             /\ Cardinality(Finished(sizes, w)) = k
             /\ FinishedFrames(sizes, w) = [f \in 1..k |-> Contents(f, sizes[f])]
             /\ EndsAt(sizes, k) <= w
             /\ k < Len(sizes) => w < EndsAt(sizes, k + 1)
<1>1. PICK seqs : seqs = Frames(sizes)
  OBVIOUS
<1>2. seqs \in Seq(Seq(Byte)) /\ Len(seqs) = Len(sizes) /\ Len(sizes) \in Nat
  BY <1>1, FramesIs, LenProperties
<1>3. PICK k \in 0..Len(seqs) :
             /\ {f \in 1..Len(seqs) : Len(Upto(seqs, f)) <= w} = 1..k
             /\ Cardinality(1..k) = k
             /\ Len(Upto(seqs, k)) <= w
             /\ k < Len(seqs) => w < Len(Upto(seqs, k + 1))
  BY <1>2, UptoCount
<1>4. Finished(sizes, w) = {f \in 1..Len(seqs) : Len(Upto(seqs, f)) <= w}
  <2>1. \A f \in 1..Len(sizes) : StreamLength(SubSeq(sizes, 1, f)) = Len(Upto(seqs, f))
    <3>1. \A f \in 1..Len(sizes) : f \in 0..Len(sizes)
      OBVIOUS
    <3>. QED
      BY <1>1, <3>1, FramesIs DEF StreamLength
  <2>. QED
    BY <1>2, <2>1 DEF Finished
<1>. QED
  BY <1>1, <1>2, <1>3, <1>4 DEF FinishedFrames, EndsAt

----------------------------------------------------------------------------
(* NETWORK: from the page *)

\* What is left of the message that is being read.
Unread == IF readBuffer = <<>> THEN <<>> ELSE SubSeq(readBuffer, readOffset + 1, Len(readBuffer))

\* What has been read and what is left make up what has been fetched.
ReadInv ==
    /\ inbox \in Seq(Nat)
    /\ fetched \in 0..Len(inbox)
    /\ readBuffer \in Seq(Byte) /\ readOffset \in Nat
    /\ readBuffer # <<>> => readOffset < Len(readBuffer)
    /\ read \in Seq(Byte)
    /\ Upto(Frames(inbox), fetched) = read \o Unread

\* A Read takes nothing from the buffer but what it hands out.
LEMMA CopyOutReads ==
    ASSUME NEW buffer \in Seq(Byte), NEW offset \in Nat, NEW n \in 1..Len(buffer) - offset,
           read \in Seq(Byte), CopyOut(buffer, offset, n)
    PROVE  /\ read' \in Seq(Byte) /\ readBuffer' \in Seq(Byte) /\ readOffset' \in Nat
           /\ readBuffer' # <<>> => readOffset' < Len(readBuffer')
           /\ read' \o Unread' = read \o SubSeq(buffer, offset + 1, Len(buffer))
           /\ \A i \in 1..Len(read) : read'[i] = read[i]
           /\ Len(read) <= Len(read')
<1>1. /\ Len(buffer) \in Nat /\ n \in Nat /\ offset + n <= Len(buffer) /\ n >= 1
      /\ offset + 1 \in 1..Len(buffer) + 1 /\ offset + n \in (offset + 1) - 1..Len(buffer)
      /\ Len(buffer) \in offset + n..Len(buffer)
  BY LenProperties
<1>2. PICK a, b : a = SubSeq(buffer, offset + 1, offset + n) /\ b = SubSeq(buffer, offset + n + 1, Len(buffer))
  OBVIOUS
<1>3. a \in Seq(Byte) /\ b \in Seq(Byte) /\ (offset + n = Len(buffer) => Len(b) = 0)
  <2>1. offset + n \in Nat /\ offset <= offset + n /\ offset + n <= Len(buffer) /\ Len(buffer) <= Len(buffer)
    BY <1>1
  <2>2. a \in Seq(Byte)
    BY <1>1, <1>2, <2>1, Between
  <2>3. b \in Seq(Byte) /\ Len(b) = Len(buffer) - (offset + n)
    BY <1>1, <1>2, <2>1, Between
  <2>4. \A i, j \in Nat : i = j => j - i = 0
    OBVIOUS
  <2>5. offset + n = Len(buffer) => Len(b) = 0
    BY <2>1, <2>3, <2>4, <1>1
  <2>. QED
    BY <2>2, <2>3, <2>5
<1>4. a \o b = SubSeq(buffer, offset + 1, Len(buffer))
  BY <1>1, <1>2, ConcatAdjacentSubSeq
<1>5. read' = read \o a /\ readOffset' = offset + n
      /\ readBuffer' = IF offset + n >= Len(buffer) THEN <<>> ELSE buffer
  BY <1>2 DEF CopyOut
<1>6. Unread' = b
  <2>1. CASE offset + n >= Len(buffer)
    <3>1. readBuffer' = <<>>
      BY <1>5, <2>1
    <3>4. offset + n = Len(buffer)
      BY <1>1, <2>1
    <3>3. Len(b) = 0
      BY <1>3, <3>4
    <3>2. b = <<>>
      BY <1>3, <3>3, EmptySeq
    <3>. QED
      BY <3>1, <3>2 DEF Unread
  <2>2. CASE ~(offset + n >= Len(buffer))
    <3>1. readBuffer' = buffer /\ buffer # <<>>
      BY <1>1, <1>5, <2>2, EmptySeq
    <3>. QED
      BY <1>2, <1>5, <3>1 DEF Unread
  <2>. QED
    BY <2>1, <2>2
<1>7. (read \o a) \o b = read \o (a \o b)
  <2>1. PICK r \in Seq(Byte) : r = read
    OBVIOUS
  <2>2. a \in Seq(Byte) /\ b \in Seq(Byte)
    BY <1>3
  <2>3. (r \o a) \o b = r \o (a \o b)
    BY <2>1, <2>2, ConcatAssociative
  <2>. QED
    BY <2>1, <2>3
<1>8. /\ read \o a \in Seq(Byte) /\ Len(read \o a) = Len(read) + Len(a)
      /\ Len(a) \in Nat /\ Len(read) \in Nat
      /\ \A i \in 1..Len(read) + Len(a) : (read \o a)[i] = IF i <= Len(read) THEN read[i] ELSE a[i - Len(read)]
  BY <1>3, ConcatProperties, LenProperties
<1>9. readBuffer' \in Seq(Byte) /\ (readBuffer' # <<>> => readOffset' < Len(readBuffer'))
  BY <1>1, <1>5, EmptySeq
<1>10. (\A i \in 1..Len(read) : read'[i] = read[i]) /\ Len(read) <= Len(read')
  BY <1>5, <1>8
<1>11. read' \o Unread' = read \o SubSeq(buffer, offset + 1, Len(buffer))
  BY <1>4, <1>5, <1>6, <1>7, Zenon
<1>12. read' \in Seq(Byte) /\ readOffset' \in Nat
  BY <1>1, <1>5, <1>8
<1>. QED
  BY <1>9, <1>10, <1>11, <1>12

\* A new message is fetched only when the one before has been read.
LEMMA ReadFetchStep ==
    ASSUME ReadInv, ReadFetch
    PROVE  ReadInv'
<1>1. /\ readBuffer = <<>> /\ fetched' = fetched + 1 /\ inbox' = inbox /\ fetched < Len(inbox)
      /\ fetched \in 0..Len(inbox) - 1 /\ fetched' \in 1..Len(inbox) /\ fetched' \in 0..Len(inbox)
      /\ fetched' \in Nat /\ inbox[fetched'] \in Nat
  BY LenProperties, ElementOfSeq DEF ReadInv, ReadFetch
<1>2. PICK buffer : buffer = Framed(fetched', inbox[fetched'])
  OBVIOUS
<1>3. PICK n \in 1..Len(buffer) : CopyOut(buffer, 0, n)
  BY <1>2 DEF ReadFetch
<1>4. buffer \in Seq(Byte) /\ Len(buffer) \in Nat /\ n \in 1..Len(buffer) - 0
  <2>1. buffer \in Seq(Byte)
    BY <1>1, <1>2, FramedIs
  <2>. QED
    BY <2>1, LenProperties
<1>5. /\ read' \in Seq(Byte) /\ readBuffer' \in Seq(Byte) /\ readOffset' \in Nat
      /\ readBuffer' # <<>> => readOffset' < Len(readBuffer')
      /\ read' \o Unread' = read \o SubSeq(buffer, 0 + 1, Len(buffer))
  BY <1>3, <1>4, CopyOutReads DEF ReadInv
<1>6. SubSeq(buffer, 0 + 1, Len(buffer)) = buffer
  BY <1>4, SubSeqFull
<1>7. Upto(Frames(inbox), fetched) = read
  BY <1>1, ConcatEmptySeq DEF ReadInv, Unread
<1>8. Upto(Frames(inbox), fetched + 1) = Upto(Frames(inbox), fetched) \o buffer
  <2>1. PICK seqs : seqs = Frames(inbox)
    OBVIOUS
  <2>2. /\ seqs \in Seq(Seq(Byte)) /\ Len(seqs) = Len(inbox)
        /\ seqs[fetched + 1] = buffer
    BY <1>1, <1>2, <2>1, FramesIs DEF ReadInv
  <2>3. Upto(seqs, fetched + 1) = Upto(seqs, fetched) \o seqs[fetched + 1]
    BY <1>1, <2>2, UptoFacts
  <2>. QED
    BY <2>1, <2>2, <2>3
<1>9. Upto(Frames(inbox), fetched)' = read' \o Unread'
  BY <1>1, <1>5, <1>6, <1>7, <1>8
<1>. QED
  BY <1>1, <1>5, <1>9 DEF ReadInv

\* The next Read goes on where the last one stopped.
LEMMA ReadRestStep ==
    ASSUME ReadInv, ReadRest
    PROVE  ReadInv'
<1>1. PICK n \in 1..Len(readBuffer) - readOffset : CopyOut(readBuffer, readOffset, n)
  BY DEF ReadRest
<1>2. readBuffer # <<>> /\ inbox' = inbox /\ fetched' = fetched
  BY DEF ReadRest
<1>3. /\ read' \in Seq(Byte) /\ readBuffer' \in Seq(Byte) /\ readOffset' \in Nat
      /\ readBuffer' # <<>> => readOffset' < Len(readBuffer')
      /\ read' \o Unread' = read \o SubSeq(readBuffer, readOffset + 1, Len(readBuffer))
  BY <1>1, CopyOutReads DEF ReadInv
<1>4. read \o SubSeq(readBuffer, readOffset + 1, Len(readBuffer)) = Upto(Frames(inbox), fetched)
  BY <1>2 DEF ReadInv, Unread
<1>5. Upto(Frames(inbox), fetched)' = read' \o Unread'
  BY <1>2, <1>3, <1>4
<1>. QED
  BY <1>2, <1>3, <1>5 DEF ReadInv

\* What comes out is how what went in begins.
LEMMA ReadDelivers ==
    ASSUME ReadInv
    PROVE  IsPrefix(read, FetchedStream)
<1>1. Unread \in Seq(Byte)
  <2>1. CASE readBuffer = <<>>
    BY <2>1, EmptySeq DEF Unread
  <2>2. CASE readBuffer # <<>>
    <3>1. /\ readOffset \in Nat /\ readOffset <= Len(readBuffer) /\ Len(readBuffer) \in Nat
          /\ Len(readBuffer) <= Len(readBuffer)
      BY <2>2, LenProperties DEF ReadInv
    <3>2. SubSeq(readBuffer, readOffset + 1, Len(readBuffer)) \in Seq(Byte)
      BY <3>1, Between DEF ReadInv
    <3>. QED
      BY <2>2, <3>2 DEF Unread
  <2>. QED
    BY <2>1, <2>2
<1>2. FetchedStream = read \o Unread
  BY FramesIs DEF ReadInv, FetchedStream
<1>. QED
  BY <1>1, <1>2, ConcatBegins DEF ReadInv

----------------------------------------------------------------------------
(* NETWORK: to the page *)

\* The messages sent are the first frames, the buffer has what follows them,
\* and as long as no Write brought two ends that is not a whole frame.
WriteInv ==
    /\ outbox \in Seq(Nat)
    /\ \A f \in 1..Len(outbox) : outbox[f] \in Lengths
    /\ written \in 0..StreamLength(outbox)
    /\ Len(sent) \in 0..Len(outbox)
    /\ sent = [f \in 1..Len(sent) |-> Contents(f, outbox[f])]
    /\ EndsAt(outbox, Len(sent)) <= written
    /\ writeBuffer = SubSeq(Stream(outbox), EndsAt(outbox, Len(sent)) + 1, written)
    /\ ~crowded /\ ~down /\ Len(sent) < Len(outbox) => written < EndsAt(outbox, Len(sent) + 1)

\* The buffer with the next bytes is what follows the messages sent, and has a
\* frame exactly if the next one ends in it.
LEMMA AppendedIs ==
    ASSUME WriteInv, NEW n \in 1..StreamLength(outbox) - written, NEW k, k = Len(sent),
           NEW e, e = EndsAt(outbox, k), NEW buffer, buffer = Appended(n),
           NEW w, w = written + n, NEW stream, stream = Stream(outbox)
    PROVE  /\ buffer = SubSeq(stream, e + 1, w)
           /\ buffer \in Seq(Byte) /\ Len(buffer) = w - e
           /\ HasFrame(buffer) <=> k < Len(outbox) /\ EndsAt(outbox, k + 1) <= w
           /\ HasFrame(buffer) => Uint32(buffer) = outbox[k + 1]
           /\ e \in Nat /\ w \in Nat /\ w <= StreamLength(outbox) /\ e <= written
           /\ k \in 0..Len(outbox)
           /\ \A j \in 1..w - e : buffer[j] = stream[e + j]
<1>1. PICK L : L = StreamLength(outbox)
  OBVIOUS
<1>2. /\ Len(outbox) \in Nat /\ L \in Nat /\ k \in 0..Len(outbox)
      /\ e \in Nat /\ e <= L
      /\ stream \in Seq(Byte) /\ Len(stream) = L
  <2>1. k \in 0..Len(outbox) /\ outbox \in Seq(Nat)
    BY DEF WriteInv
  <2>2. /\ Len(outbox) \in Nat /\ EndsAt(outbox, Len(outbox)) = L /\ stream \in Seq(Byte)
        /\ e \in Nat /\ e <= L
    BY <1>1, <2>1, EndsFacts
  <2>3. Len(stream) = L /\ L \in Nat
    BY <1>1, <2>2, LenProperties DEF StreamLength
  <2>. QED
    BY <2>1, <2>2, <2>3
<1>3. written \in Nat /\ e <= written /\ n \in Nat /\ n >= 1 /\ w \in Nat /\ w <= L /\ written <= w /\ e <= w /\ written <= L
  BY <1>1, <1>2 DEF WriteInv
<1>4. buffer = SubSeq(stream, e + 1, w)
  <2>1. buffer = SubSeq(stream, e + 1, written) \o SubSeq(stream, written + 1, w)
    BY <1>1 DEF WriteInv, Appended
  <2>2. e + 1 \in 1..Len(stream) + 1 /\ written \in (e + 1) - 1..Len(stream) /\ w \in written..Len(stream)
    BY <1>2, <1>3
  <2>. QED
    BY <1>2, <2>1, <2>2, ConcatAdjacentSubSeq
<1>5. buffer \in Seq(Byte) /\ Len(buffer) = w - e /\ \A j \in 1..w - e : buffer[j] = stream[e + j]
  <2>1. e <= w /\ w <= Len(stream) /\ e \in Nat /\ w \in Nat /\ stream \in Seq(Byte)
    BY <1>2, <1>3
  <2>. QED
    BY <1>4, <2>1, Between
<1>6. ASSUME k < Len(outbox)
      PROVE  /\ HasFrame(buffer) <=> EndsAt(outbox, k + 1) <= w
             /\ HasFrame(buffer) => Uint32(buffer) = outbox[k + 1]
  <2>1. k \in 0..Len(outbox) - 1 /\ k + 1 \in 1..Len(outbox)
    BY <1>2, <1>6
  <2>2. PICK size : size = outbox[k + 1]
    OBVIOUS
  <2>3. /\ size \in Nat /\ EndsAt(outbox, k + 1) = e + 4 + size
        /\ \A i \in 1..4 + size : stream[e + i] = StreamByte(k + 1, i, size)
    <3>1. outbox \in Seq(Nat) /\ LengthBytes = 4
      BY DEF WriteInv, LengthBytes
    <3>2. size \in Nat
      BY <2>1, <2>2, <3>1, EndsFacts
    <3>3. EndsAt(outbox, k + 1) = e + 4 + size
      BY <2>1, <2>2, <3>1, EndsFacts
    <3>4. \A i \in 1..4 + size : stream[e + i] = StreamByte(k + 1, i, size)
      BY <1>1, <2>1, <2>2, <3>1, EndsFacts
    <3>. QED
      BY <3>2, <3>3, <3>4
  <2>4. ASSUME Len(buffer) >= 4 PROVE Uint32(buffer) = size
    <3>1. \A i \in 1..4 : i \in 1..w - e /\ i \in 1..4 + size
      BY <1>5, <2>3, <2>4, <1>2, <1>3
    <3>2. \A i \in 1..4 : buffer[i] = StreamByte(k + 1, i, size)
      BY <1>5, <2>3, <3>1
    <3>3. \A i \in 1..4 : buffer[i].n = Bytes(size)[i]
      BY <3>2 DEF StreamByte, LengthBytes
    <3>4. size \in Lengths
      BY <2>1, <2>2 DEF WriteInv
    <3>5. Length(Bytes(size)[1], Bytes(size)[2], Bytes(size)[3], Bytes(size)[4]) = size
      BY <3>4, LengthOfBytes
    <3>. QED
      BY <3>3, <3>5 DEF Uint32
  <2>5. HasFrame(buffer) <=> Len(buffer) >= 4 /\ Len(buffer) >= size + 4
    BY <2>4 DEF HasFrame, LengthBytes
  <2>6. Len(buffer) >= 4 /\ Len(buffer) >= size + 4 <=> e + 4 + size <= w
    BY <1>2, <1>3, <1>5, <2>3
  <2>7. HasFrame(buffer) => Len(buffer) >= 4
    BY <2>5
  <2>. QED
    BY <2>2, <2>3, <2>4, <2>5, <2>6, <2>7
<1>7. ASSUME ~(k < Len(outbox)) PROVE ~HasFrame(buffer)
  <2>1. k = Len(outbox)
    BY <1>2, <1>7
  <2>2. e = L
    BY <1>1, <2>1, EndsFacts DEF WriteInv
  <2>3. ~(Len(buffer) >= 4)
    BY <1>2, <1>3, <1>5, <2>2
  <2>. QED
    BY <2>3 DEF HasFrame, LengthBytes
<1>. QED
  BY <1>1, <1>2, <1>3, <1>4, <1>5, <1>6, <1>7

\* A Write that sends nothing, whatever else it does.
LEMMA NothingSent ==
    ASSUME WriteInv, NEW n \in 1..StreamLength(outbox) - written, Written(n),
           writeBuffer' = Appended(n), sent' = sent,
           HasFrame(Appended(n)) => down'
    PROVE  WriteInv'
<1>1. PICK k, e, buffer, w, stream :
        /\ k = Len(sent) /\ e = EndsAt(outbox, k) /\ buffer = Appended(n)
        /\ w = written + n /\ stream = Stream(outbox)
  OBVIOUS
<1>2. /\ buffer = SubSeq(stream, e + 1, w)
      /\ HasFrame(buffer) <=> k < Len(outbox) /\ EndsAt(outbox, k + 1) <= w
      /\ e \in Nat /\ w \in Nat /\ w <= StreamLength(outbox) /\ e <= written
      /\ k \in 0..Len(outbox)
  BY <1>1, AppendedIs
<1>3. written' = w /\ outbox' = outbox /\ n \in Nat /\ written \in Nat /\ Len(outbox) \in Nat
  BY <1>1, LenProperties DEF Written, WriteInv
<1>4. StreamLength(outbox) \in Nat
  BY EndsFacts DEF WriteInv
<1>5. w \in 0..StreamLength(outbox) /\ e <= w
  BY <1>1, <1>2, <1>3, <1>4
<1>6. k < Len(outbox) => EndsAt(outbox, k + 1) \in Nat
  <2>1. k < Len(outbox) => k + 1 \in 0..Len(outbox)
    BY <1>2, <1>3
  <2>. QED
    BY <2>1, EndsFacts DEF WriteInv
<1>7. ~down' /\ k < Len(outbox) => w < EndsAt(outbox, k + 1)
  BY <1>1, <1>2, <1>6
<1>. QED
  BY <1>1, <1>2, <1>3, <1>5, <1>7 DEF WriteInv

\* A Write that sends: the next frame.
LEMMA FrameSent ==
    ASSUME WriteInv, WriteSends
    PROVE  WriteInv' /\ Len(sent') = Len(sent) + 1 /\ \A f \in 1..Len(sent) : sent'[f] = sent[f]
<1>1. PICK n \in 1..StreamLength(outbox) - written :
        /\ Written(n) /\ HasFrame(Appended(n)) /\ down' = down /\ ~down
        /\ sent' = Append(sent, SubSeq(Appended(n), LengthBytes + 1, LengthBytes + Uint32(Appended(n))))
        /\ writeBuffer' = SubSeq(Appended(n), LengthBytes + Uint32(Appended(n)) + 1, Len(Appended(n)))
  BY DEF WriteSends
<1>2. PICK k, e, buffer, w, stream, size, next :
        /\ k = Len(sent) /\ e = EndsAt(outbox, k) /\ buffer = Appended(n)
        /\ w = written + n /\ stream = Stream(outbox)
        /\ size = outbox[k + 1] /\ next = EndsAt(outbox, k + 1)
  OBVIOUS
<1>3. /\ buffer = SubSeq(stream, e + 1, w) /\ buffer \in Seq(Byte) /\ Len(buffer) = w - e
      /\ k < Len(outbox) /\ next <= w /\ Uint32(buffer) = size
      /\ e \in Nat /\ w \in Nat /\ w <= StreamLength(outbox) /\ e <= written
      /\ k \in 0..Len(outbox)
      /\ \A j \in 1..w - e : buffer[j] = stream[e + j]
  <2>1. n \in 1..StreamLength(outbox) - written /\ HasFrame(buffer)
    BY <1>1, <1>2
  <2>2. /\ buffer = SubSeq(stream, e + 1, w) /\ buffer \in Seq(Byte) /\ Len(buffer) = w - e
        /\ HasFrame(buffer) <=> k < Len(outbox) /\ next <= w
        /\ HasFrame(buffer) => Uint32(buffer) = size
    BY <1>2, <2>1, AppendedIs
  <2>3. /\ e \in Nat /\ w \in Nat /\ w <= StreamLength(outbox) /\ e <= written
        /\ k \in 0..Len(outbox)
        /\ \A j \in 1..w - e : buffer[j] = stream[e + j]
    BY <1>2, <2>1, AppendedIs
  <2>. QED
    BY <2>1, <2>2, <2>3
<1>5. /\ Len(outbox) \in Nat /\ k \in 0..Len(outbox) - 1 /\ k + 1 \in 1..Len(outbox) /\ k + 1 \in 0..Len(outbox)
      /\ k + 1 \in Nat /\ outbox \in Seq(Nat) /\ k \in Nat
  <2>1. Len(outbox) \in Nat /\ outbox \in Seq(Nat)
    BY LenProperties DEF WriteInv
  <2>2. k \in 0..Len(outbox) /\ k < Len(outbox)
    BY <1>3
  <2>. QED
    BY <2>1, <2>2
<1>6. /\ size \in Nat /\ next = e + 4 + size /\ next \in Nat
      /\ \A i \in 1..4 + size : stream[e + i] = StreamByte(k + 1, i, size)
      /\ stream \in Seq(Byte) /\ Len(stream) = StreamLength(outbox) /\ StreamLength(outbox) \in Nat
  <2>1. LengthBytes = 4
    BY DEF LengthBytes
  <2>2. size \in Nat /\ next \in Nat
    BY <1>2, <1>5, EndsFacts
  <2>3. next = e + 4 + size
    BY <1>2, <1>5, <2>1, EndsFacts
  <2>4. \A i \in 1..4 + size : stream[e + i] = StreamByte(k + 1, i, size)
    BY <1>2, <1>5, <2>1, EndsFacts
  <2>5. stream \in Seq(Byte)
    BY <1>2, <1>5, EndsFacts
  <2>6. Len(stream) = StreamLength(outbox) /\ StreamLength(outbox) \in Nat
    BY <1>2, <2>5, LenProperties DEF StreamLength
  <2>. QED
    BY <2>2, <2>3, <2>4, <2>5, <2>6
<1>4. /\ Len(buffer) = w - e /\ next <= w /\ next = e + 4 + size /\ w \in Nat /\ e \in Nat /\ size \in Nat
      /\ next \in Nat /\ w <= Len(stream)
  BY <1>3, <1>6
<1>7. PICK h, m, frame, rest :
        /\ h = LengthBytes /\ m = h + size
        /\ frame = SubSeq(buffer, h + 1, m) /\ rest = SubSeq(buffer, m + 1, Len(buffer))
  OBVIOUS
<1>8. sent' = Append(sent, frame) /\ writeBuffer' = rest
  BY <1>1, <1>2, <1>3, <1>7
<1>81. h = 4 /\ m = 4 + size /\ m \in Nat /\ h \in Nat /\ m <= w - e /\ h <= m /\ m - h = size /\ e + m = next
  <2>1. h = 4 /\ m = 4 + size
    BY <1>7 DEF LengthBytes
  <2>. QED
    BY <1>4, <2>1
<1>82. m <= Len(buffer) /\ Len(buffer) <= Len(buffer) /\ Len(buffer) \in Nat
  BY <1>4, <1>81
<1>9. frame = Contents(k + 1, size)
  <2>1. buffer \in Seq(Byte) /\ frame = SubSeq(buffer, h + 1, m)
    BY <1>3, <1>7
  <2>2. frame \in Seq(Byte) /\ Len(frame) = m - h /\ \A j \in 1..m - h : frame[j] = buffer[h + j]
    BY <1>81, <1>82, <2>1, Between
  <2>3. PICK c : c = Contents(k + 1, size)
    OBVIOUS
  <2>4. c \in Seq(Byte) /\ Len(c) = size /\ \A j \in 1..size : c[j] = StreamByte(k + 1, 4 + j, size)
    BY <1>5, <1>6, <2>3, FramedIs DEF LengthBytes
  <2>5. \A j \in 1..size : frame[j] = c[j]
    <3>1. TAKE j \in 1..size
    <3>2. j \in 1..m - h /\ 4 + j \in 1..w - e /\ 4 + j \in 1..4 + size /\ e + (4 + j) \in Nat
      BY <1>4, <1>81
    <3>3. frame[j] = buffer[4 + j] /\ c[j] = StreamByte(k + 1, 4 + j, size)
      BY <1>81, <2>2, <2>4, <3>1, <3>2
    <3>4. buffer[4 + j] = stream[e + (4 + j)]
      BY <1>3, <3>2
    <3>5. stream[e + (4 + j)] = StreamByte(k + 1, 4 + j, size)
      BY <1>6, <3>2
    <3>. QED
      BY <3>3, <3>4, <3>5
  <2>6. Len(frame) = size /\ Len(frame) = Len(c)
    BY <1>81, <2>2, <2>4
  <2>. QED
    BY <2>2, <2>3, <2>4, <2>5, <2>6, SeqEqual
<1>10. rest = SubSeq(stream, next + 1, w)
  <2>1. buffer \in Seq(Byte) /\ rest = SubSeq(buffer, m + 1, Len(buffer)) /\ stream \in Seq(Byte)
    BY <1>3, <1>6, <1>7
  <2>2. /\ rest \in Seq(Byte) /\ Len(rest) = Len(buffer) - m
        /\ \A j \in 1..Len(buffer) - m : rest[j] = buffer[m + j]
    BY <1>81, <1>82, <2>1, Between
  <2>3. PICK c : c = SubSeq(stream, next + 1, w)
    OBVIOUS
  <2>4. c \in Seq(Byte) /\ Len(c) = w - next /\ \A j \in 1..w - next : c[j] = stream[next + j]
    BY <1>4, <2>1, <2>3, Between
  <2>5. Len(buffer) - m = w - next
    BY <1>4, <1>81
  <2>6. \A j \in 1..w - next : rest[j] = c[j]
    <3>1. TAKE j \in 1..w - next
    <3>2. j \in 1..Len(buffer) - m /\ m + j \in 1..w - e /\ e + (m + j) = next + j
      BY <1>4, <1>81, <2>5
    <3>3. buffer[m + j] = stream[e + (m + j)]
      BY <1>3, <3>2
    <3>4. rest[j] = buffer[m + j] /\ c[j] = stream[next + j]
      BY <2>2, <2>4, <3>1, <3>2
    <3>. QED
      BY <3>2, <3>3, <3>4
  <2>7. Len(rest) = Len(c) /\ \A j \in 1..Len(rest) : rest[j] = c[j]
    BY <2>2, <2>4, <2>5, <2>6
  <2>. QED
    BY <2>2, <2>3, <2>4, <2>7, SeqEqual
<1>11. /\ Len(sent') = k + 1 /\ sent' = [f \in 1..k + 1 |-> Contents(f, outbox[f])]
       /\ \A f \in 1..k : sent'[f] = sent[f]
  <2>1. \A f \in 1..k : f \in 1..Len(outbox) /\ f \in Nat /\ outbox[f] \in Nat
    BY <1>5, ElementOfSeq
  <2>2. \A f \in 1..k : Contents(f, outbox[f]) \in Seq(Byte)
    BY <2>1, FramedIs
  <2>3. sent = [f \in 1..k |-> Contents(f, outbox[f])]
    BY <1>2 DEF WriteInv
  <2>4. sent \in Seq(Seq(Byte)) /\ frame \in Seq(Byte)
    BY <1>5, <1>6, <1>9, <2>2, <2>3, FramedIs
  <2>5. /\ sent' \in Seq(Seq(Byte)) /\ Len(sent') = k + 1 /\ sent'[k + 1] = frame
        /\ \A f \in 1..k : sent'[f] = sent[f]
    BY <1>2, <1>8, <2>4, AppendProperties
  <2>6. sent' = [f \in 1..k + 1 |-> sent'[f]]
    BY <2>5, LenProperties
  <2>7. \A f \in 1..k + 1 : sent'[f] = Contents(f, outbox[f])
    <3>1. TAKE f \in 1..k + 1
    <3>2. f \in 1..k \/ f = k + 1
      BY <1>5
    <3>. QED
      BY <1>2, <1>9, <2>3, <2>5, <3>2
  <2>. QED
    BY <2>5, <2>6, <2>7
<1>12. outbox' = outbox /\ written' = w /\ w \in 0..StreamLength(outbox)
  BY <1>1, <1>2, <1>3, <1>6 DEF Written
<1>13. ASSUME ~crowded', ~down', k + 1 < Len(outbox)
       PROVE  w < EndsAt(outbox, (k + 1) + 1)
  <2>1. ~crowded /\ ~(Cardinality(Finished(outbox, written + n)) > Cardinality(Finished(outbox, written)) + 1)
    BY <1>1, <1>13 DEF Written
  <2>2. written \in Nat /\ e <= written /\ written < next
    BY <1>1, <1>2, <1>3, <2>1 DEF WriteInv
  <2>3. PICK i \in 0..Len(outbox) :
             /\ Cardinality(Finished(outbox, written)) = i
             /\ EndsAt(outbox, i) <= written
             /\ i < Len(outbox) => written < EndsAt(outbox, i + 1)
    BY <1>5, <2>2, FinishedIs
  <2>4. PICK j \in 0..Len(outbox) :
             /\ Cardinality(Finished(outbox, w)) = j
             /\ EndsAt(outbox, j) <= w
             /\ j < Len(outbox) => w < EndsAt(outbox, j + 1)
    BY <1>3, <1>5, FinishedIs
  <2>5. i <= k
    <3>1. SUFFICES ASSUME k + 1 <= i PROVE FALSE
      BY <1>5
    <3>2. next <= EndsAt(outbox, i) /\ EndsAt(outbox, i) \in Nat
      BY <1>2, <1>5, <3>1, EndsFacts
    <3>. QED
      BY <1>6, <2>2, <2>3, <3>2
  <2>6. j <= k + 1
    BY <1>2, <1>5, <2>1, <2>3, <2>4, <2>5
  <2>7. /\ j < Len(outbox) /\ j + 1 \in 0..Len(outbox) /\ (k + 1) + 1 \in 0..Len(outbox) /\ j + 1 <= (k + 1) + 1
    BY <1>5, <1>13, <2>6
  <2>8. EndsAt(outbox, j + 1) <= EndsAt(outbox, (k + 1) + 1)
        /\ EndsAt(outbox, j + 1) \in Nat /\ EndsAt(outbox, (k + 1) + 1) \in Nat
    BY <1>5, <2>7, EndsFacts
  <2>. QED
    BY <1>3, <2>4, <2>7, <2>8
<1>14. WriteInv'
  BY <1>2, <1>3, <1>5, <1>8, <1>10, <1>11, <1>12, <1>13 DEF WriteInv
<1>. QED
  BY <1>2, <1>11, <1>14

----------------------------------------------------------------------------
(* NETWORK: both ways *)

AdapterInv == ReadInv /\ WriteInv /\ crowded \in BOOLEAN /\ down \in BOOLEAN

\* SeqOf gives sequences.
LEMMA SeqOfNat ==
    ASSUME NEW S, NEW n \in Nat, NEW s \in SeqOf(S, n)
    PROVE  s \in Seq(S)
<1>1. PICK m \in 0..n : s \in [1..m -> S]
  BY DEF SeqOf
<1>. QED
  BY <1>1

\* Nothing has been fetched or written yet.
LEMMA AdapterInitInv == AdapterInit => AdapterInv
<1>1. SUFFICES ASSUME AdapterInit PROVE AdapterInv
  OBVIOUS
<1>2. /\ inbox \in Seq(Nat) /\ outbox \in Seq(Nat)
      /\ \A f \in 1..Len(outbox) : outbox[f] \in Lengths
  <2>1. inbox \in Seq(FrameSizes) /\ outbox \in Seq(FrameSizes)
    BY <1>1, FramesAssumption, SeqOfNat DEF AdapterInit
  <2>2. FrameSizes \subseteq Lengths
    BY FramesAssumption
  <2>3. FrameSizes \subseteq Nat
    BY <2>2 DEF Lengths
  <2>4. \A f \in 1..Len(outbox) : outbox[f] \in Lengths
    BY <2>1, <2>2, ElementOfSeq
  <2>. QED
    BY <2>1, <2>3, <2>4, SeqMonotonic
<1>3. <<>> \in Seq(Byte) /\ Len(<<>>) = 0 /\ <<>> \o <<>> = <<>>
  BY EmptySeq, ConcatEmptySeq
<1>4. ReadInv
  <2>1. Len(inbox) \in Nat /\ Upto(Frames(inbox), 0) = <<>>
    BY <1>2, FramesIs, UptoFacts, LenProperties
  <2>. QED
    BY <1>1, <1>2, <1>3, <2>1 DEF AdapterInit, ReadInv, Unread
<1>5. WriteInv
  <2>1. PICK none : none = <<>> /\ none = sent
    BY <1>1 DEF AdapterInit
  <2>2. /\ Len(outbox) \in Nat /\ EndsAt(outbox, 0) = 0 /\ StreamLength(outbox) \in Nat
    BY <1>2, EndsFacts
  <2>3. Len(sent) = 0 /\ sent = [f \in 1..0 |-> Contents(f, outbox[f])]
    <3>1. [f \in 1..0 |-> Contents(f, outbox[f])] = <<>>
      OBVIOUS
    <3>. QED
      BY <1>3, <2>1, <3>1
  <2>4. SubSeq(Stream(outbox), 0 + 1, 0) = <<>>
    BY SubSeqEmpty
  <2>5. Len(outbox) > 0 => 0 < EndsAt(outbox, 0 + 1)
    <3>1. SUFFICES ASSUME Len(outbox) > 0 PROVE 0 < EndsAt(outbox, 0 + 1)
      OBVIOUS
    <3>2. 0 \in 0..Len(outbox) - 1 /\ 0 + 1 \in 1..Len(outbox)
      BY <2>2, <3>1
    <3>3. EndsAt(outbox, 0 + 1) = EndsAt(outbox, 0) + LengthBytes + outbox[0 + 1] /\ outbox[0 + 1] \in Nat
      BY <1>2, <3>2, EndsFacts
    <3>. QED
      BY <2>2, <3>3 DEF LengthBytes
  <2>6. written = 0 /\ writeBuffer = <<>>
    BY <1>1 DEF AdapterInit
  <2>. QED
    BY <1>2, <2>2, <2>3, <2>4, <2>5, <2>6 DEF WriteInv
<1>. QED
  BY <1>1, <1>4, <1>5 DEF AdapterInit, AdapterInv

\* Each Read and each Write keeps the invariant of its direction.
LEMMA AdapterInvStep == AdapterInv /\ [AdapterNext]_adapterVars => AdapterInv'
<1>. SUFFICES ASSUME AdapterInv, [AdapterNext]_adapterVars PROVE AdapterInv'
  OBVIOUS
<1>. USE DEF AdapterInv
<1>r. ASSUME UNCHANGED readVars PROVE ReadInv'
  BY <1>r DEF readVars, ReadInv, Unread
<1>w. ASSUME UNCHANGED writeVars, down => down' PROVE WriteInv'
  BY <1>w DEF writeVars, WriteInv
<1>1. CASE ReadFetch
  <2>1. ReadInv'
    BY <1>1, ReadFetchStep
  <2>2. WriteInv' /\ UNCHANGED <<crowded, down>>
    BY <1>1, <1>w DEF ReadFetch, writeVars
  <2>. QED
    BY <2>1, <2>2
<1>2. CASE ReadRest
  <2>1. ReadInv'
    BY <1>2, ReadRestStep
  <2>2. WriteInv' /\ UNCHANGED <<crowded, down>>
    BY <1>2, <1>w DEF ReadRest, writeVars
  <2>. QED
    BY <2>1, <2>2
<1>3. CASE WriteKeeps
  <2>1. PICK n \in 1..StreamLength(outbox) - written :
          Written(n) /\ ~HasFrame(Appended(n)) /\ writeBuffer' = Appended(n) /\ sent' = sent /\ down' = down
    BY <1>3 DEF WriteKeeps
  <2>2. WriteInv'
    BY <2>1, NothingSent
  <2>. QED
    BY <1>r, <2>1, <2>2 DEF Written, readVars
<1>4. CASE WriteSends
  <2>1. WriteInv'
    BY <1>4, FrameSent
  <2>2. UNCHANGED readVars /\ crowded' \in BOOLEAN /\ down' = down
    BY <1>4 DEF WriteSends, Written
  <2>. QED
    BY <1>r, <2>1, <2>2
<1>5. CASE WriteFails
  <2>1. PICK n \in 1..StreamLength(outbox) - written :
          Written(n) /\ writeBuffer' = Appended(n) /\ sent' = sent /\ down' = TRUE
    BY <1>5 DEF WriteFails
  <2>2. WriteInv'
    BY <2>1, NothingSent
  <2>. QED
    BY <1>r, <2>1, <2>2 DEF Written, readVars
<1>6. CASE SocketFails
  BY <1>6, <1>r, <1>w DEF SocketFails, writeVars
<1>7. CASE UNCHANGED adapterVars
  BY <1>7, <1>r, <1>w DEF adapterVars, writeVars, readVars
<1>. QED
  BY <1>1, <1>2, <1>3, <1>4, <1>5, <1>6, <1>7 DEF AdapterNext

\* What the invariant says of the buffers and of a lone frame.
LEMMA AdapterInvFollows == AdapterInv => AdapterTypes /\ LoneFrameNotHeld
<1>. SUFFICES ASSUME AdapterInv PROVE AdapterTypes /\ LoneFrameNotHeld
  OBVIOUS
<1>1. AdapterTypes
  <2>1. Len(writeBuffer) <= written
    <3>1. /\ EndsAt(outbox, Len(sent)) \in Nat /\ EndsAt(outbox, Len(sent)) <= written /\ written \in Nat
          /\ written <= Len(Stream(outbox)) /\ Stream(outbox) \in Seq(Byte)
      <4>1. EndsAt(outbox, Len(sent)) \in Nat /\ StreamLength(outbox) \in Nat /\ Stream(outbox) \in Seq(Byte)
        BY EndsFacts DEF AdapterInv, WriteInv
      <4>. QED
        BY <4>1 DEF AdapterInv, WriteInv, StreamLength
    <3>2. Len(writeBuffer) = written - EndsAt(outbox, Len(sent))
      BY <3>1, Between DEF AdapterInv, WriteInv
    <3>. QED
      BY <3>1, <3>2
  <2>2. Len(sent) <= Len(outbox)
    BY LenProperties DEF AdapterInv, WriteInv
  <2>. QED
    BY <2>1, <2>2 DEF AdapterInv, ReadInv, WriteInv, AdapterTypes
<1>2. LoneFrameNotHeld
  <2>1. SUFFICES ASSUME ~crowded, ~down PROVE sent = WrittenFrames
    BY DEF LoneFrameNotHeld
  <2>2. outbox \in Seq(Nat) /\ Len(outbox) \in Nat /\ written \in Nat
    <3>1. StreamLength(outbox) \in Nat
      BY EndsFacts DEF AdapterInv, WriteInv
    <3>. QED
      BY <3>1, LenProperties DEF AdapterInv, WriteInv
  <2>3. PICK k \in 0..Len(outbox) :
             /\ WrittenFrames = [f \in 1..k |-> Contents(f, outbox[f])]
             /\ EndsAt(outbox, k) <= written
             /\ k < Len(outbox) => written < EndsAt(outbox, k + 1)
    BY <2>2, FinishedIs DEF WrittenFrames
  <2>4. PICK j : j = Len(sent)
    OBVIOUS
  <2>5. /\ j \in 0..Len(outbox) /\ sent = [f \in 1..j |-> Contents(f, outbox[f])]
        /\ EndsAt(outbox, j) <= written
        /\ j < Len(outbox) => written < EndsAt(outbox, j + 1)
    BY <2>1, <2>4 DEF AdapterInv, WriteInv
  <2>6. ~(j < k)
    <3>1. SUFFICES ASSUME j < k PROVE FALSE
      OBVIOUS
    <3>2. j + 1 \in 0..Len(outbox) /\ j + 1 <= k /\ j < Len(outbox)
      BY <2>2, <2>3, <2>5, <3>1
    <3>3. EndsAt(outbox, j + 1) <= EndsAt(outbox, k) /\ EndsAt(outbox, j + 1) \in Nat /\ EndsAt(outbox, k) \in Nat
      BY <2>2, <2>3, <3>2, EndsFacts
    <3>. QED
      BY <2>2, <2>3, <2>5, <3>2, <3>3
  <2>7. ~(k < j)
    <3>1. SUFFICES ASSUME k < j PROVE FALSE
      OBVIOUS
    <3>2. k + 1 \in 0..Len(outbox) /\ k + 1 <= j /\ k < Len(outbox)
      BY <2>2, <2>3, <2>5, <3>1
    <3>3. EndsAt(outbox, k + 1) <= EndsAt(outbox, j) /\ EndsAt(outbox, k + 1) \in Nat /\ EndsAt(outbox, j) \in Nat
      BY <2>2, <2>5, <3>2, EndsFacts
    <3>. QED
      BY <2>2, <2>3, <2>5, <3>2, <3>3
  <2>8. j = k
    BY <2>2, <2>3, <2>5, <2>6, <2>7
  <2>. QED
    BY <2>3, <2>5, <2>8
<1>. QED
  BY <1>1, <1>2

\* The first frames begin like more of them.
LEMMA FramesBegin ==
    ASSUME NEW sizes \in Seq(Nat), NEW j \in 0..Len(sizes), NEW k \in 0..Len(sizes), j <= k
    PROVE  IsPrefix([f \in 1..j |-> Contents(f, sizes[f])], [f \in 1..k |-> Contents(f, sizes[f])])
<1>1. PICK a, b : /\ a = [f \in 1..j |-> Contents(f, sizes[f])]
                  /\ b = [f \in 1..k |-> Contents(f, sizes[f])]
  OBVIOUS
<1>2. \A f \in 1..k : f \in Nat /\ f \in 1..Len(sizes) /\ sizes[f] \in Nat
  BY LenProperties, ElementOfSeq
<1>3. \A f \in 1..k : Contents(f, sizes[f]) \in Seq(Byte)
  BY <1>2, FramedIs
<1>4. b \in Seq(Seq(Byte)) /\ Len(b) = k /\ \A f \in 1..k : b[f] = Contents(f, sizes[f])
  BY <1>1, <1>3
<1>5. a \in Seq(Seq(Byte)) /\ Len(a) = j /\ \A f \in 1..j : a[f] = Contents(f, sizes[f])
  BY <1>1, <1>3
<1>. QED
  <2>1. Len(a) <= Len(b) /\ \A f \in 1..Len(a) : a[f] = b[f]
    BY <1>4, <1>5
  <2>2. IsPrefix(a, b)
    BY <1>4, <1>5, <2>1, BeginsWith
  <2>. QED
    BY <1>1, <2>2

\* What has come out on either way is the beginning of what went in.
LEMMA AdapterDelivers ==
    ASSUME AdapterInv
    PROVE  IsPrefix(read, FetchedStream) /\ IsPrefix(sent, WrittenFrames)
<1>1. IsPrefix(read, FetchedStream)
  BY ReadDelivers DEF AdapterInv
<1>2. outbox \in Seq(Nat) /\ Len(outbox) \in Nat /\ written \in Nat
  <2>1. StreamLength(outbox) \in Nat
    BY EndsFacts DEF AdapterInv, WriteInv
  <2>. QED
    BY <2>1, LenProperties DEF AdapterInv, WriteInv
<1>3. PICK k \in 0..Len(outbox) :
           /\ WrittenFrames = [f \in 1..k |-> Contents(f, outbox[f])]
           /\ k < Len(outbox) => written < EndsAt(outbox, k + 1)
  BY <1>2, FinishedIs DEF WrittenFrames
<1>4. PICK j : j = Len(sent)
  OBVIOUS
<1>5. /\ j \in 0..Len(outbox) /\ sent = [f \in 1..j |-> Contents(f, outbox[f])]
      /\ EndsAt(outbox, j) <= written
  BY <1>4 DEF AdapterInv, WriteInv
<1>6. j <= k
  <2>1. SUFFICES ASSUME k < j PROVE FALSE
    BY <1>3, <1>5
  <2>2. k + 1 \in 0..Len(outbox) /\ k + 1 <= j /\ k < Len(outbox)
    BY <1>2, <1>3, <1>5, <2>1
  <2>3. EndsAt(outbox, k + 1) <= EndsAt(outbox, j) /\ EndsAt(outbox, k + 1) \in Nat /\ EndsAt(outbox, j) \in Nat
    BY <1>2, <1>5, <2>2, EndsFacts
  <2>. QED
    BY <1>2, <1>3, <1>5, <2>2, <2>3
<1>7. IsPrefix([f \in 1..j |-> Contents(f, outbox[f])], [f \in 1..k |-> Contents(f, outbox[f])])
  BY <1>2, <1>3, <1>5, <1>6, FramesBegin
<1>. QED
  BY <1>1, <1>3, <1>5, <1>7

\* Neither way takes back what went in or came out.
LEMMA AdapterAdvances ==
    ASSUME AdapterInv, [AdapterNext]_adapterVars
    PROVE  /\ IsPrefix(FetchedStream, FetchedStream') /\ IsPrefix(read, read')
           /\ IsPrefix(WrittenFrames, WrittenFrames') /\ IsPrefix(sent, sent')
<1>1. AdapterInv'
  BY AdapterInvStep
<1>2. /\ inbox' = inbox /\ fetched' \in {fetched, fetched + 1}
      /\ outbox' = outbox /\ (written' = written \/ \E n \in 1..StreamLength(outbox) - written : written' = written + n)
  BY DEF AdapterNext, ReadFetch, ReadRest, WriteKeeps, WriteSends, WriteFails, SocketFails,
         Written, adapterVars, readVars, writeVars
<1>3. IsPrefix(FetchedStream, FetchedStream')
  <2>1. PICK seqs, k, l : seqs = Frames(inbox) /\ k = fetched /\ l = fetched'
    OBVIOUS
  <2>2. inbox \in Seq(Nat) /\ Len(inbox) \in Nat /\ k \in 0..Len(inbox) /\ l \in 0..Len(inbox) /\ k <= l
    BY <1>1, <1>2, <2>1, LenProperties DEF AdapterInv, ReadInv
  <2>3. /\ seqs \in Seq(Seq(Byte)) /\ Len(seqs) = Len(inbox)
        /\ Stream(SubSeq(inbox, 1, k)) = Upto(seqs, k) /\ Stream(SubSeq(inbox, 1, l)) = Upto(seqs, l)
    BY <2>1, <2>2, FramesIs
  <2>4. FetchedStream = Upto(seqs, k) /\ FetchedStream' = Upto(seqs, l)
    BY <1>2, <2>1, <2>3 DEF FetchedStream
  <2>5. k \in 0..Len(seqs) /\ l \in 0..Len(seqs) /\ l \in k..Len(seqs)
    BY <2>2, <2>3
  <2>6. Upto(seqs, k) \in Seq(Byte) /\ Upto(seqs, l) \in Seq(Byte)
    BY <2>3, <2>5, UptoFacts
  <2>7. /\ Len(Upto(seqs, k)) <= Len(Upto(seqs, l))
        /\ \A i \in 1..Len(Upto(seqs, k)) : Upto(seqs, l)[i] = Upto(seqs, k)[i]
    BY <2>3, <2>5, UptoBegins
  <2>8. IsPrefix(Upto(seqs, k), Upto(seqs, l))
    BY <2>6, <2>7, BeginsWith
  <2>. QED
    BY <2>4, <2>8
<1>4. IsPrefix(read, read')
  <2>1. read \in Seq(Byte) /\ read' \in Seq(Byte)
    BY <1>1 DEF AdapterInv, ReadInv
  <2>2. Len(read) <= Len(read') /\ \A i \in 1..Len(read) : read'[i] = read[i]
    <3>1. CASE ReadFetch
      <4>1. /\ fetched' \in 1..Len(inbox) /\ fetched' \in Nat /\ inbox[fetched'] \in Nat
        BY <3>1, LenProperties, ElementOfSeq DEF AdapterInv, ReadInv, ReadFetch
      <4>2. PICK buffer : buffer = Framed(fetched', inbox[fetched'])
        OBVIOUS
      <4>3. PICK n \in 1..Len(buffer) : CopyOut(buffer, 0, n)
        BY <3>1, <4>2 DEF ReadFetch
      <4>4. buffer \in Seq(Byte) /\ n \in 1..Len(buffer) - 0
        <5>1. buffer \in Seq(Byte)
          BY <4>1, <4>2, FramedIs
        <5>. QED
          BY <5>1, LenProperties
      <4>. QED
        BY <2>1, <4>3, <4>4, CopyOutReads
    <3>2. CASE ReadRest
      <4>1. PICK n \in 1..Len(readBuffer) - readOffset : CopyOut(readBuffer, readOffset, n)
        BY <3>2 DEF ReadRest
      <4>. QED
        BY <2>1, <4>1, CopyOutReads DEF AdapterInv, ReadInv
    <3>3. CASE read' = read
      BY <2>1, <3>3, LenProperties
    <3>4. ReadFetch \/ ReadRest \/ read' = read
      BY DEF AdapterNext, WriteKeeps, WriteSends, WriteFails, SocketFails,
             Written, adapterVars, readVars, writeVars
    <3>. QED
      BY <3>1, <3>2, <3>3, <3>4
  <2>. QED
    BY <2>1, <2>2, BeginsWith
<1>5. IsPrefix(WrittenFrames, WrittenFrames')
  <2>1. /\ outbox \in Seq(Nat) /\ Len(outbox) \in Nat /\ written \in Nat /\ written' \in Nat /\ written <= written'
    <3>1. StreamLength(outbox) \in Nat
      BY EndsFacts DEF AdapterInv, WriteInv
    <3>2. written \in Nat
      BY <3>1 DEF AdapterInv, WriteInv
    <3>. QED
      BY <1>2, <3>1, <3>2, LenProperties DEF AdapterInv, WriteInv
  <2>2. PICK w, v : w = written /\ v = written'
    OBVIOUS
  <2>3. PICK j \in 0..Len(outbox) :
             /\ FinishedFrames(outbox, w) = [f \in 1..j |-> Contents(f, outbox[f])]
             /\ EndsAt(outbox, j) <= w
    BY <2>1, <2>2, FinishedIs
  <2>4. PICK k \in 0..Len(outbox) :
             /\ FinishedFrames(outbox, v) = [f \in 1..k |-> Contents(f, outbox[f])]
             /\ k < Len(outbox) => v < EndsAt(outbox, k + 1)
    BY <2>1, <2>2, FinishedIs
  <2>5. j <= k
    <3>1. SUFFICES ASSUME k < j PROVE FALSE
      BY <2>3, <2>4
    <3>2. k + 1 \in 0..Len(outbox) /\ k + 1 <= j /\ k < Len(outbox)
      BY <2>1, <2>3, <2>4, <3>1
    <3>3. EndsAt(outbox, k + 1) <= EndsAt(outbox, j) /\ EndsAt(outbox, k + 1) \in Nat /\ EndsAt(outbox, j) \in Nat
      BY <2>1, <2>3, <3>2, EndsFacts
    <3>. QED
      BY <2>1, <2>2, <2>3, <2>4, <3>2, <3>3
  <2>6. IsPrefix(FinishedFrames(outbox, w), FinishedFrames(outbox, v))
    BY <2>1, <2>3, <2>4, <2>5, FramesBegin
  <2>7. WrittenFrames = FinishedFrames(outbox, w) /\ WrittenFrames' = FinishedFrames(outbox, v)
    BY <1>2, <2>2 DEF WrittenFrames
  <2>. QED
    BY <2>6, <2>7
<1>6. IsPrefix(sent, sent')
  <2>1. PICK j, k : j = Len(sent) /\ k = Len(sent')
    OBVIOUS
  <2>2. /\ outbox \in Seq(Nat) /\ j \in 0..Len(outbox) /\ k \in 0..Len(outbox) /\ Len(outbox) \in Nat
        /\ sent = [f \in 1..j |-> Contents(f, outbox[f])]
        /\ sent' = [f \in 1..k |-> Contents(f, outbox[f])]
    BY <1>1, <1>2, <2>1, LenProperties DEF AdapterInv, WriteInv
  <2>3. j <= k
    <3>1. CASE WriteSends
      BY <2>1, <2>2, <3>1, FrameSent DEF AdapterInv
    <3>2. CASE sent' = sent
      BY <2>1, <2>2, <3>2
    <3>3. WriteSends \/ sent' = sent
      BY DEF AdapterNext, ReadFetch, ReadRest, WriteKeeps, WriteFails, SocketFails,
             Written, adapterVars, readVars, writeVars
    <3>. QED
      BY <3>1, <3>2, <3>3
  <2>. QED
    BY <2>2, <2>3, FramesBegin
<1>. QED
  BY <1>3, <1>4, <1>5, <1>6

----------------------------------------------------------------------------
(* SERIAL PORT 1: messages as bytes *)

\* The bytes of the messages that the guest writes, and the messages as bytes.
WireByte == [n : Nat, msg : Nat, pos : Nat]
Wires == [k \in 1..Len(outgoing) |-> WireMessage(k, outgoing[k])]
EndsWith(k) == Len(Upto(Wires, k))

\* messageSizes gives each kind one size, and the smallest is 5.
LEMMA SizesOfKinds ==
    /\ \A kind \in Kinds :
         /\ SizeOf(kind) \in Nat /\ SizeOf(kind) >= 5
         /\ {m[2] : m \in {s \in MessageSizes : s[1] = kind}} = {SizeOf(kind)}
    /\ SizeOf(Data) = 9 /\ Data \in Kinds
<1>1. \A kind \in Kinds : \E m \in MessageSizes : m[1] = kind
  BY DEF Kinds
<1>2. \A m, s \in MessageSizes : m[1] = s[1] => m[2] = s[2]
  BY DEF MessageSizes, Data
<1>3. \A m \in MessageSizes : m[2] \in Nat /\ m[2] >= 5
  BY DEF MessageSizes, Data
<1>4. ASSUME NEW kind \in Kinds
      PROVE  \E m \in MessageSizes : m[1] = kind /\ SizeOf(kind) = m[2]
  BY <1>1 DEF SizeOf
<1>5. ASSUME NEW kind \in Kinds
      PROVE  /\ SizeOf(kind) \in Nat /\ SizeOf(kind) >= 5
             /\ {m[2] : m \in {s \in MessageSizes : s[1] = kind}} = {SizeOf(kind)}
  <2>1. PICK m \in MessageSizes : m[1] = kind /\ SizeOf(kind) = m[2]
    BY <1>4
  <2>2. \A s \in MessageSizes : s[1] = kind => s[2] = SizeOf(kind)
    BY <1>2, <2>1
  <2>. QED
    BY <1>3, <2>1, <2>2
<1>6. <<Data, 9>> \in MessageSizes /\ <<Data, 9>>[1] = Data /\ <<Data, 9>>[2] = 9
  BY DEF MessageSizes
<1>7. Data \in Kinds
  BY <1>6 DEF Kinds
<1>8. SizeOf(Data) = 9
  <2>1. PICK m \in MessageSizes : m[1] = Data /\ SizeOf(Data) = m[2]
    BY <1>4, <1>7
  <2>. QED
    BY <1>2, <1>6, <2>1
<1>. QED
  BY <1>5, <1>7, <1>8

\* The length of the contents of a message fits in its four bytes.
LEMMA SizeIsLength == \A m \in Outgoing : m.size \in Lengths
<1>1. 0 \in Lengths
  <2>1. Radix * Radix \in Nat /\ Radix * Radix >= 1
    BY RadixAssumption
  <2>2. Radix * (Radix * Radix) \in Nat /\ Radix * (Radix * Radix) >= 1
    BY <2>1, RadixAssumption
  <2>3. Radix * (Radix * (Radix * Radix)) \in Nat /\ Radix * (Radix * (Radix * Radix)) >= 1
    BY <2>2, RadixAssumption
  <2>. QED
    BY <2>3 DEF Lengths
<1>. QED
  BY <1>1, LinkAssumption DEF Outgoing

\* A message as bytes.
LEMMA WireMessageIs ==
    ASSUME NEW k \in Nat, NEW m \in Outgoing
    PROVE  /\ m.kind \in Kinds /\ m.size \in Nat /\ (m.kind # Data => m.size = 0)
           /\ WireSize(m) \in Nat /\ WireSize(m) >= 5 /\ WireSize(m) = SizeOf(m.kind) + m.size
           /\ WireMessage(k, m) \in Seq(WireByte) /\ Len(WireMessage(k, m)) = WireSize(m)
           /\ \A i \in 1..WireSize(m) : WireMessage(k, m)[i] = [n |-> ByteValue(m, i), msg |-> k, pos |-> i]
<1>1. m.kind \in Kinds /\ m.size \in Nat /\ (m.kind # Data => m.size = 0)
  <2>1. m \in [kind : LinkKinds, size : DataSizes \cup {0}] /\ (m.kind # Data => m.size = 0)
    BY DEF Outgoing
  <2>2. LinkKinds \subseteq Kinds /\ DataSizes \subseteq Nat
    BY LinkAssumption DEF Lengths
  <2>3. m.kind \in LinkKinds /\ (m.size \in DataSizes \/ m.size = 0)
    BY <2>1
  <2>4. m.kind \in Kinds
    BY <2>2, <2>3
  <2>5. m.size \in Nat
    <3>1. PICK x : x = m.size
      OBVIOUS
    <3>2. CASE x \in DataSizes
      BY <2>2, <3>1, <3>2, Zenon
    <3>3. CASE x = 0
      BY <3>1, <3>3
    <3>. QED
      BY <2>3, <3>1, <3>2, <3>3
  <2>. QED
    BY <2>1, <2>4, <2>5
<1>2. SizeOf(m.kind) \in Nat /\ SizeOf(m.kind) >= 5
  BY <1>1, SizesOfKinds
<1>3. WireSize(m) \in Nat /\ WireSize(m) >= 5 /\ WireSize(m) = SizeOf(m.kind) + m.size
  BY <1>1, <1>2 DEF WireSize
<1>4. m.kind \in Nat
  BY <1>1 DEF Kinds, MessageSizes, Data
<1>5. \A i \in 1..WireSize(m) : ByteValue(m, i) \in Nat
  <2>1. \A i \in 6..9 : Bytes(m.size)[i - 5] \in Nat
    <3>1. \A i \in 6..9 : i - 5 \in 1..4
      OBVIOUS
    <3>. QED
      BY <1>1, <3>1, BytesAre
  <2>. QED
    BY <1>4, <2>1 DEF ByteValue, Data
<1>6. \A i \in 1..WireSize(m) : [n |-> ByteValue(m, i), msg |-> k, pos |-> i] \in WireByte
  BY <1>3, <1>5 DEF WireByte
<1>. QED
  BY <1>1, <1>3, <1>6 DEF WireMessage

\* The stream is the messages, one after the other.
LEMMA WiresAre ==
    ASSUME outgoing \in Seq(Outgoing)
    PROVE  /\ Len(outgoing) \in Nat
           /\ Wires \in Seq(Seq(WireByte)) /\ Len(Wires) = Len(outgoing)
           /\ \A k \in 1..Len(outgoing) : outgoing[k] \in Outgoing /\ Wires[k] = WireMessage(k, outgoing[k])
           /\ WireStream = Upto(Wires, Len(outgoing))
           /\ \A k \in 0..Len(outgoing) : EndOf(k) = EndsWith(k)
<1>1. Len(outgoing) \in Nat /\ \A k \in 1..Len(outgoing) : outgoing[k] \in Outgoing /\ k \in Nat
  BY LenProperties, ElementOfSeq
<1>2. \A k \in 1..Len(outgoing) : WireMessage(k, outgoing[k]) \in Seq(WireByte)
  BY <1>1, WireMessageIs
<1>3. /\ Wires \in Seq(Seq(WireByte)) /\ Len(Wires) = Len(outgoing)
      /\ \A k \in 1..Len(outgoing) : Wires[k] = WireMessage(k, outgoing[k])
  BY <1>1, <1>2 DEF Wires
<1>4. WireStream = Upto(Wires, Len(outgoing))
  <2>1. WireStream = FlattenSeq(Wires)
    BY DEF WireStream, Wires
  <2>. QED
    BY <1>3, <2>1, UptoFacts
<1>5. ASSUME NEW k \in 0..Len(outgoing) PROVE EndOf(k) = EndsWith(k)
  <2>1. \A j \in 1..k : Wires[j] = WireMessage(j, outgoing[j])
    BY <1>1, <1>3
  <2>2. [j \in 1..k |-> Wires[j]] = [j \in 1..k |-> WireMessage(j, outgoing[j])]
    BY <2>1
  <2>. QED
    BY <2>2 DEF EndOf, EndsWith, Upto
<1>. QED
  BY <1>1, <1>3, <1>4, <1>5

\* Where messages end in the stream, and what stands before that.
LEMMA WirePlaces ==
    ASSUME outgoing \in Seq(Outgoing)
    PROVE  /\ EndsWith(0) = 0 /\ EndsWith(Len(outgoing)) = Len(WireStream) /\ WireStream \in Seq(WireByte)
           /\ Len(WireStream) \in Nat
           /\ \A k \in 0..Len(outgoing) : EndsWith(k) \in Nat /\ EndsWith(k) <= Len(WireStream)
           /\ \A k \in 0..Len(outgoing), l \in 0..Len(outgoing) : k <= l => EndsWith(k) <= EndsWith(l)
           /\ \A k \in 0..Len(outgoing) - 1 :
                /\ EndsWith(k + 1) = EndsWith(k) + WireSize(outgoing[k + 1])
                /\ \A i \in 1..WireSize(outgoing[k + 1]) :
                     WireStream[EndsWith(k) + i] = [n |-> ByteValue(outgoing[k + 1], i), msg |-> k + 1, pos |-> i]
<1>1. PICK seqs : seqs = Wires
  OBVIOUS
<1>2. /\ seqs \in Seq(Seq(WireByte)) /\ Len(seqs) = Len(outgoing) /\ Len(outgoing) \in Nat
      /\ \A k \in 1..Len(outgoing) : outgoing[k] \in Outgoing /\ seqs[k] = WireMessage(k, outgoing[k])
      /\ WireStream = Upto(seqs, Len(outgoing))
  BY <1>1, WiresAre
<1>3. \A k : EndsWith(k) = Len(Upto(seqs, k))
  BY <1>1 DEF EndsWith
<1>4. EndsWith(0) = 0
  BY <1>2, <1>3, UptoFacts, EmptySeq
<1>5. EndsWith(Len(outgoing)) = Len(WireStream) /\ WireStream \in Seq(WireByte)
  BY <1>2, <1>3, UptoFacts
<1>6. \A k \in 0..Len(outgoing) : EndsWith(k) \in Nat
  BY <1>2, <1>3, UptoFacts
<1>7. ASSUME NEW k \in 0..Len(outgoing), NEW l \in 0..Len(outgoing), k <= l
      PROVE  EndsWith(k) <= EndsWith(l)
  <2>1. k \in 0..Len(seqs) /\ l \in k..Len(seqs)
    BY <1>2, <1>7
  <2>. QED
    BY <1>2, <1>3, <2>1, UptoBegins
<1>8. ASSUME NEW k \in 0..Len(outgoing) - 1
      PROVE  /\ EndsWith(k + 1) = EndsWith(k) + WireSize(outgoing[k + 1])
             /\ \A i \in 1..WireSize(outgoing[k + 1]) :
                  WireStream[EndsWith(k) + i] = [n |-> ByteValue(outgoing[k + 1], i), msg |-> k + 1, pos |-> i]
  <2>1. /\ k + 1 \in 1..Len(outgoing) /\ k + 1 \in Nat /\ k \in 0..Len(seqs) - 1
        /\ Len(seqs) \in k + 1..Len(seqs) /\ k \in 0..Len(outgoing)
    BY <1>2
  <2>2. PICK f, m : f = k + 1 /\ m = outgoing[k + 1]
    OBVIOUS
  <2>3. f \in Nat /\ m \in Outgoing /\ seqs[k + 1] = WireMessage(f, m)
    BY <1>2, <2>1, <2>2
  <2>4. /\ Len(WireMessage(f, m)) = WireSize(m)
        /\ \A i \in 1..WireSize(m) : WireMessage(f, m)[i] = [n |-> ByteValue(m, i), msg |-> f, pos |-> i]
    BY <2>3, WireMessageIs
  <2>5. EndsWith(k + 1) = EndsWith(k) + Len(seqs[k + 1])
    BY <1>2, <1>3, <2>1, UptoFacts
  <2>6. \A i \in 1..Len(seqs[k + 1]) : Upto(seqs, Len(seqs))[Len(Upto(seqs, k)) + i] = seqs[k + 1][i]
    BY <1>2, <2>1, UptoNext
  <2>7. WireStream = Upto(seqs, Len(seqs)) /\ EndsWith(k) = Len(Upto(seqs, k))
    BY <1>2, <1>3
  <2>8. \A i \in 1..WireSize(m) : WireStream[EndsWith(k) + i] = WireMessage(f, m)[i]
    BY <2>3, <2>4, <2>6, <2>7
  <2>. QED
    BY <2>2, <2>3, <2>4, <2>5, <2>8
<1>9. \A k \in 0..Len(outgoing) : EndsWith(k) <= Len(WireStream)
  BY <1>2, <1>5, <1>7
<1>10. Len(WireStream) \in Nat
  BY <1>5, LenProperties
<1>. QED
  BY <1>4, <1>5, <1>6, <1>7, <1>8, <1>9, <1>10

\* The bytes of the stream are in order: message after message, byte after byte.
Before(b, c) == b.msg < c.msg \/ (b.msg = c.msg /\ b.pos < c.pos)

\* Every byte of the stream belongs to one message.
LEMMA WherePlaced ==
    ASSUME outgoing \in Seq(Outgoing), NEW i \in 1..Len(WireStream)
    PROVE  \E k \in 0..Len(outgoing) - 1 :
             /\ EndsWith(k) < i /\ i <= EndsWith(k + 1)
             /\ WireStream[i].msg = k + 1 /\ WireStream[i].pos = i - EndsWith(k)
<1>1. PICK seqs, w : seqs = Wires /\ w = i - 1
  OBVIOUS
<1>2. seqs \in Seq(Seq(WireByte)) /\ Len(seqs) = Len(outgoing) /\ Len(outgoing) \in Nat /\ w \in Nat /\ i = w + 1
  <2>1. w \in Nat /\ i = w + 1
    BY <1>1, WirePlaces
  <2>. QED
    BY <1>1, <2>1, WiresAre
<1>3. PICK k \in 0..Len(seqs) :
        Len(Upto(seqs, k)) <= w /\ (k < Len(seqs) => w < Len(Upto(seqs, k + 1)))
  BY <1>2, UptoCount
<1>4. k \in 0..Len(outgoing) /\ EndsWith(k) <= w /\ (k < Len(outgoing) => w < EndsWith(k + 1))
  BY <1>1, <1>2, <1>3 DEF EndsWith
<1>5. k < Len(outgoing)
  <2>1. k = Len(outgoing) => EndsWith(k) = Len(WireStream) /\ Len(WireStream) \in Nat
    BY WirePlaces
  <2>. QED
    BY <1>2, <1>4, <2>1
<1>6. k \in 0..Len(outgoing) - 1 /\ k + 1 \in 0..Len(outgoing)
  BY <1>2, <1>4, <1>5
<1>7. EndsWith(k) \in Nat /\ EndsWith(k + 1) \in Nat /\ EndsWith(k + 1) = EndsWith(k) + WireSize(outgoing[k + 1])
  BY <1>4, <1>6, WirePlaces
<1>8. WireSize(outgoing[k + 1]) \in Nat
  <2>1. k + 1 \in 1..Len(outgoing) /\ k + 1 \in Nat
    BY <1>2, <1>6
  <2>2. PICK m \in Outgoing : m = outgoing[k + 1]
    BY <2>1, WiresAre
  <2>3. WireSize(m) \in Nat
    BY <2>1, WireMessageIs
  <2>. QED
    BY <2>2, <2>3
<1>9. PICK p : p = i - EndsWith(k)
  OBVIOUS
<1>10. p \in 1..WireSize(outgoing[k + 1]) /\ EndsWith(k) + p = i /\ EndsWith(k) < i /\ i <= EndsWith(k + 1)
  <2>1. PICK s : s = WireSize(outgoing[k + 1])
    OBVIOUS
  <2>2. PICK c, d : c = EndsWith(k) /\ d = EndsWith(k + 1)
    OBVIOUS
  <2>3. s \in Nat /\ c \in Nat /\ d \in Nat /\ d = c + s /\ c <= w /\ w < d /\ w \in Nat /\ i = w + 1 /\ p = i - c
    BY <1>2, <1>4, <1>5, <1>7, <1>8, <1>9, <2>1, <2>2
  <2>4. p \in 1..s /\ c + p = i /\ c < i /\ i <= d
    BY <2>3
  <2>. QED
    BY <2>1, <2>2, <2>4
<1>11. WireStream[EndsWith(k) + p] = [n |-> ByteValue(outgoing[k + 1], p), msg |-> k + 1, pos |-> p]
  BY <1>6, <1>10, WirePlaces
<1>. QED
  BY <1>6, <1>9, <1>10, <1>11

\* A byte that comes later in the stream comes later in order.
LEMMA StreamOrdered ==
    ASSUME outgoing \in Seq(Outgoing), NEW i \in 1..Len(WireStream), NEW j \in 1..Len(WireStream), i < j
    PROVE  Before(WireStream[i], WireStream[j])
<1>1. PICK k \in 0..Len(outgoing) - 1 :
        /\ EndsWith(k) < i /\ i <= EndsWith(k + 1)
        /\ WireStream[i].msg = k + 1 /\ WireStream[i].pos = i - EndsWith(k)
  BY WherePlaced
<1>2. PICK l \in 0..Len(outgoing) - 1 :
        /\ EndsWith(l) < j /\ j <= EndsWith(l + 1)
        /\ WireStream[j].msg = l + 1 /\ WireStream[j].pos = j - EndsWith(l)
  BY WherePlaced
<1>3. Len(outgoing) \in Nat /\ Len(WireStream) \in Nat
  BY WiresAre, WirePlaces
<1>4. k <= l
  <2>1. SUFFICES ASSUME l + 1 <= k PROVE FALSE
    BY <1>1, <1>2, <1>3
  <2>2. l + 1 \in 0..Len(outgoing) /\ k \in 0..Len(outgoing)
    BY <1>3
  <2>3. EndsWith(l + 1) <= EndsWith(k) /\ EndsWith(l + 1) \in Nat /\ EndsWith(k) \in Nat
    BY <2>1, <2>2, WirePlaces
  <2>. QED
    BY <1>1, <1>2, <1>3, <2>3
<1>5. EndsWith(k) \in Nat
  <2>1. k \in 0..Len(outgoing)
    BY <1>3
  <2>. QED
    BY <2>1, WirePlaces
<1>6. CASE k = l
  BY <1>1, <1>2, <1>3, <1>5, <1>6 DEF Before
<1>7. CASE k < l
  BY <1>1, <1>2, <1>3, <1>7 DEF Before
<1>. QED
  BY <1>4, <1>6, <1>7, <1>3

----------------------------------------------------------------------------
(* SERIAL PORT 1: what the page holds and sends *)

Sorted(s) == \A i, j \in 1..Len(s) : i < j => Before(s[i], s[j])

\* Every byte of s is one of the first n of the stream.
FromStream(s, n) == \A i \in 1..Len(s) : \E j \in 1..n : s[i] = WireStream[j]

\* What the page has sent or still holds: bytes of the stream, in its order.
OrderedInv ==
    /\ outgoing \in Seq(Outgoing)
    /\ lost \in Nat /\ emitted \in lost..Len(WireStream)
    /\ arrived \in Seq(Seq(WireByte)) /\ buf \in Seq(WireByte)
    /\ Len(buf) <= emitted - lost
    /\ socket \in {"connecting", "open", "closed"}
    /\ arrived # <<>> => socket # "connecting"
    /\ threw \in BOOLEAN
    /\ Sorted(FlattenSeq(arrived) \o buf)
    /\ FromStream(FlattenSeq(arrived) \o buf, emitted)

\* One byte more of the stream.
LEMMA OneMore ==
    ASSUME OrderedInv, emitted < Len(WireStream),
           NEW r \in Seq(WireByte), NEW q, q = Append(r, NextByte),
           Sorted(r), FromStream(r, emitted)
    PROVE  /\ Sorted(q) /\ NextByte \in WireByte /\ q \in Seq(WireByte)
           /\ FromStream(q, emitted + 1)
<1>1. /\ emitted \in Nat /\ Len(WireStream) \in Nat /\ emitted + 1 \in 1..Len(WireStream)
      /\ WireStream \in Seq(WireByte)
  BY WirePlaces DEF OrderedInv
<1>2. NextByte \in WireByte /\ NextByte = WireStream[emitted + 1]
  BY <1>1, ElementOfSeq DEF NextByte
<1>3. /\ q \in Seq(WireByte) /\ Len(q) = Len(r) + 1 /\ q[Len(r) + 1] = NextByte /\ Len(r) \in Nat
      /\ \A i \in 1..Len(r) : q[i] = r[i]
  BY <1>2, AppendProperties, LenProperties
<1>4. \A i \in 1..Len(q) : i \in 1..Len(r) \/ i = Len(r) + 1
  BY <1>3
<1>5. ASSUME NEW i \in 1..Len(q) PROVE \E j \in 1..emitted + 1 : q[i] = WireStream[j]
  <2>1. CASE i \in 1..Len(r)
    <3>1. PICK j \in 1..emitted : r[i] = WireStream[j]
      BY <2>1 DEF FromStream
    <3>2. j \in 1..emitted + 1 /\ q[i] = WireStream[j]
      BY <1>1, <1>3, <2>1, <3>1
    <3>. QED
      BY <3>2
  <2>2. CASE i = Len(r) + 1
    <3>1. emitted + 1 \in 1..emitted + 1
      BY <1>1
    <3>. QED
      BY <1>2, <1>3, <2>2, <3>1
  <2>. QED
    BY <1>4, <2>1, <2>2
<1>6. ASSUME NEW i \in 1..Len(q), NEW j \in 1..Len(q), i < j PROVE Before(q[i], q[j])
  <2>1. i \in 1..Len(r)
    BY <1>3, <1>6
  <2>2. CASE j \in 1..Len(r)
    BY <1>3, <1>6, <2>1, <2>2 DEF Sorted
  <2>3. CASE j = Len(r) + 1
    <3>1. PICK k \in 1..emitted : r[i] = WireStream[k]
      BY <2>1 DEF FromStream
    <3>2. k \in 1..Len(WireStream) /\ k < emitted + 1
      BY <1>1, <3>1
    <3>3. Before(WireStream[k], WireStream[emitted + 1])
      BY <1>1, <3>2, StreamOrdered DEF OrderedInv
    <3>. QED
      BY <1>2, <1>3, <2>1, <2>3, <3>1, <3>3
  <2>. QED
    BY <1>4, <2>2, <2>3
<1>. QED
  BY <1>2, <1>3, <1>5, <1>6 DEF Sorted, FromStream

\* What is left when the buffer is thrown away.
LEMMA Shorter ==
    ASSUME NEW r \in Seq(WireByte), NEW s \in Seq(WireByte), NEW q, q = r \o s, NEW n \in Nat, NEW m \in Nat, n <= m,
           Sorted(q), FromStream(q, n)
    PROVE  Sorted(r) /\ FromStream(r, m)
<1>1. /\ q \in Seq(WireByte) /\ Len(q) = Len(r) + Len(s) /\ Len(r) \in Nat /\ Len(s) \in Nat
      /\ \A i \in 1..Len(r) + Len(s) : q[i] = IF i <= Len(r) THEN r[i] ELSE s[i - Len(r)]
  BY ConcatProperties, LenProperties
<1>2. \A i \in 1..Len(r) : i \in 1..Len(q) /\ q[i] = r[i]
  BY <1>1
<1>3. Sorted(r)
  BY <1>2 DEF Sorted
<1>4. \A j \in 1..n : j \in 1..m
  OBVIOUS
<1>. QED
  BY <1>2, <1>3, <1>4 DEF FromStream

\* The buffer, and what has been sent, take the next byte of the stream.
LEMMA ByteTaken ==
    ASSUME OrderedInv, emitted < Len(WireStream)
    PROVE  LET r == FlattenSeq(arrived) \o buf
               q == Append(r, NextByte)
           IN /\ q = FlattenSeq(arrived) \o Append(buf, NextByte)
              /\ q = FlattenSeq(Append(arrived, Append(buf, NextByte)))
              /\ Sorted(q) /\ FromStream(q, emitted + 1)
              /\ Append(buf, NextByte) \in Seq(WireByte) /\ NextByte \in WireByte
              /\ Append(arrived, Append(buf, NextByte)) \in Seq(Seq(WireByte))
              /\ Len(Append(buf, NextByte)) = Len(buf) + 1
<1>1. PICK f, b, byte : f = FlattenSeq(arrived) /\ b = buf /\ byte = NextByte
  OBVIOUS
<1>2. f \in Seq(WireByte) /\ b \in Seq(WireByte) /\ f \o b \in Seq(WireByte) /\ <<>> \in Seq(WireByte)
  BY <1>1, FlattenType, ConcatProperties, EmptySeq DEF OrderedInv
<1>3. PICK r, q : r = f \o b /\ q = Append(r, byte)
  OBVIOUS
<1>4. /\ Sorted(q) /\ byte \in WireByte
      /\ FromStream(q, emitted + 1)
  <2>1. Sorted(r) /\ FromStream(r, emitted)
    BY <1>1, <1>3 DEF OrderedInv
  <2>2. r \in Seq(WireByte) /\ q = Append(r, NextByte)
    BY <1>1, <1>2, <1>3
  <2>3. Sorted(q) /\ NextByte \in WireByte
        /\ FromStream(q, emitted + 1)
    BY <2>1, <2>2, OneMore
  <2>. QED
    BY <1>1, <2>3
<1>5. PICK more : more = Append(b, byte)
  OBVIOUS
<1>6. more \in Seq(WireByte) /\ Len(more) = Len(b) + 1 /\ Append(arrived, more) \in Seq(Seq(WireByte))
  <2>1. more \in Seq(WireByte) /\ Len(more) = Len(b) + 1
    BY <1>2, <1>4, <1>5, AppendProperties
  <2>. QED
    BY <2>1, AppendProperties DEF OrderedInv
<1>7. q = f \o more
  <2>1. /\ q \in Seq(WireByte) /\ Len(q) = Len(r) + 1 /\ q[Len(r) + 1] = byte
        /\ \A i \in 1..Len(r) : q[i] = r[i]
    BY <1>2, <1>3, <1>4, AppendProperties
  <2>2. /\ Len(r) = Len(f) + Len(b) /\ Len(f) \in Nat /\ Len(b) \in Nat
        /\ \A i \in 1..Len(f) + Len(b) : r[i] = IF i <= Len(f) THEN f[i] ELSE b[i - Len(f)]
    BY <1>2, <1>3, ConcatProperties, LenProperties
  <2>3. more[Len(b) + 1] = byte /\ \A i \in 1..Len(b) : more[i] = b[i]
    BY <1>2, <1>4, <1>5, AppendProperties
  <2>4. PICK c : c = f \o more
    OBVIOUS
  <2>5. /\ c \in Seq(WireByte) /\ Len(c) = Len(f) + Len(more)
        /\ \A i \in 1..Len(f) + Len(more) : c[i] = IF i <= Len(f) THEN f[i] ELSE more[i - Len(f)]
    BY <1>2, <1>6, <2>4, ConcatProperties
  <2>6. Len(q) = Len(c) /\ Len(q) = Len(f) + Len(b) + 1
    BY <1>6, <2>1, <2>2, <2>5
  <2>7. ASSUME NEW i \in 1..Len(q) PROVE q[i] = c[i]
    <3>1. CASE i <= Len(f)
      <4>1. i \in 1..Len(r) /\ i \in 1..Len(f) + Len(b) /\ i \in 1..Len(f) + Len(more)
        BY <1>6, <2>2, <2>6, <3>1
      <4>. QED
        BY <2>1, <2>2, <2>5, <3>1, <4>1
    <3>2. CASE ~(i <= Len(f)) /\ i <= Len(f) + Len(b)
      <4>1. i \in 1..Len(r) /\ i \in 1..Len(f) + Len(b) /\ i \in 1..Len(f) + Len(more) /\ i - Len(f) \in 1..Len(b)
        BY <1>6, <2>2, <2>6, <3>2
      <4>2. q[i] = b[i - Len(f)]
        BY <2>1, <2>2, <3>2, <4>1
      <4>3. c[i] = more[i - Len(f)]
        BY <2>5, <3>2, <4>1
      <4>. QED
        BY <2>3, <4>1, <4>2, <4>3
    <3>3. CASE ~(i <= Len(f) + Len(b))
      <4>1. i = Len(r) + 1 /\ i \in 1..Len(f) + Len(more) /\ i - Len(f) = Len(b) + 1 /\ ~(i <= Len(f))
        <5>1. i = Len(f) + Len(b) + 1
          BY <2>2, <2>6, <3>3
        <5>. QED
          BY <1>6, <2>2, <5>1
      <4>. QED
        BY <2>1, <2>3, <2>5, <4>1
    <3>. QED
      BY <3>1, <3>2, <3>3
  <2>. QED
    BY <2>1, <2>4, <2>5, <2>6, <2>7, SeqEqual
<1>8. q = FlattenSeq(Append(arrived, more))
  <2>1. FlattenSeq(Append(arrived, more)) = FlattenSeq(arrived) \o more
    BY <1>6, FlattenAppend DEF OrderedInv
  <2>. QED
    BY <1>1, <1>7, <2>1
<1>. QED
  BY <1>1, <1>3, <1>4, <1>5, <1>6, <1>7, <1>8

\* The page begins with an empty buffer, wherever the stream stands.
LEMMA OrderedInit == LinkInit => OrderedInv
<1>1. SUFFICES ASSUME LinkInit PROVE OrderedInv
  OBVIOUS
<1>2. outgoing \in Seq(Outgoing)
  <2>1. PICK m \in 0..MaxMessages : outgoing \in [1..m -> Outgoing]
    BY <1>1 DEF LinkInit, SeqOf
  <2>. QED
    BY <2>1
<1>3. <<>> \in Seq(WireByte) /\ <<>> \in Seq(Seq(WireByte)) /\ Len(<<>>) = 0 /\ <<>> \o <<>> = <<>>
  BY EmptySeq, ConcatEmptySeq
<1>4. lost \in Nat /\ lost <= Len(WireStream) /\ Len(WireStream) \in Nat
  <2>1. CASE outgoing = <<>>
    <3>1. lost \in 0..0
      BY <1>1, <2>1 DEF LinkInit
    <3>. QED
      BY <1>2, <3>1, WirePlaces
  <2>2. CASE outgoing # <<>>
    <3>1. 0 \in 0..Len(outgoing) - 1 /\ 0 + 1 \in 0..Len(outgoing) /\ 1 \in 1..Len(outgoing)
      BY <1>2, <2>2, EmptySeq
    <3>2. PICK m \in Outgoing : m = outgoing[1]
      BY <1>2, <3>1, ElementOfSeq
    <3>3. WireSize(m) \in Nat /\ WireSize(m) >= 5
      BY WireMessageIs
    <3>4. lost \in 0..WireSize(m) - 1
      BY <1>1, <2>2, <3>2 DEF LinkInit
    <3>5. EndsWith(0) = 0 /\ EndsWith(0 + 1) = EndsWith(0) + WireSize(outgoing[0 + 1])
      BY <1>2, <3>1, WirePlaces
    <3>6. EndsWith(0 + 1) <= Len(WireStream) /\ EndsWith(0 + 1) \in Nat /\ Len(WireStream) \in Nat
      BY <1>2, <3>1, WirePlaces
    <3>7. EndsWith(0 + 1) = WireSize(m)
      BY <3>2, <3>3, <3>5
    <3>. QED
      BY <3>3, <3>4, <3>6, <3>7
  <2>. QED
    BY <2>1, <2>2
<1>5. emitted \in lost..Len(WireStream) /\ emitted - lost = 0
  BY <1>1, <1>4 DEF LinkInit
<1>6. arrived = <<>> /\ buf = <<>> /\ socket = "connecting" /\ threw = FALSE
  BY <1>1 DEF LinkInit
<1>7. FlattenSeq(arrived) \o buf = <<>>
  BY <1>3, <1>6, FlattenEmpty
<1>8. Sorted(<<>>) /\ FromStream(<<>>, emitted)
  BY <1>3 DEF Sorted, FromStream
<1>9. /\ Sorted(FlattenSeq(arrived) \o buf)
      /\ FromStream(FlattenSeq(arrived) \o buf, emitted)
  BY <1>7, <1>8
<1>10. arrived \in Seq(Seq(WireByte)) /\ buf \in Seq(WireByte) /\ Len(buf) <= emitted - lost
  BY <1>3, <1>5, <1>6
<1>. QED
  BY <1>2, <1>4, <1>5, <1>6, <1>9, <1>10 DEF OrderedInv

\* Whatever the page does with a byte keeps what it holds in order.
LEMMA OrderedStep == OrderedInv /\ [LinkNext]_linkVars => OrderedInv'
<1>. SUFFICES ASSUME OrderedInv, [LinkNext]_linkVars PROVE OrderedInv'
  OBVIOUS
<1>1. outgoing' = outgoing /\ lost' = lost
  BY DEF LinkNext, ByteFirst, ByteLater, ByteUnknown, ByteKept, ByteSends, ByteDropped, ByteThrows, SocketChanges, linkVars
<1>2. WireStream' = WireStream
  BY <1>1 DEF WireStream, WireMessage, ByteValue, WireSize
<1>3. emitted \in Nat /\ Len(WireStream) \in Nat /\ lost \in Nat /\ lost <= emitted /\ emitted <= Len(WireStream) /\ Len(buf) \in Nat
  BY WirePlaces, LenProperties DEF OrderedInv
<1>4. FlattenSeq(arrived) \in Seq(WireByte)
  BY FlattenType DEF OrderedInv
<1>5. CASE UNCHANGED <<emitted, buf, arrived, threw>> /\ socket' \in {"connecting", "open", "closed"}
           /\ (socket # "connecting" => socket' # "connecting")
  <2>1. (FlattenSeq(arrived) \o buf)' = FlattenSeq(arrived) \o buf
    BY <1>5
  <2>2. Sorted(FlattenSeq(arrived) \o buf)'
    <3>1. PICK s : s = FlattenSeq(arrived) \o buf
      OBVIOUS
    <3>2. Sorted(s)
      BY <3>1 DEF OrderedInv
    <3>3. (FlattenSeq(arrived) \o buf)' = s
      BY <2>1, <3>1
    <3>. QED
      BY <3>2, <3>3 DEF Sorted, Before
  <2>3. FromStream(FlattenSeq(arrived) \o buf, emitted)'
    BY <1>2, <1>5, <2>1 DEF OrderedInv, FromStream
  <2>. QED
    BY <1>1, <1>2, <1>5, <2>2, <2>3 DEF OrderedInv
<1>6. ASSUME emitted < Len(WireStream), emitted' = emitted + 1, UNCHANGED <<socket>>,
             threw' \in BOOLEAN,
             \/ arrived' = arrived /\ buf' = <<>>
             \/ arrived' = arrived /\ buf' = Append(buf, NextByte)
             \/ arrived' = Append(arrived, Append(buf, NextByte)) /\ buf' = <<>> /\ socket = "open"
      PROVE  OrderedInv'
  <2>1. PICK r, q, f, more : /\ r = FlattenSeq(arrived) \o buf /\ q = Append(r, NextByte)
                            /\ f = FlattenSeq(arrived) /\ more = Append(buf, NextByte)
    OBVIOUS
  <2>2. /\ q = f \o more
        /\ q = FlattenSeq(Append(arrived, more))
        /\ Sorted(q) /\ FromStream(q, emitted + 1)
        /\ more \in Seq(WireByte)
        /\ Append(arrived, more) \in Seq(Seq(WireByte))
        /\ Len(more) = Len(buf) + 1
    BY <1>6, <2>1, ByteTaken
  <2>3. PICK s, t : s = arrived' /\ t = buf'
    OBVIOUS
  <2>4. /\ s \in Seq(Seq(WireByte)) /\ t \in Seq(WireByte)
        /\ Len(t) <= emitted' - lost
        /\ s # <<>> => socket' # "connecting"
        /\ emitted' \in lost..Len(WireStream)
    <3>1. <<>> \in Seq(WireByte) /\ Len(<<>>) = 0
      BY EmptySeq
    <3>2. t = <<>> \/ t = more
      BY <1>6, <2>1, <2>3
    <3>3. t \in Seq(WireByte) /\ (Len(t) = 0 \/ Len(t) = Len(buf) + 1)
      BY <2>2, <3>1, <3>2
    <3>4. Len(buf) <= emitted - lost
      BY DEF OrderedInv
    <3>5. Len(t) <= emitted' - lost /\ emitted' \in lost..Len(WireStream)
      BY <1>3, <1>6, <3>3, <3>4
    <3>6. s \in Seq(Seq(WireByte)) /\ (s # <<>> => socket' # "connecting")
      BY <1>6, <2>1, <2>2, <2>3 DEF OrderedInv
    <3>. QED
      BY <3>3, <3>5, <3>6
  <2>5. FlattenSeq(s) \o t \in {f, q}
    <3>1. CASE s = arrived /\ t = <<>>
      BY <1>4, <2>1, <3>1, ConcatEmptySeq
    <3>2. CASE s = arrived /\ t = more
      BY <2>1, <2>2, <3>2
    <3>3. CASE s = Append(arrived, more) /\ t = <<>>
      <4>1. FlattenSeq(Append(arrived, more)) \in Seq(WireByte)
        BY <2>2, FlattenType
      <4>. QED
        BY <2>2, <3>3, <4>1, ConcatEmptySeq
    <3>. QED
      BY <1>6, <2>1, <2>3, <3>1, <3>2, <3>3
  <2>6. Sorted(f) /\ FromStream(f, emitted + 1)
    <3>1. f \in Seq(WireByte) /\ buf \in Seq(WireByte) /\ r = f \o buf
      BY <1>4, <2>1 DEF OrderedInv
    <3>2. Sorted(r) /\ FromStream(r, emitted)
      BY <2>1 DEF OrderedInv
    <3>3. PICK n, m, b : n = emitted /\ m = emitted + 1 /\ b = buf
      OBVIOUS
    <3>4. n \in Nat /\ m \in Nat /\ n <= m /\ f \in Seq(WireByte) /\ b \in Seq(WireByte) /\ r = f \o b
      BY <1>3, <3>1, <3>3
    <3>5. Sorted(r) /\ FromStream(r, n)
      BY <3>2, <3>3
    <3>6. Sorted(f) /\ FromStream(f, m)
      BY <3>4, <3>5, Shorter
    <3>. QED
      BY <3>3, <3>6
  <2>7. PICK u : u = FlattenSeq(s) \o t
    OBVIOUS
  <2>8. Sorted(u) /\ FromStream(u, emitted + 1)
    BY <2>2, <2>5, <2>6, <2>7
  <2>9. /\ Sorted(FlattenSeq(arrived') \o buf')
        /\ FromStream(FlattenSeq(arrived') \o buf', emitted')
    BY <1>6, <2>3, <2>7, <2>8
  <2>10. arrived' \in Seq(Seq(WireByte)) /\ buf' \in Seq(WireByte) /\ Len(buf') <= emitted' - lost
         /\ (arrived' # <<>> => socket' # "connecting")
    BY <2>3, <2>4
  <2>. QED
    BY <1>1, <1>2, <1>3, <1>6, <2>4, <2>9, <2>10 DEF OrderedInv, Sorted, Before, FromStream
<1>7. CASE ByteFirst
  <2>1. Append(buf, NextByte) = <<NextByte>>
    BY <1>7 DEF ByteFirst
  <2>. QED
    BY <1>6, <1>7, <2>1 DEF ByteFirst, OrderedInv
<1>8. CASE ByteUnknown
  BY <1>6, <1>8 DEF ByteUnknown, ByteLater, OrderedInv
<1>9. CASE ByteKept
  BY <1>6, <1>9 DEF ByteKept, ByteLater, OrderedInv
<1>10. CASE ByteSends
  BY <1>6, <1>10 DEF ByteSends, ByteLater, OrderedInv
<1>11. CASE ByteDropped
  BY <1>6, <1>11 DEF ByteDropped, ByteLater, OrderedInv
<1>12. CASE ByteThrows
  BY <1>6, <1>12 DEF ByteThrows, ByteLater, OrderedInv
<1>13. CASE SocketChanges
  BY <1>5, <1>13 DEF SocketChanges
<1>14. CASE UNCHANGED linkVars
  BY <1>5, <1>14 DEF linkVars, OrderedInv
<1>. QED
  BY <1>7, <1>8, <1>9, <1>10, <1>11, <1>12, <1>13, <1>14 DEF LinkNext

\* What the page has sent is in order because what it holds besides is.
LEMMA OrderedFollows == OrderedInv => LinkTypes /\ LinkBytesInOrder
<1>. SUFFICES ASSUME OrderedInv PROVE LinkTypes /\ LinkBytesInOrder
  OBVIOUS
<1>1. LinkTypes
  BY DEF OrderedInv, LinkTypes
<1>2. PICK f, b : f = FlattenSeq(arrived) /\ b = buf
  OBVIOUS
<1>3. f \in Seq(WireByte) /\ b \in Seq(WireByte) /\ Len(WireStream) \in Nat /\ emitted \in Nat
  BY <1>2, FlattenType, WirePlaces DEF OrderedInv
<1>4. PICK q : q = f \o b
  OBVIOUS
<1>5. Sorted(q) /\ FromStream(q, emitted)
  BY <1>2, <1>4 DEF OrderedInv
<1>6. emitted <= emitted
  BY <1>3
<1>7. Sorted(f)
  BY <1>3, <1>4, <1>5, <1>6, Shorter
<1>8. LinkBytesInOrder
  BY <1>2, <1>7 DEF LinkBytesInOrder, Sorted, Before
<1>. QED
  BY <1>1, <1>8

----------------------------------------------------------------------------
(* SERIAL PORT 1: message by message *)

\* As long as nothing was lost before, nothing thrown and nothing dropped, the
\* messages sent are the first ones, and the buffer has the beginning of the next.
WholeInv ==
    lost = 0 /\ ~threw /\ socket # "closed" =>
        /\ Len(arrived) \in 0..Len(outgoing)
        /\ arrived = [k \in 1..Len(arrived) |-> WireMessage(k, outgoing[k])]
        /\ EndsWith(Len(arrived)) <= emitted
        /\ Len(arrived) < Len(outgoing) => emitted < EndsWith(Len(arrived) + 1)
        /\ buf = SubSeq(WireStream, EndsWith(Len(arrived)) + 1, emitted)

LinkInv == OrderedInv /\ WholeInv

\* With the next byte, the page knows how long the message in its buffer is as
\* soon as that matters: it finds it whole exactly when it is.
LEMMA KnowsItsEnd ==
    ASSUME LinkInv, lost = 0, ~threw, socket # "closed", emitted < Len(WireStream),
           NEW k, k = Len(arrived), NEW b, b = Append(buf, NextByte)
    PROVE  /\ k \in 0..Len(outgoing) - 1
           /\ b = SubSeq(WireStream, EndsWith(k) + 1, emitted + 1) /\ b \in Seq(WireByte)
           /\ Len(b) = Len(buf) + 1 /\ Len(buf) \in Nat
           /\ EndsWith(k) \in Nat /\ EndsWith(k + 1) \in Nat /\ emitted + 1 <= EndsWith(k + 1)
           /\ buf = <<>> => emitted + 1 < EndsWith(k + 1)
           /\ \E size \in Nat :
                /\ ExpectedSize(b) = {size}
                /\ Len(b) < size <=> emitted + 1 < EndsWith(k + 1)
<1>1. PICK e, w, stream : e = EndsWith(k) /\ w = emitted + 1 /\ stream = WireStream
  OBVIOUS
<1>2. /\ outgoing \in Seq(Outgoing) /\ emitted \in Nat /\ Len(stream) \in Nat /\ w \in Nat /\ w <= Len(stream) /\ w >= 1
      /\ Len(outgoing) \in Nat /\ stream \in Seq(WireByte) /\ buf \in Seq(WireByte) /\ Len(buf) \in Nat
  BY <1>1, WirePlaces, WiresAre, LenProperties DEF LinkInv, OrderedInv
<1>3. /\ k \in 0..Len(outgoing) /\ e <= emitted /\ (k < Len(outgoing) => emitted < EndsWith(k + 1))
      /\ buf = SubSeq(stream, e + 1, emitted)
  BY <1>1 DEF LinkInv, WholeInv
<1>4. e \in Nat /\ (k = Len(outgoing) => e = Len(stream))
  BY <1>1, <1>2, <1>3, WirePlaces
<1>5. k \in 0..Len(outgoing) - 1 /\ emitted < EndsWith(k + 1)
  BY <1>1, <1>2, <1>3, <1>4
<1>6. PICK m, next : m = outgoing[k + 1] /\ next = EndsWith(k + 1)
  OBVIOUS
<1>7. k + 1 \in Nat /\ k + 1 \in 1..Len(outgoing) /\ k + 1 \in 0..Len(outgoing) /\ m \in Outgoing
  BY <1>2, <1>5, <1>6, ElementOfSeq
<1>8. /\ m.kind \in Kinds /\ m.size \in Nat /\ (m.kind # Data => m.size = 0)
      /\ WireSize(m) \in Nat /\ WireSize(m) >= 5 /\ WireSize(m) = SizeOf(m.kind) + m.size
  BY <1>7, WireMessageIs
<1>9. /\ next \in Nat /\ next = e + WireSize(m)
      /\ \A i \in 1..WireSize(m) : stream[e + i] = [n |-> ByteValue(m, i), msg |-> k + 1, pos |-> i]
  <2>1. next \in Nat
    BY <1>2, <1>6, <1>7, WirePlaces
  <2>2. next = e + WireSize(m)
    BY <1>1, <1>2, <1>5, <1>6, WirePlaces
  <2>3. \A i \in 1..WireSize(m) : stream[e + i] = [n |-> ByteValue(m, i), msg |-> k + 1, pos |-> i]
    BY <1>1, <1>2, <1>5, <1>6, WirePlaces
  <2>. QED
    BY <2>1, <2>2, <2>3
<1>10. /\ Len(buf) = emitted - e /\ w = emitted + 1 /\ w <= next
  <2>1. emitted <= Len(stream)
    BY <1>1, <1>2
  <2>2. Len(buf) = emitted - e
    BY <1>2, <1>3, <1>4, <2>1, Between
  <2>. QED
    BY <1>1, <1>2, <1>5, <1>6, <1>9, <2>2
<1>11. b = SubSeq(stream, e + 1, w) /\ b \in Seq(WireByte) /\ Len(b) = w - e
       /\ \A j \in 1..w - e : b[j] = stream[e + j]
  <2>1. NextByte = stream[w] /\ NextByte \in WireByte
    <3>1. w \in 1..Len(stream)
      BY <1>2
    <3>. QED
      BY <1>1, <1>2, <3>1, ElementOfSeq DEF NextByte
  <2>2. e + 1 \in 1..Len(stream) /\ w \in e + 1..Len(stream) /\ w - 1 = emitted /\ e <= w
    BY <1>1, <1>2, <1>3, <1>4
  <2>3. SubSeq(stream, e + 1, w) = SubSeq(stream, e + 1, w - 1) \o <<stream[w]>>
    BY <1>2, <2>2, SubSeqRecursiveSecond
  <2>4. b = buf \o <<NextByte>>
    BY <1>2, <2>1, AppendIsConcat
  <2>5. b = SubSeq(stream, e + 1, w)
    BY <1>3, <2>1, <2>2, <2>3, <2>4
  <2>. QED
    BY <1>2, <1>4, <2>2, <2>5, Between
<1>12. /\ w \in Nat /\ e \in Nat /\ next \in Nat /\ Len(b) = w - e /\ next = e + WireSize(m) /\ w <= next /\ e < w
       /\ WireSize(m) \in Nat /\ WireSize(m) >= 5 /\ WireSize(m) = SizeOf(m.kind) + m.size /\ m.size \in Nat
       /\ SizeOf(m.kind) \in Nat
  <2>1. w \in Nat /\ e \in Nat /\ next \in Nat /\ Len(b) = w - e /\ next = e + WireSize(m) /\ w <= next
    BY <1>2, <1>4, <1>9, <1>10, <1>11
  <2>2. e < w
    BY <1>2, <1>3, <1>4, <1>10
  <2>3. SizeOf(m.kind) \in Nat
    BY <1>8, SizesOfKinds
  <2>. QED
    BY <1>8, <2>1, <2>2, <2>3
<1>13. \A j \in 1..w - e : b[j].n = ByteValue(m, j)
  <2>1. TAKE j \in 1..w - e
  <2>2. j \in 1..WireSize(m)
    BY <1>12
  <2>3. b[j] = [n |-> ByteValue(m, j), msg |-> k + 1, pos |-> j]
    BY <1>9, <1>11, <2>1, <2>2
  <2>. QED
    BY <2>3
<1>14. b[1].n = m.kind
  <2>1. 1 \in 1..w - e
    BY <1>12
  <2>. QED
    BY <1>13, <2>1 DEF ByteValue
<1>15. \E size \in Nat : ExpectedSize(b) = {size} /\ (Len(b) < size <=> w < next)
  <2>1. CASE m.kind = Data /\ Len(b) >= 9
    <3>1. \A j \in 6..9 : j \in 1..w - e /\ j # 1 /\ ~(j > SizeOf(m.kind))
      <4>1. w - e \in Nat /\ w - e >= 9
        BY <1>12, <2>1
      <4>2. SizeOf(m.kind) = 9
        BY <2>1, SizesOfKinds
      <4>. QED
        BY <4>1, <4>2
    <3>2. /\ b[6].n = Bytes(m.size)[1] /\ b[7].n = Bytes(m.size)[2]
          /\ b[8].n = Bytes(m.size)[3] /\ b[9].n = Bytes(m.size)[4]
      <4>1. /\ ByteValue(m, 6) = Bytes(m.size)[1] /\ ByteValue(m, 7) = Bytes(m.size)[2]
            /\ ByteValue(m, 8) = Bytes(m.size)[3] /\ ByteValue(m, 9) = Bytes(m.size)[4]
        BY <2>1 DEF ByteValue
      <4>2. 6 \in 1..w - e /\ 7 \in 1..w - e /\ 8 \in 1..w - e /\ 9 \in 1..w - e
        BY <3>1
      <4>. QED
        BY <1>13, <4>1, <4>2
    <3>3. ExpectedSize(b) = {9 + m.size}
      <4>1. Length(b[6].n, b[7].n, b[8].n, b[9].n) = m.size
        BY <1>7, <3>2, LengthOfBytes, SizeIsLength
      <4>. QED
        BY <1>12, <1>14, <2>1, <4>1 DEF ExpectedSize
    <3>4. SizeOf(m.kind) = 9
      BY <2>1, SizesOfKinds
    <3>5. 9 + m.size \in Nat /\ (Len(b) < 9 + m.size <=> w < next)
      BY <1>12, <3>4
    <3>. QED
      BY <3>3, <3>5
  <2>2. CASE ~(m.kind = Data /\ Len(b) >= 9)
    <3>1. ExpectedSize(b) = {SizeOf(m.kind)}
      BY <1>8, <1>14, <2>2, SizesOfKinds DEF ExpectedSize
    <3>2. Len(b) < SizeOf(m.kind) <=> w < next
      <4>1. CASE m.kind = Data
        <5>1. SizeOf(m.kind) = 9
          BY <4>1, SizesOfKinds
        <5>. QED
          BY <1>12, <2>2, <4>1, <5>1
      <4>2. CASE m.kind # Data
        BY <1>8, <1>12, <4>2
      <4>. QED
        BY <4>1, <4>2
    <3>. QED
      BY <1>12, <3>1, <3>2
  <2>. QED
    BY <2>1, <2>2
<1>16. buf = <<>> => w < next
  <2>1. buf = <<>> => Len(buf) = 0
    BY EmptySeq
  <2>. QED
    BY <1>1, <1>10, <1>12, <2>1, <1>2
<1>17. Len(b) = Len(buf) + 1
  BY <1>2, <1>10, <1>12
<1>. QED
  BY <1>1, <1>2, <1>5, <1>6, <1>10, <1>11, <1>12, <1>15, <1>16, <1>17

\* A page that has lost nothing begins before the first message.
LEMMA WholeInit == LinkInit => WholeInv
<1>1. SUFFICES ASSUME LinkInit PROVE WholeInv
  OBVIOUS
<1>2. arrived = <<>> /\ buf = <<>> /\ emitted = lost
  BY <1>1 DEF LinkInit
<1>3. OrderedInv
  BY <1>1, OrderedInit
<1>4. Len(arrived) = 0 /\ Len(outgoing) \in Nat /\ EndsWith(0) = 0
  BY <1>2, <1>3, EmptySeq, WirePlaces, LenProperties DEF OrderedInv
<1>5. <<>> = [k \in 1..0 |-> WireMessage(k, outgoing[k])]
  OBVIOUS
<1>6. 0 < Len(outgoing) => 0 < EndsWith(0 + 1)
  <2>1. SUFFICES ASSUME 0 < Len(outgoing) PROVE 0 < EndsWith(0 + 1)
    OBVIOUS
  <2>2. 0 \in 0..Len(outgoing) - 1 /\ 0 + 1 \in 1..Len(outgoing) /\ outgoing \in Seq(Outgoing)
    BY <1>3, <1>4, <2>1 DEF OrderedInv
  <2>3. PICK m \in Outgoing : m = outgoing[0 + 1]
    BY <2>2, ElementOfSeq
  <2>4. WireSize(m) \in Nat /\ WireSize(m) >= 5
    BY WireMessageIs
  <2>5. EndsWith(0 + 1) = EndsWith(0) + WireSize(outgoing[0 + 1])
    BY <2>2, WirePlaces
  <2>. QED
    BY <1>4, <2>3, <2>4, <2>5
<1>7. SubSeq(WireStream, 0 + 1, 0) = <<>>
  <2>1. WireStream \in Seq(WireByte)
    BY <1>3, WirePlaces DEF OrderedInv
  <2>. QED
    BY <2>1, SubSeqEmpty
<1>8. lost = 0 => emitted = 0
  BY <1>2
<1>. QED
  BY <1>2, <1>4, <1>5, <1>6, <1>7, <1>8 DEF WholeInv

\* A message more has been sent, or the buffer has grown.
LEMMA WholeSent ==
    ASSUME LinkInv, lost = 0, ~threw, socket # "closed", emitted < Len(WireStream),
           NEW k, k = Len(arrived), NEW b, b = Append(buf, NextByte),
           emitted + 1 = EndsWith(k + 1), NEW all, all = Append(arrived, b)
    PROVE  /\ Len(all) = k + 1 /\ k + 1 \in 0..Len(outgoing)
           /\ all = [f \in 1..Len(all) |-> WireMessage(f, outgoing[f])]
           /\ k + 1 < Len(outgoing) => emitted + 1 < EndsWith(k + 1 + 1)
<1>1. outgoing \in Seq(Outgoing) /\ Len(outgoing) \in Nat /\ WireStream \in Seq(WireByte) /\ emitted \in Nat
      /\ arrived \in Seq(Seq(WireByte)) /\ Len(WireStream) \in Nat
  BY WirePlaces, LenProperties DEF LinkInv, OrderedInv
<1>2. /\ k \in 0..Len(outgoing) - 1
      /\ b = SubSeq(WireStream, EndsWith(k) + 1, emitted + 1) /\ b \in Seq(WireByte)
      /\ EndsWith(k) \in Nat
  BY KnowsItsEnd
<1>3. PICK m, e, next : m = outgoing[k + 1] /\ e = EndsWith(k) /\ next = EndsWith(k + 1)
  OBVIOUS
<1>4. k + 1 \in 1..Len(outgoing) /\ k + 1 \in Nat /\ k + 1 \in 0..Len(outgoing) /\ k \in Nat
  BY <1>1, <1>2
<1>5. m \in Outgoing
  BY <1>1, <1>3, <1>4, ElementOfSeq
<1>6. /\ WireSize(m) \in Nat /\ WireMessage(k + 1, m) \in Seq(WireByte) /\ Len(WireMessage(k + 1, m)) = WireSize(m)
      /\ \A i \in 1..WireSize(m) : WireMessage(k + 1, m)[i] = [n |-> ByteValue(m, i), msg |-> k + 1, pos |-> i]
  BY <1>4, <1>5, WireMessageIs
<1>7. /\ next = e + WireSize(m) /\ next <= Len(WireStream)
      /\ \A i \in 1..WireSize(m) : WireStream[e + i] = [n |-> ByteValue(m, i), msg |-> k + 1, pos |-> i]
  <2>1. next <= Len(WireStream)
    BY <1>1, <1>3, <1>4, WirePlaces
  <2>2. next = e + WireSize(m)
    BY <1>1, <1>2, <1>3, WirePlaces
  <2>3. \A i \in 1..WireSize(m) : WireStream[e + i] = [n |-> ByteValue(m, i), msg |-> k + 1, pos |-> i]
    BY <1>1, <1>2, <1>3, WirePlaces
  <2>. QED
    BY <2>1, <2>2, <2>3
<1>8. b = WireMessage(k + 1, m)
  <2>1. b = SubSeq(WireStream, e + 1, next) /\ e \in Nat /\ next \in Nat /\ e <= next /\ next - e = WireSize(m)
    <3>1. b = SubSeq(WireStream, e + 1, next)
      BY <1>2, <1>3
    <3>2. e \in Nat
      BY <1>2, <1>3
    <3>. QED
      BY <1>6, <1>7, <3>1, <3>2
  <2>2. Len(b) = next - e /\ \A i \in 1..next - e : b[i] = WireStream[e + i]
    <3>1. next <= Len(WireStream)
      BY <1>7
    <3>2. PICK stream : stream = WireStream
      OBVIOUS
    <3>3. stream \in Seq(WireByte) /\ b = SubSeq(stream, e + 1, next) /\ next <= Len(stream)
      BY <1>1, <2>1, <3>1, <3>2
    <3>. QED
      BY <2>1, <3>2, <3>3, Between
  <2>3. PICK c : c = WireMessage(k + 1, m)
    OBVIOUS
  <2>4. c \in Seq(WireByte) /\ Len(c) = Len(b)
    BY <1>6, <2>1, <2>2, <2>3
  <2>5. ASSUME NEW i \in 1..Len(b) PROVE b[i] = c[i]
    <3>1. i \in 1..WireSize(m) /\ i \in 1..next - e
      BY <2>1, <2>2
    <3>2. b[i] = WireStream[e + i]
      BY <2>2, <3>1
    <3>3. WireStream[e + i] = [n |-> ByteValue(m, i), msg |-> k + 1, pos |-> i]
      BY <1>7, <3>1
    <3>4. c[i] = [n |-> ByteValue(m, i), msg |-> k + 1, pos |-> i]
      BY <1>6, <2>3, <3>1
    <3>. QED
      BY <3>2, <3>3, <3>4
  <2>6. b = c
    BY <1>2, <2>4, <2>5, SeqEqual
  <2>. QED
    BY <2>3, <2>6
<1>9. /\ Len(all) = k + 1 /\ all[k + 1] = b /\ \A f \in 1..k : all[f] = arrived[f]
      /\ all \in Seq(Seq(WireByte))
  <2>1. PICK a : a = arrived
    OBVIOUS
  <2>2. a \in Seq(Seq(WireByte)) /\ Len(a) = k /\ all = Append(a, b)
    BY <1>1, <2>1
  <2>3. all \in Seq(Seq(WireByte)) /\ Len(all) = Len(a) + 1 /\ all[Len(a) + 1] = b
        /\ \A f \in 1..Len(a) : all[f] = a[f]
    <3>1. b \in Seq(WireByte)
      BY <1>2
    <3>2. PICK T : T = Seq(WireByte)
      OBVIOUS
    <3>3. a \in Seq(T) /\ b \in T
      BY <2>2, <3>1, <3>2
    <3>4. Append(a, b) \in Seq(T) /\ Len(Append(a, b)) = Len(a) + 1 /\ Append(a, b)[Len(a) + 1] = b
          /\ \A f \in 1..Len(a) : Append(a, b)[f] = a[f]
      BY <3>3, AppendProperties
    <3>. QED
      BY <2>2, <3>2, <3>4
  <2>. QED
    BY <2>1, <2>2, <2>3
<1>10. \A f \in 1..k + 1 : all[f] = WireMessage(f, outgoing[f])
  <2>1. \A f \in 1..k : arrived[f] = WireMessage(f, outgoing[f])
    BY DEF LinkInv, WholeInv
  <2>2. \A f \in 1..k + 1 : f \in 1..k \/ f = k + 1
    BY <1>4
  <2>. QED
    BY <1>3, <1>8, <1>9, <2>1, <2>2
<1>11. all = [f \in 1..k + 1 |-> all[f]]
  <2>1. all \in [1..Len(all) -> Seq(WireByte)]
    BY <1>9, LenProperties
  <2>2. all \in [1..k + 1 -> Seq(WireByte)]
    BY <1>9, <2>1
  <2>. QED
    BY <2>2
<1>12. k + 1 < Len(outgoing) => next < EndsWith(k + 1 + 1)
  <2>1. SUFFICES ASSUME k + 1 < Len(outgoing) PROVE next < EndsWith(k + 1 + 1)
    OBVIOUS
  <2>2. PICK f : f = k + 1
    OBVIOUS
  <2>3. f \in 0..Len(outgoing) - 1 /\ f + 1 \in 1..Len(outgoing) /\ f + 1 \in Nat
    BY <1>1, <1>4, <2>1, <2>2
  <2>4. PICK after \in Outgoing : after = outgoing[f + 1]
    BY <1>1, <2>3, ElementOfSeq
  <2>5. WireSize(after) \in Nat /\ WireSize(after) >= 5
    BY WireMessageIs
  <2>6. EndsWith(f + 1) = EndsWith(f) + WireSize(outgoing[f + 1])
    BY <1>1, <2>3, WirePlaces
  <2>7. next \in Nat
    BY <1>2, <1>3, <1>6, <1>7
  <2>. QED
    BY <1>3, <2>2, <2>4, <2>5, <2>6, <2>7
<1>. QED
  BY <1>3, <1>4, <1>9, <1>10, <1>11, <1>12

\* While nothing is lost, thrown or dropped, a message is sent at its end.
LEMMA WholeStep == LinkInv /\ [LinkNext]_linkVars => WholeInv'
<1>. SUFFICES ASSUME LinkInv, [LinkNext]_linkVars, (lost = 0 /\ ~threw /\ socket # "closed")'
              PROVE  /\ Len(arrived') \in 0..Len(outgoing')
                     /\ arrived' = [k \in 1..Len(arrived') |-> WireMessage(k, outgoing[k])']
                     /\ EndsWith(Len(arrived))' <= emitted'
                     /\ Len(arrived') < Len(outgoing') => emitted' < EndsWith(Len(arrived) + 1)'
                     /\ buf' = SubSeq(WireStream', EndsWith(Len(arrived))' + 1, emitted')
  BY DEF WholeInv
<1>1. outgoing' = outgoing /\ lost' = lost
  BY DEF LinkNext, ByteFirst, ByteLater, ByteUnknown, ByteKept, ByteSends, ByteDropped, ByteThrows, SocketChanges, linkVars
<1>2. WireStream' = WireStream /\ \A k : WireMessage(k, outgoing[k])' = WireMessage(k, outgoing[k])
  BY <1>1 DEF WireStream, WireMessage, ByteValue, WireSize
<1>3. PICK k, l : k = Len(arrived) /\ l = Len(arrived')
  OBVIOUS
<1>4. Wires' = Wires
  BY <1>1 DEF Wires, WireMessage, ByteValue, WireSize
<1>5. EndsWith(Len(arrived))' = EndsWith(l) /\ EndsWith(Len(arrived) + 1)' = EndsWith(l + 1)
  BY <1>3, <1>4 DEF EndsWith, Upto
<1>6. SUFFICES /\ l \in 0..Len(outgoing)
               /\ arrived' = [f \in 1..l |-> WireMessage(f, outgoing[f])]
               /\ EndsWith(l) <= emitted'
               /\ l < Len(outgoing) => emitted' < EndsWith(l + 1)
               /\ buf' = SubSeq(WireStream, EndsWith(l) + 1, emitted')
  BY <1>1, <1>2, <1>3, <1>5
<1>7. lost = 0 /\ ~threw /\ socket # "closed"
  BY <1>1 DEF LinkNext, ByteFirst, ByteLater, ByteUnknown, ByteKept, ByteSends, ByteDropped, ByteThrows, SocketChanges, linkVars
<1>8. /\ k \in 0..Len(outgoing)
      /\ arrived = [f \in 1..k |-> WireMessage(f, outgoing[f])]
      /\ EndsWith(k) <= emitted
      /\ k < Len(outgoing) => emitted < EndsWith(k + 1)
      /\ buf = SubSeq(WireStream, EndsWith(k) + 1, emitted)
  BY <1>3, <1>7 DEF LinkInv, WholeInv
<1>9. PICK b : b = Append(buf, NextByte)
  OBVIOUS
<1>10. ASSUME emitted < Len(WireStream)
       PROVE  /\ k \in 0..Len(outgoing) - 1
              /\ b = SubSeq(WireStream, EndsWith(k) + 1, emitted + 1) /\ b \in Seq(WireByte)
              /\ Len(b) = Len(buf) + 1 /\ Len(buf) \in Nat
              /\ EndsWith(k) \in Nat /\ EndsWith(k + 1) \in Nat /\ emitted + 1 <= EndsWith(k + 1)
              /\ buf = <<>> => emitted + 1 < EndsWith(k + 1)
              /\ \E size \in Nat :
                   /\ ExpectedSize(b) = {size}
                   /\ Len(b) < size <=> emitted + 1 < EndsWith(k + 1)
  BY <1>3, <1>7, <1>9, <1>10, KnowsItsEnd
<1>11. emitted \in Nat /\ outgoing \in Seq(Outgoing) /\ Len(WireStream) \in Nat /\ WireStream \in Seq(WireByte)
  BY WirePlaces DEF LinkInv, OrderedInv
<1>12. ASSUME emitted < Len(WireStream), emitted' = emitted + 1, arrived' = arrived, buf' = b,
              emitted + 1 < EndsWith(k + 1)
       PROVE  /\ l \in 0..Len(outgoing)
              /\ arrived' = [f \in 1..l |-> WireMessage(f, outgoing[f])]
              /\ EndsWith(l) <= emitted'
              /\ l < Len(outgoing) => emitted' < EndsWith(l + 1)
              /\ buf' = SubSeq(WireStream, EndsWith(l) + 1, emitted')
  <2>1. l = k
    BY <1>3, <1>12
  <2>2. b = SubSeq(WireStream, EndsWith(k) + 1, emitted + 1) /\ EndsWith(k) \in Nat
    BY <1>10, <1>12
  <2>3. EndsWith(k) <= emitted + 1
    BY <1>8, <1>11, <2>2
  <2>. QED
    BY <1>8, <1>12, <2>1, <2>2, <2>3
<1>13. CASE ByteFirst
  <2>1. emitted < Len(WireStream) /\ buf = <<>> /\ buf' = <<NextByte>> /\ emitted' = emitted + 1 /\ arrived' = arrived
    BY <1>13 DEF ByteFirst
  <2>2. buf' = b
    BY <1>9, <2>1
  <2>3. emitted + 1 < EndsWith(k + 1)
    BY <1>10, <2>1
  <2>. QED
    BY <1>12, <2>1, <2>2, <2>3
<1>14. ASSUME ByteLater
       PROVE  /\ emitted < Len(WireStream) /\ emitted' = emitted + 1 /\ socket' = socket
              /\ \E size \in Nat :
                   /\ ExpectedSize(b) = {size}
                   /\ Len(buf) + 1 < size <=> emitted + 1 < EndsWith(k + 1)
  <2>1. emitted < Len(WireStream) /\ emitted' = emitted + 1 /\ socket' = socket
    BY <1>14 DEF ByteLater
  <2>2. Len(b) = Len(buf) + 1
    BY <1>10, <2>1
  <2>3. \E size \in Nat : ExpectedSize(b) = {size} /\ (Len(b) < size <=> emitted + 1 < EndsWith(k + 1))
    BY <1>10, <2>1
  <2>. QED
    BY <2>1, <2>2, <2>3
<1>15. CASE ByteUnknown
  <2>1. ByteLater /\ ExpectedSize(b) = {}
    BY <1>9, <1>15 DEF ByteUnknown
  <2>. QED
    BY <1>14, <2>1
<1>16. CASE ByteKept
  <2>1. ByteLater /\ buf' = b /\ arrived' = arrived
    BY <1>9, <1>16 DEF ByteKept
  <2>2. \E size \in ExpectedSize(b) : Len(buf) + 1 < size
    BY <1>9, <1>16 DEF ByteKept
  <2>3. emitted + 1 < EndsWith(k + 1)
    BY <1>14, <2>1, <2>2
  <2>. QED
    BY <1>12, <1>14, <2>1, <2>3
<1>17. CASE ByteSends
  <2>1. ByteLater /\ arrived' = Append(arrived, b) /\ buf' = <<>>
    BY <1>9, <1>17 DEF ByteSends
  <2>2. \E size \in ExpectedSize(b) : Len(buf) + 1 >= size
    BY <1>9, <1>17 DEF ByteSends
  <2>3. emitted < Len(WireStream) /\ emitted' = emitted + 1
    BY <1>14, <2>1
  <2>4. k \in 0..Len(outgoing) - 1 /\ EndsWith(k + 1) \in Nat /\ emitted + 1 <= EndsWith(k + 1) /\ Len(buf) \in Nat
    BY <1>10, <2>3
  <2>5. PICK size \in Nat :
          ExpectedSize(b) = {size} /\ (Len(buf) + 1 < size <=> emitted + 1 < EndsWith(k + 1))
    BY <1>14, <2>1
  <2>6. Len(buf) + 1 >= size
    BY <2>2, <2>5
  <2>7. emitted + 1 = EndsWith(k + 1)
    BY <1>11, <2>4, <2>5, <2>6
  <2>8. PICK all : all = arrived'
    OBVIOUS
  <2>9. /\ Len(all) = k + 1 /\ k + 1 \in 0..Len(outgoing)
        /\ all = [f \in 1..Len(all) |-> WireMessage(f, outgoing[f])]
        /\ k + 1 < Len(outgoing) => emitted + 1 < EndsWith(k + 1 + 1)
    BY <1>3, <1>7, <1>9, <2>1, <2>3, <2>7, <2>8, WholeSent
  <2>10. l = k + 1
    BY <1>3, <2>8, <2>9
  <2>11. SubSeq(WireStream, emitted + 1 + 1, emitted + 1) = <<>>
    BY <1>11, SubSeqEmpty
  <2>12. EndsWith(l) = emitted + 1 /\ emitted + 1 <= emitted + 1
    BY <1>11, <2>7, <2>10
  <2>13. arrived' = [f \in 1..l |-> WireMessage(f, outgoing[f])] /\ l \in 0..Len(outgoing)
         /\ (l < Len(outgoing) => emitted + 1 < EndsWith(l + 1))
    BY <2>8, <2>9, <2>10
  <2>. QED
    BY <2>1, <2>3, <2>11, <2>12, <2>13
<1>18. CASE ByteDropped
  <2>1. socket = "closed"
    BY <1>18 DEF ByteDropped
  <2>. QED
    BY <1>7, <2>1
<1>19. CASE ByteThrows
  <2>1. threw' = TRUE
    BY <1>19 DEF ByteThrows
  <2>. QED
    BY <2>1
<1>20. CASE UNCHANGED <<emitted, buf, arrived>>
  BY <1>3, <1>8, <1>20
<1>21. CASE SocketChanges
  BY <1>20, <1>21 DEF SocketChanges
<1>22. CASE UNCHANGED linkVars
  BY <1>20, <1>22 DEF linkVars
<1>. QED
  BY <1>13, <1>15, <1>16, <1>17, <1>18, <1>19, <1>21, <1>22 DEF LinkNext

\* Then the messages sent are those that the guest has finished.
LEMMA LinkFollows == LinkInv => LinkTypes /\ LinkBytesInOrder /\ LinkWhole
<1>1. ASSUME LinkInv, lost = 0, ~threw, socket = "open"
      PROVE  arrived = CompleteMessages(emitted)
  <2>1. PICK seqs, w : seqs = Wires /\ w = emitted
    OBVIOUS
  <2>2. outgoing \in Seq(Outgoing) /\ w \in Nat
    BY <1>1, <2>1, WirePlaces DEF LinkInv, OrderedInv
  <2>3. /\ seqs \in Seq(Seq(WireByte)) /\ Len(seqs) = Len(outgoing) /\ Len(outgoing) \in Nat
        /\ \A k \in 0..Len(outgoing) : EndOf(k) = EndsWith(k)
    BY <2>1, <2>2, WiresAre
  <2>4. PICK k \in 0..Len(seqs) :
          /\ {f \in 1..Len(seqs) : Len(Upto(seqs, f)) <= w} = 1..k
          /\ Cardinality(1..k) = k
          /\ Len(Upto(seqs, k)) <= w
          /\ k < Len(seqs) => w < Len(Upto(seqs, k + 1))
    BY <2>2, <2>3, UptoCount
  <2>5. {j \in 1..Len(outgoing) : EndOf(j) <= emitted} = 1..k
    <3>1. \A j \in 1..Len(outgoing) : EndOf(j) = Len(Upto(seqs, j))
      <4>1. \A j \in 1..Len(outgoing) : j \in 0..Len(outgoing)
        OBVIOUS
      <4>. QED
        BY <2>1, <2>3, <4>1 DEF EndsWith
    <3>. QED
      BY <2>1, <2>3, <2>4, <3>1
  <2>6. CompleteMessages(emitted) = [f \in 1..k |-> WireMessage(f, outgoing[f])]
    BY <2>4, <2>5 DEF CompleteMessages
  <2>7. PICK n : n = Len(arrived)
    OBVIOUS
  <2>8. /\ n \in 0..Len(outgoing) /\ arrived = [f \in 1..n |-> WireMessage(f, outgoing[f])]
        /\ EndsWith(n) <= w /\ (n < Len(outgoing) => w < EndsWith(n + 1))
    BY <1>1, <2>1, <2>7 DEF LinkInv, WholeInv
  <2>9. k \in 0..Len(outgoing) /\ EndsWith(k) <= w /\ (k < Len(outgoing) => w < EndsWith(k + 1))
    BY <2>1, <2>3, <2>4 DEF EndsWith
  <2>10. ASSUME NEW x \in 0..Len(outgoing), NEW y \in 0..Len(outgoing), x < y,
                EndsWith(y) <= w, x < Len(outgoing) => w < EndsWith(x + 1)
         PROVE  FALSE
    <3>1. x + 1 \in 0..Len(outgoing) /\ x + 1 <= y /\ x < Len(outgoing)
      BY <2>3, <2>10
    <3>2. EndsWith(x + 1) <= EndsWith(y) /\ EndsWith(x + 1) \in Nat /\ EndsWith(y) \in Nat
      BY <2>2, <2>10, <3>1, WirePlaces
    <3>. QED
      BY <2>2, <2>10, <3>1, <3>2
  <2>11. n = k
    <3>1. ~(n < k) /\ ~(k < n)
      BY <2>8, <2>9, <2>10
    <3>. QED
      BY <2>3, <2>8, <2>9, <3>1
  <2>. QED
    BY <2>6, <2>8, <2>11
<1>2. LinkInv => LinkWhole
  BY <1>1 DEF LinkWhole
<1>. QED
  BY <1>2, OrderedFollows DEF LinkInv

----------------------------------------------------------------------------
(* TERMINAL: the search for the exit pattern *)

\* How much of the output the goroutine has read.
Seen == taken - Len(pipe)

\* The output on its way: what is in the pipe is what io.Copy took last, and
\* there is nothing in it when io.Copy holds nothing.
OutputInPlace ==
    /\ pattern \in Seq(Chars)
    /\ serial \in Seq(Chars)
    /\ taken \in 0..Len(serial)
    /\ pipe \in Seq(Chars) /\ Len(pipe) <= taken
    /\ \A j \in 1..Len(pipe) : pipe[j] = serial[Seen + j]
    /\ chunk = <<>> => pipe = <<>>
    /\ scanner \in {"off", "scanning", "found", "done"}
    /\ scanner = "off" <=> pattern = <<>>

\* While it looks, the goroutine keeps the end of what it has read: all of it,
\* or what may be the beginning of the pattern.
KeptIsEnd ==
    scanner = "scanning" =>
        /\ temp \in Seq(Chars) /\ Len(temp) <= Seen
        /\ \A j \in 1..Len(temp) : temp[j] = serial[Seen - Len(temp) + j]
        /\ Len(temp) = Seen \/ Len(temp) >= Len(pattern) - 1

TerminalInv == OutputInPlace /\ KeptIsEnd /\ PatternFound

----------------------------------------------------------------------------
(* TERMINAL: texts *)

\* Where the text p stands in s, beginning after the i-th.
Stands(p, s, i) == i + Len(p) <= Len(s) /\ \A j \in 1..Len(p) : s[i + j] = p[j]

\* A text occurs in another where it stands.
LEMMA OccursWhere ==
    ASSUME NEW S, NEW p \in Seq(S), NEW s \in Seq(S)
    PROVE  Occurs(p, s) <=> \E i \in Nat : Stands(p, s, i)
<1>1. Len(p) \in Nat /\ Len(s) \in Nat
  BY LenProperties
<1>2. ASSUME NEW i \in Nat, i + Len(p) <= Len(s)
      PROVE  SubSeq(s, i + 1, i + Len(p)) = p <=> \A j \in 1..Len(p) : s[i + j] = p[j]
  <2>1. PICK r : r = SubSeq(s, i + 1, i + Len(p))
    OBVIOUS
  <2>2. i + Len(p) \in Nat /\ i <= i + Len(p)
    BY <1>1
  <2>3. r \in Seq(S) /\ Len(r) = i + Len(p) - i /\ \A j \in 1..i + Len(p) - i : r[j] = s[i + j]
    BY <1>2, <2>1, <2>2, Between
  <2>4. Len(r) = Len(p) /\ \A j \in 1..Len(p) : r[j] = s[i + j]
    BY <1>1, <2>3
  <2>5. r = p <=> \A j \in 1..Len(p) : r[j] = p[j]
    BY <2>3, <2>4, SeqEqual
  <2>. QED
    BY <2>1, <2>4, <2>5
<1>3. \A i : i \in 0..Len(s) - Len(p) <=> i \in Nat /\ i + Len(p) <= Len(s)
  BY <1>1
<1>. QED
  BY <1>2, <1>3 DEF Occurs, Stands

\* What the goroutine has read, element by element.
LEMMA ScannedIs ==
    ASSUME OutputInPlace
    PROVE  /\ Seen \in Nat /\ Seen <= Len(serial) /\ Scanned \in Seq(Chars) /\ Len(Scanned) = Seen
           /\ \A j \in 1..Seen : Scanned[j] = serial[j]
<1>1. Seen \in Nat /\ Seen <= Len(serial) /\ Len(serial) \in Nat /\ serial \in Seq(Chars)
  BY LenProperties DEF OutputInPlace, Seen
<1>2. PICK r : r = SubSeq(serial, 0 + 1, Seen)
  OBVIOUS
<1>3. r \in Seq(Chars) /\ Len(r) = Seen - 0 /\ \A j \in 1..Seen - 0 : r[j] = serial[0 + j]
  BY <1>1, <1>2, Between
<1>4. r = Scanned
  BY <1>2 DEF Scanned, Seen
<1>. QED
  BY <1>1, <1>3, <1>4

----------------------------------------------------------------------------
(* TERMINAL: pieces *)

\* With the piece that it reads, the goroutine holds the end of what it has then
\* read; what is left in the pipe is still what follows.
LEMMA PieceRead ==
    ASSUME OutputInPlace, KeptIsEnd, scanner = "scanning", pipe # <<>>
    PROVE  /\ Len(Piece) \in Nat \ {0} /\ Len(Piece) <= Len(pipe)
           /\ Len(Rest) = Len(pipe) - Len(Piece) /\ Rest \in Seq(Chars)
           /\ \A j \in 1..Len(pipe) - Len(Piece) : Rest[j] = serial[Seen + Len(Piece) + j]
           /\ temp \o Piece \in Seq(Chars) /\ Len(temp \o Piece) = Len(temp) + Len(Piece)
           /\ \A j \in 1..Len(temp) + Len(Piece) : (temp \o Piece)[j] = serial[Seen - Len(temp) + j]
<1>1. PICK w : w = temp \o Piece
  OBVIOUS
<1>2. Len(pipe) \in Nat \ {0} /\ Len(temp) \in Nat /\ Seen \in Nat /\ pipe \in Seq(Chars)
  BY LenProperties, EmptySeq DEF OutputInPlace, KeptIsEnd, Seen
<1>3. PICK n : n = Smaller(ScanBuffer, Len(pipe))
  OBVIOUS
<1>4. n \in Nat \ {0} /\ n <= Len(pipe)
  BY <1>2, <1>3, TerminalAssumption DEF Smaller
<1>5. Piece \in Seq(Chars) /\ Len(Piece) = n /\ \A j \in 1..n : Piece[j] = pipe[j]
  <2>1. PICK r : r = SubSeq(pipe, 0 + 1, n)
    OBVIOUS
  <2>2. r \in Seq(Chars) /\ Len(r) = n - 0 /\ \A j \in 1..n - 0 : r[j] = pipe[0 + j]
    BY <1>2, <1>4, <2>1, Between
  <2>3. r = Piece
    BY <1>3, <2>1 DEF Piece
  <2>. QED
    BY <1>2, <1>4, <2>2, <2>3
<1>6. Rest \in Seq(Chars) /\ Len(Rest) = Len(pipe) - n /\ \A j \in 1..Len(pipe) - n : Rest[j] = pipe[n + j]
  BY <1>2, <1>3, <1>4, Between DEF Rest
<1>7. \A j \in 1..Len(pipe) - n : Rest[j] = serial[Seen + n + j]
  <2>. SUFFICES ASSUME NEW j \in 1..Len(pipe) - n PROVE Rest[j] = serial[Seen + n + j]
    OBVIOUS
  <2>1. n + j \in 1..Len(pipe) /\ Seen + (n + j) = Seen + n + j
    BY <1>2, <1>4
  <2>. QED
    BY <1>6, <2>1 DEF OutputInPlace
<1>8. /\ w \in Seq(Chars) /\ Len(w) = Len(temp) + n
      /\ \A j \in 1..Len(temp) + n : w[j] = IF j <= Len(temp) THEN temp[j] ELSE Piece[j - Len(temp)]
  <2>1. temp \in Seq(Chars)
    BY DEF KeptIsEnd
  <2>2. /\ temp \o Piece \in Seq(Chars) /\ Len(temp \o Piece) = Len(temp) + Len(Piece)
        /\ \A j \in 1..Len(temp) + Len(Piece) :
             (temp \o Piece)[j] = IF j <= Len(temp) THEN temp[j] ELSE Piece[j - Len(temp)]
    BY <1>5, <2>1, ConcatProperties
  <2>. HIDE DEF Piece
  <2>. QED
    BY <1>1, <1>5, <2>2
<1>9. ASSUME NEW j \in 1..Len(temp) + n
      PROVE  w[j] = serial[Seen - Len(temp) + j]
  <2>1. CASE j <= Len(temp)
    <3>1. j \in 1..Len(temp)
      BY <1>2, <2>1
    <3>. QED
      BY <1>8, <2>1, <3>1 DEF KeptIsEnd
  <2>2. CASE ~(j <= Len(temp))
    <3>1. PICK i : i = j - Len(temp)
      OBVIOUS
    <3>2. i \in 1..n /\ i \in 1..Len(pipe) /\ Seen + i = Seen - Len(temp) + j
      BY <1>2, <1>4, <2>2, <3>1
    <3>3. w[j] = pipe[i]
      BY <1>5, <1>8, <2>2, <3>1, <3>2
    <3>4. pipe[i] = serial[Seen + i]
      BY <3>2 DEF OutputInPlace
    <3>. QED
      BY <3>2, <3>3, <3>4
  <2>. QED
    BY <2>1, <2>2
<1>10. n = Len(Piece)
  BY <1>5
<1>11. \A j \in 1..Len(temp) + n : w[j] = serial[Seen - Len(temp) + j]
  BY <1>9
<1>. HIDE DEF Piece, Rest, Seen
<1>. QED
  BY <1>1, <1>4, <1>6, <1>7, <1>8, <1>10, <1>11

\* The pattern stands in what the goroutine holds exactly if it stands in all
\* that it has read then, and has not been there before.
LEMMA WindowSuffices ==
    ASSUME OutputInPlace, KeptIsEnd, PatternFound, scanner = "scanning", pipe # <<>>,
           NEW k, k = Len(Piece), NEW all, all = SubSeq(serial, 1, Seen + k)
    PROVE  Occurs(pattern, temp \o Piece) <=> Occurs(pattern, all)
<1>1. PICK w :
           /\ w = temp \o Piece
           /\ Len(Piece) \in Nat \ {0} /\ Len(Piece) <= Len(pipe)
           /\ w \in Seq(Chars) /\ Len(w) = Len(temp) + Len(Piece)
           /\ \A j \in 1..Len(temp) + Len(Piece) : w[j] = serial[Seen - Len(temp) + j]
  BY PieceRead
<1>2. /\ k \in Nat \ {0} /\ k <= Len(pipe)
      /\ w \in Seq(Chars) /\ Len(w) = Len(temp) + k
      /\ \A j \in 1..Len(temp) + k : w[j] = serial[Seen - Len(temp) + j]
  BY <1>1
<1>3. /\ Seen \in Nat /\ Seen + Len(pipe) = taken /\ taken <= Len(serial) /\ Len(serial) \in Nat
      /\ Len(pipe) \in Nat /\ serial \in Seq(Chars)
      /\ Len(temp) \in Nat /\ Len(temp) <= Seen /\ (Len(temp) = Seen \/ Len(temp) >= Len(pattern) - 1)
      /\ pattern \in Seq(Chars) /\ Len(pattern) \in Nat
  BY LenProperties DEF OutputInPlace, KeptIsEnd, Seen
<1>4. all \in Seq(Chars) /\ Len(all) = Seen + k /\ \A j \in 1..Seen + k : all[j] = serial[j]
  <2>1. PICK n : n = Seen + k
    OBVIOUS
  <2>2. n \in Nat /\ 0 <= n /\ n <= Len(serial) /\ n - 0 = n /\ all = SubSeq(serial, 0 + 1, n)
    BY <1>2, <1>3, <2>1
  <2>3. all \in Seq(Chars) /\ Len(all) = n - 0 /\ \A j \in 1..n - 0 : all[j] = serial[0 + j]
    BY <1>3, <2>2, Between
  <2>. QED
    BY <2>1, <2>2, <2>3
<1>5. \A i \in Nat : Stands(pattern, w, i) => Stands(pattern, all, Seen - Len(temp) + i)
  <2>. SUFFICES ASSUME NEW i \in Nat, Stands(pattern, w, i)
                PROVE  Stands(pattern, all, Seen - Len(temp) + i)
    OBVIOUS
  <2>1. i + Len(pattern) <= Len(temp) + k /\ \A j \in 1..Len(pattern) : w[i + j] = pattern[j]
    BY <1>2 DEF Stands
  <2>2. ASSUME NEW j \in 1..Len(pattern)
        PROVE  all[Seen - Len(temp) + i + j] = pattern[j]
    <3>1. i + j \in 1..Len(temp) + k /\ Seen - Len(temp) + (i + j) \in 1..Seen + k
          /\ Seen - Len(temp) + (i + j) = Seen - Len(temp) + i + j
      <4>1. i \in Nat /\ j \in Nat /\ j >= 1 /\ i + j <= Len(temp) + k
        BY <1>3, <2>1
      <4>. QED
        BY <1>3, <4>1
    <3>. QED
      BY <1>2, <1>4, <2>1, <3>1
  <2>3. Seen - Len(temp) + i + Len(pattern) <= Seen + k
    BY <1>2, <1>3, <2>1
  <2>. QED
    BY <1>4, <2>2, <2>3 DEF Stands
<1>6. \A i \in Nat : Stands(pattern, all, i) => \E h \in Nat : Stands(pattern, w, h)
  <2>. SUFFICES ASSUME NEW i \in Nat, Stands(pattern, all, i)
                PROVE  \E h \in Nat : Stands(pattern, w, h)
    OBVIOUS
  <2>1. i + Len(pattern) <= Seen + k /\ \A j \in 1..Len(pattern) : all[i + j] = pattern[j]
    BY <1>4 DEF Stands
  <2>2. i + Len(pattern) > Seen
    <3>. SUFFICES ASSUME i + Len(pattern) <= Seen PROVE FALSE
      BY <1>3
    <3>1. Scanned \in Seq(Chars) /\ Len(Scanned) = Seen /\ \A j \in 1..Seen : Scanned[j] = serial[j]
      BY ScannedIs
    <3>2. \A j \in 1..Len(pattern) : Scanned[i + j] = pattern[j]
      <4>. SUFFICES ASSUME NEW j \in 1..Len(pattern) PROVE Scanned[i + j] = pattern[j]
        OBVIOUS
      <4>1. i + j \in 1..Seen /\ i + j \in 1..Seen + k
        BY <1>2, <1>3
      <4>. QED
        BY <1>4, <2>1, <3>1, <4>1
    <3>3. Stands(pattern, Scanned, i)
      BY <3>1, <3>2 DEF Stands
    <3>. QED
      BY <1>3, <3>1, <3>3, OccursWhere DEF PatternFound
  <2>3. PICK h : h = i - (Seen - Len(temp))
    OBVIOUS
  <2>4. h \in Nat /\ h + Len(pattern) <= Len(temp) + k
    BY <1>2, <1>3, <2>1, <2>2, <2>3
  <2>5. ASSUME NEW j \in 1..Len(pattern)
        PROVE  w[h + j] = pattern[j]
    <3>1. h + j \in 1..Len(temp) + k /\ Seen - Len(temp) + (h + j) = i + j /\ i + j \in 1..Seen + k
      BY <1>2, <1>3, <2>1, <2>3, <2>4
    <3>. QED
      BY <1>2, <1>4, <2>1, <3>1
  <2>. QED
    BY <1>2, <2>4, <2>5 DEF Stands
<1>7. \A i \in Nat : Seen - Len(temp) + i \in Nat
  BY <1>3
<1>. QED
  BY <1>1, <1>2, <1>3, <1>4, <1>5, <1>6, <1>7, OccursWhere

----------------------------------------------------------------------------
(* TERMINAL: steps *)

\* At first the goroutine has read nothing.
LEMMA NothingSeen ==
    ASSUME taken = 0, Len(pipe) = 0
    PROVE  Seen = 0
BY DEF Seen

\* A session begins with nothing written and nothing read.
LEMMA TerminalInitInv == TerminalInit => TerminalInv
<1>. SUFFICES ASSUME TerminalInit PROVE TerminalInv
  OBVIOUS
<1>1. Len(<<>>) = 0 /\ <<>> \in Seq(Chars)
  BY EmptySeq
<1>2. OutputInPlace
  BY <1>1, TerminalAssumption DEF TerminalInit, OutputInPlace, Seen
<1>3. KeptIsEnd
  <2>1. Seen = 0 /\ temp = <<>> /\ Len(temp) = 0
    <3>1. taken = 0 /\ pipe = <<>> /\ temp = <<>>
      BY DEF TerminalInit
    <3>2. Len(pipe) = 0 /\ Len(temp) = 0
      BY <1>1, <3>1, Zenon
    <3>. QED
      BY <3>1, <3>2, NothingSeen, Zenon
  <2>2. \A j \in 1..0 : temp[j] = serial[Seen - Len(temp) + j]
    OBVIOUS
  <2>. QED
    BY <1>1, <2>1, <2>2 DEF KeptIsEnd
<1>4. PatternFound
  <2>1. Scanned \in Seq(Chars) /\ Len(Scanned) = 0
    BY <1>1, <1>2, ScannedIs DEF TerminalInit, Seen
  <2>2. pattern \in Seq(Chars) /\ Len(pattern) \in Nat /\ (pattern # <<>> => Len(pattern) # 0)
    BY <1>2, LenProperties, EmptySeq DEF OutputInPlace
  <2>3. pattern # <<>> => \A i \in Nat : ~Stands(pattern, Scanned, i)
    BY <2>1, <2>2 DEF Stands
  <2>4. Occurs(pattern, Scanned) <=> \E i \in Nat : Stands(pattern, Scanned, i)
    BY <2>1, <2>2, OccursWhere
  <2>. QED
    BY <2>3, <2>4 DEF PatternFound, TerminalInit
<1>. QED
  BY <1>2, <1>3, <1>4 DEF TerminalInv

\* What more the machine writes changes nothing of what it wrote.
LEMMA MachineStep ==
    ASSUME TerminalInv, MachineWrites
    PROVE  TerminalInv'
<1>1. PICK c \in Chars : serial' = Append(serial, c)
  BY DEF MachineWrites
<1>2. UNCHANGED <<pattern, taken, chunk, pipe, temp, scanner>>
  BY DEF MachineWrites, inputVars
<1>3. /\ Seen \in Nat /\ Seen + Len(pipe) = taken /\ taken <= Len(serial) /\ Len(serial) \in Nat
      /\ Len(pipe) \in Nat /\ serial \in Seq(Chars) /\ taken \in Nat
  BY LenProperties DEF TerminalInv, OutputInPlace, Seen
<1>4. /\ serial' \in Seq(Chars) /\ Len(serial') = Len(serial) + 1
      /\ \A j \in 1..Len(serial) : serial'[j] = serial[j]
  BY <1>1, <1>3, AppendProperties
<1>5. Seen' = Seen
  BY <1>2 DEF Seen
<1>6. OutputInPlace'
  <2>1. \A j \in 1..Len(pipe) : Seen + j \in 1..Len(serial)
    BY <1>3
  <2>2. \A j \in 1..Len(pipe) : pipe[j] = serial'[Seen + j]
    BY <1>4, <2>1 DEF TerminalInv, OutputInPlace
  <2>3. taken \in 0..Len(serial')
    BY <1>3, <1>4
  <2>. QED
    BY <1>2, <1>4, <1>5, <2>2, <2>3 DEF TerminalInv, OutputInPlace
<1>7. KeptIsEnd'
  <2>. SUFFICES ASSUME scanner = "scanning" PROVE KeptIsEnd'
    BY <1>2 DEF KeptIsEnd
  <2>1. Len(temp) \in Nat /\ Len(temp) <= Seen
    BY LenProperties DEF TerminalInv, KeptIsEnd
  <2>2. \A j \in 1..Len(temp) : Seen - Len(temp) + j \in 1..Len(serial)
    BY <1>3, <2>1
  <2>3. \A j \in 1..Len(temp) : temp[j] = serial'[Seen - Len(temp) + j]
    BY <1>4, <2>2 DEF TerminalInv, KeptIsEnd
  <2>. QED
    BY <1>2, <1>5, <2>3 DEF TerminalInv, KeptIsEnd
<1>8. PatternFound'
  <2>1. /\ Scanned \in Seq(Chars) /\ Len(Scanned) = Seen
        /\ \A j \in 1..Seen : Scanned[j] = serial[j]
    BY ScannedIs DEF TerminalInv
  <2>2. /\ Scanned' \in Seq(Chars) /\ Len(Scanned') = Seen
        /\ \A j \in 1..Seen : Scanned'[j] = serial'[j]
    <3>1. PICK r : r = SubSeq(serial', 0 + 1, Seen)
      OBVIOUS
    <3>2. r \in Seq(Chars) /\ Len(r) = Seen - 0 /\ \A j \in 1..Seen - 0 : r[j] = serial'[0 + j]
      BY <1>3, <1>4, <3>1, Between
    <3>3. r = Scanned'
      BY <1>2, <3>1 DEF Scanned, Seen
    <3>. QED
      BY <1>3, <3>2, <3>3
  <2>3. ASSUME NEW j \in 1..Seen
        PROVE  Scanned'[j] = Scanned[j]
    <3>1. j \in 1..Len(serial)
      BY <1>3
    <3>2. Scanned'[j] = serial'[j] /\ Scanned[j] = serial[j]
      BY <2>1, <2>2
    <3>. QED
      BY <1>4, <3>1, <3>2
  <2>4. Scanned' = Scanned
    BY <2>1, <2>2, <2>3, SeqEqual
  <2>. QED
    BY <1>2, <2>4 DEF TerminalInv, PatternFound
<1>. QED
  BY <1>6, <1>7, <1>8 DEF TerminalInv

\* io.Copy takes more only when the pipe has been read.
LEMMA TakesStep ==
    ASSUME TerminalInv, CopierTakes
    PROVE  TerminalInv'
<1>1. PICK n \in 1..Smaller(CopyBuffer, Len(serial) - taken) :
           chunk' = SubSeq(serial, taken + 1, taken + n) /\ taken' = taken + n
  BY DEF CopierTakes
<1>2. UNCHANGED <<pattern, serial, temp, scanner>> /\ pipe = <<>> /\ Len(pipe) = 0
  BY EmptySeq DEF CopierTakes, inputVars, TerminalInv, OutputInPlace
<1>3. serial \in Seq(Chars) /\ Len(serial) \in Nat /\ taken \in Nat /\ taken <= Len(serial) /\ Seen = taken
  BY <1>2, LenProperties DEF TerminalInv, OutputInPlace, Seen
<1>4. n \in Nat \ {0} /\ taken + n <= Len(serial)
  BY <1>1, <1>3, TerminalAssumption DEF Smaller
<1>5. /\ chunk' \in Seq(Chars) /\ Len(chunk') = n
      /\ \A j \in 1..n : chunk'[j] = serial[taken + j]
  <2>1. PICK k, r : k = taken + n /\ r = SubSeq(serial, taken + 1, k)
    OBVIOUS
  <2>2. k \in Nat /\ taken <= k /\ k <= Len(serial) /\ k - taken = n
    BY <1>3, <1>4, <2>1
  <2>3. r \in Seq(Chars) /\ Len(r) = k - taken /\ \A j \in 1..k - taken : r[j] = serial[taken + j]
    BY <1>3, <2>1, <2>2, Between
  <2>. QED
    BY <1>1, <2>1, <2>2, <2>3
<1>6. CASE pattern = <<>>
  <2>1. pipe' = <<>> /\ scanner' = "off"
    BY <1>2, <1>6 DEF CopierTakes, TerminalInv, OutputInPlace
  <2>2. Seen' = taken + n
    BY <1>1, <1>3, <1>4, <2>1, EmptySeq DEF Seen
  <2>3. OutputInPlace'
    BY <1>1, <1>2, <1>3, <1>4, <1>6, <2>1, EmptySeq DEF TerminalInv, OutputInPlace
  <2>. QED
    BY <2>1, <2>3 DEF TerminalInv, KeptIsEnd, PatternFound
<1>7. CASE pattern # <<>>
  <2>1. pipe' = chunk' /\ Len(pipe') = n
    BY <1>5, <1>7 DEF CopierTakes
  <2>2. Seen' = Seen
    BY <1>1, <1>3, <1>4, <2>1 DEF Seen
  <2>3. OutputInPlace'
    <3>1. chunk' # <<>>
      BY <1>4, <1>5, EmptySeq
    <3>2. taken' \in 0..Len(serial') /\ Len(pipe') <= taken'
      BY <1>1, <1>2, <1>3, <1>4, <2>1
    <3>. QED
      BY <1>2, <1>3, <1>5, <2>1, <2>2, <3>1, <3>2 DEF TerminalInv, OutputInPlace
  <2>4. KeptIsEnd'
    BY <1>2, <2>2 DEF TerminalInv, KeptIsEnd
  <2>5. PatternFound'
    <3>1. Scanned' = Scanned
      BY <1>2, <2>2 DEF Scanned, Seen
    <3>. QED
      BY <1>2, <3>1 DEF TerminalInv, PatternFound
  <2>. QED
    BY <2>3, <2>4, <2>5 DEF TerminalInv
<1>. QED
  BY <1>6, <1>7

\* When it has read a piece, the goroutine holds the end of what it has read.
LEMMA ScanStep ==
    ASSUME TerminalInv, ScannerMisses \/ ScannerFinds
    PROVE  TerminalInv'
<1>1. /\ OutputInPlace /\ KeptIsEnd /\ PatternFound /\ scanner = "scanning" /\ pipe # <<>>
      /\ UNCHANGED <<pattern, serial, taken, chunk>> /\ pipe' = Rest
  BY DEF TerminalInv, ScannerMisses, ScannerFinds, inputVars
<1>2. PICK k : k = Len(Piece)
  OBVIOUS
<1>3. PICK w : w = temp \o Piece
  OBVIOUS
<1>4. /\ k \in Nat \ {0} /\ k <= Len(pipe) /\ Len(Rest) = Len(pipe) - k /\ Rest \in Seq(Chars)
      /\ \A j \in 1..Len(pipe) - k : Rest[j] = serial[Seen + k + j]
      /\ w \in Seq(Chars) /\ Len(w) = Len(temp) + k
      /\ \A j \in 1..Len(temp) + k : w[j] = serial[Seen - Len(temp) + j]
  <2>. HIDE DEF Piece, Rest, Seen
  <2>. QED
    BY <1>1, <1>2, <1>3, PieceRead
<1>5. /\ Seen \in Nat /\ Seen + Len(pipe) = taken /\ taken <= Len(serial) /\ Len(serial) \in Nat
      /\ Len(pipe) \in Nat /\ serial \in Seq(Chars) /\ taken \in Nat
      /\ Len(temp) \in Nat /\ Len(temp) <= Seen /\ (Len(temp) = Seen \/ Len(temp) >= Len(pattern) - 1)
      /\ pattern \in Seq(Chars) /\ Len(pattern) \in Nat \ {0}
  BY <1>1, LenProperties, EmptySeq DEF OutputInPlace, KeptIsEnd, Seen
<1>6. Seen' = Seen + k
  <2>1. Len(pipe') = Len(pipe) - k
    BY <1>1, <1>4
  <2>. QED
    BY <1>1, <1>4, <1>5, <2>1 DEF Seen
<1>7. OutputInPlace'
  <2>1. scanner' \in {"scanning", "found"} /\ pattern # <<>> /\ chunk # <<>>
    BY <1>1, <1>5, EmptySeq DEF ScannerMisses, ScannerFinds, OutputInPlace
  <2>2. Len(pipe') \in Nat /\ Len(pipe') <= taken /\ Len(pipe') = Len(pipe) - k
    BY <1>1, <1>4, <1>5
  <2>3. \A j \in 1..Len(pipe') : pipe'[j] = serial[Seen' + j]
    BY <1>1, <1>4, <1>6, <2>2
  <2>. QED
    BY <1>1, <1>4, <1>5, <2>1, <2>2, <2>3 DEF OutputInPlace
<1>8. Occurs(pattern, w) <=> Occurs(pattern, Scanned')
  <2>1. Scanned' = SubSeq(serial, 1, Seen + k)
    BY <1>1, <1>6 DEF Scanned, Seen
  <2>2. Occurs(pattern, temp \o Piece) <=> Occurs(pattern, SubSeq(serial, 1, Seen + k))
    BY <1>1, <1>2, WindowSuffices
  <2>. QED
    BY <1>3, <2>1, <2>2
<1>9. CASE ScannerFinds
  <2>1. scanner' = "found" /\ Occurs(pattern, w)
    BY <1>3, <1>9 DEF ScannerFinds
  <2>. QED
    BY <1>1, <1>7, <1>8, <2>1 DEF TerminalInv, KeptIsEnd, PatternFound
<1>10. CASE ScannerMisses
  <2>1. scanner' = "scanning" /\ ~Occurs(pattern, w) /\ temp' = Kept(w)
    BY <1>1, <1>3, <1>10 DEF ScannerMisses
  <2>2. PatternFound'
    BY <1>1, <1>8, <2>1 DEF PatternFound
  <2>3. KeptIsEnd'
    <3>1. CASE Len(w) > Len(pattern)
      <4>1. PICK m : m = Len(w) - Len(pattern) + 1
        OBVIOUS
      <4>2. m \in Nat /\ m <= Len(w) /\ Len(w) \in Nat
        BY <1>4, <1>5, <3>1, <4>1
      <4>3. temp' = SubSeq(w, m + 1, Len(w))
        <5>1. m + 1 = Len(w) - Len(pattern) + 2
          BY <1>5, <4>1, <4>2
        <5>2. temp' = SubSeq(w, Len(w) - Len(pattern) + 2, Len(w))
          BY <2>1, <3>1 DEF Kept
        <5>. QED
          BY <5>1, <5>2
      <4>4. temp' \in Seq(Chars) /\ Len(temp') = Len(w) - m /\ \A j \in 1..Len(w) - m : temp'[j] = w[m + j]
        <5>1. PICK r : r = SubSeq(w, m + 1, Len(w))
          OBVIOUS
        <5>2. w \in Seq(Chars)
          BY <1>4
        <5>3. r \in Seq(Chars) /\ Len(r) = Len(w) - m /\ \A j \in 1..Len(w) - m : r[j] = w[m + j]
          BY <4>2, <5>1, <5>2, Between
        <5>. QED
          BY <4>3, <5>1, <5>3
      <4>5. Len(temp') = Len(pattern) - 1 /\ Len(temp') <= Seen'
        BY <1>4, <1>5, <1>6, <3>1, <4>1, <4>4
      <4>6. ASSUME NEW j \in 1..Len(temp')
            PROVE  temp'[j] = serial[Seen' - Len(temp') + j]
        <5>1. m + j \in 1..Len(temp) + k /\ j \in 1..Len(w) - m
              /\ Seen - Len(temp) + (m + j) = Seen' - Len(temp') + j
          BY <1>4, <1>5, <1>6, <4>1, <4>2, <4>4
        <5>. QED
          BY <1>4, <4>4, <5>1
      <4>. QED
        BY <1>1, <1>5, <4>4, <4>5, <4>6 DEF KeptIsEnd
    <3>2. CASE ~(Len(w) > Len(pattern))
      <4>1. temp' = w
        BY <2>1, <3>2 DEF Kept
      <4>2. Len(temp') <= Seen' /\ (Len(temp') = Seen' \/ Len(temp') >= Len(pattern) - 1)
        BY <1>4, <1>5, <1>6, <4>1
      <4>3. ASSUME NEW j \in 1..Len(temp')
            PROVE  temp'[j] = serial[Seen' - Len(temp') + j]
        <5>1. Len(temp') = Len(temp) + k
          BY <1>4, <4>1
        <5>2. j \in 1..Len(temp) + k
          BY <5>1
        <5>3. Seen - Len(temp) = Seen' - Len(temp')
          BY <1>4, <1>5, <1>6, <5>1
        <5>. QED
          BY <1>4, <4>1, <5>2, <5>3
      <4>. QED
        BY <1>1, <1>4, <4>1, <4>2, <4>3 DEF KeptIsEnd
    <3>. QED
      BY <3>1, <3>2
  <2>. QED
    BY <1>7, <2>2, <2>3 DEF TerminalInv
<1>. QED
  BY <1>9, <1>10

\* Every step of a session keeps what the search relies on.
LEMMA TerminalInvStep == TerminalInv /\ [TerminalNext]_ttyVars => TerminalInv'
<1>. SUFFICES ASSUME TerminalInv, [TerminalNext]_ttyVars PROVE TerminalInv'
  OBVIOUS
<1>1. CASE CopierPrints
  <2>1. UNCHANGED <<pattern, serial, taken, pipe, temp, scanner>> /\ pipe = <<>>
    BY <1>1 DEF CopierPrints, inputVars
  <2>. QED
    BY <2>1 DEF TerminalInv, OutputInPlace, KeptIsEnd, PatternFound, Scanned, Seen
<1>2. CASE ScannerExits
  <2>1. UNCHANGED <<pattern, serial, taken, chunk, pipe, temp>> /\ scanner = "found" /\ scanner' = "done"
    BY <1>2 DEF ScannerExits, inputVars
  <2>. QED
    BY <2>1 DEF TerminalInv, OutputInPlace, KeptIsEnd, PatternFound, Scanned, Seen
<1>3. CASE StdinStarts \/ StdinPasses \/ StdinCtrlD \/ StdinFails \/ UNCHANGED ttyVars
  <2>1. UNCHANGED <<pattern, serial, taken, chunk, pipe, temp, scanner>>
    BY <1>3 DEF StdinStarts, StdinPasses, StdinCtrlD, StdinFails, outputVars, ttyVars
  <2>. QED
    BY <2>1 DEF TerminalInv, OutputInPlace, KeptIsEnd, PatternFound, Scanned, Seen
<1>. QED
  BY <1>1, <1>2, <1>3, MachineStep, TakesStep, ScanStep DEF TerminalNext, Copier, Scanner

----------------------------------------------------------------------------
(* TERMINAL: the bytes of a session *)

Typable == Chars \cup {Newline}

\* What stdout has got and what io.Copy holds is what it has taken of the
\* machine's output; what the machine has got is what was typed while the
\* channel was open.
SessionInv ==
    /\ TerminalTypes
    /\ Len(printed) + Len(chunk) = taken
    /\ \A j \in 1..Len(printed) : printed[j] = serial[j]
    /\ \A j \in 1..Len(chunk) : chunk[j] = serial[Len(printed) + j]
    /\ isOpen => toGuest = typed
    /\ Len(toGuest) <= Len(typed) /\ \A j \in 1..Len(toGuest) : toGuest[j] = typed[j]
    /\ stdin = "starting" => typed = <<>> /\ toGuest = <<>>

\* Smaller gives the smaller of two numbers.
LEMMA SmallerIs == \A a, b \in Nat : Smaller(a, b) \in Nat /\ Smaller(a, b) <= a /\ Smaller(a, b) <= b
BY DEF Smaller

\* A session begins with nothing in any of its buffers.
LEMMA SessionInitInv == TerminalInit => SessionInv
<1>. SUFFICES ASSUME TerminalInit PROVE SessionInv
  OBVIOUS
<1>1. \A S : <<>> \in Seq(S)
  BY EmptySeq
<1>2. Len(<<>>) = 0
  BY EmptySeq
<1>3. /\ pattern \in Patterns /\ restored \in BOOLEAN
      /\ serial = <<>> /\ taken = 0 /\ chunk = <<>> /\ pipe = <<>> /\ printed = <<>> /\ temp = <<>>
      /\ scanner = IF pattern = <<>> THEN "off" ELSE "scanning"
      /\ stdin = "starting" /\ typed = <<>> /\ toGuest = <<>> /\ isOpen = TRUE /\ exits = {}
  BY DEF TerminalInit
<1>4. CopyBuffer \in Nat /\ Smaller(CopyBuffer, 0) = 0
  BY TerminalAssumption DEF Smaller
<1>5. TerminalTypes
  BY <1>1, <1>2, <1>3, <1>4 DEF TerminalTypes
<1>. QED
  BY <1>2, <1>3, <1>5 DEF SessionInv

\* What the machine writes comes after what it has written.
LEMMA WritesKeep ==
    ASSUME SessionInv, MachineWrites
    PROVE  SessionInv' /\ IsPrefix(serial, serial')
<1>1. PICK c \in Chars : serial' = Append(serial, c)
  BY DEF MachineWrites
<1>2. UNCHANGED <<pattern, restored, taken, chunk, pipe, printed, temp, scanner, stdin, typed, toGuest, isOpen, exits>>
  BY DEF MachineWrites, inputVars
<1>3. serial \in Seq(Chars) /\ taken \in 0..Len(serial) /\ Len(serial) \in Nat
      /\ Len(printed) \in Nat /\ Len(chunk) \in Nat /\ Len(printed) + Len(chunk) = taken
  BY LenProperties DEF SessionInv, TerminalTypes
<1>4. PICK s : s = serial'
  OBVIOUS
<1>5. /\ s \in Seq(Chars) /\ Len(s) = Len(serial) + 1 /\ \A j \in 1..Len(serial) : s[j] = serial[j]
  BY <1>1, <1>3, <1>4, AppendProperties
<1>6. taken \in 0..Len(s)
  BY <1>3, <1>5
<1>7. TerminalTypes'
  BY <1>2, <1>4, <1>5, <1>6 DEF SessionInv, TerminalTypes
<1>8. ASSUME NEW j \in 1..Len(printed) PROVE printed[j] = s[j]
  <2>1. printed[j] = serial[j] /\ j \in 1..Len(serial)
    BY <1>3 DEF SessionInv
  <2>. QED
    BY <1>5, <2>1
<1>9. ASSUME NEW j \in 1..Len(chunk) PROVE chunk[j] = s[Len(printed) + j]
  <2>1. Len(printed) + j \in 1..Len(serial)
    BY <1>3
  <2>. QED
    BY <1>5, <2>1 DEF SessionInv
<1>10. SessionInv'
  BY <1>2, <1>3, <1>4, <1>7, <1>8, <1>9 DEF SessionInv
<1>11. IsPrefix(serial, s)
  BY <1>3, <1>5, BeginsWith
<1>. QED
  BY <1>4, <1>10, <1>11

\* What io.Copy reads follows what it has read.
LEMMA TakesKeep ==
    ASSUME SessionInv, CopierTakes
    PROVE  SessionInv'
<1>1. PICK n \in 1..Smaller(CopyBuffer, Len(serial) - taken) :
        chunk' = SubSeq(serial, taken + 1, taken + n) /\ taken' = taken + n
  BY DEF CopierTakes
<1>2. chunk = <<>> /\ pipe' = (IF pattern = <<>> THEN <<>> ELSE chunk')
      /\ UNCHANGED <<pattern, restored, serial, printed, temp, scanner, stdin, typed, toGuest, isOpen, exits>>
  BY DEF CopierTakes, inputVars
<1>3. /\ serial \in Seq(Chars) /\ taken \in Nat /\ taken <= Len(serial) /\ Len(serial) \in Nat
      /\ Len(printed) = taken /\ CopyBuffer \in Nat
  <2>1. Len(chunk) = 0
    BY <1>2, EmptySeq
  <2>2. Len(printed) \in Nat /\ Len(serial) \in Nat
    BY LenProperties DEF SessionInv, TerminalTypes
  <2>. QED
    BY <2>1, <2>2, TerminalAssumption DEF SessionInv, TerminalTypes
<1>4. n \in Nat /\ n >= 1 /\ n <= CopyBuffer /\ taken + n \in Nat /\ taken + n <= Len(serial) /\ taken <= taken + n
  <2>1. Len(serial) - taken \in Nat
    BY <1>3
  <2>2. PICK room : room = Smaller(CopyBuffer, Len(serial) - taken)
    OBVIOUS
  <2>3. room \in Nat /\ room <= CopyBuffer /\ room <= Len(serial) - taken
    BY <1>3, <2>1, <2>2, SmallerIs
  <2>. QED
    BY <1>3, <2>2, <2>3
<1>5. PICK c, m : c = chunk' /\ m = taken + n
  OBVIOUS
<1>6. c \in Seq(Chars) /\ Len(c) = n /\ \A j \in 1..n : c[j] = serial[taken + j]
  <2>1. m \in Nat /\ taken <= m /\ m <= Len(serial) /\ m - taken = n /\ c = SubSeq(serial, taken + 1, m)
    BY <1>1, <1>3, <1>4, <1>5
  <2>2. c \in Seq(Chars) /\ Len(c) = m - taken /\ \A j \in 1..m - taken : c[j] = serial[taken + j]
    BY <1>3, <2>1, Between
  <2>. QED
    BY <2>1, <2>2
<1>7. PICK p : p = pipe'
  OBVIOUS
<1>8. p \in Seq(Chars) /\ Len(p) <= Len(c)
  <2>1. CASE pattern = <<>>
    <3>1. p = <<>> /\ Len(<<>>) = 0 /\ <<>> \in Seq(Chars)
      BY <1>2, <1>7, <2>1, EmptySeq
    <3>. QED
      BY <1>4, <1>6, <3>1
  <2>2. CASE pattern # <<>>
    <3>1. p = c
      BY <1>2, <1>5, <1>7, <2>2
    <3>. QED
      BY <1>4, <1>6, <3>1
  <2>. QED
    BY <2>1, <2>2
<1>9. n <= Smaller(CopyBuffer, taken + n)
  BY <1>3, <1>4 DEF Smaller
<1>10. m \in 0..Len(serial) /\ Len(c) <= Smaller(CopyBuffer, m) /\ Len(printed) + Len(c) = m
  BY <1>3, <1>4, <1>5, <1>6, <1>9
<1>11. taken' = m /\ chunk' = c /\ pipe' = p
  BY <1>1, <1>5, <1>7
<1>12. TerminalTypes'
  BY <1>2, <1>6, <1>8, <1>10, <1>11 DEF SessionInv, TerminalTypes
<1>13. \A j \in 1..Len(c) : c[j] = serial[Len(printed) + j]
  BY <1>3, <1>6
<1>. QED
  BY <1>2, <1>10, <1>11, <1>12, <1>13 DEF SessionInv

\* What io.Copy prints is what it read.
LEMMA PrintsKeep ==
    ASSUME SessionInv, CopierPrints
    PROVE  SessionInv' /\ IsPrefix(printed, printed')
<1>1. printed' = printed \o chunk /\ chunk' = <<>> /\ pipe = <<>>
      /\ UNCHANGED <<pattern, restored, serial, taken, pipe, temp, scanner, stdin, typed, toGuest, isOpen, exits>>
  BY DEF CopierPrints, inputVars
<1>2. printed \in Seq(Chars) /\ chunk \in Seq(Chars) /\ Len(printed) \in Nat /\ Len(chunk) \in Nat
      /\ Len(printed) + Len(chunk) = taken /\ taken \in Nat
  BY LenProperties DEF SessionInv, TerminalTypes
<1>3. PICK q : q = printed'
  OBVIOUS
<1>4. /\ q \in Seq(Chars) /\ Len(q) = Len(printed) + Len(chunk)
      /\ \A j \in 1..Len(printed) + Len(chunk) : q[j] = IF j <= Len(printed) THEN printed[j] ELSE chunk[j - Len(printed)]
  BY <1>1, <1>2, <1>3, ConcatProperties
<1>5. ASSUME NEW j \in 1..Len(q) PROVE q[j] = serial[j]
  <2>1. CASE j <= Len(printed)
    <3>1. j \in 1..Len(printed) /\ j \in 1..Len(printed) + Len(chunk)
      BY <1>2, <1>4, <2>1
    <3>. QED
      BY <1>4, <2>1, <3>1 DEF SessionInv
  <2>2. CASE ~(j <= Len(printed))
    <3>1. PICK i : i = j - Len(printed)
      OBVIOUS
    <3>2. i \in 1..Len(chunk) /\ j \in 1..Len(printed) + Len(chunk) /\ Len(printed) + i = j
      BY <1>2, <1>4, <2>2, <3>1
    <3>3. chunk[i] = serial[Len(printed) + i]
      BY <3>2 DEF SessionInv
    <3>. QED
      BY <1>4, <2>2, <3>1, <3>2, <3>3
  <2>. QED
    BY <2>1, <2>2
<1>6. <<>> \in Seq(Chars) /\ Len(<<>>) = 0
  BY EmptySeq
<1>7. Len(pipe) <= Len(<<>>) /\ 0 <= Smaller(CopyBuffer, taken)
  BY <1>1, <1>2, <1>6, TerminalAssumption, SmallerIs
<1>8. TerminalTypes'
  BY <1>1, <1>3, <1>4, <1>6, <1>7 DEF SessionInv, TerminalTypes
<1>9. Len(q) + Len(<<>>) = taken /\ 1..Len(<<>>) = {}
  BY <1>2, <1>4, <1>6
<1>10. SessionInv'
  BY <1>1, <1>3, <1>5, <1>8, <1>9 DEF SessionInv
<1>11. IsPrefix(printed, printed \o chunk)
  BY <1>2, ConcatBegins
<1>. QED
  BY <1>1, <1>10, <1>11

\* The search touches neither the output nor the input.
LEMMA ScanKeeps ==
    ASSUME SessionInv, Scanner
    PROVE  SessionInv'
<1>1. UNCHANGED <<pattern, restored, serial, taken, chunk, printed, stdin, typed, toGuest>>
  BY DEF Scanner, ScannerMisses, ScannerFinds, ScannerExits, inputVars
<1>2. /\ pipe \in Seq(Chars) /\ temp \in Seq(Chars) /\ Len(pipe) \in Nat /\ Len(pipe) <= Len(chunk) /\ Len(chunk) \in Nat
      /\ pattern \in Seq(Chars) /\ Len(pattern) \in Nat /\ ScanBuffer \in Nat
      /\ scanner = "off" <=> pattern = <<>>
  BY LenProperties, TerminalAssumption DEF SessionInv, TerminalTypes
<1>3. PICK n : n = Smaller(ScanBuffer, Len(pipe))
  OBVIOUS
<1>4. n \in Nat /\ n <= Len(pipe)
  BY <1>2, <1>3, SmallerIs
<1>5. Piece = SubSeq(pipe, 0 + 1, n) /\ Rest = SubSeq(pipe, n + 1, Len(pipe))
  BY <1>3 DEF Piece, Rest
<1>6. Piece \in Seq(Chars)
  <2>1. PICK m : m = 0
    OBVIOUS
  <2>2. m \in Nat /\ m <= n /\ n <= Len(pipe) /\ Piece = SubSeq(pipe, m + 1, n)
    BY <1>4, <1>5, <2>1
  <2>. QED
    BY <1>2, <1>4, <2>2, Between
<1>7. Rest \in Seq(Chars) /\ Len(Rest) <= Len(chunk)
  <2>1. PICK h : h = Len(pipe)
    OBVIOUS
  <2>2. h \in Nat /\ n <= h /\ h <= Len(pipe) /\ Rest = SubSeq(pipe, n + 1, h)
    BY <1>2, <1>4, <1>5, <2>1
  <2>3. Rest \in Seq(Chars) /\ Len(Rest) = h - n
    BY <1>2, <1>4, <2>2, Between
  <2>. QED
    BY <1>2, <1>4, <2>1, <2>3
<1>8. PICK window : window = temp \o Piece
  OBVIOUS
<1>9. window \in Seq(Chars)
  BY <1>2, <1>6, <1>8, ConcatProperties
<1>10. Kept(window) \in Seq(Chars)
  <2>1. CASE Len(window) > Len(pattern)
    <3>1. PICK m : m = Len(window) - Len(pattern) + 1
      OBVIOUS
    <3>2. Len(window) \in Nat /\ m \in Nat /\ Kept(window) = SubSeq(window, m + 1, Len(window))
      BY <1>2, <1>9, <2>1, <3>1, LenProperties DEF Kept
    <3>3. CASE pattern = <<>>
      <4>1. m + 1 > Len(window)
        BY <3>1, <3>2, <3>3, EmptySeq
      <4>. QED
        BY <1>9, <3>2, <4>1, EmptySeq, SubSeqEmpty
    <3>4. CASE pattern # <<>>
      <4>1. Len(pattern) >= 1
        BY <1>2, <3>4, EmptySeq
      <4>2. PICK h : h = Len(window)
        OBVIOUS
      <4>3. h \in Nat /\ m <= h /\ h <= Len(window) /\ Kept(window) = SubSeq(window, m + 1, h)
        BY <1>2, <3>1, <3>2, <4>1, <4>2
      <4>. QED
        BY <1>9, <3>2, <4>3, Between
    <3>. QED
      BY <3>3, <3>4
  <2>2. CASE ~(Len(window) > Len(pattern))
    BY <1>9, <2>2 DEF Kept
  <2>. QED
    BY <2>1, <2>2
<1>11. CASE ScannerMisses
  BY <1>1, <1>7, <1>8, <1>10, <1>11 DEF ScannerMisses, SessionInv, TerminalTypes
<1>12. CASE ScannerFinds
  BY <1>1, <1>2, <1>7, <1>8, <1>9, <1>12 DEF ScannerFinds, SessionInv, TerminalTypes
<1>13. CASE ScannerExits
  BY <1>1, <1>2, <1>13 DEF ScannerExits, SessionInv, TerminalTypes
<1>. QED
  BY <1>11, <1>12, <1>13 DEF Scanner

\* What is typed comes after what was typed, for the machine as well.
LEMMA StdinKeeps ==
    ASSUME SessionInv, StdinStarts \/ StdinPasses \/ StdinCtrlD \/ StdinFails
    PROVE  SessionInv' /\ IsPrefix(typed, typed') /\ IsPrefix(toGuest, toGuest')
<1>1. UNCHANGED <<pattern, restored, serial, taken, chunk, pipe, printed, temp, scanner>>
  BY DEF StdinStarts, StdinPasses, StdinCtrlD, StdinFails, outputVars
<1>2. /\ typed \in Seq(Typable) /\ toGuest \in Seq(Typable) /\ Len(typed) \in Nat /\ Len(toGuest) \in Nat
      /\ isOpen \in BOOLEAN
  <2>1. typed \in Seq(Typable) /\ toGuest \in Seq(Typable) /\ isOpen \in BOOLEAN
    BY DEF SessionInv, TerminalTypes, Typable
  <2>. QED
    BY <2>1, LenProperties
<1>3. ASSUME NEW more \in Seq(Typable), typed' = typed \o more,
             toGuest' = (IF isOpen THEN toGuest \o more ELSE toGuest),
             UNCHANGED <<isOpen, exits>>, stdin' = "reading"
      PROVE  SessionInv' /\ IsPrefix(typed, typed') /\ IsPrefix(toGuest, toGuest')
  <2>1. PICK t, g : t = typed \o more /\ g = toGuest'
    OBVIOUS
  <2>2. /\ t \in Seq(Typable) /\ Len(t) = Len(typed) + Len(more) /\ Len(more) \in Nat
        /\ \A j \in 1..Len(typed) + Len(more) : t[j] = IF j <= Len(typed) THEN typed[j] ELSE more[j - Len(typed)]
    BY <1>2, <2>1, ConcatProperties, LenProperties
  <2>3. IsPrefix(typed, typed \o more)
    BY <1>2, ConcatBegins
  <2>4. /\ g \in Seq(Typable) /\ (isOpen => g = t)
        /\ Len(g) <= Len(t) /\ \A j \in 1..Len(g) : g[j] = t[j]
        /\ IsPrefix(toGuest, g)
    <3>1. CASE isOpen
      <4>1. g = t /\ toGuest = typed
        BY <1>3, <2>1, <3>1 DEF SessionInv
      <4>. QED
        BY <2>1, <2>2, <2>3, <4>1, LenProperties
    <3>2. CASE ~isOpen
      <4>1. g = toGuest
        BY <1>3, <2>1, <3>2
      <4>2. Len(toGuest) <= Len(typed) /\ \A j \in 1..Len(toGuest) : toGuest[j] = typed[j]
        BY DEF SessionInv
      <4>3. Len(g) <= Len(t)
        BY <1>2, <2>2, <4>1, <4>2
      <4>4. \A j \in 1..Len(g) : g[j] = t[j]
        BY <1>2, <2>2, <4>1, <4>2
      <4>5. IsPrefix(toGuest, toGuest)
        BY DEF IsPrefix
      <4>. QED
        BY <1>2, <3>2, <4>1, <4>3, <4>4, <4>5
    <3>. QED
      BY <3>1, <3>2
  <2>5. TerminalTypes'
    BY <1>1, <1>3, <2>1, <2>2, <2>4 DEF SessionInv, TerminalTypes, Typable
  <2>6. SessionInv'
    BY <1>1, <1>3, <2>1, <2>4, <2>5 DEF SessionInv
  <2>. QED
    BY <1>3, <2>1, <2>3, <2>4, <2>6
<1>4. CASE StdinStarts
  <2>1. typed = <<>> /\ toGuest = <<>>
    BY <1>4 DEF StdinStarts, SessionInv
  <2>2. PICK more : more = typed'
    OBVIOUS
  <2>3. more \in Seq(Typable)
    <3>1. <<>> \in Seq(Typable)
      BY EmptySeq
    <3>2. <<Newline>> \in Seq(Typable)
      BY DEF Typable
    <3>. QED
      BY <1>4, <2>2, <3>1, <3>2 DEF StdinStarts
  <2>4. <<>> \o more = more
    BY <2>3, ConcatEmptySeq
  <2>. QED
    BY <1>3, <1>4, <2>1, <2>2, <2>3, <2>4 DEF StdinStarts
<1>5. CASE StdinPasses
  <2>1. PICK input \in SeqOf(Chars, MaxInput - Len(typed)) \ {<<>>} :
          typed' = typed \o input /\ toGuest' = (IF isOpen THEN toGuest \o input ELSE toGuest)
    BY <1>5 DEF StdinPasses
  <2>2. PICK m \in 0..MaxInput - Len(typed) : input \in [1..m -> Chars]
    BY DEF SeqOf
  <2>3. input \in [1..m -> Typable] /\ m \in Nat
    BY <1>2, <2>2, TerminalAssumption DEF Typable
  <2>4. input \in Seq(Typable)
    BY <2>3
  <2>5. UNCHANGED <<isOpen, exits>> /\ stdin' = "reading"
    BY <1>5 DEF StdinPasses
  <2>. QED
    BY <1>3, <2>1, <2>4, <2>5
<1>6. CASE StdinCtrlD \/ StdinFails
  <2>1. UNCHANGED <<typed, toGuest>> /\ stdin' = "done" /\ isOpen' = FALSE
        /\ exits' \subseteq {"pattern", "ctrlD", "fatal"}
    BY <1>6 DEF StdinCtrlD, StdinFails, SessionInv, TerminalTypes
  <2>2. SessionInv'
    BY <1>1, <2>1 DEF SessionInv, TerminalTypes
  <2>3. IsPrefix(typed, typed) /\ IsPrefix(toGuest, toGuest)
    BY <1>2, SameBegins
  <2>. QED
    BY <2>1, <2>2, <2>3
<1>. QED
  BY <1>4, <1>5, <1>6

\* What has come out is the beginning of what went in.
LEMMA SessionDelivers == SessionInv => IsPrefix(printed, serial) /\ IsPrefix(toGuest, typed)
<1>1. SUFFICES ASSUME SessionInv PROVE IsPrefix(printed, serial) /\ IsPrefix(toGuest, typed)
  OBVIOUS
<1>2. /\ printed \in Seq(Chars) /\ serial \in Seq(Chars) /\ Len(printed) <= Len(serial)
      /\ typed \in Seq(Typable) /\ toGuest \in Seq(Typable)
  <2>1. printed \in Seq(Chars) /\ serial \in Seq(Chars) /\ chunk \in Seq(Chars)
        /\ Len(printed) + Len(chunk) = taken /\ taken \in 0..Len(serial)
    BY <1>1 DEF SessionInv, TerminalTypes
  <2>2. Len(printed) \in Nat /\ Len(chunk) \in Nat /\ Len(serial) \in Nat
    BY <2>1, LenProperties
  <2>. QED
    BY <1>1, <2>1, <2>2 DEF SessionInv, TerminalTypes, Typable
<1>3. IsPrefix(printed, serial)
  BY <1>1, <1>2, BeginsWith DEF SessionInv
<1>4. IsPrefix(toGuest, typed)
  BY <1>1, <1>2, BeginsWith DEF SessionInv
<1>. QED
  BY <1>3, <1>4

\* Nothing that a session has taken or passed on is taken back.
LEMMA SessionStep ==
    ASSUME SessionInv, [TerminalNext]_ttyVars
    PROVE  /\ SessionInv'
           /\ IsPrefix(serial, serial') /\ IsPrefix(printed, printed')
           /\ IsPrefix(typed, typed') /\ IsPrefix(toGuest, toGuest')
<1>1. /\ IsPrefix(serial, serial) /\ IsPrefix(printed, printed)
      /\ IsPrefix(typed, typed) /\ IsPrefix(toGuest, toGuest)
  <2>1. /\ serial \in Seq(Chars) /\ printed \in Seq(Chars)
        /\ typed \in Seq(Typable) /\ toGuest \in Seq(Typable)
    BY DEF SessionInv, TerminalTypes, Typable
  <2>. QED
    BY <2>1, SameBegins
<1>2. CASE MachineWrites
  BY <1>1, <1>2, WritesKeep DEF MachineWrites, inputVars
<1>3. CASE CopierTakes
  BY <1>1, <1>3, TakesKeep DEF CopierTakes, inputVars
<1>4. CASE CopierPrints
  BY <1>1, <1>4, PrintsKeep DEF CopierPrints, inputVars
<1>5. CASE Scanner
  <2>1. UNCHANGED <<serial, printed, typed, toGuest>>
    BY <1>5 DEF Scanner, ScannerMisses, ScannerFinds, ScannerExits, inputVars
  <2>. QED
    BY <1>1, <1>5, <2>1, ScanKeeps
<1>6. CASE StdinStarts \/ StdinPasses \/ StdinCtrlD \/ StdinFails
  <2>1. UNCHANGED <<serial, printed>>
    BY <1>6 DEF StdinStarts, StdinPasses, StdinCtrlD, StdinFails, outputVars
  <2>. QED
    BY <1>1, <1>6, <2>1, StdinKeeps
<1>7. CASE UNCHANGED ttyVars
  <2>1. SessionInv'
    BY <1>7 DEF SessionInv, TerminalTypes, ttyVars, outputVars, inputVars
  <2>. QED
    BY <1>1, <1>7, <2>1 DEF ttyVars, outputVars, inputVars
<1>. QED
  BY <1>2, <1>3, <1>4, <1>5, <1>6, <1>7 DEF TerminalNext, Copier

----------------------------------------------------------------------------
(* THE THREE STREAMS *)

StreamsInv == AdapterInv /\ LinkInv /\ TerminalInv /\ SessionInv

\* Each stream begins with its invariant.
LEMMA StreamsInit == Init => StreamsInv
BY AdapterInitInv, OrderedInit, WholeInit, TerminalInitInv, SessionInitInv DEF Init, StreamsInv, LinkInv

\* While one stream moves the others do not.
LEMMA OneMoves == [Next]_streamVars => [AdapterNext]_adapterVars /\ [LinkNext]_linkVars /\ [TerminalNext]_ttyVars
BY DEF Next, NetStep, GuestStep, TTYStep, streamVars

\* Each stream keeps its invariant.
LEMMA StreamsStep == StreamsInv /\ [Next]_streamVars => StreamsInv'
BY OneMoves, AdapterInvStep, OrderedStep, WholeStep, TerminalInvStep, SessionStep DEF StreamsInv, LinkInv

\* And so it always has it.
LEMMA StreamsAlways == Spec => []StreamsInv
BY StreamsInit, StreamsStep, PTL DEF Spec

\* The offsets, counts and stages of the adapter, of the page's buffer and of a
\* terminal session stay in their ranges, for frames, messages and texts of any
\* length: no buffer holds more than was given to it, and no offset leaves it.
THEOREM StreamsTypeCorrect == Spec => []TypeOK
<1>1. StreamsInv => TypeOK
  BY AdapterInvFollows, OrderedFollows DEF StreamsInv, LinkInv, SessionInv, TypeOK
<1>. QED
  BY <1>1, StreamsAlways, PTL

\* A frame that the network has written whole is sent to the page at once, for
\* any lengths of the frames and of the writes, as long as no Write brings the
\* ends of two: what stays in the adapter's buffer is then less than a frame.
THEOREM FramesGoAtOnce == Spec => []LoneFrameNotHeld
<1>1. StreamsInv => LoneFrameNotHeld
  BY AdapterInvFollows DEF StreamsInv
<1>. QED
  BY <1>1, StreamsAlways, PTL

\* With a machine saved between two messages and a socket that was open in time,
\* the page sends each message of the guest whole and by itself, whatever their
\* kinds and lengths: it knows how long a message is by the time that it ends.
THEOREM MessagesGoWhole == Spec => []LinkWhole
<1>1. StreamsInv => LinkWhole
  BY LinkFollows DEF StreamsInv
<1>. QED
  BY <1>1, StreamsAlways, PTL

\* Wherever the page begins in the guest's stream, and whatever it throws away,
\* the host gets bytes of that stream in their order and none twice.
THEOREM MessagesGoInOrder == Spec => []LinkBytesInOrder
<1>1. StreamsInv => LinkBytesInOrder
  BY LinkFollows DEF StreamsInv
<1>. QED
  BY <1>1, StreamsAlways, PTL

\* The goroutine of handleTTY has found the exit pattern exactly when the output
\* that it has read holds it, for any pattern and however the output was cut:
\* temp.Next drops nothing that the beginning of the pattern may be in.
THEOREM FindsPattern == Spec => []PatternFound
<1>1. StreamsInv => PatternFound
  BY DEF StreamsInv, TerminalInv
<1>. QED
  BY <1>1, StreamsAlways, PTL

----------------------------------------------------------------------------
(* THE PROMISE OF FIFO *)

\* At first nothing has gone in or come out.
LEMMA OrderedInitially == Init => Ordered!Init
<1>1. SUFFICES ASSUME Init PROVE Ordered!Init
  OBVIOUS
<1>2. /\ inbox \in Seq(Nat) /\ outbox \in Seq(Nat) /\ fetched = 0 /\ written = 0
      /\ read = <<>> /\ sent = <<>>
  BY <1>1, AdapterInitInv DEF Init, AdapterInit, AdapterInv, ReadInv, WriteInv
<1>3. serial = <<>> /\ printed = <<>> /\ typed = <<>> /\ toGuest = <<>>
  BY <1>1 DEF Init, TerminalInit
<1>4. FetchedStream = <<>>
  <2>1. PICK k : k = 0
    OBVIOUS
  <2>2. k \in 0..Len(inbox) /\ k \in Nat
    BY <1>2, <2>1, LenProperties
  <2>3. Stream(SubSeq(inbox, 1, k)) = Upto(Frames(inbox), k) /\ Frames(inbox) \in Seq(Seq(Byte))
    BY <1>2, <2>2, FramesIs
  <2>4. Upto(Frames(inbox), 0) = <<>>
    BY <2>3, UptoFacts
  <2>. QED
    BY <1>2, <2>1, <2>3, <2>4 DEF FetchedStream
<1>5. WrittenFrames = <<>>
  <2>1. PICK w : w = 0
    OBVIOUS
  <2>2. w \in Nat
    BY <2>1
  <2>3. PICK k \in 0..Len(outbox) :
          /\ FinishedFrames(outbox, w) = [f \in 1..k |-> Contents(f, outbox[f])]
          /\ EndsAt(outbox, k) <= w
    BY <1>2, <2>2, FinishedIs
  <2>4. k = 0
    <3>1. SUFFICES ASSUME k # 0 PROVE FALSE
      OBVIOUS
    <3>2. Len(outbox) \in Nat
      BY <1>2, LenProperties
    <3>3. PICK i, j : i = 0 /\ j = 1
      OBVIOUS
    <3>4. i \in 0..Len(outbox) - 1 /\ j \in 0..Len(outbox) /\ j <= k /\ i + 1 = j
      BY <2>3, <3>1, <3>2, <3>3
    <3>5. EndsAt(outbox, i + 1) = EndsAt(outbox, i) + LengthBytes + outbox[i + 1]
      BY <1>2, <3>4, EndsFacts
    <3>6. /\ EndsAt(outbox, j) <= EndsAt(outbox, k) /\ EndsAt(outbox, 0) = 0
          /\ EndsAt(outbox, k) \in Nat /\ EndsAt(outbox, j) \in Nat
      BY <1>2, <2>3, <3>4, EndsFacts
    <3>7. outbox[j] \in Nat
      <4>1. j \in 1..Len(outbox)
        BY <3>3, <3>4
      <4>. QED
        BY <1>2, <4>1, EndsFacts
    <3>. QED
      BY <2>1, <2>3, <3>3, <3>4, <3>5, <3>6, <3>7 DEF LengthBytes
  <2>5. [f \in 1..0 |-> Contents(f, outbox[f])] = <<>>
    OBVIOUS
  <2>. QED
    BY <1>2, <2>1, <2>3, <2>4, <2>5 DEF WrittenFrames
<1>6. Taken = [w \in Ways |-> <<>>] /\ Passed = [w \in Ways |-> <<>>]
  BY <1>2, <1>3, <1>4, <1>5 DEF Taken, Passed, Ways
<1>. QED
  BY <1>6 DEF Ordered!Init

\* What each way takes and passes on.
LEMMA WayByWay ==
    /\ Taken["toNet"] = FetchedStream /\ Taken["toPage"] = WrittenFrames
    /\ Taken["toScreen"] = serial /\ Taken["toMachine"] = typed
    /\ Passed["toNet"] = read /\ Passed["toPage"] = sent
    /\ Passed["toScreen"] = printed /\ Passed["toMachine"] = toGuest
    /\ \A w \in Ways : w \in {"toNet", "toPage", "toScreen", "toMachine"}
BY DEF Taken, Passed, Ways

\* Fifo's prefixes are those of the streams.
LEMMA SamePrefix == \A s, t : Ordered!IsPrefix(s, t) <=> IsPrefix(s, t)
BY DEF IsPrefix, Ordered!IsPrefix

\* What came out of each way is the beginning of what went in.
LEMMA OrderedDelivers == StreamsInv => Ordered!Delivered
<1>1. SUFFICES ASSUME StreamsInv, NEW w \in Ways PROVE IsPrefix(Passed[w], Taken[w])
  BY SamePrefix DEF Ordered!Delivered
<1>2. IsPrefix(read, FetchedStream) /\ IsPrefix(sent, WrittenFrames)
  BY <1>1, AdapterDelivers DEF StreamsInv
<1>3. IsPrefix(printed, serial) /\ IsPrefix(toGuest, typed)
  BY <1>1, SessionDelivers DEF StreamsInv
<1>. QED
  BY <1>1, <1>2, <1>3, WayByWay, Zenon

\* No step takes back what went in or came out.
LEMMA OrderedAdvances == StreamsInv /\ [Next]_streamVars => Ordered!Advance
<1>1. SUFFICES ASSUME StreamsInv, [Next]_streamVars PROVE Ordered!Advance
  OBVIOUS
<1>2. Ordered!Delivered'
  <2>1. StreamsInv' => Ordered!Delivered'
    BY OrderedDelivers, PTL
  <2>. QED
    BY <1>1, <2>1, StreamsStep
<1>3. /\ IsPrefix(FetchedStream, FetchedStream') /\ IsPrefix(read, read')
      /\ IsPrefix(WrittenFrames, WrittenFrames') /\ IsPrefix(sent, sent')
  BY <1>1, OneMoves, AdapterAdvances DEF StreamsInv
<1>4. /\ IsPrefix(serial, serial') /\ IsPrefix(printed, printed')
      /\ IsPrefix(typed, typed') /\ IsPrefix(toGuest, toGuest')
  BY <1>1, OneMoves, SessionStep DEF StreamsInv
<1>5. /\ Taken'["toNet"] = FetchedStream' /\ Taken'["toPage"] = WrittenFrames'
      /\ Taken'["toScreen"] = serial' /\ Taken'["toMachine"] = typed'
      /\ Passed'["toNet"] = read' /\ Passed'["toPage"] = sent'
      /\ Passed'["toScreen"] = printed' /\ Passed'["toMachine"] = toGuest'
  BY DEF Taken, Passed
<1>6. ASSUME NEW w \in Ways
      PROVE  IsPrefix(Taken[w], Taken'[w]) /\ IsPrefix(Passed[w], Passed'[w])
  BY <1>3, <1>4, <1>5, WayByWay, Zenon
<1>. QED
  BY <1>2, <1>6, SamePrefix DEF Ordered!Advance

\* The adapter and the terminal implement Fifo, each on its two ways: the network
\* reads the page's frames, the page gets the network's, stdout shows the
\* machine's output and the machine gets what was typed, in order and nothing
\* twice, for frames and texts of any length, cut into any pieces.  Serial port 1
\* is not among the ways: what is proved of it is MessagesGoInOrder.
THEOREM StreamsImplementFifo == Spec => StreamsInOrder
<1>1. StreamsInv /\ [Next]_streamVars => [Ordered!Advance]_<<Taken, Passed>>
  BY OrderedAdvances
<1>. QED
  BY <1>1, OrderedInitially, StreamsAlways, PTL DEF Spec, StreamsInOrder, Ordered!Spec
=============================================================================
