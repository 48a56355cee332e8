-------------------------- MODULE ImageStoreProofs ---------------------------
(****************************************************************************)
(* What is proved of ImageStore for every bound, size and part size.        *)
(****************************************************************************)
EXTENDS ImageStore, DataFacts

\* A machine that runs holds a whole state, or none yet to be saved.
MemoryWhole == vm \in {"running", "saving"} => memory \in States \cup {<<>>}

\* A save is under way only with something to save.
SavingSomething == vm = "saving" => memory # <<>>

\* Unless its last save was cut off, a plain image holds the state last saved.
PlainHoldsSaved ==
    zst = NoFile /\ ~torn /\ saved # NoFile /\ vm # "saving"
      => raw = saved /\ Whole(saved)

StoreInv ==
    /\ version \in 0..MaxVersion
    /\ MemoryWhole
    /\ SavingSomething
    /\ PlainHoldsSaved

\* A snapshot is a sequence of its blocks, and one of the states.
LEMMA SnapshotIsState ==
    ASSUME NEW v \in 0..MaxVersion, NEW n \in Sizes
    PROVE  Snapshot(v, n) \in States
  BY DEF States

\* The beginning of a state is a piece, and so is nothing at all.
LEMMA PrefixIsPiece ==
    ASSUME NEW s \in States, NEW k \in 0..Len(s)
    PROVE  SubSeq(s, 1, k) \in Pieces
  BY DEF Pieces

\* A state is a piece: its own longest beginning.
LEMMA StateIsPiece == States \subseteq Pieces
  <1> SUFFICES ASSUME NEW s \in States PROVE s \in Pieces
    OBVIOUS
  <1>1. PICK v \in 0..MaxVersion, n \in Sizes : s = Snapshot(v, n)
    BY DEF States
  <1>2. n \in Nat /\ s \in Seq([ver : 0..MaxVersion, pos : 1..n, end : BOOLEAN]) /\ Len(s) = n
    BY <1>1, BoundsAssumption DEF Snapshot
  <1>3. SubSeq(s, 1, Len(s)) = s /\ Len(s) \in 0..Len(s)
    BY <1>2
  <1> QED
    BY <1>2, <1>3, PrefixIsPiece

\* A file with a piece in it exists, plain or compressed.
LEMMA FilesExist ==
    ASSUME NEW c \in Pieces, NEW b \in BOOLEAN
    PROVE  c # NoFile /\ [of |-> c, complete |-> b] # NoFile
  BY NoFileAssumption DEF Compressed

\* An initial image holds the state it is said to hold.
LEMMA StoreInvInit == Init => StoreInv
  <1> SUFFICES ASSUME Init PROVE StoreInv
    OBVIOUS
  <1>1. \A n \in Sizes : Snapshot(0, n) \in States
    BY SnapshotIsState, BoundsAssumption
  <1>2. \A n \in Sizes : [of |-> Snapshot(0, n), complete |-> TRUE] # NoFile
    BY <1>1, StateIsPiece, FilesExist
  <1>3. PlainHoldsSaved
    BY <1>1, <1>2 DEF Init, PlainHoldsSaved, Whole
  <1> QED
    BY <1>3, BoundsAssumption DEF Init, StoreInv, MemoryWhole, SavingSomething

\* Every step keeps the invariant.
LEMMA StoreInvStep == StoreInv /\ [Next]_vars => StoreInv'
  <1> SUFFICES ASSUME StoreInv, [Next]_vars PROVE StoreInv'
    OBVIOUS
  <1> USE DEF StoreInv, MemoryWhole, SavingSomething, PlainHoldsSaved, Whole, webVars
  <1>1. ASSUME NEW cold \in BOOLEAN, Boot(cold) PROVE StoreInv'
    <2>1. start' = BootStart(cold)
      BY <1>1 DEF Boot
    <2>2. start'.kind # "broken" => start'.content \in States \cup {<<>>}
      BY <2>1 DEF BootStart, InitialState, Restore, Kernel, Starts
    <2> QED
      BY <1>1, <2>2 DEF Boot
  <1>2. CASE Run
    <2>1. PICK n \in Sizes : memory' = Snapshot(version', n)
      BY <1>2 DEF Run
    <2>2. version' \in 0..MaxVersion
      BY <1>2, BoundsAssumption DEF Run
    <2>3. memory' \in States
      BY <2>1, <2>2, SnapshotIsState
    <2> QED
      BY <1>2, <2>2, <2>3 DEF Run
  <1>3. CASE PowerOff
    BY <1>3 DEF PowerOff
  <1>4. CASE SaveTruncate
    BY <1>4 DEF SaveTruncate
  <1>5. CASE SaveWrite
    <2>1. memory \in States
      BY <1>5 DEF SaveWrite
    <2>2. [of |-> memory, complete |-> FALSE] # NoFile
      BY <2>1, StateIsPiece, FilesExist
    <2> QED
      BY <1>5, <2>1, <2>2 DEF SaveWrite, Compresses
  <1>6. CASE SaveCrash
    BY <1>6 DEF SaveCrash
  <1>7. CASE Prepare
    BY <1>7 DEF Prepare
  <1>8. CASE WebBoot
    BY <1>8 DEF WebBoot
  <1>9. CASE UNCHANGED vars
    BY <1>9 DEF vars
  <1> QED
    BY <1>1, <1>2, <1>3, <1>4, <1>5, <1>6, <1>7, <1>8, <1>9 DEF Next

\* A plain image boots into the state last saved, after any history in which
\* the last save was not cut off.
THEOREM BootRestores == Spec => []BootRestoresSaved
  <1>1. StoreInv => BootRestoresSaved
    BY DEF StoreInv, PlainHoldsSaved, BootRestoresSaved, BootStart, HasInitialState,
       InitialState, Restore, Starts
  <1> QED
    BY StoreInvInit, StoreInvStep, <1>1, PTL DEF Spec

\* What a boot starts from is a kernel, or the piece that the image holds.
LEMMA BootStartType ==
    ASSUME TypeOK, NEW cold \in BOOLEAN
    PROVE  BootStart(cold) \in StartPoints
  <1>1. Kernel \in StartPoints
    BY DEF Kernel, Starts, StartPoints, Pieces
  <1>2. ASSUME NEW c \in Pieces, NEW b \in BOOLEAN PROVE Restore(c, b) \in StartPoints
    BY DEF Restore, Starts, StartPoints
  <1>3. HasInitialState => InitialState \in StartPoints
    <2>1. CASE zst # NoFile
      BY <1>2, <2>1 DEF TypeOK, InitialState, Compressed
    <2>2. CASE zst = NoFile
      BY <1>2, <2>2 DEF TypeOK, InitialState, HasInitialState
    <2> QED
      BY <2>1, <2>2
  <1> QED
    BY <1>1, <1>3 DEF BootStart

\* Every step keeps the types, and the image its one state.
LEMMA StoreTypeStep == TypeOK /\ StoreInv /\ [Next]_vars => TypeOK'
  <1> SUFFICES ASSUME TypeOK, StoreInv, [Next]_vars PROVE TypeOK'
    OBVIOUS
  <1> USE DEF TypeOK, webVars
  <1>1. <<>> \in Pieces /\ States \subseteq Pieces
    BY StateIsPiece DEF Pieces
  <1>2. \A c \in Pieces, b \in BOOLEAN : [of |-> c, complete |-> b] \in Compressed
    BY DEF Compressed
  <1>3. vm = "saving" => memory \in States
    BY DEF StoreInv, MemoryWhole, SavingSomething
  <1>4. ASSUME NEW cold \in BOOLEAN, Boot(cold) PROVE TypeOK'
    <2>1. start' \in StartPoints /\ start'.content \in Pieces
      BY <1>4, BootStartType DEF Boot, StartPoints
    <2> QED
      BY <1>4, <2>1 DEF Boot
  <1>5. CASE Run
    <2>1. version' \in 0..MaxVersion
      BY <1>5, BoundsAssumption DEF Run
    <2>2. memory' \in Pieces
      BY <1>1, <1>5, <2>1, SnapshotIsState DEF Run
    <2> QED
      BY <1>5, <2>1, <2>2 DEF Run
  <1>6. CASE PowerOff
    BY <1>6 DEF PowerOff
  <1>7. CASE SaveTruncate
    BY <1>1, <1>2, <1>7 DEF SaveTruncate, Compresses
  <1>8. CASE SaveWrite
    BY <1>1, <1>2, <1>3, <1>8 DEF SaveWrite, Compresses
  <1>9. CASE SaveCrash
    <2>1. PICK k \in 0..Len(memory) :
            /\ raw' = (IF Compresses THEN raw ELSE SubSeq(memory, 1, k))
            /\ zst' = (IF Compresses THEN [of |-> SubSeq(memory, 1, k), complete |-> FALSE] ELSE zst)
      BY <1>9 DEF SaveCrash
    <2>2. SubSeq(memory, 1, k) \in Pieces
      BY <1>3, <1>9, PrefixIsPiece DEF SaveCrash
    <2> QED
      BY <1>2, <1>9, <2>1, <2>2 DEF SaveCrash, Compresses
  <1>10. CASE Prepare
    BY <1>10, BootStartType DEF Prepare, Nowhere, Starts
  <1>11. CASE WebBoot
    BY <1>11 DEF WebBoot, Restore, Kernel, Starts
  <1>12. CASE UNCHANGED vars
    BY <1>12 DEF vars
  <1> QED
    BY <1>4, <1>5, <1>6, <1>7, <1>8, <1>9, <1>10, <1>11, <1>12 DEF Next

\* The types hold in every behaviour; among them, that an image never holds
\* its state twice.
THEOREM StoreTypeCorrect == Spec => []TypeOK
  <1>1. Init => TypeOK
    <2> SUFFICES ASSUME Init PROVE TypeOK
      OBVIOUS
    <2>1. <<>> \in Pieces /\ \A n \in Sizes : Snapshot(0, n) \in States /\ Snapshot(0, n) \in Pieces
      BY StateIsPiece, SnapshotIsState, BoundsAssumption DEF Pieces
    <2>2. \A n \in Sizes : [of |-> Snapshot(0, n), complete |-> TRUE] \in Compressed
      BY <2>1 DEF Compressed
    <2>3. raw \in Pieces \cup {NoFile} /\ zst \in Compressed \cup {NoFile} /\ saved \in States \cup {NoFile}
      BY <2>1, <2>2 DEF Init
    <2>4. Nowhere \in StartPoints /\ Nowhere.kind = "none"
      BY <2>1 DEF Nowhere, Starts, StartPoints
    <2>5. (raw = NoFile \/ zst = NoFile) /\ version \in 0..MaxVersion /\ memory \in Pieces
      BY <2>1, BoundsAssumption DEF Init
    <2> QED
      BY <2>3, <2>4, <2>5 DEF Init, TypeOK
  <1>2. Spec => [](TypeOK /\ StoreInv)
    BY <1>1, StoreInvInit, StoreInvStep, StoreTypeStep, PTL DEF Spec
  <1> QED
    BY <1>2, PTL

----------------------------------------------------------------------------
(* THE WEB PAGE *)

\* splitFile loses nothing: its parts, put together again, are the file, for any
\* length of the file and of a part, a multiple of it or not.
LEMMA PartsMakeUp ==
    ASSUME NEW S, NEW c \in Seq(S), c # <<>>
    PROVE  /\ Parts(c) \in Seq(Seq(S)) /\ Len(Parts(c)) \in Nat \ {0}
           /\ FlattenSeq(Parts(c)) = c
<1>1. PICK size, len, n, parts :
        /\ size = PartSize /\ len = Len(c) /\ n = (len + size - 1) \div size /\ parts = Parts(c)
  OBVIOUS
<1>2. size \in Nat \ {0} /\ len \in Nat \ {0} /\ len + size - 1 \in Nat
  BY <1>1, BoundsAssumption, LenProperties, EmptySeq
<1>3. n \in Nat /\ n * size <= len + size - 1 /\ len + size - 1 < n * size + size
  BY <1>1, <1>2
<1>4. \A k \in Nat : k * size \in Nat /\ (k + 1) * size = k * size + size /\ (k <= n => k * size <= n * size)
  BY <1>2, <1>3
<1>5. len <= n * size /\ n # 0
  <2>1. n * size \in Nat
    BY <1>3, <1>4
  <2>2. len <= n * size
    BY <1>2, <1>3, <2>1
  <2>3. 0 * size = 0
    BY <1>2
  <2>. QED
    BY <1>2, <2>2, <2>3
<1>6. \A k \in Nat : k < n => k * size < len
  <2>1. SUFFICES ASSUME NEW k \in Nat, k < n PROVE k * size < len
    OBVIOUS
  <2>2. (k + 1) * size <= n * size
    BY <1>3, <1>4, <2>1
  <2>3. PICK a, b : a = k * size /\ b = n * size
    OBVIOUS
  <2>4. a \in Nat /\ b \in Nat /\ a + size <= b /\ b <= len + size - 1
    BY <1>3, <1>4, <2>1, <2>2, <2>3
  <2>5. a < len
    BY <1>2, <2>4
  <2>. QED
    BY <2>3, <2>5
<1>. DEFINE To(k) == IF k * size < len THEN k * size ELSE len
<1>7. parts = [i \in 1..n |-> SubSeq(c, (i - 1) * size + 1, To(i))]
  BY <1>1 DEF Parts
<1>8. \A k \in Nat : To(k) \in 0..len
  BY <1>2, <1>4
<1>. HIDE DEF To
<1>9. ASSUME NEW i \in 1..n
      PROVE  /\ i - 1 \in Nat /\ (i - 1) * size \in 0..len /\ To(i) \in (i - 1) * size..len
             /\ parts[i] = SubSeq(c, (i - 1) * size + 1, To(i)) /\ parts[i] \in Seq(S)
  <2>1. PICK a, b : a = (i - 1) * size /\ b = To(i)
    OBVIOUS
  <2>2. i - 1 \in Nat /\ i - 1 < n /\ i \in Nat /\ (i - 1) + 1 = i
    BY <1>3
  <2>3. a \in Nat /\ a < len /\ i * size = a + size /\ i * size \in Nat
    BY <1>4, <1>6, <2>1, <2>2
  <2>4. b \in a..len
    BY <1>2, <2>1, <2>3 DEF To
  <2>5. parts[i] = SubSeq(c, a + 1, b)
    BY <1>7, <2>1
  <2>6. a \in Nat /\ b \in Nat /\ a <= b /\ b <= Len(c)
    BY <1>1, <1>2, <2>3, <2>4
  <2>7. parts[i] \in Seq(S)
    BY <2>5, <2>6, Between
  <2>. QED
    BY <1>2, <2>1, <2>2, <2>3, <2>4, <2>5, <2>7
<1>10. parts \in Seq(Seq(S)) /\ Len(parts) = n
  BY <1>3, <1>7, <1>9
<1>. DEFINE T == {k \in Nat : k <= n => Upto(parts, k) = SubSeq(c, 1, To(k))}
<1>11. 0 \in T
  <2>1. To(0) = 0
    BY <1>2 DEF To
  <2>2. SubSeq(c, 1, 0) = <<>>
    BY SubSeqEmpty
  <2>3. Upto(parts, 0) = <<>>
    BY <1>10, UptoFacts
  <2>. QED
    BY <2>1, <2>2, <2>3
<1>12. ASSUME NEW k \in Nat, k \in T PROVE k + 1 \in T
  <2>1. SUFFICES ASSUME k + 1 <= n PROVE Upto(parts, k + 1) = SubSeq(c, 1, To(k + 1))
    BY <1>12
  <2>2. k <= n /\ k < n /\ k + 1 \in 1..n /\ k \in 0..n - 1
    BY <1>3, <2>1
  <2>3. Upto(parts, k) = SubSeq(c, 1, To(k))
    BY <1>12, <2>2
  <2>4. To(k) = k * size
    BY <1>6, <2>2 DEF To
  <2>5. PICK a, b : a = k * size /\ b = To(k + 1)
    OBVIOUS
  <2>6. a \in 0..len /\ b \in a..len /\ parts[k + 1] = SubSeq(c, a + 1, b)
    <3>1. PICK i : i = k + 1
      OBVIOUS
    <3>2. i \in 1..n /\ i - 1 = k
      BY <2>2, <3>1
    <3>3. (i - 1) * size \in 0..len /\ To(i) \in (i - 1) * size..len
          /\ parts[i] = SubSeq(c, (i - 1) * size + 1, To(i))
      BY <1>9, <3>2
    <3>. QED
      BY <2>5, <3>1, <3>2, <3>3
  <2>7. Upto(parts, k + 1) = SubSeq(c, 1, a) \o SubSeq(c, a + 1, b)
    <3>1. Upto(parts, k + 1) = Upto(parts, k) \o parts[k + 1]
      BY <1>10, <2>2, UptoFacts
    <3>. QED
      BY <2>3, <2>4, <2>5, <2>6, <3>1
  <2>8. 1 \in 1..Len(c) + 1 /\ a \in 1 - 1..Len(c) /\ b \in a..Len(c)
    BY <1>1, <1>2, <2>6
  <2>. QED
    BY <2>5, <2>7, <2>8, ConcatAdjacentSubSeq
<1>13. \A k \in Nat : k \in T
  BY <1>11, <1>12, AllNaturals
<1>14. FlattenSeq(parts) = SubSeq(c, 1, To(n))
  <2>1. Upto(parts, n) = SubSeq(c, 1, To(n))
    BY <1>3, <1>13
  <2>2. Upto(parts, n) = FlattenSeq(parts)
    BY <1>10, UptoFacts
  <2>. QED
    BY <2>1, <2>2
<1>15. To(n) = len
  <2>1. n * size \in Nat
    BY <1>3, <1>4
  <2>. QED
    BY <1>2, <1>5, <2>1 DEF To
<1>16. SubSeq(c, 1, len) = c
  BY <1>1, SubSeqFull
<1>. QED
  BY <1>1, <1>3, <1>5, <1>10, <1>14, <1>15, <1>16

\* What Prepare publishes, and what a boot starts from, when the plain file has c.
PublishedAs(c) ==
    IF c = NoFile THEN [parts |-> <<>>, count |-> 0, kernel |-> TRUE]
    ELSE [parts |-> Parts(c), count |-> PartCount(c), kernel |-> FALSE]
StartedFrom(c) == IF c = NoFile THEN Kernel ELSE Restore(c, TRUE)

\* What a page of a plain image is, and starts from.
WebInv ==
    zst = NoFile =>
        /\ web # NoFile =>
             \E c \in Pieces \cup {NoFile} : web = PublishedAs(c) /\ published = StartedFrom(c)
        /\ webStart.kind # "none" =>
             web # NoFile /\ (published.kind \in {"kernel", "state"} => webStart = published)

\* An image that is not compressed was not compressed before.
LEMMA StaysPlain == StoreInv /\ [Next]_vars /\ zst' = NoFile => zst = NoFile
<1>1. SUFFICES ASSUME StoreInv, [Next]_vars, zst # NoFile PROVE zst' # NoFile
  OBVIOUS
<1>2. vm = "saving" => memory \in States
  BY <1>1 DEF StoreInv, MemoryWhole, SavingSomething
<1>3. \A c \in Pieces, b \in BOOLEAN : [of |-> c, complete |-> b] # NoFile
  BY FilesExist
<1>4. <<>> \in Pieces /\ States \subseteq Pieces
  BY StateIsPiece DEF Pieces
<1>5. CASE SaveTruncate
  BY <1>1, <1>3, <1>4, <1>5 DEF SaveTruncate, Compresses
<1>6. CASE SaveWrite
  <2>1. memory \in Pieces /\ zst' = [of |-> memory, complete |-> FALSE]
    BY <1>1, <1>2, <1>4, <1>6 DEF SaveWrite, Compresses
  <2>. QED
    BY <1>3, <2>1
<1>7. CASE SaveCrash
  <2>1. PICK k \in 0..Len(memory) : zst' = [of |-> SubSeq(memory, 1, k), complete |-> FALSE]
    BY <1>1, <1>7 DEF SaveCrash, Compresses
  <2>2. SubSeq(memory, 1, k) \in Pieces
    BY <1>2, <1>7, PrefixIsPiece DEF SaveCrash
  <2>. QED
    BY <1>3, <2>1, <2>2
<1>8. CASE UNCHANGED zst
  BY <1>1, <1>8
<1>. QED
  BY <1>1, <1>5, <1>6, <1>7, <1>8 DEF Next, Boot, Run, PowerOff, Prepare, WebBoot, vars

\* A page starts where a boot would have when it was published.
LEMMA WebBootStep ==
    ASSUME WebInv, WebBoot, zst = NoFile, published.kind \in {"kernel", "state"}
    PROVE  webStart' = published
<1>1. PICK c \in Pieces \cup {NoFile} : web = PublishedAs(c) /\ published = StartedFrom(c)
  BY DEF WebInv, WebBoot
<1>2. webStart' = IF web.count > 0
                  THEN Restore(FlattenSeq(SubSeq(web.parts, 1, web.count)), TRUE)
                  ELSE IF web.kernel THEN Kernel ELSE Starts("dead", <<>>)
  BY DEF WebBoot
<1>3. CASE c = NoFile
  <2>1. web.count = 0 /\ web.kernel = TRUE /\ published = Kernel
    BY <1>1, <1>3 DEF PublishedAs, StartedFrom
  <2>. QED
    BY <1>2, <2>1
<1>4. CASE c # NoFile
  <2>1. web.parts = Parts(c) /\ web.count = Len(Parts(c)) /\ published = Restore(c, TRUE)
    BY <1>1, <1>4 DEF PublishedAs, StartedFrom, PartCount
  <2>2. c \in States
    BY <2>1 DEF Restore, Starts, Whole
  <2>3. PICK v \in 0..MaxVersion, n \in Sizes : c = Snapshot(v, n)
    BY <2>2 DEF States
  <2>4. PICK S : S = [ver : 0..MaxVersion, pos : 1..n, end : BOOLEAN]
    OBVIOUS
  <2>5. c \in Seq(S) /\ c # <<>>
    <3>1. n \in Nat \ {0}
      BY BoundsAssumption
    <3>2. c \in Seq(S) /\ Len(c) = n
      BY <2>3, <2>4, <3>1 DEF Snapshot
    <3>. QED
      BY <3>1, <3>2, EmptySeq
  <2>6. Parts(c) \in Seq(Seq(S)) /\ Len(Parts(c)) \in Nat \ {0} /\ FlattenSeq(Parts(c)) = c
    BY <2>5, PartsMakeUp
  <2>7. SubSeq(Parts(c), 1, Len(Parts(c))) = Parts(c)
    BY <2>6, SubSeqFull
  <2>8. PICK parts, count : parts = web.parts /\ count = web.count
    OBVIOUS
  <2>9. count > 0
    BY <2>1, <2>6, <2>8
  <2>10. webStart' = Restore(FlattenSeq(SubSeq(parts, 1, count)), TRUE)
    BY <1>2, <2>8, <2>9
  <2>11. FlattenSeq(SubSeq(parts, 1, count)) = c
    BY <2>1, <2>6, <2>7, <2>8
  <2>. QED
    BY <2>1, <2>10, <2>11
<1>. QED
  BY <1>3, <1>4

\* Only Prepare and the page change what is published and started.
LEMMA WebInvStep == TypeOK /\ StoreInv /\ WebInv /\ [Next]_vars => WebInv'
<1>1. SUFFICES ASSUME TypeOK, StoreInv, WebInv, [Next]_vars, zst' = NoFile PROVE WebInv'
  BY DEF WebInv
<1>2. zst = NoFile
  BY <1>1, StaysPlain
<1>3. CASE UNCHANGED webVars
  BY <1>1, <1>2, <1>3 DEF WebInv, webVars
<1>4. CASE Prepare
  <2>1. web' = Published /\ published' = BootStart(FALSE) /\ webStart' = Nowhere
    BY <1>4 DEF Prepare
  <2>2. raw \in Pieces \cup {NoFile}
    BY <1>1 DEF TypeOK
  <2>3. Published = PublishedAs(raw)
    BY <1>2 DEF Published, PublishedAs, HasInitialState
  <2>4. BootStart(FALSE) = StartedFrom(raw)
    BY <1>2 DEF BootStart, StartedFrom, HasInitialState, InitialState
  <2>5. Nowhere.kind = "none"
    BY DEF Nowhere, Starts
  <2>. QED
    BY <2>1, <2>2, <2>3, <2>4, <2>5 DEF WebInv
<1>5. CASE WebBoot
  <2>1. UNCHANGED <<web, published>> /\ web # NoFile
    BY <1>5 DEF WebBoot
  <2>2. published.kind \in {"kernel", "state"} => webStart' = published
    BY <1>1, <1>2, <1>5, WebBootStep
  <2>. QED
    BY <1>1, <1>2, <2>1, <2>2 DEF WebInv
<1>. QED
  BY <1>1, <1>3, <1>4, <1>5 DEF Next, Boot, Run, PowerOff, SaveTruncate, SaveWrite, SaveCrash, vars, webVars

\* The page of a plain image starts where a boot of the image would have, for any
\* state and any length of a part: splitFile cuts the state into as many parts as
\* the config counts, and the page makes the same state of them.
THEOREM PageStartsAsPublished == Spec => []WebStartsAsPublished
<1>1. Init => WebInv
  BY DEF Init, WebInv, Nowhere, Starts
<1>2. WebInv => WebStartsAsPublished
  BY DEF WebInv, WebStartsAsPublished
<1>. QED
  BY <1>1, <1>2, WebInvStep, StoreInvInit, StoreInvStep, StoreTypeCorrect, PTL DEF Spec
=============================================================================
