------------------------------ MODULE ImageStore -----------------------------
(****************************************************************************)
(* An env86 image from boot to boot and on to the web (image.go): what New  *)
(* decides to start from (vm.go), what SaveInitialState writes, what        *)
(* Prepare publishes and what env86.js puts together again.                 *)
(****************************************************************************)
EXTENDS Integers, Sequences, SequencesExt

CONSTANTS MaxVersion,  \* bound: how often a machine's state changes
          Sizes,       \* bound: the lengths a state may have, in blocks
          PartSize,    \* bytesPerFile of splitFile, in blocks
          NoFile       \* a file that does not exist

ASSUME BoundsAssumption ==
    /\ MaxVersion \in Nat
    /\ Sizes \subseteq Nat \ {0}
    /\ PartSize \in Nat \ {0}

\* The state of a machine: a row of blocks, of which the last is marked.
Snapshot(v, n) == [i \in 1..n |-> [ver |-> v, pos |-> i, end |-> i = n]]

\* What a file can hold: a state, or the beginning of one.
States == {Snapshot(v, n) : v \in 0..MaxVersion, n \in Sizes}
Pieces == {<<>>} \cup UNION {{SubSeq(s, 1, k) : k \in 0..Len(s)} : s \in States}
Compressed == [of : Pieces, complete : BOOLEAN]

ASSUME NoFileAssumption == NoFile \notin Pieces /\ NoFile \notin Compressed

\* A file that holds a whole state, which is what the emulator can restore.
Whole(c) == c \in States

VARIABLES
    medium,    \* what Image.FS is: a directory, or a tarball (read-only)
    raw,       \* initial.state
    zst,       \* initial.state.zst: what was compressed, and whether the
               \* compressed stream has its end
    vm,        \* off, running or saving (between truncation and writing)
    start,     \* what the last boot started from: nothing yet, the kernel,
               \* a state, or a file that is no state
    memory,    \* the state of the machine
    version,   \* versions of it seen so far
    saved,     \* the state that the image has been told to keep
    torn,      \* a crash hit the last save
    web,       \* what Prepare published, or NoFile
    published, \* what a boot of the image would have started from then
    webStart   \* what the web page started from

vars == <<medium, raw, zst, vm, start, memory, version, saved, torn, web, published, webStart>>
webVars == <<web, published, webStart>>

Starts(kind, c) == [kind |-> kind, content |-> c]
StartPoints == [kind : {"none", "kernel", "state", "broken"}, content : Pieces]
Nowhere == Starts("none", <<>>)
Kernel == Starts("kernel", <<>>)

\* The emulator is given c as its initial state.
Restore(c, complete) == Starts(IF complete /\ Whole(c) THEN "state" ELSE "broken", c)

HasInitialState == raw # NoFile \/ zst # NoFile

\* InitialStateConfig prefers the compressed file.
InitialState == IF zst # NoFile THEN Restore(zst.of, zst.complete) ELSE Restore(raw, TRUE)

\* Mutant: New looks for a compressed state only.
BootStartCompressed(cold) == IF zst # NoFile /\ ~cold THEN InitialState ELSE Kernel

\* New: the kernel when asked for or when there is no state, else the state.
BootStart(cold) == IF HasInitialState /\ ~cold THEN InitialState ELSE Kernel

\* An image holds its state once, plain or compressed: were both there, a boot
\* would not see a newer plain one.
TypeOK ==
    /\ medium \in {"dir", "tar"}
    /\ raw \in Pieces \cup {NoFile}
    /\ raw = NoFile \/ zst = NoFile
    /\ zst \in Compressed \cup {NoFile}
    /\ vm \in {"off", "running", "saving"}
    /\ start \in StartPoints
    /\ memory \in Pieces
    /\ version \in 0..MaxVersion
    /\ saved \in States \cup {NoFile}
    /\ torn \in BOOLEAN
    /\ webStart.kind \in {"none", "kernel", "state", "broken", "dead"}
    /\ published \in StartPoints

\* An image as it is made: no state, or one, plain or compressed elsewhere.
Init ==
    /\ medium \in {"dir", "tar"}
    /\ \E n \in Sizes :
         \/ raw = NoFile /\ zst = NoFile /\ saved = NoFile
         \/ raw = Snapshot(0, n) /\ zst = NoFile /\ saved = Snapshot(0, n)
         \/ raw = NoFile /\ zst = [of |-> Snapshot(0, n), complete |-> TRUE] /\ saved = Snapshot(0, n)
    /\ vm = "off"
    /\ start = Nowhere
    /\ memory = <<>>
    /\ version = 0
    /\ torn = FALSE
    /\ web = NoFile
    /\ published = Nowhere
    /\ webStart = Nowhere

----------------------------------------------------------------------------
(* boot *)

Boot(cold) ==
    /\ vm = "off"
    /\ start' = BootStart(cold)
    /\ vm' = IF start'.kind = "broken" THEN "off" ELSE "running"
    /\ memory' = start'.content
    /\ UNCHANGED <<medium, raw, zst, version, saved, torn, webVars>>

\* The machine runs: its state changes.  A machine started from the kernel has
\* no state to save before it has run.
Run ==
    /\ vm = "running"
    /\ version < MaxVersion
    /\ version' = version + 1
    /\ \E n \in Sizes : memory' = Snapshot(version', n)
    /\ UNCHANGED <<medium, raw, zst, vm, start, saved, torn, webVars>>

\* The machine stops without a save; so it does when a save meets an image that
\* cannot be written (log.Fatal in Exit).
PowerOff ==
    /\ vm = "running"
    /\ vm' = "off"
    /\ UNCHANGED <<medium, raw, zst, start, memory, version, saved, torn, webVars>>

----------------------------------------------------------------------------
(* SaveInitialState: fs.WriteFile truncates the file and then writes it *)

Compresses == zst # NoFile

SaveTruncate ==
    /\ vm = "running"
    /\ medium = "dir"
    /\ memory # <<>>
    /\ vm' = "saving"
    /\ raw' = IF Compresses THEN raw ELSE <<>>
    /\ zst' = IF Compresses THEN [of |-> <<>>, complete |-> FALSE] ELSE zst
    /\ UNCHANGED <<medium, start, memory, version, saved, torn, webVars>>

\* Mutant: the plain state is written although a compressed one is preferred.
SaveWritePlain ==
    /\ vm = "saving"
    /\ vm' = "off"
    /\ raw' = memory
    /\ zst' = zst
    /\ saved' = memory
    /\ torn' = FALSE
    /\ UNCHANGED <<medium, start, memory, version, webVars>>

\* The compressed bytes are taken before the deferred Close ends the stream.
SaveWrite ==
    /\ vm = "saving"
    /\ vm' = "off"
    /\ raw' = IF Compresses THEN raw ELSE memory
    /\ zst' = IF Compresses THEN [of |-> memory, complete |-> FALSE] ELSE zst
    /\ saved' = memory
    /\ torn' = FALSE
    /\ UNCHANGED <<medium, start, memory, version, webVars>>

\* The process dies while it writes: some of the bytes are there.
SaveCrash ==
    /\ vm = "saving"
    /\ vm' = "off"
    /\ torn' = TRUE
    /\ \E k \in 0..Len(memory) :
         /\ raw' = IF Compresses THEN raw ELSE SubSeq(memory, 1, k)
         /\ zst' = IF Compresses THEN [of |-> SubSeq(memory, 1, k), complete |-> FALSE] ELSE zst
    /\ UNCHANGED <<medium, start, memory, version, saved, webVars>>

----------------------------------------------------------------------------
(* Prepare *)

\* splitFile: the parts of c, all full but the last.
Parts(c) ==
    [i \in 1..((Len(c) + PartSize - 1) \div PartSize) |->
        SubSeq(c, (i - 1) * PartSize + 1, IF i * PartSize < Len(c) THEN i * PartSize ELSE Len(c))]

\* Mutant: the index of the last part, as when the reader reports the end of
\* the file together with the last bytes.
PartCountLast(c) == Len(Parts(c)) - 1

\* The number of parts that splitFile returns: the file ends on an empty read.
PartCount(c) == Len(Parts(c))

\* The state is split unless there is none, or a compressed one.
Published ==
    IF raw = NoFile \/ zst # NoFile
    THEN [parts |-> <<>>, count |-> 0, kernel |-> ~HasInitialState]
    ELSE [parts |-> Parts(raw), count |-> PartCount(raw), kernel |-> FALSE]

Prepare ==
    /\ vm = "off"
    /\ web' = Published
    /\ published' = BootStart(FALSE)
    /\ webStart' = Nowhere
    /\ UNCHANGED <<medium, raw, zst, vm, start, memory, version, saved, torn>>

\* boot in env86.js: download the parts that the config counts, in order, and
\* skip those that are missing.  A count of 0 is not written to image.json.
WebBoot ==
    /\ web # NoFile
    /\ webStart' =
         IF web.count > 0
         THEN Restore(FlattenSeq(SubSeq(web.parts, 1, web.count)), TRUE)
         ELSE IF web.kernel THEN Kernel ELSE Starts("dead", <<>>)
    /\ UNCHANGED <<medium, raw, zst, vm, start, memory, version, saved, torn, web, published>>

----------------------------------------------------------------------------
Next ==
    \/ \E cold \in BOOLEAN : Boot(cold)
    \/ Run \/ PowerOff
    \/ SaveTruncate \/ SaveWrite \/ SaveCrash
    \/ Prepare \/ WebBoot

Spec == Init /\ [][Next]_vars

----------------------------------------------------------------------------
\* A plain image whose last save was not cut off boots into the state last
\* saved, through any number of boots, saves and crashes before it.
BootRestoresSaved ==
    zst = NoFile /\ ~torn /\ saved # NoFile /\ vm # "saving"
      => BootStart(FALSE) = Starts("state", saved)

\* A page published from a plain image starts where a boot of that image would
\* have started: the parts it downloads make up the state again, in order.
WebStartsAsPublished ==
    zst = NoFile /\ webStart.kind # "none" /\ published.kind \in {"kernel", "state"}
      => webStart = published

\* README: "if we boot again, it should restore back to the prompt we ended it
\* at", once --save has saved the state.
SavedStateBoots ==
    vm = "off" /\ ~torn /\ saved # NoFile => BootStart(FALSE) = Starts("state", saved)

\* README: prepare makes all the files needed to run the VM in the browser, so
\* what boots here starts there.
PreparedStarts ==
    webStart.kind # "none" /\ published.kind \in {"kernel", "state"}
      => webStart.kind = published.kind
=============================================================================
