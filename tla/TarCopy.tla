------------------------------ MODULE TarCopy ------------------------------
(****************************************************************************)
(* The copy of a tree of files (fsutil.CopyFS) out of an archive read into  *)
(* memory (tarfs), as Prepare does with a packed image, or out of a         *)
(* directory, as pull does with the image that it has just unpacked.        *)
(****************************************************************************)
EXTENDS Integers, Sequences, SequencesExt, FiniteSets, Functions

CONSTANTS EntryPaths,   \* bound: paths of entries, relative to the root
          MaxEntries    \* bound: entries of an archive

ASSUME TarAssumption == EntryPaths \subseteq Seq(STRING) /\ <<>> \notin EntryPaths /\ MaxEntries \in Nat

\* A directory is sealed if its mode does not let its owner write in it; a link
\* is a hard link, which has no contents of its own in an archive.
DirectoryKinds == {"dir", "sealed"}
EntryKinds == DirectoryKinds \cup {"file", "symlink", "link"}

VARIABLES
    source,  \* tar or disk
    archive, \* its entries in order, each [path, kind]
    before,  \* the target before: a memory file system for tar, or a disk
    tree,    \* the target
    frames,  \* the calls of copyDir, each with the entries left to it
    copying, \* the file that is being written, if any
    copy,    \* the call of CopyFS: ready, running, done or failed
    cause    \* why it has failed

copyVars == <<source, archive, before, tree, frames, copying, copy, cause>>

----------------------------------------------------------------------------
(* tarfs *)

Archived == {archive[i].path : i \in 1..Len(archive)}

\* New: of two entries with one name the later one is kept.
EntryAt(path) == CHOOSE i \in 1..Len(archive) :
    archive[i].path = path /\ \A j \in i + 1..Len(archive) : archive[j].path # path
KindOf(path) == IF path = <<>> THEN "sealed" ELSE archive[EntryAt(path)].kind
IsDirectory(path) == KindOf(path) \in DirectoryKinds

\* getDirectoryNames: the map of a directory holds what the archive has in it.
\* That of the root is always there, any other only if something is in it.
EntriesIn(path) == {p \in Archived : Front(p) = path}
ReadDirFails(path) == source = "tar" /\ path # <<>> /\ EntriesIn(path) = {}

\* What a reader of the entry gets: links of a disk are followed, and a hard
\* link in an archive is an empty file.
ContentsAt(path) == IF KindOf(path) = "link" THEN 0 ELSE EntryAt(path)

\* fs.Stat: neither a directory nor a regular file.
IsSpecial(path) == source = "tar" /\ KindOf(path) = "symlink"

----------------------------------------------------------------------------
FileNode(data, whole) == [kind |-> "file", data |-> data, whole |-> whole]
DirectoryNode(kind) == [kind |-> kind, data |-> 0, whole |-> TRUE]
Only(node) == [p \in {<<>>} |-> node]
Bare == Only(DirectoryNode("dir"))

\* A tree with a node made in it, or in the place of one.
With(nodes, path, node) == [p \in DOMAIN nodes \cup {path} |-> IF p = path THEN node ELSE nodes[p]]

\* Every directory of the archive is there, before or after what is in it, and
\* there are no hard links.
WellFormed ==
    /\ \A p \in Archived : Front(p) = <<>> \/ (Front(p) \in Archived /\ IsDirectory(Front(p)))
    /\ \A p \in Archived : KindOf(p) # "link"

\* Prepare copies into the root of an empty file system in memory; pull into a
\* directory that need not be there, or may have a file in it already.
CopyInit ==
    /\ source \in {"tar", "disk"}
    /\ archive \in SeqOf([path : EntryPaths, kind : EntryKinds], MaxEntries)
    /\ source = "disk" => WellFormed /\ Cardinality(Archived) = Len(archive)
    /\ before \in IF source = "tar" THEN {Bare}
                  ELSE {<<>>, Bare, Only(FileNode(0, TRUE))}
                       \cup {With(Bare, p, FileNode(0, TRUE)) : p \in {q \in EntryPaths : Len(q) = 1}}
    /\ tree = before
    /\ frames = <<>> /\ copying = {} /\ copy = "ready" /\ cause = "none"

CopyTypes ==
    /\ DOMAIN tree \subseteq EntryPaths \cup {<<>>}
    /\ \A p \in DOMAIN tree : p # <<>> => Front(p) \in DOMAIN tree
    /\ \A i \in 1..Len(frames) : frames[i].path \in DOMAIN tree /\ tree[frames[i].path].kind # "file"
    /\ copying \subseteq DOMAIN tree /\ Cardinality(copying) <= 1
    /\ copy \in {"ready", "running", "done", "failed"}
    /\ copy = "done" => frames = <<>> /\ copying = {}
    /\ cause \in {"none", "exists", "kind", "permission", "directory", "read", "write"}

----------------------------------------------------------------------------
(* CopyFS *)

Running == copy \in {"ready", "running"} /\ copying = {}

\* The entry whose turn it is: the root, and then one that the innermost
\* directory still has.
Turn(path) ==
    \/ copy = "ready" /\ path = <<>>
    \/ copy = "running" /\ frames # <<>> /\ path \in Last(frames).left

TurnTaken(path) ==
    IF frames = <<>> THEN <<>>
    ELSE [frames EXCEPT ![Len(frames)].left = @ \ {path}]

\* Without the right to write in a directory nothing new can be made in it.
\* Memory keeps no rights.
CanMake(path) ==
    IF source = "tar" \/ path \in DOMAIN tree \cup {<<>>} THEN TRUE
    ELSE tree[Front(path)].kind = "dir"

Occupied(path) == path \in DOMAIN tree /\ tree[path].kind = "file"

Fails(why) ==
    /\ copy' = "failed"
    /\ cause' = why
    /\ UNCHANGED <<source, archive, before, tree, frames, copying>>

\* Mutant: whatever is there already is refused, be it a directory.
RefusesAny(path) ==
    /\ Running /\ Turn(path)
    /\ path \in DOMAIN tree
    /\ Fails("exists")

\* "will not overwrite"; and a file of that kind is not copied.
Refuses(path) ==
    /\ Running /\ Turn(path)
    /\ Occupied(path)
    /\ Fails("exists")

RefusesKind(path) ==
    /\ Running /\ Turn(path)
    /\ ~Occupied(path)
    /\ IsSpecial(path)
    /\ Fails("kind")

\* copyDir: mode |= 0500 gives the new directory the right to be read, not to
\* be written in.
CopyDirEnters(path) ==
    /\ Running /\ Turn(path)
    /\ ~Occupied(path) /\ IsDirectory(path)
    /\ CanMake(path)
    /\ tree' = IF path \in DOMAIN tree THEN tree
               ELSE With(tree, path, DirectoryNode(IF path = <<>> THEN "dir" ELSE KindOf(path)))
    /\ IF ReadDirFails(path)
       THEN /\ copy' = "failed" /\ cause' = "read"
            /\ UNCHANGED frames
       ELSE /\ copy' = "running"
            /\ frames' = Append(TurnTaken(path), [path |-> path, left |-> EntriesIn(path)])
            /\ UNCHANGED cause
    /\ UNCHANGED <<source, archive, before, copying>>

\* Once all of its entries are copied it gets the mode of the source; the root
\* of a file system in memory does not.
CopyDirLeaves ==
    /\ Running
    /\ frames # <<>> /\ Last(frames).left = {}
    /\ LET path == Last(frames).path
       IN tree' = IF path = <<>> THEN tree ELSE [tree EXCEPT ![path] = DirectoryNode(KindOf(path))]
    /\ frames' = Front(frames)
    /\ copy' = IF frames' = <<>> THEN "done" ELSE copy
    /\ UNCHANGED <<source, archive, before, copying, cause>>

\* Mutant: a file that is there already is written over.
CopyFileOverwrites(path) ==
    /\ Running /\ Turn(path)
    /\ ~IsDirectory(path) /\ ~IsSpecial(path)
    /\ path \notin DOMAIN tree \/ Occupied(path)
    /\ CanMake(path)
    /\ tree' = With(tree, path, FileNode(0, FALSE))
    /\ copying' = {path}
    /\ frames' = TurnTaken(path)
    /\ UNCHANGED <<source, archive, before, copy, cause>>

\* copyFile opens the file, which makes it, and copies into it.
CopyFileOpens(path) ==
    /\ Running /\ Turn(path)
    /\ ~IsDirectory(path) /\ ~IsSpecial(path)
    /\ path \notin DOMAIN tree
    /\ CanMake(path)
    /\ tree' = With(tree, path, FileNode(0, FALSE))
    /\ copying' = {path}
    /\ frames' = TurnTaken(path)
    /\ UNCHANGED <<source, archive, before, copy, cause>>

CopyFileWrites ==
    /\ copy = "running"
    /\ \E path \in copying : tree' = [tree EXCEPT ![path] = FileNode(ContentsAt(path), TRUE)]
    /\ copying' = {}
    /\ UNCHANGED <<source, archive, before, frames, copy, cause>>

\* A directory is there where a file is to go, or nothing may be made.
CannotOpen(path) ==
    /\ Running /\ Turn(path)
    /\ ~Occupied(path) /\ ~IsSpecial(path)
    /\ \/ path \in DOMAIN tree /\ ~IsDirectory(path) /\ Fails("directory")
       \/ ~CanMake(path) /\ Fails("permission")

\* A read or a write fails, or the process ends: the rest is not copied.
Breaks ==
    /\ copy = "running"
    /\ Fails("write")

CopyNext ==
    \/ \E path \in Archived \cup {<<>>} :
         \/ Refuses(path) \/ RefusesKind(path) \/ CopyDirEnters(path) \/ CopyFileOpens(path) \/ CannotOpen(path)
    \/ CopyDirLeaves \/ CopyFileWrites \/ Breaks

CopySpec == CopyInit /\ [][CopyNext]_copyVars

----------------------------------------------------------------------------
\* A copy that reports no error has made every directory and every file of a
\* well-formed source with its contents, and nothing else; and no copy, failed
\* or not, touches a file that was there before.
CopyFaithful ==
    /\ \A p \in DOMAIN before : before[p].kind = "file" => tree[p] = before[p]
    /\ copy = "done" /\ WellFormed =>
         /\ DOMAIN tree = DOMAIN before \cup Archived \cup {<<>>}
         /\ \A p \in Archived :
              IF IsDirectory(p) THEN tree[p] = DirectoryNode(KindOf(p))
              ELSE tree[p] = FileNode(EntryAt(p), TRUE)

\* The error of a copy tells its cause: it "will not overwrite" only where a file
\* was that is in its way, calls a kind or fails to read a directory only of an
\* archive that has a symbolic link or an empty directory, and lacks a permission
\* only for a directory on disk that may not be written in but has something in
\* it.  What is left are reads and writes that fail, and no directory is in the
\* way of a file.
CopyFailsForCause ==
    copy = "failed" =>
        /\ cause \in {"exists", "kind", "read", "permission", "write"}
        /\ cause = "exists" => \E p \in DOMAIN before \cap (Archived \cup {<<>>}) : before[p].kind = "file"
        /\ cause = "kind" => source = "tar" /\ \E p \in Archived : KindOf(p) = "symlink"
        /\ cause = "read" => source = "tar" /\ \E p \in Archived : IsDirectory(p) /\ EntriesIn(p) = {}
        /\ cause = "permission" => source = "disk" /\ \E p \in Archived : KindOf(p) = "sealed" /\ EntriesIn(p) # {}
=============================================================================
