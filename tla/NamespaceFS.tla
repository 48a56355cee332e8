---------------------------- MODULE NamespaceFS ----------------------------
(****************************************************************************)
(* The file system that a VM and `serve` publish over HTTP (namespacefs):   *)
(* file systems mounted on paths of one name space.  A path is a sequence   *)
(* of names; the empty one is ".", the root.  The code compares and cuts    *)
(* paths as text, so that what a name begins with matters as well.          *)
(****************************************************************************)
EXTENDS Integers, Sequences, SequencesExt, FiniteSets

CONSTANTS FileSystems,  \* what is mounted
          Mutable,      \* those of them that have Create, Mkdir, Chmod, ...
          Unopened,     \* those whose root cannot be opened
          Names,        \* names of files, directories and mount points
          Dot,          \* the text of the root
          Begins,       \* which name begins with the text of which, and what
                        \* remains: [name, with, rest]
          Roots,        \* bound: what a file system may have in its root
          Operations,   \* bound: those that are asked for
          MountPoints,  \* bound: the paths that are mounted on
          Paths,        \* bound: the paths that are looked up
          MaxMounts,    \* bound: mounts at one time
          PageSizes     \* bound: counts given to ReadDir

ASSUME NamespaceAssumption ==
    /\ Mutable \subseteq FileSystems /\ Unopened \subseteq FileSystems
    /\ MountPoints \subseteq Seq(Names) /\ Paths \subseteq Seq(Names)
    /\ Roots \subseteq SUBSET Names /\ \A r \in Roots : IsFiniteSet(r)
    /\ Operations \subseteq {"chmod", "chown", "chtimes", "create", "mkdir", "mkdirAll"}
    /\ \A b \in Begins : b.name \in Names /\ b.with \in Names \cup {Dot} /\ b.rest \in Names
    /\ MaxMounts \in Nat /\ PageSizes \subseteq Nat \ {0}

Bindings == [fsys : FileSystems, mountPoint : MountPoints]

VARIABLES
    binds,    \* FS.binds
    live,     \* the mounts that have not been undone, the newest first
    ordered,  \* no Unmount has changed the order of the others in binds
    contents, \* names in the root of each file system that has one
    served,   \* the last look-up since a mount changed, if any
    handle,   \* an open directory, if any: extraDirsFile
    listed    \* the names that its reader has got

nsVars == <<binds, live, ordered, contents, served, handle, listed>>

NoLookup == [op |-> "none"]
NoHandle == [state |-> "none"]

NamespaceInit ==
    /\ binds = <<>> /\ live = <<>> /\ ordered = TRUE
    /\ contents \in [FileSystems \ Unopened -> Roots]
    /\ served = NoLookup
    /\ handle = NoHandle
    /\ listed = <<>>

NamespaceTypes ==
    /\ binds \in SeqOf(Bindings, MaxMounts)
    /\ live \in SeqOf(Bindings, MaxMounts)
    /\ Len(binds) = Len(live)
    /\ ordered \in BOOLEAN
    /\ contents \in [FileSystems \ Unopened -> SUBSET Names]
    /\ handle # NoHandle => handle.off \in 0..Len(handle.entries)
    /\ \A i \in 1..Len(listed) : listed[i] \in Names

----------------------------------------------------------------------------
\* An open directory is a snapshot: nothing else that is done to the name space
\* matters to its reader, who may as well have closed it before.
Closed == handle' = NoHandle /\ listed' = <<>>

----------------------------------------------------------------------------
(* mounts *)

\* Mutant: a new mount goes behind the others.
MountBehind(fsys, dirPath) ==
    /\ Len(binds) < MaxMounts
    /\ binds' = Append(binds, [fsys |-> fsys, mountPoint |-> dirPath])
    /\ live' = <<[fsys |-> fsys, mountPoint |-> dirPath]>> \o live
    /\ served' = NoLookup
    /\ Closed
    /\ UNCHANGED <<ordered, contents>>

Mount(fsys, dirPath) ==
    /\ Len(binds) < MaxMounts
    /\ binds' = <<[fsys |-> fsys, mountPoint |-> dirPath]>> \o binds
    /\ live' = <<[fsys |-> fsys, mountPoint |-> dirPath]>> \o live
    /\ served' = NoLookup
    /\ Closed
    /\ UNCHANGED <<ordered, contents>>

\* remove: the last of the slice takes the place of the i-th.
Removed(s, i) == SubSeq([s EXCEPT ![i] = Last(s)], 1, Len(s) - 1)

FirstAt(s, path) ==
    CHOOSE i \in 1..Len(s) : s[i].mountPoint = path /\ \A j \in 1..i - 1 : s[j].mountPoint # path

\* Unmount undoes the first mount on the path; what it does to the order of the
\* others shows when two of them come after it.
Unmount(path) ==
    /\ \E i \in 1..Len(binds) : binds[i].mountPoint = path
    /\ LET i == FirstAt(binds, path)
       IN /\ binds' = Removed(binds, i)
          /\ ordered' = (ordered /\ i >= Len(binds) - 1)
    /\ live' = RemoveAt(live, FirstAt(live, path))
    /\ served' = NoLookup
    /\ Closed
    /\ UNCHANGED contents

----------------------------------------------------------------------------
(* look-ups *)

RestOf(name, text) == {b.rest : b \in {c \in Begins : c.name = name /\ c.with = text}}

\* strings.HasPrefix of two paths, the root aside: the last name of the prefix
\* need only be what the other begins with there.
HasTextPrefix(path, prefix) ==
    /\ Len(prefix) <= Len(path)
    /\ Front(prefix) = SubSeq(path, 1, Len(prefix) - 1)
    /\ Last(prefix) = path[Len(prefix)] \/ RestOf(path[Len(prefix)], Last(prefix)) # {}

\* isPathInMount: the indexes of binds that may serve the path.
InMount(path) ==
    {i \in 1..Len(binds) : binds[i].mountPoint = <<>> \/ HasTextPrefix(path, binds[i].mountPoint)}
FoundIn(path) == CHOOSE i \in InMount(path) : \A j \in InMount(path) : i <= j

\* trimMountPoint: strings.TrimPrefix, which for the root cuts a leading dot.
TrimMountPoint(path, mntPoint) ==
    LET k == IF mntPoint = <<>> THEN 1 ELSE Len(mntPoint)
        cut == IF path = <<>> THEN {} ELSE RestOf(path[k], IF mntPoint = <<>> THEN Dot ELSE Last(mntPoint))
    IN IF cut # {} THEN <<CHOOSE r \in cut : TRUE>> \o SubSeq(path, k + 1, Len(path))
       ELSE SubSeq(path, Len(mntPoint) + 1, Len(path))

\* Chmod, Chown, Chtimes, Create, Mkdir and MkdirAll ask the mount that serves
\* the path, or fail when there is none.  What it does, if it can, is its own.
Delegate(op, path) ==
    /\ served' =
         IF InMount(path) = {} THEN [op |-> op, path |-> path, by |-> {}, name |-> path]
         ELSE LET mount == binds[FoundIn(path)]
              IN [op |-> op, path |-> path, by |-> {mount.fsys} \cap Mutable,
                  name |-> TrimMountPoint(path, mount.mountPoint)]
    /\ Closed
    /\ UNCHANGED <<binds, live, ordered, contents>>

----------------------------------------------------------------------------
(* directories *)

\* mountsAtPath, without those on the mount point that serves the path.
MountsAt(path, mount) ==
    {b \in Range(binds) : b.mountPoint # mount.mountPoint /\ b.mountPoint # <<>> /\ Front(b.mountPoint) = path}

\* What ought to be in a directory besides its own entries: the mounts in it.
MountsIn(path) == {b \in Range(live) : b.mountPoint # <<>> /\ Front(b.mountPoint) = path}

OpenedOK(path, mount) ==
    /\ mount.fsys \notin Unopened
    /\ \A b \in MountsAt(path, mount) : b.fsys \notin Unopened

\* OpenFile of the root of a mount; the mounts on paths in it come in the order
\* of a map.  What the handle says of the mounts, of their order and of how its
\* pages fit is kept for DirectoryWhole.
OpenDirectory(path) ==
    /\ InMount(path) # {}
    /\ LET mount == binds[FoundIn(path)]
       IN /\ TrimMountPoint(path, mount.mountPoint) = <<>>
          /\ OpenedOK(path, mount)
          /\ \E under \in SetToSeqs(contents[mount.fsys]), dirs \in SetToSeqs(MountsAt(path, mount)) :
               handle' = [state |-> "open", path |-> path, under |-> under,
                          dirs |-> [i \in 1..Len(dirs) |-> Last(dirs[i].mountPoint)],
                          mounts |-> MountsIn(path), off |-> 0, entries |-> <<>>, fits |-> TRUE, ordered |-> ordered]
          /\ served' = [op |-> "open", path |-> path, by |-> {mount.fsys}, name |-> <<>>]
    /\ listed' = <<>>
    /\ UNCHANGED <<binds, live, ordered, contents>>

\* Everything else that can be opened is a file, or is not there; and a mount
\* whose root cannot be opened takes the directory that it is in with it.
OpenOther(path) ==
    /\ InMount(path) # {}
    /\ LET mount == binds[FoundIn(path)]
           name == TrimMountPoint(path, mount.mountPoint)
       IN /\ name # <<>> \/ ~OpenedOK(path, mount)
          /\ served' = [op |-> "open", path |-> path, by |-> {mount.fsys}, name |-> name]
    /\ Closed
    /\ UNCHANGED <<binds, live, ordered, contents>>

\* ReadDir(c) for c <= 0: all of it; the offset stays where it is.
ReadAll ==
    /\ handle.state = "open"
    /\ LET entries == IF handle.off = 0 THEN handle.under \o handle.dirs ELSE handle.entries
       IN /\ listed' = listed \o SubSeq(entries, handle.off + 1, Len(entries))
          /\ handle' = [handle EXCEPT !.state = "read", !.entries = entries]
    /\ UNCHANGED <<binds, live, ordered, contents, served>>

\* Mutant: a page is cut from the first entries, whatever has been read.
PageAgain(c) ==
    /\ handle.state = "open"
    /\ handle.off > 0
    /\ handle.off < Len(handle.entries)
    /\ LET n == IF c > Len(handle.entries) - handle.off THEN Len(handle.entries) - handle.off ELSE c
       IN /\ listed' = listed \o SubSeq(handle.entries, 1, n)
          /\ handle' = [handle EXCEPT !.off = @ + n]
    /\ UNCHANGED <<binds, live, ordered, contents, served>>

\* ReadDir(c), c > 0, the first time: c entries of the directory itself, and
\* whatever it has beyond them is not asked for again; an empty one ends it.
\* A directory without mounts in it is handed out as it is, and has its own
\* pages.
FirstPage(c) ==
    /\ handle.state = "open"
    /\ handle.off = 0
    /\ IF handle.under = <<>>
       THEN handle' = [handle EXCEPT !.state = "read", !.fits = @ /\ handle.dirs = <<>>] /\ UNCHANGED listed
       ELSE LET cut == handle.dirs # <<>> /\ c < Len(handle.under)
                own == SubSeq(handle.under, 1, IF cut THEN c ELSE Len(handle.under))
                entries == own \o handle.dirs
                n == IF c > Len(entries) THEN Len(entries) ELSE c
            IN /\ listed' = SubSeq(entries, 1, n)
               /\ handle' = [handle EXCEPT !.off = n, !.entries = entries, !.fits = @ /\ ~cut]
    /\ UNCHANGED <<binds, live, ordered, contents, served>>

NextPage(c) ==
    /\ handle.state = "open"
    /\ handle.off > 0
    /\ handle.off < Len(handle.entries)
    /\ LET n == IF c > Len(handle.entries) - handle.off THEN Len(handle.entries) - handle.off ELSE c
       IN /\ listed' = listed \o SubSeq(handle.entries, handle.off + 1, handle.off + n)
          /\ handle' = [handle EXCEPT !.off = @ + n]
    /\ UNCHANGED <<binds, live, ordered, contents, served>>

\* io.EOF
LastPage ==
    /\ handle.state = "open"
    /\ handle.off > 0
    /\ handle.off = Len(handle.entries)
    /\ handle' = [handle EXCEPT !.state = "read"]
    /\ UNCHANGED <<binds, live, ordered, contents, served, listed>>

ReadDir == ReadAll \/ LastPage \/ \E c \in PageSizes : FirstPage(c) \/ NextPage(c)

NamespaceNext ==
    \/ \E fsys \in FileSystems, path \in MountPoints : Mount(fsys, path)
    \/ \E path \in MountPoints : Unmount(path)
    \/ \E path \in Paths : OpenDirectory(path) \/ OpenOther(path)
    \/ \E op \in Operations, path \in Paths : Delegate(op, path)
    \/ ReadDir

NamespaceSpec == NamespaceInit /\ [][NamespaceNext]_nsVars

----------------------------------------------------------------------------
\* Paths whose names are not taken for others as text.
Plain(path) == \A b \in Begins : b.name \notin Range(path)

\* The live mounts that a path lies in.
Holding(path) == {i \in 1..Len(live) : IsPrefix(live[i].mountPoint, path)}

\* A path is served by the newest mount on it or on a directory above it, which
\* is asked for the path from there if it can do what is asked, and by none if
\* there is no such mount:
\* unless a name on it begins with the text of another, or an Unmount has
\* changed the order of the mounts.
ServedByNewest ==
    served # NoLookup /\ ordered /\ Plain(served.path) =>
        IF Holding(served.path) = {} THEN served.by = {}
        ELSE LET mount == live[CHOOSE i \in Holding(served.path) : \A j \in Holding(served.path) : i <= j]
             IN /\ served.by = IF served.op = "open" THEN {mount.fsys} ELSE {mount.fsys} \cap Mutable
                /\ mount.mountPoint \o served.name = served.path

\* Who reads a directory to its end gets its own entries and the names of all
\* the mounts in it, whatever was mounted and unmounted before; and each as often
\* as it is there, unless an Unmount changed the order of the mounts: of two on
\* one path it may then have left the other one than it should.
\* Excluded are directories with mounts in them that are read in pages, when the
\* first page has less room than they have entries of their own, or when they
\* have none: the code leaves out the rest of the entries, or the mounts.
DirectoryWhole ==
    handle.state = "read" /\ handle.fits =>
        /\ Range(listed) = Range(handle.under) \cup {Last(b.mountPoint) : b \in handle.mounts}
        /\ handle.ordered => Len(listed) = Len(handle.under) + Cardinality(handle.mounts)
=============================================================================
