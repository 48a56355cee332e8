---------------------------- MODULE ImageCreate ----------------------------
(****************************************************************************)
(* env86 create --from-dir: an image whose file system is an index of the   *)
(* directory (fs.json) and its files, each stored once under the first      *)
(* digits of the hash of what it holds (fs/*.bin).  The directory is read   *)
(* three times: for the index, for the name of the stored file and for what *)
(* goes into it; another program may change it meanwhile.                   *)
(****************************************************************************)
EXTENDS Naturals, FiniteSets

CONSTANTS SourceFiles,   \* bound: files of the directory, in the order of a walk
          GuestFile,     \* the one of them that is bin/guest86
          FileContents,  \* bound: what a regular file may hold
          EmptyFile,     \* of those: nothing
          GuestBinary,   \* of those: the guest service
          ShortHash,     \* the name under which each of them is stored
          MaxCommands,   \* bound: runs of create
          MaxChanges     \* bound: changes during one of them

\* What else may be there under the name of a file: nothing, a symbolic link,
\* or something that cannot be read as a file, such as a socket.
Absent == "absent"
Link == "link"
Socket == "socket"

ASSUME CreateAssumption ==
    /\ SourceFiles \subseteq Nat /\ GuestFile \in SourceFiles
    /\ {EmptyFile, GuestBinary} \subseteq FileContents
    /\ {Absent, Link, Socket} \cap FileContents = {}
    /\ DOMAIN ShortHash = FileContents
    /\ MaxCommands \in Nat /\ MaxChanges \in Nat

BlobNames == {ShortHash[c] : c \in FileContents}

VARIABLES
    directory,  \* what each file of the directory is
    commands,   \* runs of create so far
    creating,   \* how far the command is
    withGuest,  \* its flag
    unread,     \* the files that the walk has not come to
    hashes,     \* filenameToHash
    image,      \* what it has made: fs.json, the stored files and image.json
    blob,       \* the stored file that is open, with the file that it is for
    changes,    \* changes that others have made to the directory during it
    unreported  \* some error of it was ignored

createVars == <<directory, commands, creating, withGuest, unread, hashes, image, blob, changes, unreported>>

NoHashes == [b \in BlobNames |-> Absent]
NoImage == [index |-> [f \in SourceFiles |-> Absent], indexed |-> Absent, blobs |-> NoHashes, config |-> Absent]

CreateInit ==
    /\ directory \in [SourceFiles -> FileContents \cup {Absent, Link, Socket}]
    /\ directory[GuestFile] \in {Absent, GuestBinary}
    /\ commands = 0
    /\ creating = "idle" /\ withGuest = FALSE
    /\ unread = {} /\ hashes = NoHashes /\ image = NoImage /\ blob = {}
    /\ changes = 0 /\ unreported = FALSE

CreateTypes ==
    /\ directory \in [SourceFiles -> FileContents \cup {Absent, Link, Socket}]
    /\ commands \in 0..MaxCommands /\ changes \in 0..MaxChanges
    /\ creating \in {"idle", "guest", "guestWrite", "make", "index", "blobs", "config"}
    /\ unread \subseteq SourceFiles
    /\ hashes \in [BlobNames -> FileContents \cup {Absent}]
    /\ image \in [index : [SourceFiles -> BlobNames \cup {Absent, Link}],
                   indexed : {Absent, "cut", "whole"},
                   blobs : [BlobNames -> FileContents \cup {Absent, "cut"}],
                   config : {Absent, "plain", "guest"}]
    /\ blob \subseteq [name : BlobNames, file : SourceFiles] /\ withGuest \in BOOLEAN /\ unreported \in BOOLEAN
    /\ blob # {} => creating = "blobs"
    /\ image.config # Absent => creating = "idle"

----------------------------------------------------------------------------
\* log.Fatal or a crash: what was made stays.
CreateFails ==
    /\ creating # "idle"
    /\ creating' = "idle"
    /\ unread' = {} /\ hashes' = NoHashes /\ blob' = {}
    /\ UNCHANGED <<directory, commands, withGuest, image, changes, unreported>>

\* Every command makes an image of its own: "image filepath already exists" ends
\* one before it does anything.
CreateBegins ==
    /\ creating = "idle"
    /\ commands < MaxCommands
    /\ commands' = commands + 1
    /\ withGuest' \in BOOLEAN
    /\ creating' = IF withGuest' THEN "guest" ELSE "make"
    /\ image' = NoImage
    /\ changes' = 0 /\ unreported' = FALSE
    /\ UNCHANGED <<directory, unread, hashes, blob>>

\* CopyFS of the guest service into the directory that the image is made from:
\* it does not write over the one that an earlier command has left there.
GuestOpened ==
    /\ creating = "guest"
    /\ directory[GuestFile] = Absent
    /\ directory' = [directory EXCEPT ![GuestFile] = EmptyFile]
    /\ creating' = "guestWrite"
    /\ UNCHANGED <<commands, withGuest, unread, hashes, image, blob, changes, unreported>>

GuestWritten ==
    /\ creating = "guestWrite"
    /\ directory' = [directory EXCEPT ![GuestFile] = GuestBinary]
    /\ creating' = "make"
    /\ UNCHANGED <<commands, withGuest, unread, hashes, image, blob, changes, unreported>>

\* MkdirAll of the image, and the walk of GenerateIndex begins.
ImageMade ==
    /\ creating = "make"
    /\ creating' = "index"
    /\ unread' = SourceFiles
    /\ UNCHANGED <<directory, commands, withGuest, hashes, image, blob, changes, unreported>>

Walks(file) == file \in unread /\ \A f \in unread : file <= f

\* What is entered for a file of the directory.
IndexedAs(file) == IF directory[file] \in FileContents THEN ShortHash[directory[file]] ELSE directory[file]

\* Mutant: two hashes with the same beginning are not told apart.
CollidesNever(file) == directory[file] \in FileContents /\ FALSE

\* "collision in short hash"
CollidesWith(file) ==
    directory[file] \in FileContents /\ hashes[IndexedAs(file)] \notin {Absent, directory[file]}

\* indexHandleDir, for one file: a collision ends the command, and so does what
\* cannot be opened.
IndexFile(file) ==
    /\ creating = "index" /\ Walks(file)
    /\ directory[file] # Socket
    /\ ~CollidesWith(file)
    /\ image' = [image EXCEPT !.index[file] = IndexedAs(file)]
    /\ hashes' = IF directory[file] \in FileContents THEN [hashes EXCEPT ![IndexedAs(file)] = directory[file]] ELSE hashes
    /\ unread' = unread \ {file}
    /\ UNCHANGED <<directory, commands, creating, withGuest, blob, changes, unreported>>

\* Either walk goes on past a path that it has no access to, such as a directory
\* that cannot be read, and leaves out what is below it.
WalkSkips(file) ==
    /\ creating \in {"index", "blobs"} /\ blob = {} /\ Walks(file)
    /\ unread' = unread \ {file}
    /\ unreported' = TRUE
    /\ UNCHANGED <<directory, commands, creating, withGuest, hashes, image, blob, changes>>

\* An error of the encoder is not looked at.
IndexWritten ==
    /\ creating = "index" /\ unread = {}
    /\ \E outcome \in {"whole", "cut"} :
         /\ image' = [image EXCEPT !.indexed = outcome]
         /\ unreported' = (unreported \/ outcome = "cut")
    /\ creating' = "blobs"
    /\ unread' = SourceFiles
    /\ hashes' = NoHashes
    /\ UNCHANGED <<directory, commands, withGuest, blob, changes>>

\* handleDir, for one file: what is stored under that name already is left.
BlobSkipped(file) ==
    /\ creating = "blobs" /\ blob = {} /\ Walks(file)
    /\ directory[file] \in FileContents => image.blobs[IndexedAs(file)] # Absent
    /\ unread' = unread \ {file}
    /\ UNCHANGED <<directory, commands, creating, withGuest, hashes, image, blob, changes, unreported>>

BlobOpened(file) ==
    /\ creating = "blobs" /\ blob = {} /\ Walks(file)
    /\ directory[file] \in FileContents
    /\ image.blobs[IndexedAs(file)] = Absent
    /\ image' = [image EXCEPT !.blobs[IndexedAs(file)] = "cut"]
    /\ blob' = {[name |-> IndexedAs(file), file |-> file]}
    /\ unread' = unread \ {file}
    /\ UNCHANGED <<directory, commands, creating, withGuest, hashes, changes, unreported>>

\* What is stored is what the file holds by now.
BlobWritten ==
    /\ \E b \in blob :
         /\ directory[b.file] \in FileContents
         /\ image' = [image EXCEPT !.blobs[b.name] = directory[b.file]]
    /\ blob' = {}
    /\ UNCHANGED <<directory, commands, creating, withGuest, unread, hashes, changes, unreported>>

\* handleDir ignores what copyFileContents returns: the stored file may be cut,
\* or not there at all.
BlobFails ==
    /\ \E b \in blob : image' \in {image, [image EXCEPT !.blobs[b.name] = Absent]}
    /\ blob' = {}
    /\ unreported' = TRUE
    /\ UNCHANGED <<directory, commands, creating, withGuest, unread, hashes, changes>>

BlobsDone ==
    /\ creating = "blobs" /\ blob = {} /\ unread = {}
    /\ creating' = "config"
    /\ UNCHANGED <<directory, commands, withGuest, unread, hashes, image, blob, changes, unreported>>

ConfigWritten ==
    /\ creating = "config"
    /\ image' = [image EXCEPT !.config = IF withGuest THEN "guest" ELSE "plain"]
    /\ creating' = "idle"
    /\ UNCHANGED <<directory, commands, withGuest, unread, hashes, blob, changes, unreported>>

\* External: another program.
DirectoryChanges(file) ==
    /\ creating # "idle"
    /\ changes < MaxChanges
    /\ \E c \in FileContents \cup {Absent} : c # directory[file] /\ directory' = [directory EXCEPT ![file] = c]
    /\ changes' = changes + 1
    /\ UNCHANGED <<commands, creating, withGuest, unread, hashes, image, blob, unreported>>

CreateNext ==
    \/ CreateBegins \/ GuestOpened \/ GuestWritten \/ ImageMade
    \/ IndexWritten \/ BlobWritten \/ BlobFails \/ BlobsDone \/ ConfigWritten
    \/ \E file \in SourceFiles :
         IndexFile(file) \/ WalkSkips(file) \/ BlobSkipped(file) \/ BlobOpened(file) \/ DirectoryChanges(file)
    \/ CreateFails

CreateSpec == CreateInit /\ [][CreateNext]_createVars

----------------------------------------------------------------------------
\* An image with an image.json, without which nothing boots it, has an index of
\* the whole directory, and under every name in it what the file held; and one
\* made with the guest service has that in it.  It takes a directory that
\* nobody else changed meanwhile, and no error that the command ignored: a path
\* that a walk had no access to, or a write that failed.
CreatedServesFiles ==
    image.config # Absent /\ changes = 0 /\ ~unreported =>
        /\ image.indexed = "whole"
        /\ \A f \in SourceFiles :
             /\ image.index[f] = IndexedAs(f)
             /\ directory[f] \in FileContents => image.blobs[image.index[f]] = directory[f]
        /\ image.config = "guest" => directory[GuestFile] = GuestBinary
=============================================================================
