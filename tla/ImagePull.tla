----------------------------- MODULE ImagePull -----------------------------
(****************************************************************************)
(* env86 pull: commands that fetch an image of one repository into the      *)
(* store of the user, while its owner publishes releases.  An image is a    *)
(* directory per tag; a copy of it, if one is asked for, goes to the        *)
(* directory "local" of another name in the store, or to a path outside it. *)
(* Every error ends a command where it is (log.Fatal), as a crash does, and *)
(* undoes nothing.                                                          *)
(****************************************************************************)
EXTENDS Naturals, Sequences, FiniteSets, SequencesExt

CONSTANTS Pullers,      \* bound: the commands
          Published,    \* bound: the releases that may be published, in order
          ImageFiles,   \* bound: the entries of an image, in an order
          Irregular     \* which of them a release has as links or the like

Releases == Range(Published)

Latest == "latest"
Local == "local"
Copied == "copy"   \* the directory "local" of the new name
AtPath == "path"   \* the new name, if it begins with ./
NoTag == "none"
NoCopy == "none"
Directories == Releases \cup {Latest, Local, Copied, AtPath}

\* What a file may hold besides a release.
Missing == "missing"
Cut == "cut"

\* No release is tagged with a name that stands for something else here.
ASSUME PullAssumption ==
    /\ Published \in Seq(STRING) /\ Published # <<>> /\ IsInjective(Published)
    /\ Releases \cap {Latest, Local, Copied, AtPath, NoTag, Missing, Cut} = {}
    /\ ImageFiles \subseteq Nat /\ ImageFiles # {}
    /\ Irregular \in [Releases -> SUBSET ImageFiles]

VARIABLES
    latest,    \* how many releases there are: the last is the latest
    dirs,      \* the store: the directories that exist
    stored,    \* stored[d][f]: the release that file f of d is from
    wants,     \* the tag that a command was given, if any
    copies,    \* the directory of the copy that it was asked for, if any
    stage,     \* how far it is
    dst,       \* imageDst
    tag,       \* the tag that it has resolved
    got,       \* the release in its temporary file
    todo,      \* the files that it still has to extract or copy
    partial,   \* the file that it has made and not written
    lastIn,    \* the command that was the last to begin work in a directory
    overlapped, \* the commands that have worked in one directory at one time
    concurrent  \* two commands have run at one time

storeVars == <<dirs, stored>>
given == <<wants, copies>>
chosen == <<dst, tag, got>>
history == <<lastIn, overlapped, concurrent>>
pullVars == <<latest, storeVars, given, stage, chosen, todo, partial, history>>

Stages == {"look", "resolve", "download", "make", "extract", "lookCopy", "makeCopy", "copy", "done", "failed"}

PullInit ==
    /\ latest \in 1..Len(Published)
    /\ dirs = {}
    /\ stored = [d \in Directories |-> [f \in ImageFiles |-> Missing]]
    /\ wants \in [Pullers -> Releases \cup {Latest, NoTag}]
    /\ copies \in [Pullers -> {NoCopy, Copied, AtPath}]
    /\ stage = [p \in Pullers |-> "look"]
    /\ dst = [p \in Pullers |-> Local]
    /\ tag = [p \in Pullers |-> NoTag]
    /\ got = [p \in Pullers |-> Missing]
    /\ todo = [p \in Pullers |-> {}]
    /\ partial = [p \in Pullers |-> {}]
    /\ lastIn = [d \in Directories |-> {}]
    /\ overlapped = {} /\ concurrent = FALSE

PullTypes ==
    /\ latest \in 1..Len(Published)
    /\ dirs \subseteq Directories
    /\ stored \in [Directories -> [ImageFiles -> Releases \cup {Missing, Cut}]]
    /\ \A d \in Directories \ dirs, f \in ImageFiles : stored[d][f] = Missing
    /\ stage \in [Pullers -> Stages]
    /\ dst \in [Pullers -> Directories]
    /\ \A p \in Pullers : stage[p] \in {"download", "make", "extract", "done"} => dst[p] # Local
    /\ \A d \in Directories : lastIn[d] \subseteq Pullers /\ (d \in dirs <=> lastIn[d] # {})
    /\ \A p \in Pullers : partial[p] \subseteq ImageFiles /\ Cardinality(partial[p]) <= 1
    /\ overlapped \subseteq Pullers /\ concurrent \in BOOLEAN

----------------------------------------------------------------------------
\* globalImage: with a tag its directory; with none "latest", which nothing
\* here makes a link to a tag, and then "local".
ImageAt(t) ==
    IF t # NoTag THEN [exists |-> t \in dirs, path |-> t]
    ELSE IF Latest \in dirs THEN [exists |-> TRUE, path |-> Latest]
    ELSE [exists |-> Local \in dirs, path |-> Local]

At(p, s) == stage[p] = s
Goes(p, s) == stage' = [stage EXCEPT ![p] = s]

\* "image already exists" or the way to the repository.
Looks(p) ==
    /\ At(p, "look")
    /\ dst' = [dst EXCEPT ![p] = ImageAt(wants[p]).path]
    /\ Goes(p, IF ImageAt(wants[p]).exists THEN "failed" ELSE "resolve")
    /\ concurrent' = (concurrent \/ \E q \in Pullers \ {p} : stage[q] \notin {"look", "done", "failed"})
    /\ UNCHANGED <<latest, storeVars, given, tag, got, todo, partial, lastIn, overlapped>>

\* Mutant: a tag that was found in the redirect does not name the directory.
ResolvesLocal(p) ==
    /\ At(p, "resolve")
    /\ tag' = [tag EXCEPT ![p] = IF wants[p] \in {NoTag, Latest} THEN Published[latest] ELSE wants[p]]
    /\ Goes(p, IF tag'[p] \in Range(SubSeq(Published, 1, latest)) THEN "download" ELSE "failed")
    /\ UNCHANGED <<latest, storeVars, given, dst, got, todo, partial, history>>

\* The redirect of releases/latest names the tag when none was given, or
\* "latest" was; the directory is named for it only in the first case.
Resolves(p) ==
    /\ At(p, "resolve")
    /\ tag' = [tag EXCEPT ![p] = IF wants[p] \in {NoTag, Latest} THEN Published[latest] ELSE wants[p]]
    /\ dst' = [dst EXCEPT ![p] = IF dst[p] = Local THEN tag'[p] ELSE dst[p]]
    /\ Goes(p, IF tag'[p] \in Range(SubSeq(Published, 1, latest)) THEN "download" ELSE "failed")
    /\ UNCHANGED <<latest, storeVars, given, got, todo, partial, history>>

\* Mutant: what is downloaded is the release that is the latest by then.
DownloadsLatest(p) ==
    /\ At(p, "download")
    /\ got' = [got EXCEPT ![p] = Published[latest]]
    /\ Goes(p, "make")
    /\ UNCHANGED <<latest, storeVars, given, dst, tag, todo, partial, history>>

\* The whole asset of the tag goes to a temporary file.
Downloads(p) ==
    /\ At(p, "download")
    /\ got' = [got EXCEPT ![p] = tag[p]]
    /\ Goes(p, "make")
    /\ UNCHANGED <<latest, storeVars, given, dst, tag, todo, partial, history>>

----------------------------------------------------------------------------
(* into the store *)

\* The directories that a command has to itself, or ought to.
Uses(p) ==
    CASE stage[p] = "extract" -> {dst[p]}
      [] stage[p] = "copy" -> {dst[p], copies[p]}
      [] OTHER -> {}
Meets(p, used) ==
    LET others == {q \in Pullers \ {p} : Uses(q) \cap used # {}}
    IN overlapped' = overlapped \cup others \cup (IF others = {} THEN {} ELSE {p})

\* MkdirAll: the directory may be there already, with an image in it.
Makes(p) ==
    /\ At(p, "make")
    /\ dirs' = dirs \cup {dst[p]}
    /\ todo' = [todo EXCEPT ![p] = ImageFiles]
    /\ lastIn' = [lastIn EXCEPT ![dst[p]] = {p}]
    /\ Meets(p, {dst[p]})
    /\ Goes(p, "extract")
    /\ UNCHANGED <<latest, stored, given, chosen, partial, concurrent>>

NextFile(p) == CHOOSE f \in todo[p] : \A g \in todo[p] : f <= g

\* Mutant: a file that is there already is left as it is.
ExtractsMissing(p) ==
    /\ At(p, "extract")
    /\ todo[p] # {} /\ partial[p] = {}
    /\ NextFile(p) \notin Irregular[got[p]]
    /\ IF stored[dst[p]][NextFile(p)] = Missing
       THEN /\ stored' = [stored EXCEPT ![dst[p]][NextFile(p)] = Cut]
            /\ partial' = [partial EXCEPT ![p] = {NextFile(p)}]
       ELSE UNCHANGED <<stored, partial>>
    /\ todo' = [todo EXCEPT ![p] = @ \ {NextFile(p)}]
    /\ UNCHANGED <<latest, dirs, given, stage, chosen, history>>

\* "Unknown type": an entry that is neither a directory nor a regular file is
\* left out, and what was there under its name stays.
SkipsEntry(p) ==
    /\ At(p, "extract")
    /\ todo[p] # {} /\ partial[p] = {}
    /\ NextFile(p) \in Irregular[got[p]]
    /\ todo' = [todo EXCEPT ![p] = @ \ {NextFile(p)}]
    /\ UNCHANGED <<latest, storeVars, given, stage, chosen, partial, history>>

\* os.Create empties a file that is there already.
ExtractsFile(p) ==
    /\ At(p, "extract")
    /\ todo[p] # {} /\ partial[p] = {}
    /\ NextFile(p) \notin Irregular[got[p]]
    /\ stored' = [stored EXCEPT ![dst[p]][NextFile(p)] = Cut]
    /\ partial' = [partial EXCEPT ![p] = {NextFile(p)}]
    /\ todo' = [todo EXCEPT ![p] = @ \ {NextFile(p)}]
    /\ UNCHANGED <<latest, dirs, given, stage, chosen, history>>

WritesFile(p) ==
    /\ At(p, "extract")
    /\ \E f \in partial[p] : stored' = [stored EXCEPT ![dst[p]][f] = got[p]]
    /\ partial' = [partial EXCEPT ![p] = {}]
    /\ UNCHANGED <<latest, dirs, given, stage, chosen, todo, history>>

\* No link is made from "latest" to the tag.
Extracted(p) ==
    /\ At(p, "extract")
    /\ todo[p] = {} /\ partial[p] = {}
    /\ Goes(p, IF copies[p] = NoCopy THEN "done" ELSE "lookCopy")
    /\ UNCHANGED <<latest, storeVars, given, chosen, todo, partial, history>>

----------------------------------------------------------------------------
(* a copy of it: CopyFS of the directory *)

\* "global image already exists"; a path is not looked at.
LooksForCopy(p) ==
    /\ At(p, "lookCopy")
    /\ Goes(p, IF copies[p] = Copied /\ Copied \in dirs THEN "failed" ELSE "makeCopy")
    /\ UNCHANGED <<latest, storeVars, given, chosen, todo, partial, history>>

\* What is in the directory then is copied.
MakesCopy(p) ==
    /\ At(p, "makeCopy")
    /\ dirs' = dirs \cup {copies[p]}
    /\ todo' = [todo EXCEPT ![p] = {f \in ImageFiles : stored[dst[p]][f] # Missing}]
    /\ lastIn' = [lastIn EXCEPT ![copies[p]] = {p}]
    /\ Meets(p, {dst[p], copies[p]})
    /\ Goes(p, "copy")
    /\ UNCHANGED <<latest, stored, given, chosen, partial, concurrent>>

\* CopyFS does not write over a file that is there.
CopiesFile(p) ==
    /\ At(p, "copy")
    /\ todo[p] # {} /\ partial[p] = {}
    /\ IF stored[copies[p]][NextFile(p)] # Missing
       THEN Goes(p, "failed") /\ UNCHANGED <<stored, partial, todo>>
       ELSE /\ stored' = [stored EXCEPT ![copies[p]][NextFile(p)] = Cut]
            /\ partial' = [partial EXCEPT ![p] = {NextFile(p)}]
            /\ todo' = [todo EXCEPT ![p] = @ \ {NextFile(p)}]
            /\ UNCHANGED stage
    /\ UNCHANGED <<latest, dirs, given, chosen, history>>

\* What is copied is what the source holds now.
WritesCopy(p) ==
    /\ At(p, "copy")
    /\ \E f \in partial[p] : stored' = [stored EXCEPT ![copies[p]][f] = stored[dst[p]][f]]
    /\ partial' = [partial EXCEPT ![p] = {}]
    /\ UNCHANGED <<latest, dirs, given, stage, chosen, todo, history>>

CopiedAll(p) ==
    /\ At(p, "copy")
    /\ todo[p] = {} /\ partial[p] = {}
    /\ Goes(p, "done")
    /\ UNCHANGED <<latest, storeVars, given, chosen, todo, partial, history>>

----------------------------------------------------------------------------
PullFails(p) ==
    /\ stage[p] \notin {"done", "failed"}
    /\ Goes(p, "failed")
    /\ UNCHANGED <<latest, storeVars, given, chosen, todo, partial, history>>

\* External: the owner of the repository.
Publishes ==
    /\ latest < Len(Published)
    /\ latest' = latest + 1
    /\ UNCHANGED <<storeVars, given, stage, chosen, todo, partial, history>>

PullStep(p) ==
    \/ Looks(p) \/ Resolves(p) \/ Downloads(p) \/ Makes(p)
    \/ SkipsEntry(p) \/ ExtractsFile(p) \/ WritesFile(p) \/ Extracted(p)
    \/ LooksForCopy(p) \/ MakesCopy(p) \/ CopiesFile(p) \/ WritesCopy(p) \/ CopiedAll(p)
    \/ PullFails(p)

PullNext == Publishes \/ \E p \in Pullers : PullStep(p)

PullSpec == PullInit /\ [][PullNext]_pullVars

----------------------------------------------------------------------------
\* The directories that a command has filled.
Filled(p) == {dst[p]} \cup ({copies[p]} \ {NoCopy})

\* The entries of a release that are regular files.
RegularFiles(release) == ImageFiles \ Irregular[release]

\* A pull that reports no error leaves every regular file of the release it
\* resolved, in the directory of the tag and in the copy, whatever an earlier
\* command left there: unless another worked there at the same time, or has begun
\* to since.  Nothing is promised of the entries of other kinds (links, sparse
\* files), which it leaves out without an error.
PulledWhole ==
    \A p \in Pullers :
      /\ stage[p] = "done" /\ p \notin overlapped
      /\ \A d \in Filled(p) : lastIn[d] = {p}
      => \A d \in Filled(p), f \in RegularFiles(tag[p]) : stored[d][f] = tag[p]

\* A directory that is named for a tag never holds a file of another release,
\* and no directory of the store holds files of two, unless two commands have run
\* at one time.  A copy at a path is not in the store: it may come to lie beside
\* what an earlier one left there.
OneRelease ==
    /\ \A d \in Releases, f \in ImageFiles : stored[d][f] \in {Missing, Cut, d}
    /\ ~concurrent =>
         \A d \in Directories \ {AtPath}, f, g \in ImageFiles :
           stored[d][f] \in Releases /\ stored[d][g] \in Releases => stored[d][f] = stored[d][g]
=============================================================================
