---------------------------- MODULE ImageProofs -----------------------------
(****************************************************************************)
(* Images on their way.  Of pull: which release is in which directory of    *)
(* the store, for any number of pulls, releases and files, whatever pull    *)
(* fails where.  Of create: what it promises of an image, for any           *)
(* directory, any contents of its files and any short hash, also one under  *)
(* which contents collide.                                                  *)
(****************************************************************************)
EXTENDS ImagePull, ImageCreate, DataFacts

----------------------------------------------------------------------------
(* pull *)

\* What a command has chosen is of the kinds that the steps expect.
PullTyped ==
    /\ latest \in 1..Len(Published)
    /\ dirs \subseteq Directories
    /\ stored \in [Directories -> [ImageFiles -> Releases \cup {Missing, Cut}]]
    /\ wants \in [Pullers -> Releases \cup {Latest, NoTag}]
    /\ copies \in [Pullers -> {NoCopy, Copied, AtPath}]
    /\ stage \in [Pullers -> Stages]
    /\ dst \in [Pullers -> Releases \cup {Latest, Local}]
    /\ tag \in [Pullers -> Releases \cup {NoTag}]
    /\ got \in [Pullers -> Releases \cup {Missing}]
    /\ todo \in [Pullers -> SUBSET ImageFiles]
    /\ partial \in [Pullers -> SUBSET ImageFiles]
    /\ concurrent \in BOOLEAN

\* Where there is no directory there are no files.
NoDirNoFiles == \A d \in Directories \ dirs, f \in ImageFiles : stored[d][f] = Missing

\* A command fills a directory that it has made, and a copy that it was asked for.
MadeBefore ==
    \A p \in Pullers :
      /\ stage[p] \in {"extract", "lookCopy", "makeCopy", "copy", "done"} => dst[p] \in dirs
      /\ stage[p] \in {"lookCopy", "makeCopy", "copy"} => copies[p] # NoCopy
      /\ stage[p] = "copy" => copies[p] \in dirs

\* A directory that was chosen for a release is that of the tag, and what was
\* downloaded is the release of that tag.
Resolved(p) == stage[p] \notin {"look", "resolve", "failed"}
Downloaded(p) == Resolved(p) /\ stage[p] # "download"
ChosenTag ==
    \A p \in Pullers :
      /\ stage[p] = "resolve" /\ dst[p] \in Releases => wants[p] = dst[p]
      /\ Resolved(p) => tag[p] \in Releases /\ dst[p] # Local /\ (dst[p] \in Releases => tag[p] = dst[p])
      /\ Downloaded(p) => got[p] = tag[p]

\* A directory named for a tag holds nothing of another.
OwnRelease == \A d \in Releases, f \in ImageFiles : stored[d][f] \in {Missing, Cut, d}

\* Unless two have run at one time, one command at most is under way,
Active(p) == stage[p] \notin {"look", "done", "failed"}
Alone == ~concurrent => \A p, q \in Pullers : Active(p) /\ Active(q) => p = q

\* the directory "latest" and the copy in the store were not there before it made
\* them,
MakesNew ==
    ~concurrent => \A p \in Pullers :
      /\ stage[p] \in {"resolve", "download", "make"} /\ dst[p] = Latest => Latest \notin dirs
      /\ stage[p] = "makeCopy" /\ copies[p] = Copied => Copied \notin dirs

\* and it fills them from one release.
FillsFromOne ==
    ~concurrent => \A p \in Pullers, f, g \in ImageFiles :
      /\ stage[p] = "extract" /\ dst[p] = Latest => stored[Latest][f] \in {Missing, Cut, tag[p]}
      /\ stage[p] = "copy" /\ copies[p] = Copied /\ stored[Copied][f] \in Releases /\ stored[dst[p]][g] \in Releases
           => stored[Copied][f] = stored[dst[p]][g]

Uniform ==
    ~concurrent =>
      \A d \in Directories \ {AtPath}, f, g \in ImageFiles :
        stored[d][f] \in Releases /\ stored[d][g] \in Releases => stored[d][f] = stored[d][g]

PullInv ==
    /\ PullTyped /\ NoDirNoFiles /\ MadeBefore /\ ChosenTag /\ OwnRelease
    /\ Alone /\ MakesNew /\ FillsFromOne /\ Uniform

----------------------------------------------------------------------------
\* The names stand for different things.
LEMMA NamesDiffer ==
    /\ Releases \subseteq Directories /\ {Latest, Local, Copied, AtPath} \subseteq Directories
    /\ {Latest, Local, Copied, AtPath, NoTag, Missing, Cut} \cap Releases = {}
    /\ Latest # Local /\ Latest # Copied /\ Local # Copied /\ Latest # NoTag /\ Missing # Cut
    /\ AtPath \notin {Latest, Local, Copied} /\ NoCopy \notin {Copied, AtPath}
BY PullAssumption DEF Directories, Latest, Local, Copied, AtPath, NoTag, NoCopy, Missing, Cut

LEMMA PublishedIsRelease == \A n \in 1..Len(Published) : Published[n] \in Releases
BY PullAssumption, LenProperties DEF Releases, Range

\* The file that is next is one of those to do.
LEMMA NextIsToDo ==
    ASSUME PullTyped, NEW p \in Pullers, todo[p] # {}
    PROVE  NextFile(p) \in ImageFiles
<1>1. todo[p] \in SUBSET Nat /\ todo[p] \subseteq ImageFiles
  BY PullAssumption DEF PullTyped
<1>2. \E m \in todo[p] : \A k \in todo[p] : m <= k
  BY <1>1, LeastNatural
<1>. QED
  BY <1>1, <1>2 DEF NextFile

\* The directories of a command have names of their own.
LEMMA OwnDirectory ==
    ASSUME PullInv, NEW p \in Pullers
    PROVE  /\ dst[p] \in Directories /\ dst[p] # copies[p]
           /\ copies[p] # NoCopy => copies[p] \in Directories
           /\ stage[p] \in {"lookCopy", "makeCopy", "copy"} => copies[p] # NoCopy
<1>1. dst[p] \in Releases \cup {Latest, Local} /\ copies[p] \in {NoCopy, Copied, AtPath}
  BY DEF PullInv, PullTyped
<1>2. NoCopy \notin Releases \cup {Latest, Local}
  BY NamesDiffer DEF NoCopy, NoTag, Latest, Local
<1>. QED
  BY <1>1, <1>2, NamesDiffer DEF PullInv, MadeBefore

LEMMA PullInitInv == PullInit => PullInv
<1>. SUFFICES ASSUME PullInit PROVE PullInv
  OBVIOUS
<1>1. PullTyped
  BY NamesDiffer DEF PullInit, PullTyped, Stages
<1>2. NoDirNoFiles /\ MadeBefore /\ OwnRelease
  BY NamesDiffer DEF PullInit, NoDirNoFiles, MadeBefore, OwnRelease
<1>3. ChosenTag
  BY DEF PullInit, ChosenTag, Resolved, Downloaded
<1>4. Alone /\ MakesNew
  BY DEF PullInit, Alone, Active, MakesNew
<1>5. FillsFromOne /\ Uniform
  <2>1. \A d \in Directories, f \in ImageFiles : stored[d][f] = Missing
    BY DEF PullInit
  <2>2. \A p \in Pullers : stage[p] = "look"
    BY DEF PullInit
  <2>. QED
    BY <2>1, <2>2, NamesDiffer DEF FillsFromOne, Uniform
<1>. QED
  BY <1>1, <1>2, <1>3, <1>4, <1>5 DEF PullInv

----------------------------------------------------------------------------
(* steps *)

\* A command chooses a directory that is not there, and goes on alone or not.
LEMMA LooksStep ==
    ASSUME PullInv, NEW p \in Pullers, Looks(p)
    PROVE  PullInv'
<1>. USE DEF At, Goes, storeVars, given, chosen, history, Looks
<1>1. PullTyped'
  BY NamesDiffer DEF PullInv, ImageAt, PullTyped, Stages
<1>2. NoDirNoFiles'
  BY NamesDiffer DEF PullInv, ImageAt, MadeBefore, NoDirNoFiles, PullTyped
<1>3. MadeBefore'
  BY NamesDiffer DEF PullInv, ImageAt, MadeBefore, PullTyped
<1>4. ChosenTag'
  BY NamesDiffer DEF PullInv, ChosenTag, Downloaded, ImageAt, PullTyped, Resolved
<1>5. OwnRelease'
  BY NamesDiffer DEF PullInv, ChosenTag, Downloaded, ImageAt, OwnRelease, PullTyped, Resolved
<1>6. Alone'
  BY NamesDiffer DEF PullInv, Active, Alone, ImageAt, PullTyped
<1>7. MakesNew'
  BY NamesDiffer DEF PullInv, Active, Alone, ImageAt, MakesNew, PullTyped
<1>8. FillsFromOne'
  BY NamesDiffer
     DEF PullInv, Active, Alone, ChosenTag, Downloaded, FillsFromOne, ImageAt, MakesNew,
         NoDirNoFiles, PullTyped, Resolved
<1>9. Uniform'
  BY NamesDiffer
     DEF PullInv, Active, Alone, ChosenTag, Downloaded, FillsFromOne, ImageAt, OwnRelease,
         PullTyped, Resolved, Uniform
<1>. QED
  BY <1>1, <1>2, <1>3, <1>4, <1>5, <1>6, <1>7, <1>8, <1>9 DEF PullInv

\* The directory of a tag is chosen with the tag.
LEMMA ResolvesStep ==
    ASSUME PullInv, NEW p \in Pullers, Resolves(p)
    PROVE  PullInv'
<1>. USE DEF At, Goes, storeVars, given, chosen, history, Resolves
<1>1. PullTyped'
  BY NamesDiffer, PublishedIsRelease DEF PullInv, PullTyped, Stages
<1>2. NoDirNoFiles'
  BY NamesDiffer, PublishedIsRelease DEF PullInv, MadeBefore, NoDirNoFiles, PullTyped
<1>3. MadeBefore'
  BY NamesDiffer, PublishedIsRelease DEF PullInv, MadeBefore, PullTyped
<1>4. ChosenTag'
  BY NamesDiffer, PublishedIsRelease DEF PullInv, ChosenTag, Downloaded, PullTyped, Resolved
<1>5. OwnRelease'
  BY NamesDiffer, PublishedIsRelease DEF PullInv, ChosenTag, Downloaded, OwnRelease, PullTyped, Resolved
<1>6. Alone'
  BY NamesDiffer, PublishedIsRelease DEF PullInv, Active, Alone, PullTyped
<1>7. MakesNew'
  BY NamesDiffer, PublishedIsRelease DEF PullInv, Active, Alone, MakesNew, PullTyped
<1>8. FillsFromOne'
  BY NamesDiffer, PublishedIsRelease
     DEF PullInv, Active, Alone, ChosenTag, Downloaded, FillsFromOne, MakesNew, NoDirNoFiles,
         PullTyped, Resolved
<1>9. Uniform'
  BY NamesDiffer, PublishedIsRelease
     DEF PullInv, Active, Alone, ChosenTag, Downloaded, FillsFromOne, OwnRelease, PullTyped,
         Resolved, Uniform
<1>. QED
  BY <1>1, <1>2, <1>3, <1>4, <1>5, <1>6, <1>7, <1>8, <1>9 DEF PullInv

\* What is downloaded is the release of the tag.
LEMMA DownloadsStep ==
    ASSUME PullInv, NEW p \in Pullers, Downloads(p)
    PROVE  PullInv'
<1>. USE DEF At, Goes, storeVars, given, chosen, history, Downloads
<1>1. PullTyped'
  BY NamesDiffer DEF PullInv, PullTyped, Stages, ChosenTag, Resolved
<1>2. NoDirNoFiles'
  BY NamesDiffer DEF PullInv, MadeBefore, NoDirNoFiles, PullTyped
<1>3. MadeBefore'
  BY NamesDiffer DEF PullInv, MadeBefore, PullTyped
<1>4. ChosenTag'
  BY NamesDiffer DEF PullInv, ChosenTag, Downloaded, PullTyped, Resolved
<1>5. OwnRelease'
  BY NamesDiffer DEF PullInv, ChosenTag, Downloaded, OwnRelease, PullTyped, Resolved
<1>6. Alone'
  BY NamesDiffer DEF PullInv, Active, Alone, PullTyped
<1>7. MakesNew'
  BY NamesDiffer DEF PullInv, Active, Alone, MakesNew, PullTyped
<1>8. FillsFromOne'
  BY NamesDiffer
     DEF PullInv, Active, Alone, ChosenTag, Downloaded, FillsFromOne, MakesNew, NoDirNoFiles,
         PullTyped, Resolved
<1>9. Uniform'
  BY NamesDiffer
     DEF PullInv, Active, Alone, ChosenTag, Downloaded, FillsFromOne, OwnRelease, PullTyped,
         Resolved, Uniform
<1>. QED
  BY <1>1, <1>2, <1>3, <1>4, <1>5, <1>6, <1>7, <1>8, <1>9 DEF PullInv

\* The directory is made, or was there.
LEMMA MakesStep ==
    ASSUME PullInv, NEW p \in Pullers, Makes(p)
    PROVE  PullInv'
<1>. USE DEF At, Goes, storeVars, given, chosen, history, Makes
<1>1. PullTyped'
  BY NamesDiffer DEF PullInv, PullTyped, Stages
<1>2. NoDirNoFiles'
  BY NamesDiffer DEF PullInv, MadeBefore, NoDirNoFiles, PullTyped
<1>3. MadeBefore'
  BY NamesDiffer DEF PullInv, MadeBefore, PullTyped
<1>4. ChosenTag'
  BY NamesDiffer DEF PullInv, ChosenTag, Downloaded, PullTyped, Resolved
<1>5. OwnRelease'
  BY NamesDiffer DEF PullInv, ChosenTag, Downloaded, OwnRelease, PullTyped, Resolved
<1>6. Alone'
  BY NamesDiffer DEF PullInv, Active, Alone, PullTyped
<1>7. MakesNew'
  BY NamesDiffer DEF PullInv, Active, Alone, MakesNew, PullTyped
<1>8. FillsFromOne'
  BY NamesDiffer
     DEF PullInv, Active, Alone, ChosenTag, Downloaded, FillsFromOne, MakesNew, NoDirNoFiles,
         PullTyped, Resolved
<1>9. Uniform'
  BY NamesDiffer
     DEF PullInv, Active, Alone, ChosenTag, Downloaded, FillsFromOne, OwnRelease, PullTyped,
         Resolved, Uniform
<1>. QED
  BY <1>1, <1>2, <1>3, <1>4, <1>5, <1>6, <1>7, <1>8, <1>9 DEF PullInv

\* An entry that is left out leaves all as it is.
LEMMA SkipsEntryStep ==
    ASSUME PullInv, NEW p \in Pullers, SkipsEntry(p)
    PROVE  PullInv'
<1>1. /\ UNCHANGED <<latest, dirs, stored, wants, copies, stage, dst, tag, got, partial, concurrent>>
      /\ todo' = [todo EXCEPT ![p] = @ \ {NextFile(p)}]
  BY DEF SkipsEntry, storeVars, given, chosen, history
<1>2. PullTyped'
  BY <1>1 DEF PullInv, PullTyped
<1>3. NoDirNoFiles' /\ MadeBefore'
  BY <1>1 DEF PullInv, NoDirNoFiles, MadeBefore
<1>4. ChosenTag' /\ OwnRelease' /\ Alone'
  BY <1>1 DEF PullInv, ChosenTag, Resolved, Downloaded, OwnRelease, Alone, Active
<1>5. MakesNew' /\ FillsFromOne' /\ Uniform'
  BY <1>1 DEF PullInv, MakesNew, FillsFromOne, Uniform
<1>. QED
  BY <1>2, <1>3, <1>4, <1>5 DEF PullInv

\* A file that is being written holds nothing.
LEMMA ExtractsFileStep ==
    ASSUME PullInv, NEW p \in Pullers, ExtractsFile(p)
    PROVE  PullInv'
<1>. USE DEF At, Goes, storeVars, given, chosen, history, ExtractsFile
<1>1. todo[p] # {} => NextFile(p) \in ImageFiles
  BY NextIsToDo DEF PullInv
<1>2. PullTyped'
  BY NamesDiffer, <1>1 DEF PullInv, PullTyped, Stages
<1>3. NoDirNoFiles'
  BY NamesDiffer, <1>1 DEF PullInv, MadeBefore, NoDirNoFiles, PullTyped
<1>4. MadeBefore'
  BY NamesDiffer, <1>1 DEF PullInv, MadeBefore, PullTyped
<1>5. ChosenTag'
  BY NamesDiffer, <1>1 DEF PullInv, ChosenTag, Downloaded, PullTyped, Resolved
<1>6. OwnRelease'
  BY NamesDiffer, <1>1 DEF PullInv, ChosenTag, Downloaded, OwnRelease, PullTyped, Resolved
<1>7. Alone'
  BY NamesDiffer, <1>1 DEF PullInv, Active, Alone, PullTyped
<1>8. MakesNew'
  BY NamesDiffer, <1>1 DEF PullInv, Active, Alone, MakesNew, PullTyped
<1>9. FillsFromOne'
  BY NamesDiffer, <1>1
     DEF PullInv, Active, Alone, ChosenTag, Downloaded, FillsFromOne, MakesNew, NoDirNoFiles,
         PullTyped, Resolved
<1>10. Uniform'
  BY NamesDiffer, <1>1
     DEF PullInv, Active, Alone, ChosenTag, Downloaded, FillsFromOne, OwnRelease, PullTyped,
         Resolved, Uniform
<1>. QED
  BY <1>2, <1>3, <1>4, <1>5, <1>6, <1>7, <1>8, <1>9, <1>10 DEF PullInv

\* What is written is the release of the tag.
LEMMA WritesFileStep ==
    ASSUME PullInv, NEW p \in Pullers, WritesFile(p)
    PROVE  PullInv'
<1>. USE DEF At, Goes, storeVars, given, chosen, history, WritesFile
<1>1. PICK f \in partial[p] : stored' = [stored EXCEPT ![dst[p]][f] = got[p]]
  OBVIOUS
<1>2. /\ f \in ImageFiles /\ dst[p] \in Releases \cup {Latest, Local} /\ dst[p] # Local /\ stage[p] = "extract"
      /\ got[p] = tag[p] /\ tag[p] \in Releases /\ (dst[p] \in Releases => tag[p] = dst[p])
      /\ UNCHANGED <<stage, dst, tag, concurrent>> /\ Active(p)
  BY <1>1, NamesDiffer DEF PullInv, PullTyped, ChosenTag, Resolved, Downloaded, Active
<1>3. \A d \in Directories, h \in ImageFiles :
        stored'[d][h] = IF d = dst[p] /\ h = f THEN tag[p] ELSE stored[d][h]
  BY <1>1, <1>2, NamesDiffer DEF PullInv, PullTyped
<1>4. \A q \in Pullers : ~concurrent /\ Active(q) => q = p
  BY <1>2 DEF PullInv, Alone
<1>5. PullTyped'
  BY NamesDiffer DEF PullInv, PullTyped, Stages
<1>6. NoDirNoFiles'
  BY NamesDiffer DEF PullInv, MadeBefore, NoDirNoFiles, PullTyped
<1>7. MadeBefore'
  BY NamesDiffer DEF PullInv, MadeBefore, PullTyped
<1>8. ChosenTag'
  BY NamesDiffer DEF PullInv, ChosenTag, Downloaded, PullTyped, Resolved
<1>9. OwnRelease'
  BY NamesDiffer DEF PullInv, ChosenTag, Downloaded, OwnRelease, PullTyped, Resolved
<1>10. Alone'
  BY NamesDiffer DEF PullInv, Active, Alone, PullTyped
<1>11. MakesNew'
  BY NamesDiffer DEF PullInv, Active, Alone, MakesNew, PullTyped
<1>12. FillsFromOne'
  <2>. SUFFICES ASSUME ~concurrent, NEW q \in Pullers, NEW h \in ImageFiles, NEW g \in ImageFiles
                PROVE  /\ stage[q] = "extract" /\ dst[q] = Latest => stored'[Latest][h] \in {Missing, Cut, tag[q]}
                       /\ stage[q] # "copy"
    <3>1. stage' = stage /\ dst' = dst /\ tag' = tag /\ concurrent' = concurrent
      BY <1>2
    <3>. QED
      BY <3>1 DEF FillsFromOne
  <2>1. stage[q] \in {"extract", "copy"} => q = p
    BY <1>4 DEF Active
  <2>. QED
    BY <1>2, <1>3, <2>1, NamesDiffer DEF PullInv, FillsFromOne
<1>13. Uniform'
  <2>. SUFFICES ASSUME ~concurrent, NEW d \in Directories \ {AtPath}, NEW h \in ImageFiles, NEW g \in ImageFiles,
                       stored'[d][h] \in Releases, stored'[d][g] \in Releases
                PROVE  stored'[d][h] = stored'[d][g]
    BY <1>2 DEF Uniform
  <2>1. CASE d # dst[p]
    BY <1>3, <2>1 DEF PullInv, Uniform
  <2>2. CASE d = dst[p] /\ d = Latest
    <3>1. \A k \in ImageFiles : stored[Latest][k] \in {Missing, Cut, tag[p]}
      BY <1>2, <2>2 DEF PullInv, FillsFromOne
    <3>2. stored'[d][h] \in {Missing, Cut, tag[p]} /\ stored'[d][g] \in {Missing, Cut, tag[p]}
      BY <1>3, <2>2, <3>1
    <3>. QED
      BY <3>2, NamesDiffer
  <2>3. CASE d = dst[p] /\ d \in Releases
    BY <1>2, <1>3, <2>3, NamesDiffer DEF PullInv, OwnRelease
  <2>. QED
    BY <1>2, <2>1, <2>2, <2>3
<1>. QED
  BY <1>5, <1>6, <1>7, <1>8, <1>9, <1>10, <1>11, <1>12, <1>13 DEF PullInv

\* What was extracted stays as it is.
LEMMA ExtractedStep ==
    ASSUME PullInv, NEW p \in Pullers, Extracted(p)
    PROVE  PullInv'
<1>. USE DEF At, Goes, storeVars, given, chosen, history, Extracted
<1>1. PullTyped'
  BY NamesDiffer DEF PullInv, PullTyped, Stages
<1>2. NoDirNoFiles'
  BY NamesDiffer DEF PullInv, MadeBefore, NoDirNoFiles, PullTyped
<1>3. MadeBefore'
  BY NamesDiffer DEF PullInv, MadeBefore, PullTyped
<1>4. ChosenTag'
  BY NamesDiffer DEF PullInv, ChosenTag, Downloaded, PullTyped, Resolved
<1>5. OwnRelease'
  BY NamesDiffer DEF PullInv, ChosenTag, Downloaded, OwnRelease, PullTyped, Resolved
<1>6. Alone'
  BY NamesDiffer DEF PullInv, Active, Alone, PullTyped
<1>7. MakesNew'
  BY NamesDiffer DEF PullInv, Active, Alone, MakesNew, PullTyped
<1>8. FillsFromOne'
  BY NamesDiffer
     DEF PullInv, Active, Alone, ChosenTag, Downloaded, FillsFromOne, MakesNew, NoDirNoFiles,
         PullTyped, Resolved
<1>9. Uniform'
  BY NamesDiffer
     DEF PullInv, Active, Alone, ChosenTag, Downloaded, FillsFromOne, OwnRelease, PullTyped,
         Resolved, Uniform
<1>. QED
  BY <1>1, <1>2, <1>3, <1>4, <1>5, <1>6, <1>7, <1>8, <1>9 DEF PullInv

\* A copy is begun only where there is none.
LEMMA LooksForCopyStep ==
    ASSUME PullInv, NEW p \in Pullers, LooksForCopy(p)
    PROVE  PullInv'
<1>. USE DEF At, Goes, storeVars, given, chosen, history, LooksForCopy
<1>1. PullTyped'
  BY NamesDiffer DEF PullInv, PullTyped, Stages
<1>2. NoDirNoFiles'
  BY NamesDiffer DEF PullInv, MadeBefore, NoDirNoFiles, PullTyped
<1>3. MadeBefore'
  BY NamesDiffer DEF PullInv, MadeBefore, PullTyped
<1>4. ChosenTag'
  BY NamesDiffer DEF PullInv, ChosenTag, Downloaded, PullTyped, Resolved
<1>5. OwnRelease'
  BY NamesDiffer DEF PullInv, ChosenTag, Downloaded, OwnRelease, PullTyped, Resolved
<1>6. Alone'
  BY NamesDiffer DEF PullInv, Active, Alone, PullTyped
<1>7. MakesNew'
  BY NamesDiffer DEF PullInv, Active, Alone, MakesNew, PullTyped
<1>8. FillsFromOne'
  BY NamesDiffer
     DEF PullInv, Active, Alone, ChosenTag, Downloaded, FillsFromOne, MakesNew, NoDirNoFiles,
         PullTyped, Resolved
<1>9. Uniform'
  BY NamesDiffer
     DEF PullInv, Active, Alone, ChosenTag, Downloaded, FillsFromOne, OwnRelease, PullTyped,
         Resolved, Uniform
<1>. QED
  BY <1>1, <1>2, <1>3, <1>4, <1>5, <1>6, <1>7, <1>8, <1>9 DEF PullInv

\* The copy is begun without files.
LEMMA MakesCopyStep ==
    ASSUME PullInv, NEW p \in Pullers, MakesCopy(p)
    PROVE  PullInv'
<1>. USE DEF At, Goes, storeVars, given, chosen, history, MakesCopy
<1>1. PullTyped'
  <2>1. todo' \in [Pullers -> SUBSET ImageFiles]
    <3>1. {f \in ImageFiles : stored[dst[p]][f] # Missing} \subseteq ImageFiles
      OBVIOUS
    <3>. QED
      BY <3>1 DEF PullInv, PullTyped
  <2>2. dirs' \subseteq Directories
    BY OwnDirectory DEF PullInv, PullTyped
  <2>3. stage' \in [Pullers -> Stages]
    BY DEF PullInv, PullTyped, Stages
  <2>. QED
    BY <2>1, <2>2, <2>3 DEF PullInv, PullTyped
<1>2. NoDirNoFiles'
  BY NamesDiffer DEF PullInv, MadeBefore, NoDirNoFiles, PullTyped
<1>3. MadeBefore'
  BY NamesDiffer DEF PullInv, MadeBefore, PullTyped
<1>4. ChosenTag'
  BY NamesDiffer DEF PullInv, ChosenTag, Downloaded, PullTyped, Resolved
<1>5. OwnRelease'
  BY NamesDiffer DEF PullInv, ChosenTag, Downloaded, OwnRelease, PullTyped, Resolved
<1>6. Alone'
  BY NamesDiffer DEF PullInv, Active, Alone, PullTyped
<1>7. MakesNew'
  BY NamesDiffer DEF PullInv, Active, Alone, MakesNew, PullTyped
<1>8. FillsFromOne'
  BY NamesDiffer
     DEF PullInv, Active, Alone, ChosenTag, Downloaded, FillsFromOne, MakesNew, NoDirNoFiles,
         PullTyped, Resolved
<1>9. Uniform'
  BY NamesDiffer
     DEF PullInv, Active, Alone, ChosenTag, Downloaded, FillsFromOne, OwnRelease, PullTyped,
         Resolved, Uniform
<1>. QED
  BY <1>1, <1>2, <1>3, <1>4, <1>5, <1>6, <1>7, <1>8, <1>9 DEF PullInv

\* A file of the copy that is being written holds nothing.
LEMMA CopiesFileStep ==
    ASSUME PullInv, NEW p \in Pullers, CopiesFile(p)
    PROVE  PullInv'
<1>. USE DEF At, Goes, storeVars, given, chosen, history, CopiesFile
<1>1. /\ stage[p] = "copy" /\ UNCHANGED <<latest, dirs, wants, copies, dst, tag, got, lastIn, overlapped, concurrent>>
      /\ NextFile(p) \in ImageFiles /\ copies[p] \in {Copied, AtPath}
  BY NextIsToDo DEF PullInv, PullTyped, MadeBefore
<1>2. \/ stage' = [stage EXCEPT ![p] = "failed"] /\ UNCHANGED <<stored, partial, todo>>
      \/ /\ stored' = [stored EXCEPT ![copies[p]][NextFile(p)] = Cut] /\ UNCHANGED stage
         /\ partial' = [partial EXCEPT ![p] = {NextFile(p)}]
         /\ todo' = [todo EXCEPT ![p] = @ \ {NextFile(p)}]
  OBVIOUS
<1>3. \A d \in Directories, h \in ImageFiles : stored'[d][h] \in {stored[d][h], Cut}
  BY <1>1, <1>2, NamesDiffer DEF PullInv, PullTyped
<1>4. \A q \in Pullers : stage'[q] \in {stage[q], "failed"}
  BY <1>2 DEF PullInv, PullTyped
<1>5. PullTyped'
  <2>1. stored' \in [Directories -> [ImageFiles -> Releases \cup {Missing, Cut}]]
    <3>1. stored \in [Directories -> [ImageFiles -> Releases \cup {Missing, Cut}]]
      BY DEF PullInv, PullTyped
    <3>2. CASE UNCHANGED stored
      BY <3>1, <3>2
    <3>3. CASE stored' = [stored EXCEPT ![copies[p]][NextFile(p)] = Cut]
      BY <3>1, <3>3
    <3>. QED
      BY <1>2, <3>2, <3>3
  <2>2. stage' \in [Pullers -> Stages]
    BY <1>2 DEF PullInv, PullTyped, Stages
  <2>3. todo' \in [Pullers -> SUBSET ImageFiles] /\ partial' \in [Pullers -> SUBSET ImageFiles]
    <3>1. todo \in [Pullers -> SUBSET ImageFiles] /\ partial \in [Pullers -> SUBSET ImageFiles]
      BY DEF PullInv, PullTyped
    <3>2. CASE UNCHANGED <<partial, todo>>
      BY <3>1, <3>2
    <3>3. CASE partial' = [partial EXCEPT ![p] = {NextFile(p)}] /\ todo' = [todo EXCEPT ![p] = @ \ {NextFile(p)}]
      BY <1>1, <3>1, <3>3
    <3>. QED
      BY <1>2, <3>2, <3>3
  <2>. QED
    BY <1>1, <2>1, <2>2, <2>3 DEF PullInv, PullTyped
<1>6. NoDirNoFiles'
  BY NamesDiffer, <1>1 DEF PullInv, MadeBefore, NoDirNoFiles, PullTyped
<1>7. MadeBefore'
  BY NamesDiffer, <1>1 DEF PullInv, MadeBefore, PullTyped
<1>8. ChosenTag'
  BY NamesDiffer, <1>1 DEF PullInv, ChosenTag, Downloaded, PullTyped, Resolved
<1>9. OwnRelease'
  BY NamesDiffer, <1>1 DEF PullInv, ChosenTag, Downloaded, OwnRelease, PullTyped, Resolved
<1>10. Alone'
  BY NamesDiffer, <1>1 DEF PullInv, Active, Alone, PullTyped
<1>11. MakesNew'
  BY NamesDiffer, <1>1 DEF PullInv, Active, Alone, MakesNew, PullTyped
<1>12. FillsFromOne'
  <2>. SUFFICES ASSUME ~concurrent, NEW q \in Pullers, NEW h \in ImageFiles, NEW g \in ImageFiles
                PROVE  /\ stage'[q] = "extract" /\ dst[q] = Latest => stored'[Latest][h] \in {Missing, Cut, tag[q]}
                       /\ stage'[q] = "copy" /\ copies[q] = Copied =>
                            (stored'[Copied][h] \in Releases /\ stored'[dst[q]][g] \in Releases
                              => stored'[Copied][h] = stored'[dst[q]][g])
    BY <1>1 DEF FillsFromOne
  <2>1. dst[q] \in Directories
    BY NamesDiffer DEF PullInv, PullTyped
  <2>2. /\ stored'[Latest][h] \in {stored[Latest][h], Cut} /\ stored'[Copied][h] \in {stored[Copied][h], Cut}
        /\ stored'[dst[q]][g] \in {stored[dst[q]][g], Cut} /\ Cut \notin Releases
    BY <1>3, <2>1, NamesDiffer
  <2>3. stage'[q] = "extract" => stage[q] = "extract"
    BY <1>4
  <2>4. stage'[q] = "copy" => stage[q] = "copy"
    BY <1>4
  <2>. QED
    BY <2>2, <2>3, <2>4, NamesDiffer DEF PullInv, FillsFromOne
<1>13. Uniform'
  BY <1>1, <1>3, NamesDiffer DEF PullInv, Uniform
<1>. QED
  BY <1>5, <1>6, <1>7, <1>8, <1>9, <1>10, <1>11, <1>12, <1>13 DEF PullInv

\* What is copied is what the directory holds, of one release.
LEMMA WritesCopyStep ==
    ASSUME PullInv, NEW p \in Pullers, WritesCopy(p)
    PROVE  PullInv'
<1>. USE DEF At, Goes, storeVars, given, chosen, history, WritesCopy
<1>1. PICK f \in partial[p] : stored' = [stored EXCEPT ![copies[p]][f] = stored[dst[p]][f]]
  OBVIOUS
<1>2. /\ f \in ImageFiles /\ dst[p] \in Directories /\ stage[p] = "copy"
      /\ copies[p] \in {Copied, AtPath} /\ dst[p] \notin {Copied, AtPath}
      /\ UNCHANGED <<stage, dst, tag, copies, concurrent>> /\ Active(p)
  BY <1>1, NamesDiffer DEF PullInv, PullTyped, MadeBefore, Active
<1>3. \A d \in Directories, h \in ImageFiles :
        stored'[d][h] = IF d = copies[p] /\ h = f THEN stored[dst[p]][f] ELSE stored[d][h]
  BY <1>1, <1>2, NamesDiffer DEF PullInv, PullTyped
<1>4. \A q \in Pullers : ~concurrent /\ Active(q) => q = p
  BY <1>2 DEF PullInv, Alone
<1>5. PullTyped'
  <2>1. stored[dst[p]][f] \in Releases \cup {Missing, Cut}
    BY <1>2 DEF PullInv, PullTyped
  <2>2. stored' \in [Directories -> [ImageFiles -> Releases \cup {Missing, Cut}]]
    BY <1>1, <2>1 DEF PullInv, PullTyped
  <2>3. partial' \in [Pullers -> SUBSET ImageFiles]
    BY DEF PullInv, PullTyped
  <2>. QED
    BY <2>2, <2>3 DEF PullInv, PullTyped
<1>6. NoDirNoFiles'
  BY NamesDiffer DEF PullInv, MadeBefore, NoDirNoFiles, PullTyped
<1>7. MadeBefore'
  BY NamesDiffer DEF PullInv, MadeBefore, PullTyped
<1>8. ChosenTag'
  BY NamesDiffer DEF PullInv, ChosenTag, Downloaded, PullTyped, Resolved
<1>9. OwnRelease'
  BY <1>2, <1>3, NamesDiffer DEF PullInv, OwnRelease
<1>10. Alone'
  BY NamesDiffer DEF PullInv, Active, Alone, PullTyped
<1>11. MakesNew'
  BY NamesDiffer DEF PullInv, Active, Alone, MakesNew, PullTyped
<1>12. FillsFromOne'
  <2>. SUFFICES ASSUME ~concurrent, NEW q \in Pullers, NEW h \in ImageFiles, NEW g \in ImageFiles
                PROVE  /\ stage[q] # "extract"
                       /\ stage[q] = "copy" /\ copies[q] = Copied =>
                            (stored'[Copied][h] \in Releases /\ stored'[dst[q]][g] \in Releases
                              => stored'[Copied][h] = stored'[dst[q]][g])
    BY <1>2 DEF FillsFromOne
  <2>1. stage[q] \in {"extract", "copy"} => q = p
    BY <1>4 DEF Active
  <2>2. /\ copies[p] = Copied => stored'[Copied][h] = IF h = f THEN stored[dst[p]][f] ELSE stored[Copied][h]
        /\ stored'[dst[p]][g] = stored[dst[p]][g]
    BY <1>2, <1>3, NamesDiffer
  <2>. QED
    BY <1>2, <2>1, <2>2, NamesDiffer DEF PullInv, FillsFromOne, Uniform
<1>13. Uniform'
  <2>. SUFFICES ASSUME ~concurrent, NEW d \in Directories \ {AtPath}, NEW h \in ImageFiles, NEW g \in ImageFiles,
                       stored'[d][h] \in Releases, stored'[d][g] \in Releases
                PROVE  stored'[d][h] = stored'[d][g]
    BY <1>2 DEF Uniform
  <2>1. CASE d # copies[p]
    BY <1>3, <2>1 DEF PullInv, Uniform
  <2>2. CASE d = copies[p]
    <3>1. copies[p] = Copied
      BY <1>2, <2>2
    <3>2. \A k \in {h, g} : stored'[Copied][k] = IF k = f THEN stored[dst[p]][f] ELSE stored[Copied][k]
      BY <1>3, <2>2, <3>1, NamesDiffer
    <3>. QED
      BY <1>2, <2>2, <3>1, <3>2 DEF PullInv, FillsFromOne, Uniform
  <2>. QED
    BY <2>1, <2>2
<1>. QED
  BY <1>5, <1>6, <1>7, <1>8, <1>9, <1>10, <1>11, <1>12, <1>13 DEF PullInv

\* What was copied stays as it is.
LEMMA CopiedAllStep ==
    ASSUME PullInv, NEW p \in Pullers, CopiedAll(p)
    PROVE  PullInv'
<1>. USE DEF At, Goes, storeVars, given, chosen, history, CopiedAll
<1>1. PullTyped'
  BY NamesDiffer DEF PullInv, PullTyped, Stages
<1>2. NoDirNoFiles'
  BY NamesDiffer DEF PullInv, MadeBefore, NoDirNoFiles, PullTyped
<1>3. MadeBefore'
  BY NamesDiffer DEF PullInv, MadeBefore, PullTyped
<1>4. ChosenTag'
  BY NamesDiffer DEF PullInv, ChosenTag, Downloaded, PullTyped, Resolved
<1>5. OwnRelease'
  BY NamesDiffer DEF PullInv, ChosenTag, Downloaded, OwnRelease, PullTyped, Resolved
<1>6. Alone'
  BY NamesDiffer DEF PullInv, Active, Alone, PullTyped
<1>7. MakesNew'
  BY NamesDiffer DEF PullInv, Active, Alone, MakesNew, PullTyped
<1>8. FillsFromOne'
  <2>1. UNCHANGED <<stored, dst, tag, copies, concurrent>> /\ stage' \in [Pullers -> Stages]
    BY <1>1 DEF PullTyped
  <2>2. \A q \in Pullers : stage'[q] \in {"extract", "copy"} => stage[q] = stage'[q]
    BY DEF PullInv, PullTyped
  <2>. QED
    BY <2>1, <2>2 DEF PullInv, FillsFromOne
<1>9. Uniform'
  BY DEF PullInv, Uniform
<1>. QED
  BY <1>1, <1>2, <1>3, <1>4, <1>5, <1>6, <1>7, <1>8, <1>9 DEF PullInv

\* What fails leaves all as it is.
LEMMA PullFailsStep ==
    ASSUME PullInv, NEW p \in Pullers, PullFails(p)
    PROVE  PullInv'
<1>. USE DEF At, Goes, storeVars, given, chosen, history, PullFails
<1>1. PullTyped'
  BY NamesDiffer DEF PullInv, PullTyped, Stages
<1>2. NoDirNoFiles'
  BY NamesDiffer DEF PullInv, MadeBefore, NoDirNoFiles, PullTyped
<1>3. MadeBefore'
  BY NamesDiffer DEF PullInv, MadeBefore, PullTyped
<1>4. ChosenTag'
  BY NamesDiffer DEF PullInv, ChosenTag, Downloaded, PullTyped, Resolved
<1>5. OwnRelease'
  BY NamesDiffer DEF PullInv, ChosenTag, Downloaded, OwnRelease, PullTyped, Resolved
<1>6. Alone'
  BY NamesDiffer DEF PullInv, Active, Alone, PullTyped
<1>7. MakesNew'
  BY NamesDiffer DEF PullInv, Active, Alone, MakesNew, PullTyped
<1>8. FillsFromOne'
  <2>1. UNCHANGED <<stored, dst, tag, copies, concurrent>> /\ stage' \in [Pullers -> Stages]
    BY <1>1 DEF PullTyped
  <2>2. \A q \in Pullers : stage'[q] \in {"extract", "copy"} => stage[q] = stage'[q]
    BY DEF PullInv, PullTyped
  <2>. QED
    BY <2>1, <2>2 DEF PullInv, FillsFromOne
<1>9. Uniform'
  BY DEF PullInv, Uniform
<1>. QED
  BY <1>1, <1>2, <1>3, <1>4, <1>5, <1>6, <1>7, <1>8, <1>9 DEF PullInv

LEMMA PullInvStep == PullInv /\ [PullNext]_pullVars => PullInv'
<1>. SUFFICES ASSUME PullInv, [PullNext]_pullVars PROVE PullInv'
  OBVIOUS
<1>1. CASE Publishes \/ UNCHANGED pullVars
  <2>1. /\ UNCHANGED <<dirs, stored, wants, copies, stage, dst, tag, got, todo, partial, concurrent>>
        /\ latest' \in 1..Len(Published)
    BY <1>1, LenProperties, PullAssumption
       DEF Publishes, pullVars, storeVars, given, chosen, history, PullInv, PullTyped
  <2>2. PullTyped' /\ NoDirNoFiles' /\ MadeBefore'
    BY <2>1 DEF PullInv, PullTyped, NoDirNoFiles, MadeBefore
  <2>3. ChosenTag' /\ OwnRelease' /\ Alone'
    BY <2>1 DEF PullInv, ChosenTag, Resolved, Downloaded, OwnRelease, Alone, Active
  <2>4. MakesNew' /\ FillsFromOne' /\ Uniform'
    BY <2>1 DEF PullInv, MakesNew, FillsFromOne, Uniform
  <2>. QED
    BY <2>2, <2>3, <2>4 DEF PullInv
<1>. QED
  BY <1>1, LooksStep, ResolvesStep, DownloadsStep, MakesStep, SkipsEntryStep, ExtractsFileStep, WritesFileStep, ExtractedStep,
     LooksForCopyStep, MakesCopyStep, CopiesFileStep, WritesCopyStep, CopiedAllStep, PullFailsStep
     DEF PullNext, PullStep

\* A directory of the store that is named for a tag never holds a file of
\* another release, and no directory of it holds files of two unless two pulls
\* have run at one time: whatever pull.go left behind where it failed.
THEOREM KeepsReleasesApart == PullSpec => []OneRelease
<1>1. PullInv => OneRelease
  BY DEF PullInv, OwnRelease, Uniform, OneRelease
<1>. QED
  BY <1>1, PullInitInv, PullInvStep, PTL DEF PullSpec

----------------------------------------------------------------------------
(* pull: what a command leaves where it was alone *)

\* A command is writing the files of a directory.
Fills(p, d) ==
    \/ stage[p] = "extract" /\ d = dst[p]
    \/ stage[p] = "copy" /\ d = copies[p]

\* What the proof needs to know of the history.
HistoryTyped ==
    /\ lastIn \in [Directories -> SUBSET Pullers]
    /\ overlapped \subseteq Pullers
    /\ \A p \in Pullers : \A f, g \in partial[p] : f = g

\* Who was the last to begin in a directory that another still fills has met it.
LastMeets ==
    \A p, q \in Pullers, d \in Directories :
      p # q /\ Fills(q, d) /\ lastIn[d] = {p} => p \in overlapped

\* Nobody has begun in the directory since, or worked there at the same time.
Undisturbed(p, d) == p \notin overlapped /\ lastIn[d] = {p}

\* Where a command was undisturbed there are the regular files that it has put
\* there so far: in the directory of the image, and then in the copy of that.
Extracts(p) ==
    Undisturbed(p, dst[p]) =>
      /\ stage[p] = "extract" =>
           \A f \in RegularFiles(tag[p]) : f \in todo[p] \/ f \in partial[p] \/ stored[dst[p]][f] = tag[p]
      /\ stage[p] \in {"lookCopy", "makeCopy", "copy", "done"} =>
           \A f \in RegularFiles(tag[p]) : stored[dst[p]][f] = tag[p]
Copies(p) ==
    Undisturbed(p, dst[p]) /\ Undisturbed(p, copies[p]) =>
      /\ stage[p] = "copy" =>
           \A f \in RegularFiles(tag[p]) : f \in todo[p] \/ f \in partial[p] \/ stored[copies[p]][f] = tag[p]
      /\ stage[p] = "done" /\ copies[p] # NoCopy => \A f \in RegularFiles(tag[p]) : stored[copies[p]][f] = tag[p]

PlacedSoFar == \A p \in Pullers : Extracts(p) /\ Copies(p)

WholeInv == PullInv /\ HistoryTyped /\ LastMeets /\ PlacedSoFar

LEMMA HistoryStep == ASSUME PullInv, HistoryTyped, [PullNext]_pullVars PROVE HistoryTyped'
<1>. USE DEF HistoryTyped, storeVars, given, chosen, history, Goes, At
<1>1. partial \in [Pullers -> SUBSET ImageFiles]
  BY DEF PullInv, PullTyped
<1>2. ASSUME NEW p \in Pullers, Makes(p) \/ MakesCopy(p) PROVE HistoryTyped'
  <2>1. PICK d \in Directories : lastIn' = [lastIn EXCEPT ![d] = {p}]
    BY <1>2, OwnDirectory DEF Makes, MakesCopy
  <2>2. partial' = partial /\ overlapped' \subseteq Pullers
    BY <1>2 DEF Makes, MakesCopy, Meets
  <2>. QED
    BY <2>1, <2>2
<1>3. ASSUME NEW p \in Pullers, ExtractsFile(p) \/ CopiesFile(p) PROVE HistoryTyped'
  <2>1. UNCHANGED <<lastIn, overlapped>> /\ (partial' = partial \/ \E f : partial' = [partial EXCEPT ![p] = {f}])
    BY <1>3 DEF ExtractsFile, CopiesFile
  <2>. QED
    BY <1>1, <2>1
<1>4. ASSUME NEW p \in Pullers, WritesFile(p) \/ WritesCopy(p) PROVE HistoryTyped'
  <2>1. UNCHANGED <<lastIn, overlapped>> /\ partial' = [partial EXCEPT ![p] = {}]
    BY <1>4 DEF WritesFile, WritesCopy
  <2>. QED
    BY <1>1, <2>1
<1>5. CASE UNCHANGED <<lastIn, overlapped, partial>>
  BY <1>5
<1>6. ASSUME NEW p \in Pullers,
             \/ Looks(p) \/ Resolves(p) \/ Downloads(p) \/ SkipsEntry(p) \/ Extracted(p)
             \/ LooksForCopy(p) \/ CopiedAll(p) \/ PullFails(p)
      PROVE  HistoryTyped'
  BY <1>5, <1>6 DEF Looks, Resolves, Downloads, SkipsEntry, Extracted, LooksForCopy, CopiedAll, PullFails
<1>7. CASE Publishes \/ UNCHANGED pullVars
  BY <1>5, <1>7 DEF Publishes, pullVars
<1>. QED
  BY <1>2, <1>3, <1>4, <1>6, <1>7 DEF PullNext, PullStep

\* What a step of q does to the directories: it may begin in one, and then q is
\* the last there and has met those that fill it; and it writes where it fills.
LEMMA StepInDirectories ==
    ASSUME PullInv, HistoryTyped, NEW q \in Pullers, PullStep(q)
    PROVE  /\ overlapped \subseteq overlapped'
           /\ \A p \in Pullers \ {q} : /\ stage'[p] = stage[p] /\ dst'[p] = dst[p] /\ tag'[p] = tag[p]
                                       /\ todo'[p] = todo[p] /\ partial'[p] = partial[p]
           /\ copies' = copies
           /\ \A d \in Directories :
                \/ lastIn'[d] = lastIn[d] /\ (Fills(q, d)' => Fills(q, d))
                \/ lastIn'[d] = {q} /\ \A p \in Pullers \ {q} : Fills(p, d) => q \in overlapped'
           /\ \A d \in Directories : Fills(q, d) \/ \A f \in ImageFiles : stored'[d][f] = stored[d][f]
<1>. USE DEF storeVars, given, chosen, history, Goes, At
<1>0. /\ stage \in [Pullers -> Stages] /\ dst \in [Pullers -> Releases \cup {Latest, Local}]
      /\ tag \in [Pullers -> Releases \cup {NoTag}] /\ todo \in [Pullers -> SUBSET ImageFiles]
      /\ partial \in [Pullers -> SUBSET ImageFiles]
      /\ stored \in [Directories -> [ImageFiles -> Releases \cup {Missing, Cut}]]
      /\ lastIn \in [Directories -> SUBSET Pullers]
  BY DEF PullInv, PullTyped, HistoryTyped
<1>1. /\ dst[q] \in Directories /\ dst[q] # copies[q]
      /\ stage[q] \in {"makeCopy", "copy"} => copies[q] \in Directories
  BY OwnDirectory
<1>2. overlapped \subseteq overlapped' /\ copies' = copies
  BY DEF PullStep, Looks, Resolves, Downloads, Makes, Meets, SkipsEntry, ExtractsFile, WritesFile, Extracted, LooksForCopy,
     MakesCopy, CopiesFile, WritesCopy, CopiedAll, PullFails
<1>3. \A p \in Pullers \ {q} : /\ stage'[p] = stage[p] /\ dst'[p] = dst[p] /\ tag'[p] = tag[p]
                               /\ todo'[p] = todo[p] /\ partial'[p] = partial[p]
  BY <1>0 DEF PullStep, Looks, Resolves, Downloads, Makes, SkipsEntry, ExtractsFile, WritesFile, Extracted, LooksForCopy,
     MakesCopy, CopiesFile, WritesCopy, CopiedAll, PullFails
<1>4. ASSUME NEW d \in Directories
      PROVE  Fills(q, d) \/ \A f \in ImageFiles : stored'[d][f] = stored[d][f]
  <2>1. CASE stored' = stored
    BY <2>1
  <2>2. CASE ExtractsFile(q) \/ WritesFile(q)
    <3>1. stage[q] = "extract" /\ \E f, x : stored' = [stored EXCEPT ![dst[q]][f] = x]
      BY <2>2 DEF ExtractsFile, WritesFile
    <3>. QED
      BY <1>0, <3>1 DEF Fills
  <2>3. CASE CopiesFile(q) \/ WritesCopy(q)
    <3>1. stage[q] = "copy" /\ (stored' = stored \/ \E f, x : stored' = [stored EXCEPT ![copies[q]][f] = x])
      BY <2>3 DEF CopiesFile, WritesCopy
    <3>. QED
      BY <1>0, <3>1 DEF Fills
  <2>. QED
    BY <2>1, <2>2, <2>3 DEF PullStep, Looks, Resolves, Downloads, Makes, SkipsEntry, Extracted, LooksForCopy,
       MakesCopy, CopiedAll, PullFails
<1>5. ASSUME NEW d \in Directories
      PROVE  \/ lastIn'[d] = lastIn[d] /\ (Fills(q, d)' => Fills(q, d))
             \/ lastIn'[d] = {q} /\ \A p \in Pullers \ {q} : Fills(p, d) => q \in overlapped'
  <2>1. CASE Makes(q)
    <3>1. lastIn' = [lastIn EXCEPT ![dst[q]] = {q}] /\ dst' = dst /\ stage'[q] = "extract" /\ Meets(q, {dst[q]})
      BY <1>0, <2>1 DEF Makes
    <3>2. CASE d = dst[q]
      BY <1>0, <3>1, <3>2 DEF Fills, Meets, Uses
    <3>3. CASE d # dst[q]
      BY <1>0, <3>1, <3>3 DEF Fills
    <3>. QED
      BY <3>2, <3>3
  <2>2. CASE MakesCopy(q)
    <3>1. lastIn' = [lastIn EXCEPT ![copies[q]] = {q}] /\ dst' = dst /\ copies' = copies /\ stage'[q] = "copy" /\ Meets(q, {dst[q], copies[q]})
      BY <1>0, <2>2 DEF MakesCopy
    <3>2. CASE d = copies[q]
      BY <1>0, <1>1, <3>1, <3>2 DEF Fills, Meets, Uses
    <3>3. CASE d # copies[q]
      BY <1>0, <1>1, <3>1, <3>3 DEF Fills
    <3>. QED
      BY <3>2, <3>3
  <2>3. CASE ~Makes(q) /\ ~MakesCopy(q)
    <3>1. lastIn' = lastIn
      BY <2>3 DEF PullStep, Looks, Resolves, Downloads, SkipsEntry, ExtractsFile, WritesFile, Extracted, LooksForCopy,
         CopiesFile, WritesCopy, CopiedAll, PullFails
    <3>2. stage'[q] \in {"extract", "copy"} => stage'[q] = stage[q] /\ dst'[q] = dst[q]
      BY <1>0, <2>3 DEF PullStep, Looks, Resolves, Downloads, SkipsEntry, ExtractsFile, WritesFile, Extracted, LooksForCopy,
         CopiesFile, WritesCopy, CopiedAll, PullFails
    <3>. QED
      BY <1>2, <3>1, <3>2 DEF Fills
  <2>. QED
    BY <2>1, <2>2, <2>3
<1>. QED
  BY <1>2, <1>3, <1>4, <1>5

LEMMA LastMeetsStep == ASSUME WholeInv, [PullNext]_pullVars PROVE LastMeets'
<1>1. CASE Publishes \/ UNCHANGED pullVars
  BY <1>1 DEF WholeInv, LastMeets, Fills, Publishes, pullVars, storeVars, given, chosen, history
<1>2. ASSUME NEW r \in Pullers, PullStep(r) PROVE LastMeets'
  <2>. SUFFICES ASSUME NEW p \in Pullers, NEW q \in Pullers, NEW d \in Directories,
                       p # q, Fills(q, d)', lastIn'[d] = {p}
                PROVE  p \in overlapped'
    BY DEF LastMeets
  <2>1. overlapped \subseteq overlapped' /\ (q # r => Fills(q, d))
    BY <1>2, StepInDirectories DEF WholeInv, Fills
  <2>2. \/ lastIn'[d] = lastIn[d] /\ (Fills(r, d)' => Fills(r, d))
        \/ lastIn'[d] = {r} /\ (q # r => (Fills(q, d) => r \in overlapped'))
    BY <1>2, StepInDirectories DEF WholeInv
  <2>3. CASE lastIn'[d] = lastIn[d] /\ (Fills(r, d)' => Fills(r, d))
    BY <2>1, <2>3 DEF WholeInv, LastMeets
  <2>4. CASE lastIn'[d] = {r} /\ (q # r => (Fills(q, d) => r \in overlapped'))
    BY <2>1, <2>4
  <2>. QED
    BY <2>2, <2>3, <2>4
<1>. QED
  BY <1>1, <1>2 DEF PullNext

\* A step of another command leaves a directory alone that stays undisturbed.
LEMMA OthersLeaveAlone ==
    ASSUME WholeInv, NEW p \in Pullers, NEW q \in Pullers, p # q, PullStep(q),
           NEW d \in Directories, Undisturbed(p, d)'
    PROVE  Undisturbed(p, d) /\ \A f \in ImageFiles : stored'[d][f] = stored[d][f]
<1>1. /\ overlapped \subseteq overlapped'
      /\ lastIn'[d] = lastIn[d] \/ lastIn'[d] = {q}
      /\ Fills(q, d) \/ \A f \in ImageFiles : stored'[d][f] = stored[d][f]
  BY StepInDirectories DEF WholeInv
<1>2. Undisturbed(p, d)
  BY <1>1 DEF Undisturbed
<1>3. ~Fills(q, d)
  BY <1>2 DEF Undisturbed, WholeInv, LastMeets
<1>. QED
  BY <1>1, <1>2, <1>3

LEMMA PlacedStep == ASSUME WholeInv, [PullNext]_pullVars PROVE PlacedSoFar'
<1>. USE DEF storeVars, given, chosen, history, Goes, At
<1>0. /\ stage \in [Pullers -> Stages] /\ dst \in [Pullers -> Releases \cup {Latest, Local}]
      /\ tag \in [Pullers -> Releases \cup {NoTag}] /\ todo \in [Pullers -> SUBSET ImageFiles]
      /\ partial \in [Pullers -> SUBSET ImageFiles]
      /\ stored \in [Directories -> [ImageFiles -> Releases \cup {Missing, Cut}]]
  BY DEF WholeInv, PullInv, PullTyped
<1>1. CASE Publishes \/ UNCHANGED pullVars
  BY <1>1 DEF WholeInv, PlacedSoFar, Extracts, Copies, Undisturbed, Publishes, pullVars
<1>2. ASSUME NEW q \in Pullers, PullStep(q), NEW p \in Pullers, p # q PROVE Extracts(p)' /\ Copies(p)'
  <2>1. /\ stage'[p] = stage[p] /\ dst'[p] = dst[p] /\ tag'[p] = tag[p]
        /\ todo'[p] = todo[p] /\ partial'[p] = partial[p] /\ copies' = copies
    BY <1>2, StepInDirectories DEF WholeInv
  <2>2. dst[p] \in Directories /\ (copies[p] # NoCopy => copies[p] \in Directories) /\ RegularFiles(tag[p]) \subseteq ImageFiles
        /\ (stage[p] = "copy" => copies[p] # NoCopy)
    BY OwnDirectory DEF WholeInv, RegularFiles
  <2>3. Undisturbed(p, dst[p])' =>
          Undisturbed(p, dst[p]) /\ \A f \in ImageFiles : stored'[dst[p]][f] = stored[dst[p]][f]
    <3>1. PICK d \in Directories : d = dst[p]
      BY <2>2
    <3>2. Undisturbed(p, d)' => Undisturbed(p, d) /\ \A f \in ImageFiles : stored'[d][f] = stored[d][f]
      BY <1>2, OthersLeaveAlone
    <3>. QED
      BY <2>1, <3>1, <3>2 DEF Undisturbed
  <2>4. ASSUME copies[p] # NoCopy, Undisturbed(p, copies[p])'
        PROVE  Undisturbed(p, copies[p]) /\ \A f \in ImageFiles : stored'[copies[p]][f] = stored[copies[p]][f]
    <3>1. PICK d \in Directories : d = copies[p]
      BY <2>2, <2>4
    <3>2. Undisturbed(p, d)' => Undisturbed(p, d) /\ \A f \in ImageFiles : stored'[d][f] = stored[d][f]
      BY <1>2, OthersLeaveAlone
    <3>. QED
      BY <2>1, <2>4, <3>1, <3>2 DEF Undisturbed
  <2>5. Extracts(p) /\ Copies(p)
    BY DEF WholeInv, PlacedSoFar
  <2>6. Extracts(p)'
    BY <2>1, <2>2, <2>3, <2>5 DEF Extracts
  <2>7. Copies(p)'
    BY <2>1, <2>2, <2>3, <2>4, <2>5 DEF Copies
  <2>. QED
    BY <2>6, <2>7
<1>3. ASSUME NEW p \in Pullers, PullStep(p) PROVE Extracts(p)' /\ Copies(p)'
  <2>. DEFINE d == dst[p]
  <2>1. /\ d \in Directories /\ d # copies[p]
        /\ stage[p] \in {"makeCopy", "copy"} => copies[p] \in Directories
        /\ RegularFiles(tag[p]) \subseteq ImageFiles
    BY OwnDirectory DEF WholeInv, RegularFiles
  <2>2. Extracts(p) /\ Copies(p)
    BY DEF WholeInv, PlacedSoFar
  <2>3. \A f, g \in partial[p] : f = g
    BY DEF WholeInv, HistoryTyped
  <2>4. CASE Makes(p)
    <3>1. /\ stage'[p] = "extract" /\ dst' = dst /\ todo'[p] = ImageFiles
      BY <1>0, <2>4 DEF Makes
    <3>. QED
      BY <2>1, <3>1 DEF Extracts, Copies, RegularFiles
  <2>5. CASE MakesCopy(p)
    <3>1. /\ stage[p] = "makeCopy" /\ stage'[p] = "copy" /\ UNCHANGED <<stored, dst, tag, copies>>
          /\ todo'[p] = {f \in ImageFiles : stored[dst[p]][f] # Missing}
          /\ overlapped \subseteq overlapped' /\ lastIn' = [lastIn EXCEPT ![copies[p]] = {p}]
          /\ tag[p] \in Releases /\ Missing \notin Releases
      BY <1>0, <2>5, NamesDiffer DEF MakesCopy, Meets, WholeInv, PullInv, ChosenTag, Resolved
    <3>2. lastIn'[dst[p]] = lastIn[dst[p]]
      BY <2>1, <3>1 DEF WholeInv, HistoryTyped
    <3>. QED
      BY <2>1, <2>2, <3>1, <3>2 DEF Extracts, Copies, Undisturbed
  <2>6. CASE Looks(p) \/ Resolves(p) \/ Downloads(p) \/ LooksForCopy(p) \/ PullFails(p)
    <3>1. stage'[p] \in {"resolve", "download", "make", "failed"} \/ LooksForCopy(p)
      BY <1>0, <2>6 DEF Looks, Resolves, Downloads, PullFails
    <3>2. CASE stage'[p] \in {"resolve", "download", "make", "failed"}
      BY <3>2 DEF Extracts, Copies
    <3>3. CASE LooksForCopy(p)
      <4>1. /\ stage[p] = "lookCopy" /\ stage'[p] \in {"failed", "makeCopy"}
            /\ UNCHANGED <<stored, dst, tag, todo, partial, overlapped, lastIn, copies>>
        BY <1>0, <3>3 DEF LooksForCopy
      <4>. QED
        BY <2>2, <4>1 DEF Extracts, Copies, Undisturbed
    <3>. QED
      BY <3>1, <3>2, <3>3
  <2>7. CASE Extracted(p) \/ CopiedAll(p)
    <3>1. /\ todo[p] = {} /\ partial[p] = {} /\ UNCHANGED <<stored, dst, tag, overlapped, lastIn, copies>>
          /\ \/ stage[p] = "extract" /\ stage'[p] = "lookCopy"
             \/ stage[p] = "extract" /\ stage'[p] = "done" /\ copies[p] = NoCopy
             \/ stage[p] = "copy" /\ stage'[p] = "done"
      BY <1>0, <2>7 DEF Extracted, CopiedAll
    <3>. QED
      BY <2>2, <3>1 DEF Extracts, Copies, Undisturbed
  <2>8. CASE ExtractsFile(p)
    <3>1. PICK n \in ImageFiles : n = NextFile(p)
      BY <2>8, NextIsToDo DEF ExtractsFile, WholeInv, PullInv
    <3>2. /\ stage[p] = "extract" /\ UNCHANGED <<stage, dst, tag, overlapped, lastIn, copies>>
          /\ partial[p] = {} /\ partial'[p] = {n} /\ todo'[p] = todo[p] \ {n}
          /\ \A f \in ImageFiles : f # n => stored'[dst[p]][f] = stored[dst[p]][f]
      BY <1>0, <2>1, <2>8, <3>1 DEF ExtractsFile
    <3>. QED
      BY <2>1, <2>2, <3>2 DEF Extracts, Copies, Undisturbed
  <2>9. CASE SkipsEntry(p)
    <3>1. /\ stage[p] = "extract" /\ UNCHANGED <<stage, dst, tag, stored, partial, overlapped, lastIn, copies>>
          /\ NextFile(p) \notin RegularFiles(tag[p]) /\ todo'[p] = todo[p] \ {NextFile(p)}
      BY <1>0, <2>9 DEF SkipsEntry, RegularFiles, WholeInv, PullInv, ChosenTag, Downloaded, Resolved
    <3>. QED
      BY <2>2, <3>1 DEF Extracts, Copies, Undisturbed
  <2>10. CASE WritesFile(p)
    <3>1. PICK n \in partial[p] : stored' = [stored EXCEPT ![dst[p]][n] = got[p]]
      BY <2>10 DEF WritesFile
    <3>2. n \in ImageFiles /\ got[p] = tag[p]
      BY <1>0, <2>10 DEF WritesFile, WholeInv, PullInv, ChosenTag, Downloaded, Resolved
    <3>3. /\ stage[p] = "extract" /\ UNCHANGED <<stage, dst, tag, overlapped, lastIn, copies, todo>>
          /\ partial'[p] = {}
          /\ \A f \in ImageFiles : stored'[dst[p]][f] = IF f = n THEN tag[p] ELSE stored[dst[p]][f]
      BY <1>0, <2>1, <2>10, <3>1, <3>2 DEF WritesFile
    <3>. QED
      BY <2>1, <2>2, <2>3, <3>3 DEF Extracts, Copies, Undisturbed
  <2>11. CASE CopiesFile(p)
    <3>1. PICK n \in ImageFiles : n = NextFile(p)
      BY <2>11, NextIsToDo DEF CopiesFile, WholeInv, PullInv
    <3>2. CASE stored[copies[p]][n] # Missing
      <4>1. stage'[p] = "failed"
        BY <1>0, <2>11, <3>1, <3>2 DEF CopiesFile
      <4>. QED
        BY <4>1 DEF Extracts, Copies
    <3>3. CASE stored[copies[p]][n] = Missing
      <4>1. /\ stage[p] = "copy" /\ UNCHANGED <<stage, dst, tag, overlapped, lastIn, copies>>
            /\ partial[p] = {} /\ partial'[p] = {n} /\ todo'[p] = todo[p] \ {n}
            /\ \A f \in ImageFiles : f # n => stored'[copies[p]][f] = stored[copies[p]][f]
            /\ stored'[dst[p]] = stored[dst[p]]
        BY <1>0, <2>1, <2>11, <3>1, <3>3 DEF CopiesFile
      <4>. QED
        BY <2>1, <2>2, <4>1 DEF Extracts, Copies, Undisturbed
    <3>. QED
      BY <3>2, <3>3
  <2>12. CASE WritesCopy(p)
    <3>1. PICK n \in partial[p] : stored' = [stored EXCEPT ![copies[p]][n] = stored[dst[p]][n]]
      BY <2>12 DEF WritesCopy
    <3>2. n \in ImageFiles
      BY <1>0
    <3>3. /\ stage[p] = "copy" /\ UNCHANGED <<stage, dst, tag, overlapped, lastIn, copies, todo>>
          /\ partial'[p] = {} /\ stored'[dst[p]] = stored[dst[p]]
          /\ \A f \in ImageFiles : stored'[copies[p]][f] = IF f = n THEN stored[dst[p]][n] ELSE stored[copies[p]][f]
      BY <1>0, <2>1, <2>12, <3>1, <3>2 DEF WritesCopy
    <3>. QED
      BY <2>1, <2>2, <2>3, <3>2, <3>3 DEF Extracts, Copies, Undisturbed
  <2>. QED
    BY <1>3, <2>4, <2>5, <2>6, <2>7, <2>8, <2>9, <2>10, <2>11, <2>12 DEF PullStep
<1>4. ASSUME NEW q \in Pullers, PullStep(q) PROVE PlacedSoFar'
  BY <1>2, <1>3, <1>4 DEF PlacedSoFar
<1>. QED
  BY <1>1, <1>4 DEF PullNext

LEMMA WholeStart == PullInit => WholeInv
<1>. SUFFICES ASSUME PullInit PROVE HistoryTyped /\ LastMeets /\ PlacedSoFar
  BY PullInitInv DEF WholeInv
<1>1. \A p \in Pullers : stage[p] = "look" /\ partial[p] = {}
  BY DEF PullInit
<1>2. HistoryTyped
  BY <1>1 DEF PullInit, HistoryTyped
<1>3. LastMeets /\ PlacedSoFar
  BY <1>1 DEF LastMeets, Fills, PlacedSoFar, Extracts, Copies
<1>. QED
  BY <1>2, <1>3

LEMMA WholeStep == WholeInv /\ [PullNext]_pullVars => WholeInv'
<1>. SUFFICES ASSUME WholeInv, [PullNext]_pullVars PROVE WholeInv'
  OBVIOUS
<1>. QED
  BY PullInvStep, HistoryStep, LastMeetsStep, PlacedStep DEF WholeInv

\* A pull that reports no error leaves every regular file of the release in the
\* directory of its tag, and in the copy, when no other worked there since it
\* began: whatever entries of other kinds the loop of pull.go leaves out.
THEOREM PullsWhole == PullSpec => []PulledWhole
<1>1. WholeInv => PulledWhole
  <2>. SUFFICES ASSUME WholeInv, NEW p \in Pullers, stage[p] = "done", p \notin overlapped,
                       \A d \in Filled(p) : lastIn[d] = {p},
                       NEW d \in Filled(p), NEW f \in RegularFiles(tag[p])
                PROVE  stored[d][f] = tag[p]
    BY DEF PulledWhole
  <2>1. Extracts(p) /\ Copies(p) /\ dst[p] \in Filled(p)
    BY DEF WholeInv, PlacedSoFar, Filled
  <2>2. CASE d = dst[p]
    BY <2>1, <2>2 DEF Extracts, Undisturbed
  <2>3. CASE d = copies[p] /\ copies[p] # NoCopy
    BY <2>1, <2>3 DEF Copies, Undisturbed
  <2>. QED
    BY <2>2, <2>3 DEF Filled
<1>. QED
  BY <1>1, WholeStart, WholeStep, PTL DEF PullSpec

----------------------------------------------------------------------------
(* create *)

\* Nobody else has changed the directory, and no error was ignored.
Quiet == changes = 0 /\ ~unreported

\* Every file that the walk has passed is entered under the name of what it
\* holds, and the table of names has that.
IndexFollowsWalk ==
    Quiet /\ creating = "index" =>
        \A f \in SourceFiles \ unread :
          /\ image.index[f] = IndexedAs(f)
          /\ directory[f] \in FileContents => hashes[IndexedAs(f)] = directory[f]

\* After the walk the index is whole, and no two contents share a name.
IndexWhole ==
    Quiet /\ creating \in {"blobs", "config"} =>
        /\ image.indexed = "whole"
        /\ \A f \in SourceFiles : image.index[f] = IndexedAs(f)
        /\ \A f, g \in SourceFiles :
             /\ directory[f] \in FileContents /\ directory[g] \in FileContents
             /\ IndexedAs(f) = IndexedAs(g)
             => directory[f] = directory[g]

\* What is stored under the name of a file is what the file holds, is not there
\* yet, or is being written; it is not missing once the walk has passed the file.
BlobsFollowWalk ==
    Quiet /\ creating \in {"blobs", "config"} =>
        \A f \in SourceFiles : directory[f] \in FileContents =>
          \/ \E b \in blob : b.name = IndexedAs(f)
          \/ image.blobs[IndexedAs(f)] = directory[f]
          \/ f \in unread /\ image.blobs[IndexedAs(f)] = Absent

\* A file that is being stored is stored under its own name.
BlobNamed ==
    Quiet => \A b \in blob : directory[b.file] \in FileContents /\ b.name = IndexedAs(b.file)

OneOpen == \A b, c \in blob : b = c

NothingStored == creating \in {"guest", "guestWrite", "make", "index"} => image.blobs = NoHashes
AllStored == creating = "config" => unread = {}

GuestThere ==
    Quiet /\ withGuest /\ creating \in {"make", "index", "blobs", "config"} =>
        directory[GuestFile] = GuestBinary

CreateInv ==
    /\ CreateTypes
    /\ IndexFollowsWalk
    /\ IndexWhole
    /\ BlobsFollowWalk
    /\ BlobNamed
    /\ OneOpen
    /\ NothingStored
    /\ AllStored
    /\ GuestThere
    /\ CreatedServesFiles

----------------------------------------------------------------------------
\* The name of a file that can be read is one of the names of stored files.
LEMMA NamesAreNames ==
    ASSUME NEW f \in SourceFiles, directory[f] \in FileContents
    PROVE  IndexedAs(f) \in BlobNames /\ IndexedAs(f) = ShortHash[directory[f]]
BY DEF IndexedAs, BlobNames

\* An image begins with no file entered or stored.
LEMMA NoImageTypes ==
    /\ NoHashes \in [BlobNames -> FileContents \cup {Absent}]
    /\ NoImage \in [index : [SourceFiles -> BlobNames \cup {Absent, Link}],
                    indexed : {Absent, "cut", "whole"},
                    blobs : [BlobNames -> FileContents \cup {Absent, "cut"}],
                    config : {Absent, "plain", "guest"}]
    /\ NoImage.blobs = NoHashes /\ NoImage.config = Absent
BY DEF NoHashes, NoImage

LEMMA CreateInitInv == CreateInit => CreateInv
<1>. SUFFICES ASSUME CreateInit PROVE CreateInv
  OBVIOUS
<1>1. CreateTypes
  <2>1. directory \in [SourceFiles -> FileContents \cup {Absent, Link, Socket}]
    BY DEF CreateInit
  <2>2. commands \in 0..MaxCommands /\ changes \in 0..MaxChanges
    BY CreateAssumption DEF CreateInit
  <2>3. /\ hashes \in [BlobNames -> FileContents \cup {Absent}]
        /\ image \in [index : [SourceFiles -> BlobNames \cup {Absent, Link}],
                       indexed : {Absent, "cut", "whole"},
                       blobs : [BlobNames -> FileContents \cup {Absent, "cut"}],
                       config : {Absent, "plain", "guest"}]
        /\ image.config = Absent
    BY NoImageTypes DEF CreateInit
  <2>. QED
    BY <2>1, <2>2, <2>3 DEF CreateInit, CreateTypes
<1>2. IndexFollowsWalk /\ IndexWhole /\ BlobsFollowWalk /\ BlobNamed /\ OneOpen /\ NothingStored /\ AllStored /\ GuestThere
  BY
     DEF CreateInit, IndexFollowsWalk, IndexWhole, BlobsFollowWalk, BlobNamed, OneOpen,
         NothingStored, AllStored, GuestThere
<1>3. CreatedServesFiles
  BY NoImageTypes DEF CreateInit, CreatedServesFiles
<1>. QED
  BY <1>1, <1>2, <1>3 DEF CreateInv

----------------------------------------------------------------------------
(* types *)

LEMMA CreateTypesStep ==
    ASSUME CreateTypes, [CreateNext]_createVars
    PROVE  CreateTypes'
<1>. USE CreateAssumption DEF CreateTypes
<1>1. CASE CreateFails
  BY <1>1, NoImageTypes DEF CreateFails
<1>2. CASE CreateBegins
  <2>1. commands' \in 0..MaxCommands /\ changes' \in 0..MaxChanges
    BY <1>2 DEF CreateBegins
  <2>2. withGuest' \in BOOLEAN /\ unreported' \in BOOLEAN /\ creating' \in {"guest", "make"}
    BY <1>2 DEF CreateBegins
  <2>3. /\ image' \in [index : [SourceFiles -> BlobNames \cup {Absent, Link}],
                        indexed : {Absent, "cut", "whole"},
                        blobs : [BlobNames -> FileContents \cup {Absent, "cut"}],
                        config : {Absent, "plain", "guest"}]
        /\ image'.config = Absent
    BY <1>2, NoImageTypes DEF CreateBegins
  <2>4. directory' = directory /\ unread' = unread /\ hashes' = hashes /\ blob' = {}
    BY <1>2 DEF CreateBegins
  <2>. QED
    BY <2>1, <2>2, <2>3, <2>4
<1>3. CASE GuestOpened
  BY <1>3 DEF GuestOpened
<1>4. CASE GuestWritten
  BY <1>4 DEF GuestWritten
<1>5. CASE ImageMade
  BY <1>5 DEF ImageMade
<1>6. ASSUME NEW file \in SourceFiles, IndexFile(file)
      PROVE  CreateTypes'
  <2>1. IndexedAs(file) \in BlobNames \cup {Absent, Link}
    BY <1>6, NamesAreNames DEF IndexFile, IndexedAs
  <2>2. image' \in [index : [SourceFiles -> BlobNames \cup {Absent, Link}],
                    indexed : {Absent, "cut", "whole"},
                    blobs : [BlobNames -> FileContents \cup {Absent, "cut"}],
                    config : {Absent, "plain", "guest"}] /\ image'.config = image.config
    BY <1>6, <2>1 DEF IndexFile
  <2>3. hashes' \in [BlobNames -> FileContents \cup {Absent}]
    BY <1>6 DEF IndexFile
  <2>. QED
    BY <1>6, <2>2, <2>3 DEF IndexFile
<1>16. ASSUME NEW file \in SourceFiles, WalkSkips(file)
       PROVE  CreateTypes'
  BY <1>16 DEF WalkSkips
<1>7. CASE IndexWritten
  <2>1. image' \in [index : [SourceFiles -> BlobNames \cup {Absent, Link}],
                    indexed : {Absent, "cut", "whole"},
                    blobs : [BlobNames -> FileContents \cup {Absent, "cut"}],
                    config : {Absent, "plain", "guest"}] /\ image'.config = image.config
    BY <1>7 DEF IndexWritten
  <2>2. unreported' \in BOOLEAN
    BY <1>7 DEF IndexWritten
  <2>. QED
    BY <1>7, <2>1, <2>2, NoImageTypes DEF IndexWritten
<1>8. ASSUME NEW file \in SourceFiles, BlobSkipped(file)
      PROVE  CreateTypes'
  BY <1>8 DEF BlobSkipped
<1>9. ASSUME NEW file \in SourceFiles, BlobOpened(file)
      PROVE  CreateTypes'
  <2>1. IndexedAs(file) \in BlobNames
    BY <1>9, NamesAreNames DEF BlobOpened
  <2>2. image' \in [index : [SourceFiles -> BlobNames \cup {Absent, Link}],
                    indexed : {Absent, "cut", "whole"},
                    blobs : [BlobNames -> FileContents \cup {Absent, "cut"}],
                    config : {Absent, "plain", "guest"}] /\ image'.config = image.config
    BY <1>9, <2>1 DEF BlobOpened
  <2>. QED
    BY <1>9, <2>1, <2>2 DEF BlobOpened
<1>10. CASE BlobWritten
  <2>1. image' \in [index : [SourceFiles -> BlobNames \cup {Absent, Link}],
                    indexed : {Absent, "cut", "whole"},
                    blobs : [BlobNames -> FileContents \cup {Absent, "cut"}],
                    config : {Absent, "plain", "guest"}] /\ image'.config = image.config
    BY <1>10 DEF BlobWritten
  <2>. QED
    BY <1>10, <2>1 DEF BlobWritten
<1>11. CASE BlobFails
  <2>1. image' \in [index : [SourceFiles -> BlobNames \cup {Absent, Link}],
                    indexed : {Absent, "cut", "whole"},
                    blobs : [BlobNames -> FileContents \cup {Absent, "cut"}],
                    config : {Absent, "plain", "guest"}] /\ image'.config = image.config
    BY <1>11 DEF BlobFails
  <2>. QED
    BY <1>11, <2>1 DEF BlobFails
<1>12. CASE BlobsDone
  BY <1>12 DEF BlobsDone
<1>13. CASE ConfigWritten
  BY <1>13 DEF ConfigWritten
<1>14. ASSUME NEW file \in SourceFiles, DirectoryChanges(file)
       PROVE  CreateTypes'
  BY <1>14 DEF DirectoryChanges
<1>15. CASE UNCHANGED createVars
  BY <1>15 DEF createVars
<1>. QED
  BY <1>1, <1>2, <1>3, <1>4, <1>5, <1>6, <1>7, <1>8, <1>9, <1>10, <1>11, <1>12, <1>13, <1>14, <1>15, <1>16
     DEF CreateNext

----------------------------------------------------------------------------
(* the steps; in each of them the types are kept by the lemma above *)

\* A walk that has left something out makes no promise any more.
LEMMA SkipStep ==
    ASSUME CreateInv, CreateTypes', \E file \in SourceFiles : WalkSkips(file)
    PROVE  CreateInv'
<1>1. /\ creating \in {"index", "blobs"} /\ creating' = creating /\ unreported'
      /\ image' = image /\ withGuest' = withGuest /\ blob = {} /\ blob' = {}
  BY DEF WalkSkips
<1>2. image'.config = Absent
  BY <1>1 DEF CreateInv, CreateTypes
<1>. QED
  BY <1>1, <1>2
     DEF CreateInv, Quiet, BlobNamed, OneOpen, IndexFollowsWalk, IndexWhole, BlobsFollowWalk,
         NothingStored, AllStored, GuestThere, CreatedServesFiles, NoHashes

\* Before the walk for the index, and when a command has ended, nothing is
\* claimed but what the directory and the stored files are.
LEMMA BeforeIndexStep ==
    ASSUME CreateInv, CreateTypes',
           CreateFails \/ CreateBegins \/ GuestOpened \/ GuestWritten \/ ImageMade
    PROVE  CreateInv'
<1>. USE CreateAssumption DEF CreateInv, CreateTypes, Quiet
<1>1. CASE CreateFails
  <2>1. CreatedServesFiles'
    BY <1>1 DEF CreateFails, CreatedServesFiles
  <2>2. (BlobNamed /\ OneOpen /\ IndexFollowsWalk /\ IndexWhole /\ BlobsFollowWalk /\ NothingStored /\ AllStored /\ GuestThere)'
    BY <1>1
       DEF CreateFails, BlobNamed, OneOpen, IndexFollowsWalk, IndexWhole, BlobsFollowWalk,
           NothingStored, AllStored, GuestThere
  <2>. QED
    BY <2>1, <2>2
<1>2. CASE CreateBegins
  <2>1. creating' \in {"guest", "make"} /\ blob' = {} /\ (creating' = "make" => ~withGuest')
    BY <1>2 DEF CreateBegins
  <2>2. (BlobNamed /\ OneOpen /\ IndexFollowsWalk /\ IndexWhole /\ BlobsFollowWalk /\ AllStored /\ GuestThere)'
    BY <2>1 DEF BlobNamed, OneOpen, IndexFollowsWalk, IndexWhole, BlobsFollowWalk, AllStored, GuestThere
  <2>3. image'.blobs = NoHashes /\ image'.config = Absent /\ NoHashes' = NoHashes
    BY <1>2, NoImageTypes DEF CreateBegins, NoHashes
  <2>. QED
    BY <2>2, <2>3 DEF NothingStored, CreatedServesFiles
<1>3. CASE GuestOpened
  BY <1>3
     DEF GuestOpened, BlobNamed, OneOpen, IndexFollowsWalk, IndexWhole, BlobsFollowWalk,
         NothingStored, AllStored, GuestThere, CreatedServesFiles, NoHashes
<1>4. CASE GuestWritten
  BY <1>4
     DEF GuestWritten, BlobNamed, OneOpen, IndexFollowsWalk, IndexWhole, BlobsFollowWalk,
         NothingStored, AllStored, GuestThere, CreatedServesFiles, NoHashes
<1>5. CASE ImageMade
  BY <1>5
     DEF ImageMade, BlobNamed, OneOpen, IndexFollowsWalk, IndexWhole, BlobsFollowWalk,
         NothingStored, AllStored, GuestThere, CreatedServesFiles, NoHashes
<1>. QED
  BY <1>1, <1>2, <1>3, <1>4, <1>5

\* The walk for the index: a file that collides ends it, so that two files with
\* one name hold the same.
LEMMA IndexStep ==
    ASSUME CreateInv, CreateTypes',
           IndexWritten \/ \E file \in SourceFiles : IndexFile(file)
    PROVE  CreateInv'
<1>. USE CreateAssumption DEF CreateInv, CreateTypes, Quiet
<1>1. ASSUME NEW file \in SourceFiles, IndexFile(file)
      PROVE  CreateInv'
  <2>1. /\ creating = "index" /\ creating' = creating /\ unread' = unread \ {file}
        /\ directory' = directory /\ blob' = blob /\ withGuest' = withGuest
        /\ changes' = changes /\ unreported' = unreported
        /\ image'.blobs = image.blobs /\ image'.config = image.config
    BY <1>1 DEF IndexFile
  <2>2. \A f \in SourceFiles : IndexedAs(f)' = IndexedAs(f)
    BY <2>1 DEF IndexedAs
  <2>3. \A f \in SourceFiles : image'.index[f] = IF f = file THEN IndexedAs(file) ELSE image.index[f]
    BY <1>1 DEF IndexFile
  <2>4. ASSUME NEW f \in SourceFiles \ unread', Quiet
        PROVE  image'.index[f] = IndexedAs(f) /\ (directory[f] \in FileContents => hashes'[IndexedAs(f)] = directory[f])
    <3>1. CASE f = file
      <4>1. directory[f] \in FileContents => hashes' = [hashes EXCEPT ![IndexedAs(f)] = directory[f]]
        BY <1>1, <3>1 DEF IndexFile
      <4>. QED
        BY <2>3, <3>1, <4>1, NamesAreNames
    <3>2. CASE f # file
      <4>1. /\ image.index[f] = IndexedAs(f)
            /\ directory[f] \in FileContents => hashes[IndexedAs(f)] = directory[f]
        BY <2>1, <2>4, <3>2 DEF IndexFollowsWalk
      <4>2. directory[file] \in FileContents => hashes[IndexedAs(file)] \in {Absent, directory[file]}
        BY <1>1 DEF IndexFile, CollidesWith
      <4>3. hashes' = IF directory[file] \in FileContents THEN [hashes EXCEPT ![IndexedAs(file)] = directory[file]] ELSE hashes
        BY <1>1 DEF IndexFile
      <4>. QED
        BY <2>3, <3>2, <4>1, <4>2, <4>3, NamesAreNames
    <3>. QED
      BY <3>1, <3>2
  <2>5. IndexFollowsWalk'
    BY <2>1, <2>2, <2>4 DEF IndexFollowsWalk
  <2>6. (BlobNamed /\ OneOpen /\ IndexWhole /\ BlobsFollowWalk /\ NothingStored /\ AllStored /\ GuestThere /\ CreatedServesFiles)'
    BY <2>1, <2>2
       DEF BlobNamed, OneOpen, IndexWhole, BlobsFollowWalk, NothingStored, AllStored, GuestThere,
           CreatedServesFiles, NoHashes
  <2>. QED
    BY <2>5, <2>6
<1>2. CASE IndexWritten
  <2>1. /\ creating = "index" /\ creating' = "blobs" /\ unread = {} /\ unread' = SourceFiles
        /\ directory' = directory /\ blob' = blob /\ withGuest' = withGuest /\ changes' = changes
        /\ image'.blobs = image.blobs /\ image'.config = image.config /\ image'.index = image.index
        /\ ~unreported' => ~unreported /\ image'.indexed = "whole"
    BY <1>2, ZenonT(60) DEF IndexWritten
  <2>2. \A f \in SourceFiles : IndexedAs(f)' = IndexedAs(f)
    BY <2>1 DEF IndexedAs
  <2>3. IndexWhole'
    BY <2>1, <2>2 DEF IndexWhole, IndexFollowsWalk
  <2>4. BlobsFollowWalk'
    BY <2>1, <2>2, NamesAreNames DEF BlobsFollowWalk, NothingStored, NoHashes
  <2>5. (BlobNamed /\ OneOpen /\ IndexFollowsWalk /\ NothingStored /\ AllStored /\ GuestThere /\ CreatedServesFiles)'
    BY <2>1, <2>2
       DEF BlobNamed, OneOpen, IndexFollowsWalk, NothingStored, AllStored, GuestThere,
           CreatedServesFiles
  <2>. QED
    BY <2>3, <2>4, <2>5
<1>. QED
  BY <1>1, <1>2

\* The walk that stores the files: as no two contents share a name, what is
\* stored under the name of one file is right for every other of that name.
LEMMA BlobStep ==
    ASSUME CreateInv, CreateTypes',
           BlobWritten \/ BlobFails \/ \E file \in SourceFiles : BlobSkipped(file) \/ BlobOpened(file)
    PROVE  CreateInv'
<1>. USE CreateAssumption DEF CreateInv, CreateTypes, Quiet
<1>0. ASSUME creating = "blobs", creating' = creating, directory' = directory, withGuest' = withGuest,
             image'.config = image.config, image'.index = image.index, image'.indexed = image.indexed,
             changes' = changes, ~unreported' => ~unreported
      PROVE  /\ (IndexFollowsWalk /\ IndexWhole /\ NothingStored /\ AllStored /\ GuestThere /\ CreatedServesFiles)'
             /\ \A f \in SourceFiles : IndexedAs(f)' = IndexedAs(f)
  <2>1. \A f \in SourceFiles : IndexedAs(f)' = IndexedAs(f)
    BY <1>0 DEF IndexedAs
  <2>2. (IndexFollowsWalk /\ NothingStored /\ AllStored /\ GuestThere)'
    BY <1>0 DEF IndexFollowsWalk, NothingStored, AllStored, GuestThere
  <2>3. CreatedServesFiles'
    BY <1>0 DEF CreatedServesFiles
  <2>4. IndexWhole'
    BY <1>0, <2>1 DEF IndexWhole
  <2>. QED
    BY <2>1, <2>2, <2>3, <2>4
<1>1. ASSUME NEW file \in SourceFiles, BlobSkipped(file)
      PROVE  CreateInv'
  <2>1. /\ creating = "blobs" /\ blob = {} /\ blob' = blob /\ image' = image /\ unread' = unread \ {file}
        /\ creating' = creating /\ directory' = directory /\ withGuest' = withGuest
        /\ changes' = changes /\ unreported' = unreported
        /\ directory[file] \in FileContents => image.blobs[IndexedAs(file)] # Absent
    BY <1>1 DEF BlobSkipped
  <2>2. /\ (IndexFollowsWalk /\ IndexWhole /\ NothingStored /\ AllStored /\ GuestThere /\ CreatedServesFiles)'
        /\ \A f \in SourceFiles : IndexedAs(f)' = IndexedAs(f)
    BY <1>0, <2>1
  <2>3. BlobNamed' /\ OneOpen'
    BY <2>1 DEF BlobNamed, OneOpen
  <2>4. BlobsFollowWalk'
    BY <2>1, <2>2 DEF BlobsFollowWalk
  <2>. QED
    BY <2>2, <2>3, <2>4
<1>2. ASSUME NEW file \in SourceFiles, BlobOpened(file)
      PROVE  CreateInv'
  <2>1. /\ (IndexFollowsWalk /\ IndexWhole /\ NothingStored /\ AllStored /\ GuestThere /\ CreatedServesFiles)'
        /\ \A f \in SourceFiles : IndexedAs(f)' = IndexedAs(f)
    BY <1>0, <1>2 DEF BlobOpened
  <2>2. BlobNamed' /\ OneOpen'
    BY <1>2, <2>1 DEF BlobOpened, BlobNamed, OneOpen
  <2>3. BlobsFollowWalk'
    BY <1>2, <2>1, NamesAreNames DEF BlobOpened, BlobsFollowWalk
  <2>. QED
    BY <2>1, <2>2, <2>3
<1>3. CASE BlobWritten
  <2>1. PICK b \in blob : /\ directory[b.file] \in FileContents
                          /\ image' = [image EXCEPT !.blobs[b.name] = directory[b.file]]
    BY <1>3 DEF BlobWritten
  <2>2. /\ (IndexFollowsWalk /\ IndexWhole /\ NothingStored /\ AllStored /\ GuestThere /\ CreatedServesFiles)'
        /\ \A f \in SourceFiles : IndexedAs(f)' = IndexedAs(f)
    BY <1>0, <1>3, <2>1 DEF BlobWritten
  <2>3. BlobNamed' /\ OneOpen'
    BY <1>3 DEF BlobWritten, BlobNamed, OneOpen
  <2>4. ASSUME Quiet, NEW f \in SourceFiles, directory[f] \in FileContents
        PROVE  \/ image'.blobs[IndexedAs(f)] = directory[f]
               \/ f \in unread /\ image'.blobs[IndexedAs(f)] = Absent
    <3>1. b.name = IndexedAs(b.file) /\ b.file \in SourceFiles
      BY <2>4 DEF BlobNamed
    <3>2. CASE IndexedAs(f) = b.name
      <4>1. directory[f] = directory[b.file]
        BY <1>3, <2>1, <2>4, <3>1, <3>2 DEF IndexWhole
      <4>. QED
        BY <2>1, <3>2, <4>1
    <3>3. CASE IndexedAs(f) # b.name
      <4>1. image'.blobs[IndexedAs(f)] = image.blobs[IndexedAs(f)]
        BY <2>1, <2>4, <3>3, NamesAreNames
      <4>2. ~\E c \in blob : c.name = IndexedAs(f)
        BY <3>3, <2>1 DEF OneOpen
      <4>. QED
        BY <1>3, <2>4, <4>1, <4>2 DEF BlobsFollowWalk
    <3>. QED
      BY <3>2, <3>3
  <2>5. BlobsFollowWalk'
    BY <1>3, <2>2, <2>4 DEF BlobWritten, BlobsFollowWalk
  <2>. QED
    BY <2>2, <2>3, <2>5
<1>4. CASE BlobFails
  <2>1. /\ creating = "blobs" /\ creating' = creating /\ unreported'
        /\ image'.config = image.config /\ blob' = {}
    BY <1>4 DEF BlobFails
  <2>. QED
    BY <2>1
       DEF BlobNamed, OneOpen, IndexFollowsWalk, IndexWhole, BlobsFollowWalk, NothingStored,
           AllStored, GuestThere, CreatedServesFiles
<1>. QED
  BY <1>1, <1>2, <1>3, <1>4

\* The end of the command, and what others do to the directory meanwhile.
LEMMA EndStep ==
    ASSUME CreateInv, CreateTypes',
           BlobsDone \/ ConfigWritten \/ \E file \in SourceFiles : DirectoryChanges(file)
    PROVE  CreateInv'
<1>. USE CreateAssumption DEF CreateInv, CreateTypes, Quiet
<1>1. CASE BlobsDone
  <2>1. \A f \in SourceFiles : IndexedAs(f)' = IndexedAs(f)
    BY <1>1 DEF BlobsDone, IndexedAs
  <2>2. (BlobNamed /\ OneOpen /\ IndexFollowsWalk /\ IndexWhole /\ NothingStored /\ AllStored /\ GuestThere)'
    BY <1>1, <2>1
       DEF BlobsDone, BlobNamed, OneOpen, IndexFollowsWalk, IndexWhole, NothingStored, AllStored,
           GuestThere
  <2>3. BlobsFollowWalk'
    BY <1>1, <2>1 DEF BlobsDone, BlobsFollowWalk
  <2>4. CreatedServesFiles'
    BY <1>1 DEF BlobsDone, CreatedServesFiles
  <2>. QED
    BY <2>2, <2>3, <2>4
<1>2. CASE ConfigWritten
  <2>1. \A f \in SourceFiles : IndexedAs(f)' = IndexedAs(f)
    BY <1>2 DEF ConfigWritten, IndexedAs
  <2>2. /\ image'.index = image.index /\ image'.blobs = image.blobs /\ image'.indexed = image.indexed
        /\ image'.config = IF withGuest THEN "guest" ELSE "plain"
    BY <1>2 DEF ConfigWritten
  <2>3. ASSUME Quiet
        PROVE  /\ image.indexed = "whole"
               /\ \A f \in SourceFiles :
                    /\ image.index[f] = IndexedAs(f)
                    /\ directory[f] \in FileContents => image.blobs[image.index[f]] = directory[f]
               /\ withGuest => directory[GuestFile] = GuestBinary
    <3>1. image.indexed = "whole" /\ \A f \in SourceFiles : image.index[f] = IndexedAs(f)
      BY <1>2, <2>3 DEF ConfigWritten, IndexWhole
    <3>2. \A f \in SourceFiles : directory[f] \in FileContents => image.blobs[IndexedAs(f)] = directory[f]
      BY <1>2, <2>3 DEF ConfigWritten, BlobsFollowWalk, AllStored
    <3>3. withGuest => directory[GuestFile] = GuestBinary
      BY <1>2, <2>3 DEF ConfigWritten, GuestThere
    <3>. QED
      BY <3>1, <3>2, <3>3
  <2>4. CreatedServesFiles'
    BY <1>2, <2>1, <2>2, <2>3 DEF ConfigWritten, CreatedServesFiles
  <2>5. (BlobNamed /\ OneOpen /\ IndexFollowsWalk /\ IndexWhole /\ BlobsFollowWalk /\ NothingStored /\ AllStored /\ GuestThere)'
    BY <1>2
       DEF ConfigWritten, BlobNamed, OneOpen, IndexFollowsWalk, IndexWhole, BlobsFollowWalk,
           NothingStored, AllStored, GuestThere
  <2>. QED
    BY <2>4, <2>5
<1>3. ASSUME NEW file \in SourceFiles, DirectoryChanges(file)
      PROVE  CreateInv'
  <2>1. /\ changes' # 0 /\ creating # "idle" /\ creating' = creating
        /\ image' = image /\ unread' = unread /\ blob' = blob
    BY <1>3 DEF DirectoryChanges
  <2>. QED
    BY <2>1
       DEF BlobNamed, OneOpen, IndexFollowsWalk, IndexWhole, BlobsFollowWalk, NothingStored,
           AllStored, GuestThere, CreatedServesFiles, NoHashes
<1>. QED
  BY <1>1, <1>2, <1>3

LEMMA CreateIdle ==
    ASSUME CreateInv, UNCHANGED createVars
    PROVE  CreateInv'
BY DEF createVars, CreateInv, CreateTypes, Quiet, IndexFollowsWalk, IndexWhole, BlobsFollowWalk, BlobNamed,
       OneOpen, NothingStored, AllStored, GuestThere, CreatedServesFiles, NoHashes, IndexedAs

LEMMA CreateInvStep == CreateInv /\ [CreateNext]_createVars => CreateInv'
<1>. SUFFICES ASSUME CreateInv, [CreateNext]_createVars PROVE CreateInv'
  OBVIOUS
<1>1. CreateTypes'
  BY CreateTypesStep DEF CreateInv
<1>. QED
  BY <1>1, BeforeIndexStep, SkipStep, IndexStep, BlobStep, EndStep, CreateIdle DEF CreateNext

THEOREM CreateInvariant == CreateSpec => []CreateInv
<1>. QED
  BY CreateInitInv, CreateInvStep, PTL DEF CreateSpec

\* An image that create has finished, from a directory that nobody else changed
\* and without an error that it ignored, has an index of the whole directory and
\* every file in it, whatever files collide and whatever commands failed before
\* (GenerateIndex, CopyToSha256 and createCmd).
THEOREM CreatedServes == CreateSpec => []CreatedServesFiles
<1>. CreateInv => CreatedServesFiles
  BY DEF CreateInv
<1>. QED
  BY CreateInvariant, PTL
=============================================================================
