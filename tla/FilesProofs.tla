---------------------------- MODULE FilesProofs ----------------------------
(****************************************************************************)
(* Files on their way, but for what ImageProofs says of pull and create: of *)
(* the name space, which mount serves a path and what a reader of a         *)
(* directory gets, for any number of mounts, any paths and any names; of    *)
(* the copy of a tree, what it leaves behind and why it fails, for any      *)
(* archive or directory; and of all four parts their types.                 *)
(****************************************************************************)
EXTENDS Files, ImageProofs, FiniteSetTheorems

----------------------------------------------------------------------------
(* look-ups in the name space *)

\* The mounts, as far as the look-up of a path depends on them.
MountsTyped == binds \in Seq(Bindings) /\ ordered \in BOOLEAN

\* As long as no Unmount has changed their order, the code keeps the mounts as
\* they were made, the newest first.
OrderedAsLive == ordered => binds = live

NamespaceInv == MountsTyped /\ OrderedAsLive /\ ServedByNewest

----------------------------------------------------------------------------
\* What is left of a sequence after one of its beginnings goes on from there.
LEMMA PrefixAndRest ==
    ASSUME NEW S, NEW s \in Seq(S), NEW t \in Seq(S), IsPrefix(s, t)
    PROVE  s \o SubSeq(t, Len(s) + 1, Len(t)) = t
<1>1. Len(s) \in Nat /\ Len(t) \in Nat /\ Len(s) <= Len(t)
  BY LenProperties DEF IsPrefix
<1>2. s = SubSeq(t, 1, Len(s))
  BY SubSeqFull DEF IsPrefix
<1>3. SubSeq(t, 1, Len(s)) \o SubSeq(t, Len(s) + 1, Len(t)) = SubSeq(t, 1, Len(t))
  <2>1. 1 \in 1..Len(t) + 1 /\ Len(s) \in (1 - 1)..Len(t) /\ Len(t) \in Len(s)..Len(t)
    BY <1>1
  <2>. QED
    BY <2>1, ConcatAdjacentSubSeq
<1>. QED
  BY <1>2, <1>3, SubSeqFull

\* A beginning is one exactly if all but its last element is, and the last is
\* there as well.
LEMMA PrefixByLast ==
    ASSUME NEW S, NEW s \in Seq(S), NEW t \in Seq(S), s # <<>>
    PROVE  IsPrefix(s, t) <=>
             Len(s) <= Len(t) /\ Front(s) = SubSeq(t, 1, Len(s) - 1) /\ Last(s) = t[Len(s)]
<1>1. Len(s) \in Nat \ {0} /\ Len(t) \in Nat
  BY LenProperties, EmptySeq
<1>2. ASSUME Len(s) <= Len(t)
      PROVE  /\ SubSeq(s, 1, Len(s)) = SubSeq(s, 1, Len(s) - 1) \o <<s[Len(s)]>>
             /\ SubSeq(t, 1, Len(s)) = SubSeq(t, 1, Len(s) - 1) \o <<t[Len(s)]>>
             /\ SubSeq(s, 1, Len(s) - 1) \in Seq(S) /\ s[Len(s)] \in S
             /\ SubSeq(t, 1, Len(s) - 1) \in Seq(S) /\ t[Len(s)] \in S
  <2>1. 1 \in 1..Len(s) /\ Len(s) \in 1..Len(s) /\ 1 \in 1..Len(t) /\ Len(s) \in 1..Len(t)
    BY <1>1, <1>2
  <2>2. (\A i \in 1..Len(s) : s[i] \in S) /\ (\A i \in 1..Len(t) : t[i] \in S)
    BY ElementOfSeq
  <2>3. /\ SubSeq(s, 1, Len(s)) = SubSeq(s, 1, Len(s) - 1) \o <<s[Len(s)]>>
        /\ SubSeq(t, 1, Len(s)) = SubSeq(t, 1, Len(s) - 1) \o <<t[Len(s)]>>
    BY <2>1, SubSeqRecursiveSecond
  <2>4. SubSeq(s, 1, Len(s) - 1) \in Seq(S) /\ SubSeq(t, 1, Len(s) - 1) \in Seq(S)
    BY <1>1, <1>2, <2>2, SubSeqProperties
  <2>. QED
    BY <2>1, <2>2, <2>3, <2>4
<1>3. ASSUME Len(s) <= Len(t)
      PROVE  SubSeq(s, 1, Len(s)) = SubSeq(t, 1, Len(s)) <=>
               SubSeq(s, 1, Len(s) - 1) = SubSeq(t, 1, Len(s) - 1) /\ s[Len(s)] = t[Len(s)]
  BY <1>2, <1>3, AppendInjective, AppendIsConcat
<1>. QED
  BY <1>3 DEF IsPrefix, Front, Last

----------------------------------------------------------------------------
(* look-ups *)

\* As text, a plain path begins with a mount point exactly if it lies in it.
LEMMA TextPrefixOfPlain ==
    ASSUME NEW path \in Seq(Names), NEW mntPoint \in Seq(Names), Plain(path), mntPoint # <<>>
    PROVE  HasTextPrefix(path, mntPoint) <=> IsPrefix(mntPoint, path)
<1>1. Len(mntPoint) \in Nat \ {0} /\ Len(path) \in Nat
  BY LenProperties, EmptySeq
<1>2. ASSUME Len(mntPoint) <= Len(path)
      PROVE  RestOf(path[Len(mntPoint)], Last(mntPoint)) = {}
  <2>1. path[Len(mntPoint)] \in Range(path)
    <3>1. Len(mntPoint) \in 1..Len(path)
      BY <1>1, <1>2
    <3>. QED
      BY <3>1, LenProperties DEF Range
  <2>. QED
    BY <2>1 DEF Plain, RestOf
<1>3. IsPrefix(mntPoint, path) <=>
        Len(mntPoint) <= Len(path) /\ Front(mntPoint) = SubSeq(path, 1, Len(mntPoint) - 1)
          /\ Last(mntPoint) = path[Len(mntPoint)]
  BY PrefixByLast
<1>. QED
  BY <1>2, <1>3 DEF HasTextPrefix

\* From a plain path that lies in it, exactly the mount point is cut off.
LEMMA TrimOfPlain ==
    ASSUME NEW path \in Seq(Names), NEW mntPoint \in Seq(Names), Plain(path), IsPrefix(mntPoint, path)
    PROVE  mntPoint \o TrimMountPoint(path, mntPoint) = path
<1>1. Len(mntPoint) \in Nat /\ Len(path) \in Nat /\ Len(mntPoint) <= Len(path)
  BY LenProperties DEF IsPrefix
<1>2. mntPoint = <<>> <=> Len(mntPoint) = 0
  BY LenProperties, EmptySeq
<1>3. path = <<>> <=> Len(path) = 0
  BY LenProperties, EmptySeq
<1>. DEFINE k == IF mntPoint = <<>> THEN 1 ELSE Len(mntPoint)
            text == IF mntPoint = <<>> THEN Dot ELSE Last(mntPoint)
<1>4. path # <<>> => RestOf(path[k], text) = {}
  <2>1. path # <<>> => k \in 1..Len(path)
    BY <1>1, <1>2, <1>3
  <2>2. path # <<>> => path[k] \in Range(path)
    BY <2>1, LenProperties DEF Range
  <2>. QED
    BY <2>2 DEF Plain, RestOf
<1>5. TrimMountPoint(path, mntPoint) = SubSeq(path, Len(mntPoint) + 1, Len(path))
  BY <1>4 DEF TrimMountPoint
<1>. QED
  BY <1>5, PrefixAndRest

\* What the newest mount is that a path lies in.
Newest(path) == live[CHOOSE i \in Holding(path) : \A j \in Holding(path) : i <= j]

\* With the mounts in order, the look-up of a plain path finds that mount, and
\* asks it for the path from there.
LEMMA LookupIsNewest ==
    ASSUME MountsTyped, OrderedAsLive, ordered, NEW path \in Seq(Names), Plain(path)
    PROVE  /\ InMount(path) = {} <=> Holding(path) = {}
           /\ InMount(path) # {} =>
                /\ binds[FoundIn(path)] = Newest(path)
                /\ Newest(path).mountPoint \o TrimMountPoint(path, Newest(path).mountPoint) = path
<1>1. binds = live
  BY DEF OrderedAsLive
<1>2. \A i \in 1..Len(binds) : binds[i].mountPoint \in Seq(Names)
  <2>1. \A i \in 1..Len(binds) : binds[i] \in Bindings
    BY ElementOfSeq DEF MountsTyped
  <2>2. \A b \in Bindings : b.mountPoint \in MountPoints
    BY DEF Bindings
  <2>. QED
    BY <2>1, <2>2, NamespaceAssumption
<1>3. \A mntPoint \in Seq(Names) :
        (mntPoint = <<>> \/ HasTextPrefix(path, mntPoint)) <=> IsPrefix(mntPoint, path)
  <2>1. IsPrefix(<<>>, path)
    <3>1. SubSeq(<<>>, 1, 0) = <<>> /\ SubSeq(path, 1, 0) = <<>>
      BY SubSeqEmpty
    <3>2. Len(<<>>) = 0 /\ Len(path) \in Nat
      BY EmptySeq, LenProperties
    <3>. QED
      BY <3>1, <3>2 DEF IsPrefix
  <2>. QED
    BY <2>1, TextPrefixOfPlain
<1>4. InMount(path) = Holding(path)
  BY <1>1, <1>2, <1>3 DEF InMount, Holding
<1>5. ASSUME InMount(path) # {}
      PROVE  FoundIn(path) \in Holding(path)
  <2>1. InMount(path) \in SUBSET Nat
    BY DEF InMount
  <2>2. \E i \in InMount(path) : \A j \in InMount(path) : i <= j
    BY <1>5, <2>1, LeastNatural
  <2>. QED
    BY <1>4, <2>2 DEF FoundIn
<1>6. FoundIn(path) = CHOOSE i \in Holding(path) : \A j \in Holding(path) : i <= j
  BY <1>4 DEF FoundIn
<1>7. ASSUME InMount(path) # {}
      PROVE  Newest(path).mountPoint \o TrimMountPoint(path, Newest(path).mountPoint) = path
  <2>1. Newest(path) = live[FoundIn(path)]
    BY <1>6 DEF Newest
  <2>2. Newest(path).mountPoint \in Seq(Names) /\ IsPrefix(Newest(path).mountPoint, path)
    BY <1>1, <1>2, <1>5, <1>7, <2>1 DEF Holding
  <2>. QED
    BY <2>2, TrimOfPlain
<1>. QED
  BY <1>1, <1>4, <1>6, <1>7 DEF Newest

----------------------------------------------------------------------------
(* steps *)

LEMMA NamespaceInitInv == NamespaceInit => NamespaceInv
BY EmptySeq DEF NamespaceInit, NamespaceInv, MountsTyped, OrderedAsLive, ServedByNewest

\* A new mount comes first, in the code as among the live ones.
LEMMA MountStep ==
    ASSUME NamespaceInv, NEW fsys \in FileSystems, NEW path \in MountPoints, Mount(fsys, path)
    PROVE  NamespaceInv'
<1>1. [fsys |-> fsys, mountPoint |-> path] \in Bindings
  BY DEF Bindings
<1>2. <<[fsys |-> fsys, mountPoint |-> path]>> \in Seq(Bindings)
  BY <1>1
<1>3. MountsTyped'
  BY <1>2, ConcatProperties DEF NamespaceInv, MountsTyped, Mount
<1>4. OrderedAsLive'
  BY DEF NamespaceInv, OrderedAsLive, Mount
<1>5. ServedByNewest'
  BY DEF ServedByNewest, Mount
<1>. QED
  BY <1>3, <1>4, <1>5 DEF NamespaceInv

\* The first mount on a path is on it.
LEMMA FirstAtThere ==
    ASSUME NEW s, Len(s) \in Nat, NEW path, \E i \in 1..Len(s) : s[i].mountPoint = path
    PROVE  FirstAt(s, path) \in 1..Len(s) /\ s[FirstAt(s, path)].mountPoint = path
<1>. DEFINE Here == {i \in 1..Len(s) : s[i].mountPoint = path}
<1>1. PICK m \in Here : \A k \in Here : m <= k
  <2>1. Here \in SUBSET Nat /\ Here # {}
    OBVIOUS
  <2>. QED
    BY <2>1, LeastNatural
<1>2. \A j \in 1..m - 1 : s[j].mountPoint # path
  <2>. SUFFICES ASSUME NEW j \in 1..m - 1, s[j].mountPoint = path PROVE FALSE
    OBVIOUS
  <2>1. j \in Here
    OBVIOUS
  <2>. QED
    BY <1>1, <2>1
<1>3. m \in 1..Len(s) /\ s[m].mountPoint = path
  OBVIOUS
<1>. QED
  BY <1>2, <1>3 DEF FirstAt

\* remove puts the last element in the place of the one that goes.
LEMMA RemovedElements ==
    ASSUME NEW S, NEW s \in Seq(S), NEW i \in 1..Len(s)
    PROVE  /\ Removed(s, i) \in Seq(S) /\ Len(Removed(s, i)) = Len(s) - 1
           /\ \A j \in 1..Len(s) - 1 : Removed(s, i)[j] = IF j = i THEN s[Len(s)] ELSE s[j]
<1>1. Len(s) \in Nat \ {0} /\ s # <<>> /\ i \in Nat \ {0}
  BY LenProperties, EmptySeq
<1>2. Last(s) \in S /\ Last(s) = s[Len(s)]
  BY <1>1, ElementOfSeq DEF Last
<1>3. PICK t : t = [s EXCEPT ![i] = Last(s)]
  OBVIOUS
<1>4. t \in Seq(S) /\ Len(t) = Len(s) /\ \A j \in 1..Len(s) : t[j] = IF j = i THEN Last(s) ELSE s[j]
  <2>1. /\ [s EXCEPT ![i] = Last(s)] \in Seq(S) /\ Len([s EXCEPT ![i] = Last(s)]) = Len(s)
        /\ \A j \in 1..Len(s) : [s EXCEPT ![i] = Last(s)][j] = IF j = i THEN Last(s) ELSE s[j]
    BY <1>2, ExceptSeq
  <2>. QED
    BY <1>3, <2>1
<1>5. PICK r : r = SubSeq(t, 1, Len(s) - 1)
  OBVIOUS
<1>6. r \in Seq(S) /\ Len(r) = Len(s) - 1 /\ \A j \in 1..Len(s) - 1 : r[j] = t[j]
  <2>1. 0 \in Nat /\ Len(s) - 1 \in Nat /\ 0 <= Len(s) - 1 /\ Len(s) - 1 <= Len(t) /\ r = SubSeq(t, 0 + 1, Len(s) - 1)
    BY <1>1, <1>4, <1>5
  <2>2. r \in Seq(S) /\ Len(r) = Len(s) - 1 - 0 /\ \A j \in 1..Len(s) - 1 - 0 : r[j] = t[0 + j]
    BY <1>4, <2>1, Between
  <2>. QED
    BY <1>1, <2>2
<1>7. Removed(s, i) = r
  BY <1>3, <1>5 DEF Removed
<1>8. \A j \in 1..Len(s) - 1 : r[j] = IF j = i THEN s[Len(s)] ELSE s[j]
  BY <1>1, <1>2, <1>4, <1>6
<1>. QED
  BY <1>6, <1>7, <1>8

\* Without the i-th element, those after it move up.
LEMMA RemoveAtElements ==
    ASSUME NEW S, NEW s \in Seq(S), NEW i \in 1..Len(s)
    PROVE  /\ RemoveAt(s, i) \in Seq(S) /\ Len(RemoveAt(s, i)) = Len(s) - 1
           /\ \A j \in 1..Len(s) - 1 : RemoveAt(s, i)[j] = IF j < i THEN s[j] ELSE s[j + 1]
<1>1. Len(s) \in Nat \ {0} /\ i \in Nat \ {0}
  BY LenProperties
<1>2. PICK v : v = SubSeq(s, 1, i - 1)
  OBVIOUS
<1>3. v \in Seq(S) /\ Len(v) = i - 1 /\ \A j \in 1..i - 1 : v[j] = s[j]
  <2>1. 0 \in Nat /\ i - 1 \in Nat /\ 0 <= i - 1 /\ i - 1 <= Len(s) /\ v = SubSeq(s, 0 + 1, i - 1)
    BY <1>1, <1>2
  <2>2. v \in Seq(S) /\ Len(v) = i - 1 - 0 /\ \A j \in 1..i - 1 - 0 : v[j] = s[0 + j]
    BY <2>1, Between
  <2>. QED
    BY <1>1, <2>2
<1>4. PICK u : u = SubSeq(s, i + 1, Len(s))
  OBVIOUS
<1>5. u \in Seq(S) /\ Len(u) = Len(s) - i /\ \A j \in 1..Len(s) - i : u[j] = s[i + j]
  BY <1>1, <1>4, Between
<1>6. PICK w : w = v \o u
  OBVIOUS
<1>7. /\ w \in Seq(S) /\ Len(w) = Len(v) + Len(u)
      /\ \A j \in 1..Len(v) + Len(u) : w[j] = IF j <= Len(v) THEN v[j] ELSE u[j - Len(v)]
  BY <1>3, <1>5, <1>6, ConcatProperties
<1>8. Len(v) + Len(u) = Len(s) - 1
  BY <1>1, <1>3, <1>5
<1>9. ASSUME NEW j \in 1..Len(s) - 1
      PROVE  w[j] = IF j < i THEN s[j] ELSE s[j + 1]
  <2>1. w[j] = IF j <= i - 1 THEN v[j] ELSE u[j - (i - 1)]
    BY <1>3, <1>7, <1>8
  <2>2. CASE j < i
    <3>1. j <= i - 1 /\ j \in 1..i - 1
      BY <1>1, <2>2
    <3>. QED
      BY <1>3, <2>1, <2>2, <3>1
  <2>3. CASE ~(j < i)
    <3>1. ~(j <= i - 1) /\ j - (i - 1) \in 1..Len(s) - i /\ i + (j - (i - 1)) = j + 1
      BY <1>1, <2>3
    <3>. QED
      BY <1>5, <2>1, <2>3, <3>1
  <2>. QED
    BY <2>2, <2>3
<1>10. RemoveAt(s, i) = w
  BY <1>2, <1>4, <1>6 DEF RemoveAt
<1>. QED
  BY <1>7, <1>8, <1>9, <1>10

\* To put the last of a sequence in the place of its last but one, or of itself,
\* is to take that place away.
LEMMA RemovedNearEnd ==
    ASSUME NEW S, NEW s \in Seq(S), NEW i \in 1..Len(s), i >= Len(s) - 1
    PROVE  Removed(s, i) = RemoveAt(s, i)
<1>1. Len(s) \in Nat \ {0}
  BY LenProperties
<1>2. PICK r : r = Removed(s, i)
  OBVIOUS
<1>3. PICK w : w = RemoveAt(s, i)
  OBVIOUS
<1>4. r \in Seq(S) /\ Len(r) = Len(s) - 1 /\ \A j \in 1..Len(s) - 1 : r[j] = IF j = i THEN s[Len(s)] ELSE s[j]
  BY <1>2, RemovedElements
<1>5. w \in Seq(S) /\ Len(w) = Len(s) - 1 /\ \A j \in 1..Len(s) - 1 : w[j] = IF j < i THEN s[j] ELSE s[j + 1]
  BY <1>3, RemoveAtElements
<1>6. ASSUME NEW j \in 1..Len(s) - 1
      PROVE  r[j] = w[j]
  <2>1. j < i \/ (j = i /\ j + 1 = Len(s))
    BY <1>1
  <2>. QED
    BY <1>4, <1>5, <2>1
<1>. QED
  BY <1>2, <1>3, <1>4, <1>5, <1>6, SeqEqual

\* An Unmount that leaves the order alone takes the same mount from both.
LEMMA UnmountStep ==
    ASSUME NamespaceInv, NEW path \in MountPoints, Unmount(path)
    PROVE  NamespaceInv'
<1>1. Len(binds) \in Nat /\ binds \in Seq(Bindings)
  BY LenProperties DEF NamespaceInv, MountsTyped
<1>2. FirstAt(binds, path) \in 1..Len(binds)
  BY <1>1, FirstAtThere DEF Unmount
<1>3. binds' = Removed(binds, FirstAt(binds, path))
  BY DEF Unmount
<1>4. MountsTyped'
  <2>1. binds' \in Seq(Bindings)
    BY <1>1, <1>2, <1>3, RemovedElements
  <2>2. ordered' \in BOOLEAN
    BY DEF NamespaceInv, MountsTyped, Unmount
  <2>. QED
    BY <2>1, <2>2 DEF MountsTyped
<1>5. OrderedAsLive'
  <2>. SUFFICES ASSUME ordered' PROVE binds' = live'
    BY DEF OrderedAsLive
  <2>1. ordered /\ FirstAt(binds, path) >= Len(binds) - 1
    BY DEF Unmount, NamespaceInv, MountsTyped
  <2>2. binds = live
    BY <2>1 DEF NamespaceInv, OrderedAsLive
  <2>3. Removed(binds, FirstAt(binds, path)) = RemoveAt(binds, FirstAt(binds, path))
    BY <1>1, <1>2, <2>1, RemovedNearEnd
  <2>4. live' = RemoveAt(live, FirstAt(live, path))
    BY DEF Unmount
  <2>. QED
    BY <1>3, <2>2, <2>3, <2>4
<1>6. ServedByNewest'
  BY DEF ServedByNewest, Unmount
<1>. QED
  BY <1>4, <1>5, <1>6 DEF NamespaceInv

\* What a look-up finds is what the invariant says of it.
LEMMA LookupStep ==
    ASSUME NamespaceInv, NEW path \in Paths, NEW by, NEW op,
           UNCHANGED <<binds, live, ordered>>,
           served' = [op |-> op, path |-> path, by |-> by,
                      name |-> IF InMount(path) = {} THEN path
                               ELSE TrimMountPoint(path, binds[FoundIn(path)].mountPoint)],
           InMount(path) = {} => by = {},
           InMount(path) # {} =>
             by = IF op = "open" THEN {binds[FoundIn(path)].fsys}
                  ELSE {binds[FoundIn(path)].fsys} \cap Mutable
    PROVE  NamespaceInv'
<1>1. MountsTyped' /\ OrderedAsLive'
  BY DEF NamespaceInv, MountsTyped, OrderedAsLive
<1>2. ServedByNewest'
  <2>. SUFFICES ASSUME ordered, Plain(path)
                PROVE  IF Holding(path) = {} THEN by = {}
                       ELSE /\ by = IF op = "open" THEN {Newest(path).fsys}
                                    ELSE {Newest(path).fsys} \cap Mutable
                            /\ Newest(path).mountPoint \o served'.name = path
    BY DEF ServedByNewest, Plain, Holding, Newest
  <2>1. path \in Seq(Names)
    BY NamespaceAssumption
  <2>2. /\ InMount(path) = {} <=> Holding(path) = {}
        /\ InMount(path) # {} =>
             /\ binds[FoundIn(path)] = Newest(path)
             /\ Newest(path).mountPoint \o TrimMountPoint(path, Newest(path).mountPoint) = path
    BY <2>1, LookupIsNewest DEF NamespaceInv
  <2>. QED
    BY <2>2
<1>. QED
  BY <1>1, <1>2 DEF NamespaceInv

LEMMA DelegateStep ==
    ASSUME NamespaceInv, NEW op \in Operations, NEW path \in Paths, Delegate(op, path)
    PROVE  NamespaceInv'
<1>1. UNCHANGED <<binds, live, ordered>> /\ op # "open"
  BY NamespaceAssumption DEF Delegate
<1>. DEFINE by == IF InMount(path) = {} THEN {} ELSE {binds[FoundIn(path)].fsys} \cap Mutable
<1>2. served' = [op |-> op, path |-> path, by |-> by,
                 name |-> IF InMount(path) = {} THEN path
                          ELSE TrimMountPoint(path, binds[FoundIn(path)].mountPoint)]
  BY DEF Delegate
<1>3. /\ InMount(path) = {} => by = {}
      /\ InMount(path) # {} =>
           by = IF op = "open" THEN {binds[FoundIn(path)].fsys} ELSE {binds[FoundIn(path)].fsys} \cap Mutable
  BY <1>1
<1>. HIDE DEF by
<1>. QED
  BY <1>1, <1>2, <1>3, LookupStep

LEMMA OpenStep ==
    ASSUME NamespaceInv, NEW path \in Paths, OpenDirectory(path) \/ OpenOther(path)
    PROVE  NamespaceInv'
<1>1. UNCHANGED <<binds, live, ordered>> /\ InMount(path) # {}
  BY DEF OpenDirectory, OpenOther
<1>. DEFINE by == {binds[FoundIn(path)].fsys}
<1>2. served' = [op |-> "open", path |-> path, by |-> by,
                 name |-> IF InMount(path) = {} THEN path
                          ELSE TrimMountPoint(path, binds[FoundIn(path)].mountPoint)]
  BY <1>1 DEF OpenDirectory, OpenOther
<1>3. InMount(path) # {} =>
           by = IF "open" = "open" THEN {binds[FoundIn(path)].fsys} ELSE {binds[FoundIn(path)].fsys} \cap Mutable
  OBVIOUS
<1>. HIDE DEF by
<1>. QED
  BY <1>1, <1>2, <1>3, LookupStep

LEMMA NamespaceInvStep == NamespaceInv /\ [NamespaceNext]_nsVars => NamespaceInv'
<1>. SUFFICES ASSUME NamespaceInv, [NamespaceNext]_nsVars PROVE NamespaceInv'
  OBVIOUS
<1>1. CASE ReadDir \/ UNCHANGED nsVars
  <2>1. UNCHANGED <<binds, live, ordered, served>>
    BY <1>1 DEF ReadDir, ReadAll, LastPage, FirstPage, NextPage, nsVars
  <2>. QED
    BY <2>1 DEF NamespaceInv, MountsTyped, OrderedAsLive, ServedByNewest, Holding, Plain
<1>. QED
  BY <1>1, MountStep, UnmountStep, OpenStep, DelegateStep DEF NamespaceNext

\* What namespacefs serves a path from is the newest mount that holds it, and
\* what it asks that mount for is the rest of the path: findMount and
\* trimMountPoint, for every path without names that are taken for others, as
\* long as no Unmount has changed the order of the mounts.
THEOREM ServesNewest == NamespaceSpec => []ServedByNewest
<1>1. NamespaceInv => ServedByNewest
  BY DEF NamespaceInv
<1>. QED
  BY <1>1, NamespaceInitInv, NamespaceInvStep, PTL DEF NamespaceSpec

----------------------------------------------------------------------------
(* directories *)

\* An open directory, and what its reader has got of it: everything that has
\* been handed out is what comes first, of what ought to be in it as long as all
\* of that can be had.
Handles == [state : {"open", "read"}, path : Seq(Names), under : Seq(Names), dirs : Seq(Names),
            mounts : SUBSET Bindings, off : Nat, entries : Seq(Names), fits : BOOLEAN, ordered : BOOLEAN]

MountNames(bs) == {Last(b.mountPoint) : b \in bs}

HandleShape ==
    /\ handle = NoHandle \/ handle \in Handles
    /\ handle = NoHandle => listed = <<>>
    /\ contents \in [FileSystems \ Unopened -> SUBSET Names]
    /\ \A f \in FileSystems \ Unopened : IsFiniteSet(contents[f])

PageShape ==
    handle # NoHandle =>
      /\ handle.off <= Len(handle.entries)
      /\ handle.state = "open" => listed = SubSeq(handle.entries, 1, handle.off)
      /\ Range(handle.dirs) = MountNames(handle.mounts)
      /\ handle.ordered => Len(handle.dirs) = Cardinality(handle.mounts)
      /\ handle.fits /\ handle.state = "open" /\ handle.off > 0 =>
           handle.entries = handle.under \o handle.dirs
      /\ handle.fits /\ handle.state = "read" => listed = handle.under \o handle.dirs

\* The live mounts are those of the code but for their order and, where several
\* are on one mount point, for which of them are left.
LiveTyped == live \in Seq(Bindings) /\ Len(live) = Len(binds) /\ Len(binds) <= MaxMounts

Matched ==
    \E f \in [1..Len(binds) -> 1..Len(live)] :
      /\ \A i, j \in 1..Len(binds) : i # j => f[i] # f[j]
      /\ \A i \in 1..Len(binds) : binds[i].mountPoint = live[f[i]].mountPoint

DirectoryInv == MountsTyped /\ OrderedAsLive /\ LiveTyped /\ Matched /\ HandleShape /\ PageShape

----------------------------------------------------------------------------
\* A set in some order: as many elements as it has, and those.
LEMMA SetInOrder ==
    ASSUME NEW S, IsFiniteSet(S), NEW s \in SetToSeqs(S)
    PROVE  s \in Seq(S) /\ Len(s) = Cardinality(S) /\ Range(s) = S
<1>1. PICK n \in Nat : n = Cardinality(S)
  BY FS_CardinalityType
<1>2. s \in [1..n -> S] /\ \A i, j \in 1..n : i # j => s[i] # s[j]
  BY <1>1 DEF SetToSeqs
<1>3. s \in Seq(S) /\ Len(s) = n
  BY <1>2
<1>4. s \in Injection(1..n, S)
  BY <1>2 DEF Injection, IsInjective
<1>5. IsFiniteSet(1..n) /\ Cardinality(1..n) = n
  BY FS_Interval
<1>6. s \in Surjection(1..n, S)
  BY <1>1, <1>4, <1>5, FS_Injection
<1>7. Range(s) = S
  BY <1>2, <1>6 DEF Surjection, Range
<1>. QED
  BY <1>1, <1>3, <1>7

\* A sequence has finitely many elements.
LEMMA RangeFinite ==
    ASSUME NEW S, NEW s \in Seq(S)
    PROVE  IsFiniteSet(Range(s)) /\ Range(s) \subseteq S
<1>1. Len(s) \in Nat /\ s \in [1..Len(s) -> S] /\ DOMAIN s = 1..Len(s)
  BY LenProperties
<1>2. s \in Surjection(1..Len(s), Range(s))
  BY <1>1 DEF Surjection, Range
<1>3. IsFiniteSet(1..Len(s))
  BY <1>1, FS_Interval
<1>4. IsFiniteSet(Range(s))
  BY <1>2, <1>3, FS_Surjection
<1>. QED
  BY <1>1, <1>4 DEF Range

\* A concatenation has the elements of both.
LEMMA RangeConcat ==
    ASSUME NEW S, NEW s \in Seq(S), NEW t \in Seq(S)
    PROVE  Range(s \o t) = Range(s) \cup Range(t)
<1>1. /\ s \o t \in Seq(S) /\ Len(s \o t) = Len(s) + Len(t)
      /\ \A i \in 1..Len(s) + Len(t) : (s \o t)[i] = IF i <= Len(s) THEN s[i] ELSE t[i - Len(s)]
  BY ConcatProperties
<1>2. Len(s) \in Nat /\ Len(t) \in Nat /\ DOMAIN s = 1..Len(s) /\ DOMAIN t = 1..Len(t)
  BY LenProperties
<1>3. DOMAIN (s \o t) = 1..Len(s) + Len(t)
  BY <1>1, LenProperties
<1>4. ASSUME NEW i \in 1..Len(s) + Len(t) PROVE (s \o t)[i] \in Range(s) \cup Range(t)
  <2>1. CASE i <= Len(s)
    BY <1>1, <1>2, <2>1 DEF Range
  <2>2. CASE ~(i <= Len(s))
    <3>1. i - Len(s) \in 1..Len(t)
      BY <1>2, <2>2
    <3>. QED
      BY <1>1, <1>2, <2>2, <3>1 DEF Range
  <2>. QED
    BY <2>1, <2>2
<1>5. ASSUME NEW i \in 1..Len(s) PROVE s[i] \in Range(s \o t)
  BY <1>1, <1>2, <1>3 DEF Range
<1>6. ASSUME NEW i \in 1..Len(t) PROVE t[i] \in Range(s \o t)
  <2>1. Len(s) + i \in 1..Len(s) + Len(t) /\ ~(Len(s) + i <= Len(s)) /\ Len(s) + i - Len(s) = i
    BY <1>2
  <2>2. (s \o t)[Len(s) + i] = t[i]
    BY <1>1, <2>1
  <2>. QED
    BY <1>3, <2>1, <2>2 DEF Range
<1>7. Range(s \o t) \subseteq Range(s) \cup Range(t)
  BY <1>3, <1>4 DEF Range
<1>8. Range(s) \cup Range(t) \subseteq Range(s \o t)
  BY <1>2, <1>5, <1>6 DEF Range
<1>. QED
  BY <1>7, <1>8

\* The mount point that serves a directory is not in it.
LEMMA ServedFromAbove ==
    ASSUME NEW path \in Seq(Names), InMount(path) # {}, NEW b \in Bindings,
           b.mountPoint # <<>>, Front(b.mountPoint) = path
    PROVE  b.mountPoint # binds[FoundIn(path)].mountPoint
<1>2. FoundIn(path) \in InMount(path)
  <2>1. InMount(path) \in SUBSET Nat
    BY DEF InMount
  <2>2. \E i \in InMount(path) : \A j \in InMount(path) : i <= j
    BY <2>1, LeastNatural
  <2>. QED
    BY <2>2 DEF FoundIn
<1>3. PICK m : m = binds[FoundIn(path)].mountPoint
  OBVIOUS
<1>4. m = <<>> \/ Len(m) <= Len(path)
  BY <1>2, <1>3 DEF InMount, HasTextPrefix
<1>5. b.mountPoint # m
  <2>. SUFFICES ASSUME b.mountPoint = m PROVE FALSE
    OBVIOUS
  <2>2. m \in Seq(Names) /\ m # <<>> /\ Front(m) = path
    BY NamespaceAssumption DEF Bindings
  <2>3. Len(m) \in Nat \ {0}
    BY <2>2, EmptySeq
  <2>4. PICK f : f = Front(m)
    OBVIOUS
  <2>5. PICK n \in Nat : n = Len(m) - 1
    BY <2>3
  <2>6. 0 \in Nat /\ 0 <= n /\ n <= Len(m) /\ f = SubSeq(m, 0 + 1, n)
    BY <2>3, <2>4, <2>5 DEF Front
  <2>7. Len(f) = n - 0
    BY <2>2, <2>6, Between
  <2>. QED
    BY <1>4, <2>2, <2>3, <2>4, <2>5, <2>7
<1>. QED
  BY <1>3, <1>5

\* With the mounts in order, what is listed beside the entries of a directory is
\* every mount in it.
LEMMA MountsListed ==
    ASSUME MountsTyped, OrderedAsLive, ordered, NEW path \in Seq(Names), InMount(path) # {}
    PROVE  MountsAt(path, binds[FoundIn(path)]) = MountsIn(path)
<1>1. binds = live
  BY DEF OrderedAsLive
<1>2. Range(live) \subseteq Bindings
  BY <1>1, RangeFinite DEF MountsTyped
<1>3. \A b \in MountsIn(path) : b.mountPoint # binds[FoundIn(path)].mountPoint
  BY <1>2, ServedFromAbove DEF MountsIn
<1>. QED
  BY <1>1, <1>3 DEF MountsAt, MountsIn

\* In any order it has the names of every mount in it: the code has as many
\* mounts on each path as are live.
LEMMA NamesListed ==
    ASSUME DirectoryInv, NEW path \in Seq(Names), InMount(path) # {}
    PROVE  MountNames(MountsAt(path, binds[FoundIn(path)])) = MountNames(MountsIn(path))
<1>1. PICK n \in Nat : n = Len(binds) /\ n = Len(live)
  BY LenProperties DEF DirectoryInv, LiveTyped, MountsTyped
<1>2. PICK f \in [1..n -> 1..n] :
        /\ \A i, j \in 1..n : i # j => f[i] # f[j]
        /\ \A i \in 1..n : binds[i].mountPoint = live[f[i]].mountPoint
  BY <1>1 DEF DirectoryInv, Matched
<1>3. f \in Surjection(1..n, 1..n)
  <2>1. f \in Injection(1..n, 1..n)
    BY <1>2 DEF Injection, IsInjective
  <2>2. IsFiniteSet(1..n) /\ Cardinality(1..n) = n
    BY FS_Interval
  <2>. QED
    BY <2>1, <2>2, FS_Injection
<1>4. /\ binds \in Seq(Bindings) /\ DOMAIN binds = 1..n
      /\ live \in Seq(Bindings) /\ DOMAIN live = 1..n
  BY <1>1, LenProperties DEF DirectoryInv, LiveTyped, MountsTyped
<1>5. ASSUME NEW b \in MountsAt(path, binds[FoundIn(path)])
      PROVE  \E c \in MountsIn(path) : Last(c.mountPoint) = Last(b.mountPoint)
  <2>1. PICK i \in 1..n : b = binds[i]
    BY <1>4 DEF MountsAt, Range
  <2>2. live[f[i]] \in Range(live) /\ live[f[i]].mountPoint = b.mountPoint
    BY <1>2, <1>4, <2>1 DEF Range
  <2>. QED
    BY <2>2 DEF MountsAt, MountsIn
<1>6. ASSUME NEW c \in MountsIn(path)
      PROVE  \E b \in MountsAt(path, binds[FoundIn(path)]) : Last(b.mountPoint) = Last(c.mountPoint)
  <2>1. PICK j \in 1..n : c = live[j]
    BY <1>4 DEF MountsIn, Range
  <2>2. PICK i \in 1..n : f[i] = j
    BY <1>3 DEF Surjection
  <2>3. PICK b : b = binds[i]
    OBVIOUS
  <2>4. b \in Range(binds) /\ b \in Bindings /\ b.mountPoint = c.mountPoint
    <3>1. b \in Range(binds)
      BY <1>4, <2>3 DEF Range
    <3>2. b \in Bindings
      BY <1>4, <3>1, RangeFinite
    <3>. QED
      BY <1>2, <2>1, <2>2, <2>3, <3>1, <3>2
  <2>5. b.mountPoint # <<>> /\ Front(b.mountPoint) = path
    BY <2>4 DEF MountsIn
  <2>6. b.mountPoint # binds[FoundIn(path)].mountPoint
    BY <2>4, <2>5, ServedFromAbove
  <2>. QED
    BY <2>4, <2>5, <2>6 DEF MountsAt
<1>. QED
  BY <1>5, <1>6 DEF MountNames

----------------------------------------------------------------------------
LEMMA DirectoryInitInv == NamespaceInit => DirectoryInv
<1>. SUFFICES ASSUME NamespaceInit PROVE DirectoryInv
  OBVIOUS
<1>1. MountsTyped /\ OrderedAsLive
  BY NamespaceInitInv DEF NamespaceInv
<1>2. HandleShape
  BY NamespaceAssumption DEF NamespaceInit, HandleShape
<1>3. PageShape
  BY DEF NamespaceInit, PageShape
<1>4. LiveTyped
  BY EmptySeq, NamespaceAssumption DEF NamespaceInit, LiveTyped
<1>5. Matched
  <2>1. binds = <<>> /\ live = <<>> /\ Len(<<>>) = 0 /\ 1..0 = {}
    BY EmptySeq DEF NamespaceInit
  <2>2. PICK f : f = [i \in 1..0 |-> 0]
    OBVIOUS
  <2>3. f \in [1..0 -> 1..0]
    BY <2>1, <2>2
  <2>. QED
    BY <2>1, <2>3 DEF Matched
<1>. QED
  BY <1>1, <1>2, <1>3, <1>4, <1>5 DEF DirectoryInv

\* A new mount is matched with itself.
LEMMA MountMatched ==
    ASSUME DirectoryInv, NEW fsys \in FileSystems, NEW path \in MountPoints, Mount(fsys, path)
    PROVE  LiveTyped' /\ Matched'
<1>1. PICK b : b = [fsys |-> fsys, mountPoint |-> path]
  OBVIOUS
<1>2. b \in Bindings /\ <<b>> \in Seq(Bindings) /\ Len(<<b>>) = 1 /\ <<b>>[1] = b
  BY <1>1 DEF Bindings
<1>3. PICK n \in Nat : n = Len(binds) /\ n = Len(live)
  BY LenProperties DEF DirectoryInv, MountsTyped, LiveTyped
<1>4. n < MaxMounts /\ binds' = <<b>> \o binds /\ live' = <<b>> \o live
  BY <1>1, <1>3 DEF Mount
<1>5. /\ binds' \in Seq(Bindings) /\ Len(binds') = 1 + n
      /\ \A i \in 1..1 + n : binds'[i] = IF i <= 1 THEN b ELSE binds[i - 1]
  <2>1. /\ <<b>> \o binds \in Seq(Bindings) /\ Len(<<b>> \o binds) = Len(<<b>>) + Len(binds)
        /\ \A i \in 1..Len(<<b>>) + Len(binds) :
             (<<b>> \o binds)[i] = IF i <= Len(<<b>>) THEN <<b>>[i] ELSE binds[i - Len(<<b>>)]
    BY <1>2, ConcatProperties DEF DirectoryInv, MountsTyped
  <2>2. \A i \in 1..1 + n : i <= 1 => i = 1
    OBVIOUS
  <2>. QED
    BY <1>2, <1>3, <1>4, <2>1, <2>2
<1>6. /\ live' \in Seq(Bindings) /\ Len(live') = 1 + n
      /\ \A i \in 1..1 + n : live'[i] = IF i <= 1 THEN b ELSE live[i - 1]
  <2>1. /\ <<b>> \o live \in Seq(Bindings) /\ Len(<<b>> \o live) = Len(<<b>>) + Len(live)
        /\ \A i \in 1..Len(<<b>>) + Len(live) :
             (<<b>> \o live)[i] = IF i <= Len(<<b>>) THEN <<b>>[i] ELSE live[i - Len(<<b>>)]
    BY <1>2, ConcatProperties DEF DirectoryInv, LiveTyped
  <2>2. \A i \in 1..1 + n : i <= 1 => i = 1
    OBVIOUS
  <2>. QED
    BY <1>2, <1>3, <1>4, <2>1, <2>2
<1>7. LiveTyped'
  BY <1>3, <1>4, <1>5, <1>6, NamespaceAssumption DEF LiveTyped
<1>8. PICK f \in [1..n -> 1..n] :
        /\ \A i, j \in 1..n : i # j => f[i] # f[j]
        /\ \A i \in 1..n : binds[i].mountPoint = live[f[i]].mountPoint
  BY <1>3 DEF DirectoryInv, Matched
<1>9. PICK g : g = [i \in 1..1 + n |-> IF i = 1 THEN 1 ELSE f[i - 1] + 1]
  OBVIOUS
<1>10. ASSUME NEW i \in 1..1 + n, i # 1
       PROVE  i - 1 \in 1..n /\ f[i - 1] \in 1..n /\ g[i] = f[i - 1] + 1 /\ g[i] \in 2..1 + n /\ g[i] - 1 = f[i - 1]
  <2>1. i - 1 \in 1..n
    BY <1>10
  <2>2. f[i - 1] \in 1..n
    BY <2>1
  <2>3. g[i] = f[i - 1] + 1
    BY <1>9, <1>10
  <2>4. f[i - 1] + 1 \in 2..1 + n /\ f[i - 1] + 1 - 1 = f[i - 1]
    <3>1. PICK h \in 1..n : h = f[i - 1]
      BY <2>2
    <3>2. h + 1 \in 2..1 + n /\ h + 1 - 1 = h
      OBVIOUS
    <3>. QED
      BY <3>1, <3>2
  <2>. QED
    BY <2>1, <2>2, <2>3, <2>4
<1>11. g[1] = 1 /\ 1 \in 1..1 + n
  BY <1>9
<1>12. g \in [1..1 + n -> 1..1 + n]
  <2>1. \A i \in 1..1 + n : g[i] \in 1..1 + n
    BY <1>10, <1>11
  <2>. QED
    BY <1>9, <2>1
<1>13. \A i, j \in 1..1 + n : i # j => g[i] # g[j]
  <2>. SUFFICES ASSUME NEW i \in 1..1 + n, NEW j \in 1..1 + n, i # j PROVE g[i] # g[j]
    OBVIOUS
  <2>1. CASE i = 1 \/ j = 1
    <3>1. \A k \in 1..1 + n : k # 1 => g[k] # 1
      <4>. SUFFICES ASSUME NEW k \in 1..1 + n, k # 1 PROVE g[k] # 1
        OBVIOUS
      <4>1. g[k] \in 2..1 + n
        BY <1>10
      <4>. QED
        BY <4>1
    <3>. QED
      BY <1>11, <2>1, <3>1
  <2>2. CASE i # 1 /\ j # 1
    <3>1. i - 1 \in 1..n /\ j - 1 \in 1..n /\ i - 1 # j - 1
      BY <2>2
    <3>2. f[i - 1] # f[j - 1]
      BY <1>8, <3>1
    <3>. QED
      BY <1>10, <2>2, <3>2
  <2>. QED
    BY <2>1, <2>2
<1>14. ASSUME NEW i \in 1..1 + n
       PROVE  binds'[i].mountPoint = live'[g[i]].mountPoint
  <2>1. CASE i = 1
    BY <1>5, <1>6, <1>11, <2>1
  <2>2. CASE i # 1
    <3>1. binds'[i] = binds[i - 1]
      BY <1>5, <2>2
    <3>2. live'[g[i]] = live[f[i - 1]]
      <4>1. PICK k : k = g[i]
        OBVIOUS
      <4>2. k \in 2..1 + n /\ k - 1 = f[i - 1]
        BY <1>10, <2>2, <4>1
      <4>3. k \in 1..1 + n /\ ~(k <= 1)
        BY <4>2
      <4>. QED
        BY <1>6, <4>1, <4>2, <4>3
    <3>3. binds[i - 1].mountPoint = live[f[i - 1]].mountPoint
      BY <1>8, <1>10, <2>2
    <3>. QED
      BY <3>1, <3>2, <3>3
  <2>. QED
    BY <2>1, <2>2
<1>15. Matched'
  <2>1. 1..Len(binds') = 1..1 + n /\ 1..Len(live') = 1..1 + n
    BY <1>5, <1>6
  <2>2. g \in [1..Len(binds') -> 1..Len(live')]
    BY <1>12, <2>1
  <2>3. /\ \A i, j \in 1..Len(binds') : i # j => g[i] # g[j]
        /\ \A i \in 1..Len(binds') : binds'[i].mountPoint = live'[g[i]].mountPoint
    BY <1>13, <1>14, <2>1
  <2>. QED
    BY <2>2, <2>3, Zenon DEF Matched
<1>. QED
  BY <1>7, <1>15

\* What is matched with the mount that goes is matched anew: with the live one
\* that was matched with the live one that goes.
LEMMA UnmountMatched ==
    ASSUME DirectoryInv, NEW path \in MountPoints, Unmount(path)
    PROVE  LiveTyped' /\ Matched'
<1>1. PICK n \in Nat : n = Len(binds) /\ n = Len(live)
  BY LenProperties DEF DirectoryInv, MountsTyped, LiveTyped
<1>2. PICK f \in [1..n -> 1..n] :
        /\ \A i, j \in 1..n : i # j => f[i] # f[j]
        /\ \A i \in 1..n : binds[i].mountPoint = live[f[i]].mountPoint
  BY <1>1 DEF DirectoryInv, Matched
<1>3. PICK i0 : i0 = FirstAt(binds, path)
  OBVIOUS
<1>4. PICK j0 : j0 = FirstAt(live, path)
  OBVIOUS
<1>5. i0 \in 1..n /\ binds[i0].mountPoint = path
  BY <1>1, <1>3, FirstAtThere DEF Unmount
<1>6. j0 \in 1..n /\ live[j0].mountPoint = path
  <2>1. f[i0] \in 1..n /\ live[f[i0]].mountPoint = path
    BY <1>2, <1>5
  <2>. QED
    BY <1>1, <1>4, <2>1, FirstAtThere
<1>7. PICK g : g = [i \in 1..n |-> IF i = i0 THEN j0 ELSE IF f[i] = j0 THEN f[i0] ELSE f[i]]
  OBVIOUS
<1>8. /\ g \in [1..n -> 1..n] /\ g[i0] = j0
      /\ \A i, j \in 1..n : i # j => g[i] # g[j]
      /\ \A i \in 1..n : binds[i].mountPoint = live[g[i]].mountPoint
  <2>1. g \in [1..n -> 1..n] /\ g[i0] = j0
    BY <1>2, <1>5, <1>6, <1>7
  <2>2. \A i, j \in 1..n : i # j => g[i] # g[j]
    BY <1>2, <1>5, <1>7
  <2>3. \A i \in 1..n : binds[i].mountPoint = live[g[i]].mountPoint
    BY <1>2, <1>5, <1>6, <1>7
  <2>. QED
    BY <2>1, <2>2, <2>3
<1>9. /\ binds' \in Seq(Bindings) /\ Len(binds') = n - 1
      /\ \A j \in 1..n - 1 : binds'[j] = IF j = i0 THEN binds[n] ELSE binds[j]
  <2>1. binds' = Removed(binds, i0) /\ i0 \in 1..Len(binds)
    BY <1>1, <1>3, <1>5 DEF Unmount
  <2>. QED
    <3>1. PICK s \in Seq(Bindings) : s = binds
      BY DEF DirectoryInv, MountsTyped
    <3>2. /\ Removed(s, i0) \in Seq(Bindings) /\ Len(Removed(s, i0)) = Len(s) - 1
          /\ \A j \in 1..Len(s) - 1 : Removed(s, i0)[j] = IF j = i0 THEN s[Len(s)] ELSE s[j]
      BY <2>1, <3>1, RemovedElements, ZenonT(60)
    <3>. QED
      BY <1>1, <2>1, <3>1, <3>2
<1>10. /\ live' \in Seq(Bindings) /\ Len(live') = n - 1
       /\ \A j \in 1..n - 1 : live'[j] = IF j < j0 THEN live[j] ELSE live[j + 1]
  <2>1. live' = RemoveAt(live, j0) /\ j0 \in 1..Len(live)
    BY <1>1, <1>4, <1>6 DEF Unmount
  <2>. QED
    BY <1>1, <2>1, RemoveAtElements DEF DirectoryInv, LiveTyped
<1>11. LiveTyped'
  <2>1. n <= MaxMounts /\ MaxMounts \in Nat
    BY <1>1, NamespaceAssumption DEF DirectoryInv, LiveTyped
  <2>. QED
    BY <1>9, <1>10, <2>1 DEF LiveTyped
<1>. DEFINE Old(i) == IF i = i0 THEN n ELSE i
            Up(j) == IF j < j0 THEN j ELSE j - 1
<1>12. PICK h : h = [i \in 1..n - 1 |-> Up(g[Old(i)])]
  OBVIOUS
<1>13. ASSUME NEW i \in 1..n - 1
       PROVE  Old(i) \in 1..n /\ Old(i) # i0 /\ binds'[i] = binds[Old(i)] /\ g[Old(i)] \in (1..n) \ {j0}
  <2>1. Old(i) \in 1..n /\ Old(i) # i0
    BY <1>5
  <2>2. binds'[i] = binds[Old(i)]
    BY <1>9
  <2>3. g[Old(i)] \in 1..n /\ g[Old(i)] # j0
    BY <1>5, <1>8, <2>1
  <2>. QED
    BY <2>1, <2>2, <2>3
<1>14. \A i, j \in 1..n - 1 : i # j => Old(i) # Old(j)
  BY <1>5
<1>15. \A j \in (1..n) \ {j0} : Up(j) \in 1..n - 1 /\ live'[Up(j)] = live[j]
  <2>. SUFFICES ASSUME NEW j \in (1..n) \ {j0} PROVE Up(j) \in 1..n - 1 /\ live'[Up(j)] = live[j]
    OBVIOUS
  <2>1. CASE j < j0
    BY <1>6, <1>10, <2>1
  <2>2. CASE ~(j < j0)
    <3>1. j - 1 \in 1..n - 1 /\ ~(j - 1 < j0) /\ j - 1 + 1 = j
      BY <1>6, <2>2
    <3>. QED
      BY <1>10, <2>2, <3>1
  <2>. QED
    BY <2>1, <2>2
<1>16. \A j, k \in (1..n) \ {j0} : j # k => Up(j) # Up(k)
  BY <1>6
<1>. HIDE DEF Old, Up
<1>17. h \in [1..n - 1 -> 1..n - 1]
  BY <1>12, <1>13, <1>15
<1>18. \A i, j \in 1..n - 1 : i # j => h[i] # h[j]
  <2>. SUFFICES ASSUME NEW i \in 1..n - 1, NEW j \in 1..n - 1, i # j PROVE h[i] # h[j]
    OBVIOUS
  <2>1. g[Old(i)] # g[Old(j)]
    BY <1>8, <1>13, <1>14
  <2>2. Up(g[Old(i)]) # Up(g[Old(j)])
    BY <1>13, <1>16, <2>1
  <2>. QED
    BY <1>12, <2>2
<1>19. ASSUME NEW i \in 1..n - 1
       PROVE  binds'[i].mountPoint = live'[h[i]].mountPoint
  <2>1. live'[h[i]] = live[g[Old(i)]]
    BY <1>12, <1>13, <1>15
  <2>2. binds'[i] = binds[Old(i)] /\ Old(i) \in 1..n
    BY <1>13
  <2>. QED
    BY <1>8, <2>1, <2>2
<1>20. Matched'
  <2>1. 1..Len(binds') = 1..n - 1 /\ 1..Len(live') = 1..n - 1
    BY <1>9, <1>10
  <2>2. h \in [1..Len(binds') -> 1..Len(live')]
    BY <1>17, <2>1
  <2>3. /\ \A i, j \in 1..Len(binds') : i # j => h[i] # h[j]
        /\ \A i \in 1..Len(binds') : binds'[i].mountPoint = live'[h[i]].mountPoint
    BY <1>18, <1>19, <2>1
  <2>. QED
    BY <2>2, <2>3, Zenon DEF Matched
<1>. QED
  BY <1>11, <1>20

\* Without a directory there is nothing to say.
LEMMA ClosedStep ==
    ASSUME DirectoryInv, Closed, UNCHANGED contents
    PROVE  HandleShape' /\ PageShape'
BY DEF DirectoryInv, Closed, HandleShape, PageShape

\* An open directory has its entries and, with the mounts in order, every mount
\* in it.
LEMMA OpensDirectoryStep ==
    ASSUME DirectoryInv, NEW path \in Paths, OpenDirectory(path)
    PROVE  HandleShape' /\ PageShape'
<1>1. PICK mount : mount = binds[FoundIn(path)]
  OBVIOUS
<1>2. InMount(path) # {} /\ path \in Seq(Names) /\ OpenedOK(path, mount)
  BY <1>1, NamespaceAssumption DEF OpenDirectory
<1>3. mount \in Bindings
  <2>1. FoundIn(path) \in InMount(path)
    <3>1. InMount(path) \in SUBSET Nat
      BY DEF InMount
    <3>2. \E i \in InMount(path) : \A j \in InMount(path) : i <= j
      BY <1>2, <3>1, LeastNatural
    <3>. QED
      BY <3>2 DEF FoundIn
  <2>2. FoundIn(path) \in 1..Len(binds)
    BY <2>1 DEF InMount
  <2>. QED
    BY <1>1, <2>2, ElementOfSeq DEF DirectoryInv, MountsTyped
<1>4. mount.fsys \in FileSystems \ Unopened
  BY <1>2, <1>3 DEF OpenedOK, Bindings
<1>5. PICK own : own = contents[mount.fsys]
  OBVIOUS
<1>6. own \in SUBSET Names /\ IsFiniteSet(own)
  BY <1>4, <1>5 DEF DirectoryInv, HandleShape
<1>7. PICK bs : bs = MountsAt(path, mount)
  OBVIOUS
<1>8. IsFiniteSet(bs) /\ bs \subseteq Bindings
  <2>1. bs \subseteq Range(binds) /\ IsFiniteSet(Range(binds)) /\ Range(binds) \subseteq Bindings
    BY <1>7, RangeFinite DEF MountsAt, DirectoryInv, MountsTyped
  <2>. QED
    BY <2>1, FS_Subset
<1>9. PICK under \in SetToSeqs(own), ms \in SetToSeqs(bs) :
        handle' = [state |-> "open", path |-> path, under |-> under,
                   dirs |-> [i \in 1..Len(ms) |-> Last(ms[i].mountPoint)],
                   mounts |-> MountsIn(path), off |-> 0, entries |-> <<>>, fits |-> TRUE, ordered |-> ordered]
  BY <1>1, <1>5, <1>7 DEF OpenDirectory
<1>10. under \in Seq(own) /\ Len(under) = Cardinality(own) /\ Range(under) = own
  BY <1>6, SetInOrder
<1>11. ms \in Seq(bs) /\ Len(ms) = Cardinality(bs) /\ Range(ms) = bs
  BY <1>8, SetInOrder
<1>12. under \in Seq(Names)
  BY <1>6, <1>10, SeqMonotonic
<1>13. \A b \in bs : Last(b.mountPoint) \in Names
  <2>. SUFFICES ASSUME NEW b \in bs PROVE Last(b.mountPoint) \in Names
    OBVIOUS
  <2>1. PICK m : m = b.mountPoint
    OBVIOUS
  <2>2. m \in Seq(Names) /\ m # <<>>
    BY <1>7, <1>8, <2>1, NamespaceAssumption DEF MountsAt, Bindings
  <2>3. Len(m) \in 1..Len(m)
    BY <2>2, EmptySeq
  <2>4. m[Len(m)] \in Names
    BY <2>2, <2>3, ElementOfSeq
  <2>. QED
    BY <2>1, <2>4 DEF Last
<1>14. PICK names : names = [i \in 1..Len(ms) |-> Last(ms[i].mountPoint)]
  OBVIOUS
<1>15. Len(ms) \in Nat /\ DOMAIN ms = 1..Len(ms) /\ \A i \in 1..Len(ms) : ms[i] \in bs
  BY <1>11, LenProperties, ElementOfSeq
<1>16. names \in Seq(Names) /\ Len(names) = Len(ms) /\ DOMAIN names = 1..Len(ms)
  <2>1. names \in [1..Len(ms) -> Names]
    BY <1>13, <1>14, <1>15
  <2>. QED
    BY <1>15, <2>1
<1>17. Range(names) = MountNames(bs)
  <2>1. \A i \in 1..Len(ms) : names[i] = Last(ms[i].mountPoint)
    BY <1>14
  <2>2. \A b \in bs : \E i \in 1..Len(ms) : b = ms[i]
    BY <1>11, <1>15 DEF Range
  <2>. QED
    BY <1>15, <1>16, <2>1, <2>2 DEF Range, MountNames
<1>18. MountsIn(path) \in SUBSET Bindings
  BY RangeFinite DEF MountsIn, DirectoryInv, LiveTyped
<1>19. ordered => bs = MountsIn(path)
  BY <1>1, <1>2, <1>7, MountsListed DEF DirectoryInv
<1>20. handle' \in Handles
  BY <1>2, <1>9, <1>12, <1>14, <1>16, <1>18 DEF Handles, DirectoryInv, MountsTyped
<1>21. handle' # NoHandle
  BY <1>9 DEF NoHandle
<1>22. UNCHANGED contents /\ listed' = <<>>
  BY DEF OpenDirectory
<1>23. HandleShape'
  BY <1>20, <1>21, <1>22 DEF HandleShape, DirectoryInv
<1>24. handle'.off = 0 /\ handle'.entries = <<>> /\ handle'.dirs = names /\ handle'.state = "open"
         /\ handle'.mounts = MountsIn(path) /\ handle'.ordered = ordered
  BY <1>9, <1>14
<1>25. SubSeq(<<>>, 1, 0) = <<>> /\ Len(<<>>) = 0
  BY SubSeqEmpty, EmptySeq
<1>26. PageShape'
  <2>1. handle'.off <= Len(handle'.entries) /\ ~(handle'.off > 0)
    BY <1>24, <1>25
  <2>2. listed' = SubSeq(handle'.entries, 1, handle'.off)
    BY <1>22, <1>24, <1>25
  <2>3. /\ handle'.ordered => bs = handle'.mounts
        /\ MountNames(bs) = MountNames(handle'.mounts)
    BY <1>1, <1>2, <1>7, <1>19, <1>24, NamesListed DEF DirectoryInv, MountsTyped
  <2>4. Range(handle'.dirs) = MountNames(bs) /\ Len(handle'.dirs) = Cardinality(bs)
    BY <1>11, <1>16, <1>17, <1>24
  <2>5. handle'.state # "read"
    BY <1>24
  <2>. QED
    BY <2>1, <2>2, <2>3, <2>4, <2>5 DEF PageShape
<1>. QED
  BY <1>23, <1>26

\* A page goes on where the last one ended.
LEMMA NextPart ==
    ASSUME NEW S, NEW s \in Seq(S), NEW m \in 0..Len(s), NEW n \in m..Len(s)
    PROVE  SubSeq(s, 1, m) \o SubSeq(s, m + 1, n) = SubSeq(s, 1, n)
<1>1. 1 \in 1..Len(s) + 1 /\ m \in 1 - 1..Len(s) /\ n \in m..Len(s)
  BY LenProperties
<1>. QED
  BY <1>1, ConcatAdjacentSubSeq

\* An open directory that is read.
LEMMA OpenHandle ==
    ASSUME DirectoryInv, handle.state = "open"
    PROVE  /\ handle \in Handles /\ handle # NoHandle
           /\ handle.under \in Seq(Names) /\ handle.dirs \in Seq(Names) /\ handle.entries \in Seq(Names)
           /\ handle.off \in 0..Len(handle.entries) /\ handle.fits \in BOOLEAN
           /\ listed = SubSeq(handle.entries, 1, handle.off)
<1>1. handle # NoHandle
  BY DEF NoHandle
<1>2. handle \in Handles
  BY <1>1 DEF DirectoryInv, HandleShape
<1>3. handle.off <= Len(handle.entries) /\ listed = SubSeq(handle.entries, 1, handle.off)
  BY <1>1 DEF DirectoryInv, PageShape
<1>4. handle.entries \in Seq(Names) /\ handle.off \in Nat
  BY <1>2 DEF Handles
<1>5. handle.off \in 0..Len(handle.entries)
  BY <1>3, <1>4, LenProperties
<1>. QED
  BY <1>1, <1>2, <1>3, <1>5 DEF Handles

LEMMA ReadAllStep ==
    ASSUME DirectoryInv, ReadAll
    PROVE  HandleShape' /\ PageShape'
<1>1. handle.state = "open" /\ UNCHANGED contents
  BY DEF ReadAll
<1>2. /\ handle \in Handles /\ handle # NoHandle
      /\ handle.under \in Seq(Names) /\ handle.dirs \in Seq(Names) /\ handle.entries \in Seq(Names)
      /\ handle.off \in 0..Len(handle.entries) /\ handle.fits \in BOOLEAN
      /\ listed = SubSeq(handle.entries, 1, handle.off)
  BY <1>1, OpenHandle
<1>3. PICK whole \in Seq(Names) : whole = handle.under \o handle.dirs
  BY <1>2, ConcatProperties
<1>4. PICK e \in Seq(Names) : e = IF handle.off = 0 THEN whole ELSE handle.entries
  BY <1>2, <1>3
<1>5. /\ listed' = listed \o SubSeq(e, handle.off + 1, Len(e))
      /\ handle' = [handle EXCEPT !.state = "read", !.entries = e]
  BY <1>3, <1>4 DEF ReadAll
<1>6. Len(e) \in Nat /\ handle.off \in 0..Len(e)
  BY <1>2, <1>4, LenProperties
<1>7. listed = SubSeq(e, 1, handle.off)
  <2>1. SubSeq(e, 1, 0) = <<>> /\ SubSeq(handle.entries, 1, 0) = <<>>
    BY SubSeqEmpty
  <2>. QED
    BY <1>2, <1>4, <2>1
<1>8. SubSeq(e, 1, handle.off) \o SubSeq(e, handle.off + 1, Len(e)) = SubSeq(e, 1, Len(e))
  <2>1. PICK m \in 0..Len(e) : m = handle.off
    BY <1>6
  <2>2. Len(e) \in m..Len(e)
    BY <1>6, <2>1
  <2>. QED
    BY <2>1, <2>2, NextPart
<1>9. listed' = e
  BY <1>5, <1>7, <1>8, SubSeqFull
<1>10. handle.fits => e = whole
  <2>1. handle.off # 0 => handle.off > 0
    BY <1>6
  <2>. QED
    BY <1>1, <1>2, <1>3, <1>4, <2>1 DEF DirectoryInv, PageShape
<1>11. /\ handle' \in Handles /\ handle'.state = "read" /\ handle'.entries = e /\ handle'.off = handle.off
       /\ handle'.under = handle.under /\ handle'.dirs = handle.dirs /\ handle'.mounts = handle.mounts
       /\ handle'.fits = handle.fits /\ handle'.ordered = handle.ordered
  BY <1>2, <1>5 DEF Handles
<1>12. handle' # NoHandle
  BY <1>11 DEF NoHandle
<1>13. HandleShape'
  BY <1>1, <1>11, <1>12 DEF HandleShape, DirectoryInv
<1>14. handle'.off <= Len(handle'.entries)
  BY <1>6, <1>11
<1>15. /\ Range(handle.dirs) = MountNames(handle.mounts)
       /\ handle.ordered => Len(handle.dirs) = Cardinality(handle.mounts)
  BY <1>2 DEF DirectoryInv, PageShape
<1>16. PageShape'
  BY <1>3, <1>9, <1>10, <1>11, <1>14, <1>15 DEF PageShape
<1>. QED
  BY <1>13, <1>16

\* The first page, which is all that is ever had of the directory's own entries.
LEMMA FirstPageStep ==
    ASSUME DirectoryInv, NEW c \in PageSizes, FirstPage(c)
    PROVE  HandleShape' /\ PageShape'
<1>1. handle.state = "open" /\ handle.off = 0 /\ UNCHANGED contents /\ c \in Nat \ {0}
  BY NamespaceAssumption DEF FirstPage
<1>2. /\ handle \in Handles /\ handle # NoHandle
      /\ handle.under \in Seq(Names) /\ handle.dirs \in Seq(Names) /\ handle.entries \in Seq(Names)
      /\ handle.off \in 0..Len(handle.entries) /\ handle.fits \in BOOLEAN
      /\ listed = SubSeq(handle.entries, 1, handle.off)
  BY <1>1, OpenHandle
<1>3. /\ Range(handle.dirs) = MountNames(handle.mounts)
      /\ handle.ordered => Len(handle.dirs) = Cardinality(handle.mounts)
  BY <1>2 DEF DirectoryInv, PageShape
<1>4. CASE handle.under = <<>>
  <2>1. handle' = [handle EXCEPT !.state = "read", !.fits = @ /\ handle.dirs = <<>>] /\ listed' = listed
    BY <1>4 DEF FirstPage
  <2>2. PICK r \in BOOLEAN : r = (handle.fits /\ handle.dirs = <<>>)
    OBVIOUS
  <2>3. /\ handle' \in Handles /\ handle'.state = "read" /\ handle'.entries = handle.entries /\ handle'.off = 0
        /\ handle'.under = handle.under /\ handle'.dirs = handle.dirs /\ handle'.mounts = handle.mounts
        /\ handle'.fits = r /\ handle'.ordered = handle.ordered
    BY <1>1, <1>2, <2>1, <2>2 DEF Handles
  <2>4. listed' = <<>>
    BY <1>1, <1>2, <2>1, SubSeqEmpty
  <2>5. handle.dirs = <<>> => handle.under \o handle.dirs = <<>>
    BY <1>4, ConcatEmptySeq, EmptySeq
  <2>6. handle' # NoHandle
    BY <2>3 DEF NoHandle
  <2>7. HandleShape'
    BY <1>1, <2>3, <2>6 DEF HandleShape, DirectoryInv
  <2>8. handle'.off <= Len(handle'.entries)
    BY <1>2, <2>3, LenProperties
  <2>9. r => handle.fits /\ handle.dirs = <<>>
    BY <2>2
  <2>10. PageShape'
    BY <1>3, <2>3, <2>4, <2>5, <2>8, <2>9 DEF PageShape
  <2>. QED
    BY <2>7, <2>10
<1>5. CASE handle.under # <<>>
  <2>1. PICK k : k = IF handle.dirs # <<>> /\ c < Len(handle.under) THEN c ELSE Len(handle.under)
    OBVIOUS
  <2>2. Len(handle.under) \in Nat \ {0} /\ k \in Nat \ {0} /\ k <= Len(handle.under)
    BY <1>1, <1>2, <1>5, <2>1, EmptySeq
  <2>3. PICK own : own = SubSeq(handle.under, 1, k)
    OBVIOUS
  <2>4. own \in Seq(Names) /\ Len(own) = k
    <3>1. 0 \in Nat /\ k \in Nat /\ 0 <= k /\ k <= Len(handle.under) /\ own = SubSeq(handle.under, 0 + 1, k)
      BY <2>2, <2>3
    <3>2. own \in Seq(Names) /\ Len(own) = k - 0
      BY <1>2, <3>1, Between
    <3>. QED
      BY <2>2, <3>2
  <2>5. PICK e \in Seq(Names) : e = own \o handle.dirs
    BY <1>2, <2>4, ConcatProperties
  <2>6. PICK n : n = IF c > Len(e) THEN Len(e) ELSE c
    OBVIOUS
  <2>7. Len(e) \in Nat /\ n \in Nat /\ n <= Len(e)
    BY <1>1, <2>5, <2>6, LenProperties
  <2>8. PICK r \in BOOLEAN : r = (handle.fits /\ ~(handle.dirs # <<>> /\ c < Len(handle.under)))
    OBVIOUS
  <2>9. listed' = SubSeq(e, 1, n) /\ handle' = [handle EXCEPT !.off = n, !.entries = e, !.fits = r]
    BY <1>5, <2>1, <2>3, <2>5, <2>6, <2>8 DEF FirstPage
  <2>10. r => e = handle.under \o handle.dirs
    BY <1>2, <2>1, <2>3, <2>5, <2>8, SubSeqFull
  <2>11. /\ handle' \in Handles /\ handle'.state = "open" /\ handle'.entries = e /\ handle'.off = n
         /\ handle'.under = handle.under /\ handle'.dirs = handle.dirs /\ handle'.mounts = handle.mounts
         /\ handle'.fits = r /\ handle'.ordered = handle.ordered
    BY <1>1, <1>2, <2>5, <2>7, <2>8, <2>9 DEF Handles
  <2>12. handle' # NoHandle
    BY <2>11 DEF NoHandle
  <2>13. HandleShape'
    BY <1>1, <2>11, <2>12 DEF HandleShape, DirectoryInv
  <2>14. PageShape'
    BY <1>3, <2>7, <2>8, <2>9, <2>10, <2>11 DEF PageShape
  <2>. QED
    BY <2>13, <2>14
<1>. QED
  BY <1>4, <1>5

LEMMA NextPageStep ==
    ASSUME DirectoryInv, NEW c \in PageSizes, NextPage(c)
    PROVE  HandleShape' /\ PageShape'
<1>1. /\ handle.state = "open" /\ handle.off > 0 /\ handle.off < Len(handle.entries) /\ UNCHANGED contents
      /\ c \in Nat \ {0}
  BY NamespaceAssumption DEF NextPage
<1>2. /\ handle \in Handles /\ handle # NoHandle
      /\ handle.entries \in Seq(Names)
      /\ handle.off \in 0..Len(handle.entries)
      /\ listed = SubSeq(handle.entries, 1, handle.off)
  BY <1>1, OpenHandle
<1>3. PICK e \in Seq(Names) : e = handle.entries
  BY <1>2
<1>4. PICK m \in 0..Len(e) : m = handle.off
  BY <1>2, <1>3
<1>5. PICK n : n = m + IF c > Len(e) - m THEN Len(e) - m ELSE c
  OBVIOUS
<1>6. Len(e) \in Nat /\ n \in m..Len(e) /\ n \in Nat /\ n > 0
  <2>1. Len(e) \in Nat /\ m < Len(e) /\ m > 0
    BY <1>1, <1>3, <1>4, LenProperties
  <2>. QED
    BY <1>1, <1>5, <2>1
<1>7. listed' = SubSeq(e, 1, m) \o SubSeq(e, m + 1, n) /\ handle' = [handle EXCEPT !.off = n]
  BY <1>2, <1>3, <1>4, <1>5 DEF NextPage
<1>8. listed' = SubSeq(e, 1, n)
  BY <1>6, <1>7, NextPart
<1>9. /\ handle' \in Handles /\ handle'.state = "open" /\ handle'.entries = e /\ handle'.off = n
      /\ handle'.under = handle.under /\ handle'.dirs = handle.dirs /\ handle'.mounts = handle.mounts
      /\ handle'.fits = handle.fits /\ handle'.ordered = handle.ordered
  BY <1>1, <1>2, <1>3, <1>6, <1>7 DEF Handles
<1>10. handle' # NoHandle
  BY <1>9 DEF NoHandle
<1>11. HandleShape'
  BY <1>1, <1>9, <1>10 DEF HandleShape, DirectoryInv
<1>12. PageShape'
  <2>1. /\ Range(handle.dirs) = MountNames(handle.mounts)
        /\ handle.ordered => Len(handle.dirs) = Cardinality(handle.mounts)
    BY <1>2 DEF PageShape, DirectoryInv
  <2>2. handle.fits => e = handle.under \o handle.dirs
    BY <1>1, <1>2, <1>3 DEF PageShape, DirectoryInv
  <2>3. n <= Len(e)
    BY <1>6
  <2>. QED
    BY <1>8, <1>9, <2>1, <2>2, <2>3 DEF PageShape
<1>. QED
  BY <1>11, <1>12

LEMMA LastPageStep ==
    ASSUME DirectoryInv, LastPage
    PROVE  HandleShape' /\ PageShape'
<1>1. /\ handle.state = "open" /\ handle.off > 0 /\ handle.off = Len(handle.entries)
      /\ handle' = [handle EXCEPT !.state = "read"] /\ UNCHANGED <<contents, listed>>
  BY DEF LastPage
<1>2. /\ handle \in Handles /\ handle # NoHandle /\ handle.entries \in Seq(Names)
      /\ listed = SubSeq(handle.entries, 1, handle.off)
  BY <1>1, OpenHandle
<1>3. listed = handle.entries
  BY <1>1, <1>2, SubSeqFull
<1>4. /\ handle' \in Handles /\ handle'.state = "read" /\ handle'.entries = handle.entries /\ handle'.off = handle.off
      /\ handle'.under = handle.under /\ handle'.dirs = handle.dirs /\ handle'.mounts = handle.mounts
      /\ handle'.fits = handle.fits /\ handle'.ordered = handle.ordered
  BY <1>1, <1>2 DEF Handles
<1>5. handle' # NoHandle
  BY <1>4 DEF NoHandle
<1>6. HandleShape'
  BY <1>1, <1>4, <1>5 DEF HandleShape, DirectoryInv
<1>7. PageShape'
  BY <1>1, <1>2, <1>3, <1>4 DEF PageShape, DirectoryInv
<1>. QED
  BY <1>6, <1>7

LEMMA DirectoryInvStep == NamespaceInv /\ DirectoryInv /\ [NamespaceNext]_nsVars => DirectoryInv'
<1>. SUFFICES ASSUME NamespaceInv, DirectoryInv, [NamespaceNext]_nsVars PROVE DirectoryInv'
  OBVIOUS
<1>1. MountsTyped' /\ OrderedAsLive'
  BY NamespaceInvStep DEF NamespaceInv
<1>2. ASSUME UNCHANGED <<binds, live>> PROVE LiveTyped' /\ Matched'
  BY <1>2 DEF DirectoryInv, LiveTyped, Matched
<1>3. ASSUME NEW fsys \in FileSystems, NEW path \in MountPoints, Mount(fsys, path)
      PROVE  DirectoryInv'
  <2>1. HandleShape' /\ PageShape'
    BY <1>3, ClosedStep DEF Mount
  <2>. QED
    BY <1>1, <1>3, <2>1, MountMatched DEF DirectoryInv
<1>4. ASSUME NEW path \in MountPoints, Unmount(path)
      PROVE  DirectoryInv'
  <2>1. HandleShape' /\ PageShape'
    BY <1>4, ClosedStep DEF Unmount
  <2>. QED
    BY <1>1, <1>4, <2>1, UnmountMatched DEF DirectoryInv
<1>5. ASSUME NEW path \in Paths, OpenDirectory(path)
      PROVE  DirectoryInv'
  <2>1. UNCHANGED <<binds, live>>
    BY <1>5 DEF OpenDirectory
  <2>. QED
    BY <1>1, <1>2, <1>5, <2>1, OpensDirectoryStep DEF DirectoryInv
<1>6. ASSUME NEW path \in Paths, OpenOther(path) \/ \E op \in Operations : Delegate(op, path)
      PROVE  DirectoryInv'
  <2>1. UNCHANGED <<binds, live>> /\ HandleShape' /\ PageShape'
    BY <1>6, ClosedStep DEF OpenOther, Delegate
  <2>. QED
    BY <1>1, <1>2, <2>1 DEF DirectoryInv
<1>7. CASE ReadDir
  <2>1. UNCHANGED <<binds, live>>
    BY <1>7 DEF ReadDir, ReadAll, LastPage, FirstPage, NextPage
  <2>2. HandleShape' /\ PageShape'
    BY <1>7, ReadAllStep, LastPageStep, FirstPageStep, NextPageStep DEF ReadDir
  <2>. QED
    BY <1>1, <1>2, <2>1, <2>2, SMTT(40) DEF DirectoryInv
<1>8. CASE UNCHANGED nsVars
  BY <1>1, <1>2, <1>8 DEF nsVars, DirectoryInv, HandleShape, PageShape
<1>. QED
  BY <1>3, <1>4, <1>5, <1>6, <1>7, <1>8 DEF NamespaceNext

\* What a reader of a directory gets who reads it to its end: its own entries and
\* the names of the mounts in it, also after an Unmount that changed their order;
\* and each as often as it is there as long as none has.  It reads the directory
\* in one go, or in pages of which, when there are mounts in it, the first has
\* room for its own entries and is not empty.
THEOREM ListsWhole == NamespaceSpec => []DirectoryWhole
<1>1. DirectoryInv => DirectoryWhole
  <2>. SUFFICES ASSUME DirectoryInv, handle.state = "read", handle.fits
                PROVE  /\ Range(listed) = Range(handle.under) \cup MountNames(handle.mounts)
                       /\ handle.ordered => Len(listed) = Len(handle.under) + Cardinality(handle.mounts)
    BY DEF DirectoryWhole, MountNames
  <2>1. handle # NoHandle
    BY DEF NoHandle
  <2>2. handle.under \in Seq(Names) /\ handle.dirs \in Seq(Names)
    BY <2>1 DEF DirectoryInv, HandleShape, Handles
  <2>3. /\ listed = handle.under \o handle.dirs
        /\ Range(handle.dirs) = MountNames(handle.mounts)
        /\ handle.ordered => Len(handle.dirs) = Cardinality(handle.mounts)
    BY <2>1 DEF DirectoryInv, PageShape
  <2>4. /\ Range(handle.under \o handle.dirs) = Range(handle.under) \cup Range(handle.dirs)
        /\ Len(handle.under \o handle.dirs) = Len(handle.under) + Len(handle.dirs)
    BY <2>2, RangeConcat, ConcatProperties
  <2>. QED
    BY <2>3, <2>4
<1>. QED
  BY <1>1, NamespaceInitInv, NamespaceInvStep, DirectoryInitInv, DirectoryInvStep, PTL DEF NamespaceSpec

----------------------------------------------------------------------------
(* copies *)

\* What is copied, and what is in its place, while it is copied.
SourceShape ==
    /\ source \in {"tar", "disk"}
    /\ archive \in Seq([path : EntryPaths, kind : EntryKinds])
    /\ \A p \in DOMAIN before :
         p # <<>> => /\ p \in EntryPaths /\ Front(p) = <<>> /\ <<>> \in DOMAIN before
                     /\ before[p].kind = "file"
    /\ <<>> \in DOMAIN before => before[<<>>].kind \in {"dir", "file"}

\* The target has what was there before, its files as they were, and besides it
\* only what the source has.
TreeShape ==
    /\ DOMAIN before \subseteq DOMAIN tree
    /\ DOMAIN tree \subseteq DOMAIN before \cup Archived \cup {<<>>}
    /\ \A p \in DOMAIN tree : p # <<>> => Front(p) \in DOMAIN tree
    /\ \A p \in DOMAIN before : before[p].kind = "file" => tree[p] = before[p]
    /\ copy \in {"ready", "running", "done", "failed"}
    /\ copy = "ready" => tree = before /\ frames = <<>> /\ copying = {}
    /\ copy \in {"running", "done"} => <<>> \in DOMAIN tree
    /\ copy = "done" => frames = <<>> /\ copying = {}
    /\ cause \in {"none", "exists", "kind", "permission", "directory", "read", "write"}

\* The calls of copyDir are for a directory, one in it, one in that, and so on,
\* which all have been made by the copy, but for the root.
FrameOf(i) ==
    LET d == frames[i].path
    IN /\ Len(d) = i - 1
       /\ d \in DOMAIN tree /\ IsDirectory(d)
       /\ tree[d].kind = IF d = <<>> THEN "dir" ELSE KindOf(d)
       /\ d # <<>> => d \in Archived /\ d \notin DOMAIN before
       /\ frames[i].left \subseteq EntriesIn(d)

Frame == [path : Seq(STRING), left : SUBSET Archived]

FrameShape ==
    /\ frames \in Seq(Frame)
    /\ \A i \in 1..Len(frames) : FrameOf(i)

\* Nothing that is still left has been made by the copy.
Fresh ==
    copy = "running" =>
        \A i \in 1..Len(frames) : \A p \in frames[i].left : p \in DOMAIN tree => p \in DOMAIN before

\* The file that is being written has been made by the copy.
Writing ==
    /\ \A p \in copying : /\ p \in Archived /\ ~IsDirectory(p)
                          /\ p \in DOMAIN tree /\ p \notin DOMAIN before /\ tree[p].kind = "file"
    /\ \A p, q \in copying : p = q

Entered(d) == d = <<>> \/ (d \in DOMAIN tree /\ d \notin DOMAIN before /\ IsDirectory(d))

LeftOver(p) == \E i \in 1..Len(frames) : frames[i].path = Front(p) /\ p \in frames[i].left

Taken(p) ==
    /\ p \in DOMAIN tree /\ p \notin DOMAIN before
    /\ IF IsDirectory(p) THEN tree[p] = DirectoryNode(KindOf(p))
       ELSE p \in copying \/ tree[p] = FileNode(ContentsAt(p), TRUE)

\* What is in a directory that has been entered is copied or still left.
CopiedSoFar ==
    copy \in {"running", "done"} => \A p \in Archived : Entered(Front(p)) => LeftOver(p) \/ Taken(p)

CopyInv == SourceShape /\ TreeShape /\ FrameShape /\ Fresh /\ Writing /\ CopiedSoFar /\ CopyFailsForCause

----------------------------------------------------------------------------
\* The path of an entry is that of a directory and a name.
LEMMA EntryPathFacts ==
    ASSUME NEW p \in EntryPaths
    PROVE  p # <<>> /\ Len(p) \in Nat \ {0} /\ Front(p) \in Seq(STRING) /\ Len(Front(p)) = Len(p) - 1
<1>1. p \in Seq(STRING) /\ p # <<>>
  BY TarAssumption
<1>2. Len(p) \in Nat \ {0}
  BY <1>1, EmptySeq
<1>3. PICK n \in Nat : n = Len(p) - 1
  BY <1>2
<1>4. PICK f : f = Front(p)
  OBVIOUS
<1>5. 0 \in Nat /\ 0 <= n /\ n <= Len(p) /\ f = SubSeq(p, 0 + 1, n)
  BY <1>2, <1>3, <1>4 DEF Front
<1>6. f \in Seq(STRING) /\ Len(f) = n - 0
  BY <1>1, <1>5, Between
<1>. QED
  BY <1>1, <1>2, <1>3, <1>4, <1>6

LEMMA ArchivedPaths == SourceShape => Archived \subseteq EntryPaths
<1>. SUFFICES ASSUME SourceShape PROVE Archived \subseteq EntryPaths
  OBVIOUS
<1>1. \A i \in 1..Len(archive) : archive[i] \in [path : EntryPaths, kind : EntryKinds]
  BY ElementOfSeq DEF SourceShape
<1>. QED
  BY <1>1 DEF Archived

\* A copy does not change what it copies.
LEMMA ArchiveKept ==
    ASSUME UNCHANGED <<source, archive, before>>
    PROVE  /\ Archived' = Archived
           /\ \A p : KindOf(p)' = KindOf(p) /\ IsDirectory(p)' = IsDirectory(p)
           /\ \A p : EntriesIn(p)' = EntriesIn(p) /\ ContentsAt(p)' = ContentsAt(p)
<1>1. Archived' = Archived
  BY DEF Archived
<1>2. ASSUME NEW p PROVE EntryAt(p)' = EntryAt(p)
  BY DEF EntryAt
<1>3. ASSUME NEW p PROVE KindOf(p)' = KindOf(p)
  BY <1>2 DEF KindOf
<1>4. ASSUME NEW p PROVE IsDirectory(p)' = IsDirectory(p)
  BY <1>3 DEF IsDirectory
<1>5. ASSUME NEW p PROVE EntriesIn(p)' = EntriesIn(p) /\ ContentsAt(p)' = ContentsAt(p)
  BY <1>1, <1>2, <1>3 DEF EntriesIn, ContentsAt
<1>. QED
  BY <1>1, <1>3, <1>4, <1>5

\* The root is a directory, and no entry is the root.
LEMMA RootIsDirectory == IsDirectory(<<>>)
BY DEF IsDirectory, KindOf, DirectoryKinds

\* A function from 1..m is a sequence.
LEMMA SeqOfIsSeq == \A S, n : SeqOf(S, n) \subseteq Seq(S)
<1>. SUFFICES ASSUME NEW S, NEW n, NEW s \in SeqOf(S, n) PROVE s \in Seq(S)
  OBVIOUS
<1>1. PICK m \in 0..n : s \in [1..m -> S]
  BY DEF SeqOf
<1>. QED
  BY <1>1

LEMMA CopyStarts == CopyInit => CopyInv
<1>. SUFFICES ASSUME CopyInit PROVE CopyInv
  OBVIOUS
<1>1. source \in {"tar", "disk"} /\ archive \in Seq([path : EntryPaths, kind : EntryKinds])
  BY SeqOfIsSeq DEF CopyInit
<1>2. DOMAIN Bare = {<<>>} /\ Bare[<<>>] = DirectoryNode("dir")
  BY DEF Bare, Only
<1>3. \A n : DOMAIN Only(n) = {<<>>} /\ Only(n)[<<>>] = n
  BY DEF Only
<1>4. ASSUME NEW q \in EntryPaths, Len(q) = 1, before = With(Bare, q, FileNode(0, TRUE))
      PROVE  /\ DOMAIN before = {<<>>, q} /\ before[<<>>] = DirectoryNode("dir")
             /\ before[q] = FileNode(0, TRUE) /\ Front(q) = <<>>
  <2>1. PICK r : r = Front(q)
    OBVIOUS
  <2>2. q # <<>> /\ r \in Seq(STRING) /\ Len(r) = Len(q) - 1
    BY <2>1, EntryPathFacts
  <2>3. Len(r) \notin Nat \ {0}
    BY <1>4, <2>2
  <2>4. r = <<>>
    BY <2>2, <2>3, EmptySeq
  <2>. QED
    BY <1>2, <1>4, <2>1, <2>2, <2>4 DEF With
<1>5. \/ before = Bare \/ before = <<>> \/ before = Only(FileNode(0, TRUE))
      \/ \E q \in EntryPaths : Len(q) = 1 /\ before = With(Bare, q, FileNode(0, TRUE))
  BY DEF CopyInit
<1>6. ASSUME before = <<>> PROVE DOMAIN before = {}
  <2>1. <<>> \in Seq({}) /\ Len(<<>>) = 0 /\ 1..0 = {}
    BY EmptySeq
  <2>. QED
    BY <1>6, <2>1, LenProperties
<1>7. SourceShape
  <2>1. FileNode(0, TRUE).kind = "file" /\ DirectoryNode("dir").kind = "dir"
    BY DEF FileNode, DirectoryNode
  <2>2. CASE before \in {Bare, <<>>, Only(FileNode(0, TRUE))}
    BY <1>1, <1>2, <1>3, <1>6, <2>1, <2>2 DEF SourceShape
  <2>3. ASSUME NEW q \in EntryPaths, Len(q) = 1, before = With(Bare, q, FileNode(0, TRUE))
        PROVE  SourceShape
    BY <1>1, <1>4, <2>1, <2>3 DEF SourceShape
  <2>. QED
    BY <1>5, <2>2, <2>3
<1>8. TreeShape
  <2>1. \A p \in DOMAIN before : p # <<>> => Front(p) \in DOMAIN before
    BY <1>7 DEF SourceShape
  <2>. QED
    BY <2>1 DEF CopyInit, TreeShape
<1>9. FrameShape
  BY EmptySeq DEF CopyInit, FrameShape
<1>10. Fresh /\ Writing /\ CopiedSoFar /\ CopyFailsForCause
  BY DEF CopyInit, Fresh, Writing, CopiedSoFar, CopyFailsForCause
<1>. QED
  BY <1>7, <1>8, <1>9, <1>10 DEF CopyInv

\* Whose turn it is: the root at first, and then what the innermost directory
\* has left, which has not been made yet.
LEMMA TurnFacts ==
    ASSUME CopyInv, Running, NEW path, Turn(path)
    PROVE  /\ copying = {}
           /\ path = <<>> => copy = "ready" /\ tree = before /\ frames = <<>>
           /\ path # <<>> =>
                /\ copy = "running" /\ Len(frames) \in 1..Len(frames)
                /\ path \in frames[Len(frames)].left /\ Front(path) = frames[Len(frames)].path
                /\ path \in Archived /\ path \in EntryPaths
           /\ Occupied(path) => path \in DOMAIN before /\ before[path].kind = "file"
           /\ path # <<>> /\ ~Occupied(path) => path \notin DOMAIN tree
<1>1. copying = {} /\ copy \in {"ready", "running"}
  BY DEF Running
<1>2. CASE copy = "ready"
  <2>1. path = <<>>
    BY <1>2 DEF Turn
  <2>2. tree = before /\ frames = <<>>
    BY <1>2 DEF CopyInv, TreeShape
  <2>. QED
    BY <1>1, <1>2, <2>1, <2>2 DEF Occupied
<1>3. CASE copy = "running"
  <2>1. frames # <<>> /\ path \in Last(frames).left
    BY <1>3 DEF Turn
  <2>2. frames \in Seq(Frame)
    BY DEF CopyInv, FrameShape
  <2>3. Len(frames) \in Nat \ {0}
    BY <2>1, <2>2, EmptySeq
  <2>4. Len(frames) \in 1..Len(frames) /\ path \in frames[Len(frames)].left
    BY <2>1, <2>3 DEF Last
  <2>5. FrameOf(Len(frames))
    BY <2>4 DEF CopyInv, FrameShape
  <2>6. path \in EntriesIn(frames[Len(frames)].path)
    BY <2>4, <2>5 DEF FrameOf
  <2>7. path \in Archived /\ Front(path) = frames[Len(frames)].path
    BY <2>6 DEF EntriesIn
  <2>8. path \in EntryPaths /\ path # <<>>
    BY <2>7, ArchivedPaths, EntryPathFacts DEF CopyInv
  <2>9. path \in DOMAIN tree => path \in DOMAIN before
    BY <1>3, <2>4 DEF CopyInv, Fresh
  <2>10. path \in DOMAIN tree => before[path].kind = "file" /\ tree[path] = before[path]
    BY <2>8, <2>9 DEF CopyInv, SourceShape, TreeShape
  <2>11. path \in DOMAIN tree => Occupied(path)
    BY <2>10 DEF Occupied
  <2>. QED
    BY <1>1, <1>3, <2>4, <2>7, <2>8, <2>9, <2>10, <2>11 DEF Occupied
<1>. QED
  BY <1>1, <1>2, <1>3

\* It is not left to any other directory.
LEMMA LeftOnce ==
    ASSUME CopyInv, NEW i \in 1..Len(frames), NEW j \in 1..Len(frames), NEW path,
           path \in frames[i].left, path \in frames[j].left
    PROVE  i = j
<1>1. Len(frames[i].path) = i - 1 /\ Len(frames[j].path) = j - 1
  BY DEF CopyInv, FrameShape, FrameOf
<1>2. Front(path) = frames[i].path /\ Front(path) = frames[j].path
  BY DEF CopyInv, FrameShape, FrameOf, EntriesIn
<1>3. i - 1 = j - 1 /\ i \in Int /\ j \in Int
  BY <1>1, <1>2
<1>. QED
  BY <1>3

\* The calls when its turn is over.
LEMMA TakenFrames ==
    ASSUME CopyInv, NEW path, Len(frames) \in 1..Len(frames)
    PROVE  /\ TurnTaken(path) \in Seq(Frame) /\ Len(TurnTaken(path)) = Len(frames)
           /\ \A i \in 1..Len(frames) :
                /\ TurnTaken(path)[i].path = frames[i].path
                /\ TurnTaken(path)[i].left =
                     IF i = Len(frames) THEN frames[i].left \ {path} ELSE frames[i].left
<1>1. frames \in Seq(Frame) /\ Len(frames) \in Nat /\ frames # <<>>
  BY EmptySeq DEF CopyInv, FrameShape
<1>2. PICK n : n = Len(frames)
  OBVIOUS
<1>3. n \in 1..Len(frames) /\ frames[n] \in Frame /\ \A i \in 1..Len(frames) : frames[i] \in Frame
  BY <1>1, <1>2, ElementOfSeq
<1>4. PICK f : f = [frames[n] EXCEPT !.left = @ \ {path}]
  OBVIOUS
<1>5. f \in Frame /\ f.path = frames[n].path /\ f.left = frames[n].left \ {path}
  BY <1>3, <1>4 DEF Frame
<1>6. TurnTaken(path) = [frames EXCEPT ![n] = f]
  BY <1>1, <1>2, <1>4 DEF TurnTaken
<1>7. PICK t : t = [frames EXCEPT ![n] = f]
  OBVIOUS
<1>8. t \in Seq(Frame) /\ Len(t) = Len(frames) /\ \A i \in 1..Len(frames) : t[i] = IF i = n THEN f ELSE frames[i]
  BY <1>1, <1>3, <1>5, <1>7, ExceptSeq
<1>. QED
  BY <1>2, <1>5, <1>6, <1>7, <1>8

\* A copy that has failed does nothing any more.
LEMMA FailsStep ==
    ASSUME CopyInv, copy \in {"ready", "running"}, NEW why, Fails(why),
           why \in {"none", "exists", "kind", "permission", "directory", "read", "write"},
           why # "write" => CopyFailsForCause'
    PROVE  CopyInv'
<1>1. UNCHANGED <<source, archive, before, tree, frames, copying>> /\ copy' = "failed" /\ cause' = why
  BY DEF Fails
<1>2. /\ Archived' = Archived
      /\ \A p : KindOf(p)' = KindOf(p) /\ IsDirectory(p)' = IsDirectory(p) /\ EntriesIn(p)' = EntriesIn(p)
  BY <1>1, ArchiveKept
<1>3. SourceShape'
  BY <1>1 DEF CopyInv, SourceShape
<1>4. TreeShape'
  BY <1>1, <1>2 DEF CopyInv, TreeShape
<1>5. FrameShape'
  BY <1>1, <1>2 DEF CopyInv, FrameShape, FrameOf, Frame
<1>6. Fresh' /\ CopiedSoFar'
  BY <1>1 DEF Fresh, CopiedSoFar
<1>7. Writing'
  BY <1>1, <1>2 DEF CopyInv, Writing
<1>8. CopyFailsForCause'
  BY <1>1 DEF CopyFailsForCause
<1>. QED
  BY <1>3, <1>4, <1>5, <1>6, <1>7, <1>8 DEF CopyInv

LEMMA RefusesStep ==
    ASSUME CopyInv, NEW path \in Archived \cup {<<>>}, Refuses(path) \/ RefusesKind(path)
    PROVE  CopyInv'
<1>1. Running /\ Turn(path) /\ copy \in {"ready", "running"}
  BY DEF Refuses, RefusesKind, Running
<1>2. CASE Refuses(path)
  <2>1. path \in DOMAIN before \cap (Archived \cup {<<>>}) /\ before[path].kind = "file"
    BY <1>1, <1>2, TurnFacts DEF Refuses
  <2>2. Fails("exists") /\ UNCHANGED <<archive, before>>
    BY <1>2 DEF Refuses, Fails
  <2>3. Archived' = Archived
    BY <2>2 DEF Archived
  <2>4. CopyFailsForCause'
    BY <2>1, <2>2, <2>3 DEF CopyFailsForCause, Fails
  <2>. QED
    BY <1>1, <2>2, <2>4, FailsStep
<1>3. CASE RefusesKind(path)
  <2>1. Fails("kind") /\ UNCHANGED <<source, archive, before>> /\ source = "tar" /\ KindOf(path) = "symlink"
    BY <1>3 DEF RefusesKind, Fails, IsSpecial
  <2>2. path \in Archived
    BY <2>1 DEF KindOf
  <2>3. Archived' = Archived /\ \A p : KindOf(p)' = KindOf(p)
    BY <2>1, ArchiveKept
  <2>4. CopyFailsForCause'
    BY <2>1, <2>2, <2>3 DEF CopyFailsForCause, Fails
  <2>. QED
    BY <1>1, <2>1, <2>4, FailsStep
<1>. QED
  BY <1>2, <1>3

\* Nothing can be made only in a directory on disk that may not be written in.
LEMMA CannotOpenStep ==
    ASSUME CopyInv, NEW path \in Archived \cup {<<>>}, CannotOpen(path)
    PROVE  CopyInv'
<1>1. Running /\ Turn(path) /\ copy \in {"ready", "running"} /\ ~Occupied(path)
  BY DEF CannotOpen, Running
<1>2. path \in DOMAIN tree => path = <<>> /\ IsDirectory(path)
  BY <1>1, TurnFacts, RootIsDirectory
<1>3. ~CanMake(path) /\ Fails("permission") /\ UNCHANGED <<source, archive, before>>
  BY <1>2 DEF CannotOpen, Fails
<1>4. source # "tar" /\ path # <<>> /\ tree[Front(path)].kind # "dir"
  BY <1>3 DEF CanMake
<1>5. PICK d : d = Front(path)
  OBVIOUS
<1>6. Len(frames) \in 1..Len(frames) /\ d = frames[Len(frames)].path /\ path \in Archived
  BY <1>1, <1>4, <1>5, TurnFacts
<1>7. FrameOf(Len(frames))
  BY <1>6 DEF CopyInv, FrameShape
<1>8. d # <<>> /\ KindOf(d) # "dir" /\ IsDirectory(d) /\ d \in Archived
  BY <1>4, <1>5, <1>6, <1>7 DEF FrameOf
<1>9. KindOf(d) = "sealed"
  BY <1>8 DEF IsDirectory, DirectoryKinds
<1>10. path \in EntriesIn(d)
  BY <1>5, <1>6 DEF EntriesIn
<1>11. Archived' = Archived /\ \A p : KindOf(p)' = KindOf(p) /\ EntriesIn(p)' = EntriesIn(p)
  BY <1>3, ArchiveKept
<1>12. source \in {"tar", "disk"} => CopyFailsForCause'
  BY <1>3, <1>4, <1>8, <1>9, <1>10, <1>11 DEF CopyFailsForCause, Fails
<1>. QED
  BY <1>1, <1>3, <1>12, FailsStep DEF CopyInv, SourceShape

LEMMA WithFacts ==
    ASSUME NEW path, NEW node, tree' = With(tree, path, node)
    PROVE  /\ DOMAIN tree' = DOMAIN tree \cup {path} /\ tree'[path] = node
           /\ \A p \in DOMAIN tree : p # path => tree'[p] = tree[p]
BY DEF With

\* The target, with an entry of the source made in a directory that has been
\* entered.
LEMMA TreeMade ==
    ASSUME CopyInv, copy = "running", NEW path \in Archived, path # <<>>, path \notin DOMAIN tree,
           Front(path) \in DOMAIN tree,
           UNCHANGED <<source, archive, before>>, NEW node, tree' = With(tree, path, node),
           copy' = "running" \/ copy' = "failed", cause' \in {cause, "read"}
    PROVE  SourceShape' /\ TreeShape'
<1>1. /\ DOMAIN tree' = DOMAIN tree \cup {path} /\ tree'[path] = node
      /\ \A p \in DOMAIN tree : tree'[p] = tree[p]
  BY WithFacts
<1>2. Archived' = Archived
  BY ArchiveKept
<1>3. SourceShape'
  BY DEF CopyInv, SourceShape
<1>4. DOMAIN before' \subseteq DOMAIN tree' /\ DOMAIN tree' \subseteq DOMAIN before' \cup Archived' \cup {<<>>}
  BY <1>1, <1>2 DEF CopyInv, TreeShape
<1>5. \A p \in DOMAIN tree' : p # <<>> => Front(p) \in DOMAIN tree'
  BY <1>1 DEF CopyInv, TreeShape
<1>6. \A p \in DOMAIN before' : before'[p].kind = "file" => tree'[p] = before'[p]
  BY <1>1 DEF CopyInv, TreeShape
<1>7. <<>> \in DOMAIN tree'
  BY <1>1 DEF CopyInv, TreeShape
<1>8. cause' \in {"none", "exists", "kind", "permission", "directory", "read", "write"}
  BY DEF CopyInv, TreeShape
<1>. QED
  BY <1>3, <1>4, <1>5, <1>6, <1>7, <1>8 DEF TreeShape

\* The calls below the innermost are as they were, and what is left to them has
\* not been made.
LEMMA FramesBelow ==
    ASSUME CopyInv, Running, NEW path, Turn(path), path # <<>>, path \notin DOMAIN tree,
           UNCHANGED <<source, archive, before>>, NEW node, tree' = With(tree, path, node),
           NEW i \in 1..Len(frames), i \in 1..Len(frames'), frames'[i] = TurnTaken(path)[i]
    PROVE  FrameOf(i)' /\ \A p \in frames'[i].left : p \in DOMAIN tree' => p \in DOMAIN before'
<1>1. copy = "running" /\ Len(frames) \in 1..Len(frames) /\ path \in frames[Len(frames)].left
  BY TurnFacts
<1>2. /\ frames'[i].path = frames[i].path
      /\ frames'[i].left = IF i = Len(frames) THEN frames[i].left \ {path} ELSE frames[i].left
  <2>1. \A j \in 1..Len(frames) :
           /\ TurnTaken(path)[j].path = frames[j].path
           /\ TurnTaken(path)[j].left =
                IF j = Len(frames) THEN frames[j].left \ {path} ELSE frames[j].left
    BY <1>1, TakenFrames
  <2>. QED
    BY <2>1
<1>3. /\ DOMAIN tree' = DOMAIN tree \cup {path} /\ \A p \in DOMAIN tree : tree'[p] = tree[p]
  BY WithFacts
<1>4. /\ Archived' = Archived
      /\ \A p : KindOf(p)' = KindOf(p) /\ IsDirectory(p)' = IsDirectory(p) /\ EntriesIn(p)' = EntriesIn(p)
  BY ArchiveKept
<1>5. FrameOf(i)
  BY DEF CopyInv, FrameShape
<1>6. FrameOf(i)'
  <2>1. PICK d : d = frames[i].path
    OBVIOUS
  <2>2. frames'[i].path = d /\ frames'[i].left \subseteq frames[i].left
    BY <1>2, <2>1
  <2>. QED
    BY <1>3, <1>4, <1>5, <2>1, <2>2 DEF FrameOf
<1>7. path \notin frames'[i].left
  BY <1>1, <1>2, LeftOnce
<1>8. \A p \in frames[i].left : p \in DOMAIN tree => p \in DOMAIN before
  BY <1>1 DEF CopyInv, Fresh
<1>. QED
  BY <1>2, <1>3, <1>6, <1>7, <1>8

\* What is made has been left over, and everything else is as it was.
LEMMA CopiedKept ==
    ASSUME CopyInv, copy = "running", NEW path \in Archived, path \notin DOMAIN tree,
           UNCHANGED <<source, archive, before>>, NEW node, tree' = With(tree, path, node),
           copying \subseteq copying',
           \A i \in 1..Len(frames) : /\ i \in 1..Len(frames') /\ frames'[i].path = frames[i].path
                                     /\ frames[i].left \subseteq frames'[i].left \cup {path},
           Taken(path)',
           \A p \in Archived : Front(p) = path /\ IsDirectory(path) => LeftOver(p)'
    PROVE  CopiedSoFar'
<1>1. /\ DOMAIN tree' = DOMAIN tree \cup {path} /\ \A p \in DOMAIN tree : tree'[p] = tree[p]
  BY WithFacts
<1>2. /\ Archived' = Archived
      /\ \A p : KindOf(p)' = KindOf(p) /\ IsDirectory(p)' = IsDirectory(p) /\ ContentsAt(p)' = ContentsAt(p)
  BY ArchiveKept
<1>3. ASSUME NEW p \in Archived, Entered(Front(p))', ~LeftOver(p)'
      PROVE  Taken(p)'
  <2>1. Front(p) # path \/ ~IsDirectory(path)
    BY <1>3
  <2>2. Entered(Front(p))
    BY <1>1, <1>2, <1>3, <2>1 DEF Entered
  <2>3. CASE p = path
    BY <2>3
  <2>4. CASE p # path
    <3>1. ~LeftOver(p)
      BY <1>3, <2>4 DEF LeftOver
    <3>2. Taken(p)
      BY <2>2, <3>1 DEF CopyInv, CopiedSoFar
    <3>. QED
      BY <1>1, <1>2, <3>2 DEF Taken, DirectoryNode, FileNode
  <2>. QED
    BY <2>3, <2>4
<1>. QED
  BY <1>2, <1>3 DEF CopiedSoFar

\* copyFile makes a file that is not there, and writes it before anything else.
LEMMA FileOpensStep ==
    ASSUME CopyInv, NEW path \in Archived \cup {<<>>}, CopyFileOpens(path)
    PROVE  CopyInv'
<1>1. /\ Running /\ Turn(path) /\ ~IsDirectory(path) /\ path \notin DOMAIN tree
      /\ UNCHANGED <<source, archive, before, copy, cause>>
      /\ tree' = With(tree, path, FileNode(0, FALSE)) /\ copying' = {path} /\ frames' = TurnTaken(path)
  BY DEF CopyFileOpens
<1>2. path # <<>> /\ path \in Archived /\ copy = "running" /\ copying = {}
  BY <1>1, RootIsDirectory, TurnFacts
<1>3. Len(frames) \in 1..Len(frames) /\ Front(path) = frames[Len(frames)].path
  BY <1>1, <1>2, TurnFacts
<1>4. Front(path) \in DOMAIN tree
  BY <1>3 DEF CopyInv, FrameShape, FrameOf
<1>5. SourceShape' /\ TreeShape'
  BY <1>1, <1>2, <1>4, TreeMade
<1>6. /\ frames' \in Seq(Frame) /\ Len(frames') = Len(frames)
      /\ \A i \in 1..Len(frames) :
           /\ frames'[i].path = frames[i].path
           /\ frames'[i].left = IF i = Len(frames) THEN frames[i].left \ {path} ELSE frames[i].left
  BY <1>1, <1>3, TakenFrames
<1>7. Archived' = Archived /\ \A p : IsDirectory(p)' = IsDirectory(p)
  BY <1>1, ArchiveKept
<1>8. ASSUME NEW i \in 1..Len(frames')
      PROVE  FrameOf(i)' /\ \A p \in frames'[i].left : p \in DOMAIN tree' => p \in DOMAIN before'
  BY <1>1, <1>2, <1>6, FramesBelow
<1>9. FrameShape' /\ Fresh'
  BY <1>6, <1>7, <1>8 DEF FrameShape, Fresh, Frame
<1>10. path \in DOMAIN tree' /\ tree'[path] = FileNode(0, FALSE) /\ path \notin DOMAIN before
  <2>1. path \in DOMAIN tree' /\ tree'[path] = FileNode(0, FALSE)
    BY <1>1, WithFacts, ZenonT(60)
  <2>. QED
    BY <1>1, <2>1 DEF CopyInv, TreeShape
<1>11. Writing'
  BY <1>1, <1>2, <1>7, <1>10 DEF Writing, FileNode
<1>12. Taken(path)'
  BY <1>1, <1>7, <1>10 DEF Taken
<1>13. CopiedSoFar'
  BY <1>1, <1>2, <1>6, <1>12, CopiedKept
<1>14. CopyFailsForCause'
  BY <1>1, <1>2 DEF CopyFailsForCause
<1>. QED
  BY <1>5, <1>9, <1>11, <1>13, <1>14 DEF CopyInv

\* The contents of a file replace what has been made for them.
LEMMA FileWritesStep ==
    ASSUME CopyInv, CopyFileWrites
    PROVE  CopyInv'
<1>1. PICK path \in copying : tree' = [tree EXCEPT ![path] = FileNode(ContentsAt(path), TRUE)]
  BY DEF CopyFileWrites
<1>2. UNCHANGED <<source, archive, before, frames, copy, cause>> /\ copying' = {} /\ copy = "running"
  BY DEF CopyFileWrites
<1>3. /\ path \in Archived /\ ~IsDirectory(path)
      /\ path \in DOMAIN tree /\ path \notin DOMAIN before /\ \A p \in copying : p = path
  BY DEF CopyInv, Writing
<1>4. /\ DOMAIN tree' = DOMAIN tree /\ tree'[path] = FileNode(ContentsAt(path), TRUE)
      /\ \A p \in DOMAIN tree : p # path => tree'[p] = tree[p]
  BY <1>1, <1>3
<1>5. /\ Archived' = Archived
      /\ \A p : KindOf(p)' = KindOf(p) /\ IsDirectory(p)' = IsDirectory(p)
                  /\ EntriesIn(p)' = EntriesIn(p) /\ ContentsAt(p)' = ContentsAt(p)
  BY <1>2, ArchiveKept
<1>6. SourceShape'
  BY <1>2 DEF CopyInv, SourceShape
<1>7. TreeShape'
  BY <1>2, <1>3, <1>4, <1>5 DEF CopyInv, TreeShape
<1>8. ASSUME NEW i \in 1..Len(frames)
      PROVE  FrameOf(i)'
  <2>1. FrameOf(i)
    BY DEF CopyInv, FrameShape
  <2>2. frames[i].path # path
    BY <1>3, <2>1 DEF FrameOf
  <2>. QED
    BY <1>2, <1>4, <1>5, <2>1, <2>2 DEF FrameOf
<1>9. FrameShape'
  BY <1>2, <1>5, <1>8 DEF CopyInv, FrameShape, Frame
<1>10. Fresh' /\ Writing'
  BY <1>2, <1>4 DEF CopyInv, Fresh, Writing
<1>11. ASSUME NEW p \in Archived, Entered(Front(p))', ~LeftOver(p)'
       PROVE  Taken(p)'
  <2>1. Entered(Front(p)) /\ ~LeftOver(p)
    BY <1>2, <1>4, <1>5, <1>11 DEF Entered, LeftOver
  <2>2. Taken(p)
    BY <1>2, <2>1 DEF CopyInv, CopiedSoFar
  <2>3. CASE p = path
    BY <1>2, <1>3, <1>4, <1>5, <2>3 DEF Taken, FileNode
  <2>4. CASE p # path
    BY <1>2, <1>3, <1>4, <1>5, <2>2, <2>4 DEF Taken, FileNode, DirectoryNode
  <2>. QED
    BY <2>3, <2>4
<1>12. CopiedSoFar'
  BY <1>5, <1>11 DEF CopiedSoFar
<1>13. CopyFailsForCause'
  BY <1>2 DEF CopyFailsForCause
<1>. QED
  BY <1>6, <1>7, <1>9, <1>10, <1>12, <1>13 DEF CopyInv

\* The root is the first directory that is entered, and nothing is copied yet.
LEMMA EntersRootStep ==
    ASSUME CopyInv, CopyDirEnters(<<>>)
    PROVE  CopyInv'
<1>1. /\ Running /\ Turn(<<>>) /\ ~Occupied(<<>>) /\ ~ReadDirFails(<<>>)
      /\ UNCHANGED <<source, archive, before, copying, cause>> /\ copy' = "running"
      /\ frames' = Append(TurnTaken(<<>>), [path |-> <<>>, left |-> EntriesIn(<<>>)])
      /\ <<>> \in DOMAIN tree => tree' = tree
      /\ <<>> \notin DOMAIN tree => tree' = With(tree, <<>>, DirectoryNode("dir"))
  BY DEF CopyDirEnters, ReadDirFails
<1>2. copy = "ready" /\ tree = before /\ frames = <<>> /\ copying = {}
  BY <1>1, TurnFacts
<1>3. <<>> \in Seq(STRING) /\ <<>> \in Seq(Frame) /\ Len(<<>>) = 0
  BY EmptySeq
<1>4. Archived' = Archived /\ \A p : IsDirectory(p)' = IsDirectory(p) /\ EntriesIn(p)' = EntriesIn(p)
  BY <1>1, ArchiveKept
<1>5. PICK f : f = [path |-> <<>>, left |-> EntriesIn(<<>>)]
  OBVIOUS
<1>6. f \in Frame /\ f.path = <<>> /\ f.left = EntriesIn(<<>>)
  BY <1>3, <1>5 DEF Frame, EntriesIn
<1>7. frames' = Append(<<>>, f)
  BY <1>1, <1>2, <1>5 DEF TurnTaken
<1>8. frames' \in Seq(Frame) /\ Len(frames') = 1 /\ frames'[1] = f
  BY <1>3, <1>6, <1>7, AppendProperties
<1>9. /\ DOMAIN tree' = DOMAIN before \cup {<<>>}
      /\ tree'[<<>>].kind = "dir"
      /\ \A p \in DOMAIN before : tree'[p] = before[p]
  <2>1. CASE <<>> \in DOMAIN tree
    <3>1. before[<<>>].kind = "dir"
      BY <1>1, <1>2, <2>1 DEF CopyInv, SourceShape, Occupied
    <3>. QED
      BY <1>1, <1>2, <2>1, <3>1
  <2>2. CASE <<>> \notin DOMAIN tree
    <3>1. tree' = With(tree, <<>>, DirectoryNode("dir"))
      BY <1>1, <2>2
    <3>2. /\ DOMAIN tree' = DOMAIN tree \cup {<<>>} /\ tree'[<<>>] = DirectoryNode("dir")
          /\ \A p \in DOMAIN tree : p # <<>> => tree'[p] = tree[p]
      BY <3>1, WithFacts
    <3>. QED
      BY <1>2, <2>2, <3>2 DEF DirectoryNode
  <2>. QED
    BY <2>1, <2>2
<1>10. SourceShape'
  BY <1>1 DEF CopyInv, SourceShape
<1>11. TreeShape'
  <2>1. \A p \in DOMAIN before : p # <<>> => Front(p) = <<>>
    BY DEF CopyInv, SourceShape
  <2>2. \A p \in DOMAIN tree' : p # <<>> => Front(p) \in DOMAIN tree'
    BY <1>9, <2>1
  <2>. QED
    BY <1>1, <1>9, <2>2 DEF CopyInv, TreeShape
<1>12. FrameShape'
  <2>1. FrameOf(1)'
    BY <1>3, <1>4, <1>6, <1>8, <1>9, RootIsDirectory DEF FrameOf
  <2>2. 1..Len(frames') = {1}
    BY <1>8
  <2>. QED
    BY <1>4, <1>8, <2>1, <2>2 DEF FrameShape, Frame
<1>13. <<>> \notin Archived
  BY ArchivedPaths, EntryPathFacts DEF CopyInv
<1>14. Fresh'
  <2>1. \A p \in EntriesIn(<<>>) : p \in DOMAIN tree' => p \in DOMAIN before'
    BY <1>1, <1>9, <1>13 DEF EntriesIn
  <2>2. 1..Len(frames') = {1}
    BY <1>8
  <2>. QED
    BY <1>6, <1>8, <2>1, <2>2 DEF Fresh
<1>15. Writing'
  BY <1>1, <1>2 DEF Writing
<1>16. CopiedSoFar'
  <2>1. ASSUME NEW p \in Archived, Entered(Front(p))'
        PROVE  LeftOver(p)'
    <3>1. Front(p) = <<>>
      BY <1>1, <1>9, <2>1 DEF Entered
    <3>2. p \in EntriesIn(<<>>)
      BY <3>1 DEF EntriesIn
    <3>3. 1 \in 1..Len(frames')
      BY <1>8
    <3>. QED
      BY <1>6, <1>8, <3>1, <3>2, <3>3 DEF LeftOver
  <2>. QED
    BY <1>4, <2>1 DEF CopiedSoFar
<1>17. CopyFailsForCause'
  BY <1>1 DEF CopyFailsForCause
<1>. QED
  BY <1>10, <1>11, <1>12, <1>14, <1>15, <1>16, <1>17 DEF CopyInv

\* copyDir makes a directory that is not there and enters it, with all of its
\* entries left, unless the archive has nothing in it.
LEMMA EntersStep ==
    ASSUME CopyInv, NEW path \in Archived, path # <<>>, CopyDirEnters(path)
    PROVE  CopyInv'
<1>1. /\ Running /\ Turn(path) /\ ~Occupied(path) /\ IsDirectory(path)
      /\ UNCHANGED <<source, archive, before, copying>>
  BY DEF CopyDirEnters
<1>2. /\ copy = "running" /\ copying = {} /\ path \notin DOMAIN tree /\ path \in EntryPaths
      /\ Len(frames) \in 1..Len(frames) /\ Front(path) = frames[Len(frames)].path
  BY <1>1, TurnFacts
<1>3. tree' = With(tree, path, DirectoryNode(KindOf(path)))
  BY <1>2 DEF CopyDirEnters
<1>4. Front(path) \in DOMAIN tree /\ Len(Front(path)) = Len(frames) - 1
  BY <1>2 DEF CopyInv, FrameShape, FrameOf
<1>5. copy' = "running" \/ copy' = "failed"
  BY DEF CopyDirEnters
<1>6. cause' \in {cause, "read"}
  BY DEF CopyDirEnters
<1>7. SourceShape' /\ TreeShape'
  BY <1>1, <1>2, <1>3, <1>4, <1>5, <1>6, TreeMade
<1>8. /\ DOMAIN tree' = DOMAIN tree \cup {path} /\ tree'[path] = DirectoryNode(KindOf(path))
      /\ \A p \in DOMAIN tree : p # path => tree'[p] = tree[p]
  BY <1>3, WithFacts
<1>9. /\ Archived' = Archived
      /\ \A p : KindOf(p)' = KindOf(p) /\ IsDirectory(p)' = IsDirectory(p) /\ EntriesIn(p)' = EntriesIn(p)
  BY <1>1, ArchiveKept
<1>10. Writing'
  BY <1>1, <1>2 DEF Writing
<1>11. path \notin DOMAIN before /\ path \in Seq(STRING) /\ path # <<>>
  BY <1>2, TarAssumption DEF CopyInv, TreeShape
<1>12. CASE ReadDirFails(path)
  <2>1. copy' = "failed" /\ cause' = "read" /\ UNCHANGED frames
    BY <1>12 DEF CopyDirEnters
  <2>2. ASSUME NEW i \in 1..Len(frames)
        PROVE  FrameOf(i)'
    <3>1. FrameOf(i)
      BY DEF CopyInv, FrameShape
    <3>. QED
      BY <1>1, <1>2, <1>8, <1>9, <2>1, <3>1 DEF FrameOf
  <2>3. FrameShape'
    BY <1>9, <2>1, <2>2 DEF CopyInv, FrameShape, Frame
  <2>4. Fresh' /\ CopiedSoFar'
    BY <2>1 DEF Fresh, CopiedSoFar
  <2>5. CopyFailsForCause'
    BY <1>1, <1>9, <1>12, <2>1 DEF CopyFailsForCause, ReadDirFails
  <2>. QED
    BY <1>7, <1>10, <2>3, <2>4, <2>5 DEF CopyInv
<1>13. CASE ~ReadDirFails(path)
  <2>1. PICK f : f = [path |-> path, left |-> EntriesIn(path)]
    OBVIOUS
  <2>2. f \in Frame /\ f.path = path /\ f.left = EntriesIn(path)
    BY <1>11, <2>1 DEF Frame, EntriesIn
  <2>3. copy' = "running" /\ frames' = Append(TurnTaken(path), f)
    BY <1>13, <2>1 DEF CopyDirEnters
  <2>4. PICK t : t = TurnTaken(path)
    OBVIOUS
  <2>5. /\ t \in Seq(Frame) /\ Len(t) = Len(frames)
        /\ \A i \in 1..Len(frames) :
             /\ t[i].path = frames[i].path
             /\ t[i].left = IF i = Len(frames) THEN frames[i].left \ {path} ELSE frames[i].left
    BY <1>2, <2>4, TakenFrames
  <2>6. PICK n \in Nat : n = Len(frames)
    BY LenProperties DEF CopyInv, FrameShape
  <2>7. /\ frames' \in Seq(Frame) /\ Len(frames') = n + 1 /\ frames'[n + 1] = f
        /\ \A i \in 1..n : frames'[i] = t[i]
    BY <2>2, <2>3, <2>4, <2>5, <2>6, AppendProperties
  <2>8. ASSUME NEW i \in 1..n
        PROVE  FrameOf(i)' /\ \A p \in frames'[i].left : p \in DOMAIN tree' => p \in DOMAIN before'
    <3>1. i \in 1..Len(frames) /\ i \in 1..Len(frames') /\ frames'[i] = TurnTaken(path)[i]
      BY <2>4, <2>6, <2>7
    <3>. QED
      BY <1>1, <1>2, <1>3, <3>1, FramesBelow
  <2>9. Len(path) = n
    BY <1>2, <1>4, <2>6, EntryPathFacts
  <2>10. FrameOf(n + 1)'
    BY <1>1, <1>8, <1>9, <1>11, <2>2, <2>7, <2>9 DEF FrameOf, DirectoryNode
  <2>11. \A i \in 1..Len(frames') : i \in 1..n \/ i = n + 1
    BY <2>7
  <2>12. FrameShape'
    BY <1>9, <2>7, <2>8, <2>10, <2>11 DEF FrameShape, Frame
  <2>13. ASSUME NEW p \in EntriesIn(path)
         PROVE  p \notin DOMAIN tree'
    <3>1. p \in EntryPaths /\ Front(p) = path /\ p # <<>>
      BY ArchivedPaths, EntryPathFacts DEF CopyInv, EntriesIn
    <3>2. p # path
      BY <1>2, <1>4, <3>1
    <3>3. p \notin DOMAIN tree
      BY <1>2, <3>1 DEF CopyInv, TreeShape
    <3>. QED
      BY <1>8, <3>2, <3>3
  <2>14. Fresh'
    BY <2>2, <2>7, <2>8, <2>11, <2>13 DEF Fresh
  <2>15. Taken(path)'
    BY <1>1, <1>8, <1>9, <1>11 DEF Taken, DirectoryNode
  <2>16. ASSUME NEW p \in Archived, Front(p) = path
         PROVE  LeftOver(p)'
    <3>1. p \in EntriesIn(path)
      BY <2>16 DEF EntriesIn
    <3>2. n + 1 \in 1..Len(frames')
      BY <2>7
    <3>. QED
      BY <2>2, <2>7, <2>16, <3>1, <3>2 DEF LeftOver
  <2>17. ASSUME NEW i \in 1..Len(frames)
         PROVE  /\ i \in 1..Len(frames') /\ frames'[i].path = frames[i].path
                /\ frames[i].left \subseteq frames'[i].left \cup {path}
    <3>1. i \in 1..n /\ i \in 1..Len(frames')
      BY <2>6, <2>7
    <3>2. frames'[i] = t[i]
      BY <2>7, <3>1
    <3>. QED
      BY <2>5, <3>1, <3>2
  <2>18. CopiedSoFar'
    BY <1>1, <1>2, <1>3, <2>15, <2>16, <2>17, CopiedKept
  <2>19. CopyFailsForCause'
    BY <2>3 DEF CopyFailsForCause
  <2>. QED
    BY <1>7, <1>10, <2>12, <2>14, <2>18, <2>19 DEF CopyInv
<1>. QED
  BY <1>12, <1>13

\* A directory is left when nothing in it is.
LEMMA LeavesStep ==
    ASSUME CopyInv, CopyDirLeaves
    PROVE  CopyInv'
<1>1. /\ Running /\ frames # <<>> /\ Last(frames).left = {} /\ frames' = Front(frames)
      /\ UNCHANGED <<source, archive, before, copying, cause>>
      /\ copy' = IF frames' = <<>> THEN "done" ELSE copy
  BY DEF CopyDirLeaves
<1>2. frames \in Seq(Frame)
  BY DEF CopyInv, FrameShape
<1>3. PICK n \in Nat \ {0} : n = Len(frames)
  BY <1>1, <1>2, EmptySeq
<1>4. PICK d : d = frames[n].path
  OBVIOUS
<1>5. Last(frames) = frames[n] /\ frames[n].left = {}
  BY <1>1, <1>3 DEF Last
<1>6. FrameOf(n)
  BY <1>3 DEF CopyInv, FrameShape
<1>7. copying = {} /\ copy = "running"
  BY <1>1 DEF Running, CopyInv, TreeShape
<1>8. tree' = IF d = <<>> THEN tree ELSE [tree EXCEPT ![d] = DirectoryNode(KindOf(d))]
  BY <1>4, <1>5 DEF CopyDirLeaves
<1>9. /\ d \in DOMAIN tree /\ IsDirectory(d)
      /\ d # <<>> => d \in Archived /\ d \notin DOMAIN before
  BY <1>4, <1>6 DEF FrameOf
<1>10. /\ DOMAIN tree' = DOMAIN tree
       /\ d # <<>> => tree'[d] = DirectoryNode(KindOf(d))
       /\ \A p \in DOMAIN tree : p # d \/ d = <<>> => tree'[p] = tree[p]
  BY <1>8, <1>9
<1>11. /\ Archived' = Archived
       /\ \A p : KindOf(p)' = KindOf(p) /\ IsDirectory(p)' = IsDirectory(p)
                   /\ EntriesIn(p)' = EntriesIn(p) /\ ContentsAt(p)' = ContentsAt(p)
  BY <1>1, ArchiveKept
<1>12. PICK f : f = frames'
  OBVIOUS
<1>13. f \in Seq(Frame) /\ Len(f) = n - 1 /\ \A i \in 1..n - 1 : f[i] = frames[i]
  <2>1. PICK m \in Nat : m = n - 1
    OBVIOUS
  <2>2. 0 \in Nat /\ 0 <= m /\ m <= Len(frames) /\ f = SubSeq(frames, 0 + 1, m)
    BY <1>1, <1>3, <1>12, <2>1 DEF Front
  <2>3. f \in Seq(Frame) /\ Len(f) = m - 0 /\ \A j \in 1..m - 0 : f[j] = frames[0 + j]
    BY <1>2, <2>2, Between
  <2>. QED
    BY <2>1, <2>3
<1>14. SourceShape'
  BY <1>1 DEF CopyInv, SourceShape
<1>15. TreeShape'
  <2>1. /\ DOMAIN before' \subseteq DOMAIN tree' /\ DOMAIN tree' \subseteq DOMAIN before' \cup Archived' \cup {<<>>}
        /\ \A p \in DOMAIN tree' : p # <<>> => Front(p) \in DOMAIN tree'
    BY <1>1, <1>10, <1>11 DEF CopyInv, TreeShape
  <2>2. \A p \in DOMAIN before' : before'[p].kind = "file" => tree'[p] = before'[p]
    BY <1>1, <1>9, <1>10 DEF CopyInv, TreeShape
  <2>. QED
    BY <1>1, <1>7, <1>10, <2>1, <2>2 DEF CopyInv, TreeShape
<1>16. ASSUME NEW i \in 1..n - 1
       PROVE  FrameOf(i)'
  <2>1. i \in 1..Len(frames) /\ i # n
    BY <1>3
  <2>2. FrameOf(i) /\ frames'[i] = frames[i]
    BY <1>12, <1>13, <2>1 DEF CopyInv, FrameShape
  <2>3. frames[i].path # d
    BY <1>4, <1>6, <2>1, <2>2 DEF FrameOf
  <2>. QED
    BY <1>1, <1>10, <1>11, <2>2, <2>3 DEF FrameOf
<1>17. FrameShape'
  BY <1>11, <1>12, <1>13, <1>16 DEF FrameShape, Frame
<1>18. Fresh'
  <2>1. ASSUME NEW i \in 1..n - 1, NEW p \in frames'[i].left, p \in DOMAIN tree'
        PROVE  p \in DOMAIN before'
    <3>1. i \in 1..Len(frames) /\ frames'[i] = frames[i]
      BY <1>3, <1>12, <1>13
    <3>. QED
      BY <1>1, <1>7, <1>10, <2>1, <3>1 DEF CopyInv, Fresh
  <2>. QED
    BY <1>12, <1>13, <2>1 DEF Fresh
<1>19. Writing'
  BY <1>1, <1>7 DEF Writing
<1>20. ASSUME NEW p \in Archived, Entered(Front(p))', ~LeftOver(p)'
       PROVE  Taken(p)'
  <2>1. Entered(Front(p))
    BY <1>1, <1>10, <1>11, <1>20 DEF Entered
  <2>2. ~LeftOver(p)
    <3>. SUFFICES ASSUME NEW i \in 1..Len(frames), frames[i].path = Front(p), p \in frames[i].left
                  PROVE  FALSE
      BY DEF LeftOver
    <3>1. i # n /\ i \in 1..n
      BY <1>3, <1>5
    <3>2. i \in 1..n - 1
      BY <3>1
    <3>3. i \in 1..Len(frames') /\ frames'[i] = frames[i]
      BY <1>12, <1>13, <3>2
    <3>. QED
      BY <1>20, <3>3 DEF LeftOver
  <2>3. Taken(p)
    BY <1>7, <2>1, <2>2 DEF CopyInv, CopiedSoFar
  <2>4. p # <<>>
    BY ArchivedPaths, EntryPathFacts DEF CopyInv
  <2>5. CASE p = d
    BY <1>1, <1>9, <1>10, <1>11, <2>3, <2>4, <2>5 DEF Taken, DirectoryNode
  <2>6. CASE p # d
    BY <1>1, <1>10, <1>11, <2>3, <2>6 DEF Taken, DirectoryNode, FileNode
  <2>. QED
    BY <2>5, <2>6
<1>21. CopiedSoFar'
  BY <1>11, <1>20 DEF CopiedSoFar
<1>22. CopyFailsForCause'
  BY <1>1, <1>7 DEF CopyFailsForCause
<1>. QED
  BY <1>14, <1>15, <1>17, <1>18, <1>19, <1>21, <1>22 DEF CopyInv

LEMMA BreaksStep == ASSUME CopyInv, Breaks PROVE CopyInv'
BY FailsStep DEF Breaks

LEMMA CopyInvStep == CopyInv /\ [CopyNext]_copyVars => CopyInv'
<1>. SUFFICES ASSUME CopyInv, [CopyNext]_copyVars PROVE CopyInv'
  OBVIOUS
<1>1. CASE UNCHANGED copyVars
  <2>1. UNCHANGED <<source, archive, before, tree, frames, copying, copy, cause>>
    BY <1>1 DEF copyVars
  <2>2. /\ Archived' = Archived
        /\ \A p : KindOf(p)' = KindOf(p) /\ IsDirectory(p)' = IsDirectory(p)
                    /\ EntriesIn(p)' = EntriesIn(p) /\ ContentsAt(p)' = ContentsAt(p)
    BY <2>1, ArchiveKept
  <2>3. SourceShape' /\ TreeShape' /\ Fresh' /\ Writing'
    BY <2>1, <2>2 DEF CopyInv, SourceShape, TreeShape, Fresh, Writing
  <2>4. FrameShape'
    BY <2>1, <2>2 DEF CopyInv, FrameShape, FrameOf, Frame
  <2>5. CopiedSoFar'
    BY <2>1, <2>2 DEF CopyInv, CopiedSoFar, Entered, LeftOver, Taken, DirectoryNode, FileNode
  <2>6. CopyFailsForCause'
    BY <2>1, <2>2 DEF CopyInv, CopyFailsForCause
  <2>. QED
    BY <2>3, <2>4, <2>5, <2>6 DEF CopyInv
<1>2. ASSUME NEW path \in Archived \cup {<<>>}, CopyDirEnters(path)
      PROVE  CopyInv'
  <2>1. CASE path = <<>>
    BY <1>2, <2>1, EntersRootStep
  <2>2. CASE path # <<>>
    BY <1>2, <2>2, EntersStep
  <2>. QED
    BY <2>1, <2>2
<1>. QED
  BY <1>1, <1>2, RefusesStep, CannotOpenStep, FileOpensStep, FileWritesStep, LeavesStep, BreaksStep DEF CopyNext

\* When nothing is left, everything in a well-formed source is copied: what is
\* not would lie in a directory that is not, up to the root.
LEMMA AllTaken ==
    ASSUME CopyInv, copy = "done", WellFormed, NEW p \in Archived
    PROVE  Taken(p)
<1>1. \A q \in Archived : q \in EntryPaths /\ Len(q) \in Nat /\ Len(Front(q)) = Len(q) - 1
  BY ArchivedPaths, EntryPathFacts DEF CopyInv
<1>2. frames = <<>> /\ Len(<<>>) = 0
  BY EmptySeq DEF CopyInv, TreeShape
<1>3. \A q \in Archived : Entered(Front(q)) => Taken(q)
  BY <1>2 DEF CopyInv, CopiedSoFar, LeftOver
<1>4. SUFFICES ASSUME ~Taken(p) PROVE FALSE
  OBVIOUS
<1>. DEFINE Lengths == {n \in Nat : \E q \in Archived : Len(q) = n /\ ~Taken(q)}
<1>5. Lengths \in SUBSET Nat /\ Lengths # {}
  BY <1>1, <1>4
<1>6. PICK m \in Lengths : \A k \in Lengths : m <= k
  BY <1>5, LeastNatural
<1>7. PICK q \in Archived : Len(q) = m /\ ~Taken(q)
  BY <1>6
<1>8. ~Entered(Front(q))
  BY <1>3, <1>7
<1>9. Front(q) \in Archived /\ IsDirectory(Front(q)) /\ Front(q) # <<>>
  BY <1>8 DEF WellFormed, Entered
<1>10. PICK d : d = Front(q)
  OBVIOUS
<1>11. ~Taken(d)
  BY <1>8, <1>9, <1>10 DEF Entered, Taken
<1>12. d \in Archived /\ Len(d) \in Nat /\ Len(d) = m - 1
  BY <1>1, <1>7, <1>9, <1>10
<1>13. Len(d) \in Lengths
  BY <1>11, <1>12
<1>14. m <= m - 1 /\ m \in Int
  BY <1>6, <1>12, <1>13
<1>. QED
  BY <1>14

\* What CopyFS leaves behind: everything of a well-formed source when it reports
\* no error, and in any case the files that were there.
THEOREM CopiesFaithfully == CopySpec => []CopyFaithful
<1>1. CopyInv => CopyFaithful
  <2>. SUFFICES ASSUME CopyInv PROVE CopyFaithful
    OBVIOUS
  <2>1. \A p \in DOMAIN before : before[p].kind = "file" => tree[p] = before[p]
    BY DEF CopyInv, TreeShape
  <2>2. ASSUME copy = "done", WellFormed
        PROVE  /\ DOMAIN tree = DOMAIN before \cup Archived \cup {<<>>}
               /\ \A p \in Archived :
                    IF IsDirectory(p) THEN tree[p] = DirectoryNode(KindOf(p))
                    ELSE tree[p] = FileNode(EntryAt(p), TRUE)
    <3>1. \A p \in Archived : Taken(p)
      BY <2>2, AllTaken
    <3>2. copying = {} /\ <<>> \in DOMAIN tree
      BY <2>2 DEF CopyInv, TreeShape
    <3>3. DOMAIN tree = DOMAIN before \cup Archived \cup {<<>>}
      BY <3>1, <3>2 DEF CopyInv, TreeShape, Taken
    <3>4. \A p \in Archived : ContentsAt(p) = EntryAt(p)
      BY <2>2 DEF WellFormed, ContentsAt
    <3>. QED
      BY <3>1, <3>2, <3>3, <3>4 DEF Taken
  <2>. QED
    BY <2>1, <2>2 DEF CopyFaithful
<1>. QED
  BY <1>1, CopyStarts, CopyInvStep, PTL DEF CopySpec

\* The error of CopyFS tells its cause: a file in its way, an archive with a link
\* or an empty directory, a directory that may not be written in, or else a read
\* or a write that fails.
THEOREM CopiesOrSaysWhy == CopySpec => []CopyFailsForCause
<1>1. CopyInv => CopyFailsForCause
  BY DEF CopyInv
<1>. QED
  BY <1>1, CopyStarts, CopyInvStep, PTL DEF CopySpec

----------------------------------------------------------------------------
(* types *)

\* A reader gets names.
ListedTyped == listed \in Seq(Names)

LEMMA ListedStep ==
    ASSUME DirectoryInv, ListedTyped, [NamespaceNext]_nsVars
    PROVE  ListedTyped'
<1>1. ASSUME listed' = <<>> \/ listed' = listed
      PROVE  ListedTyped'
  BY <1>1, EmptySeq DEF ListedTyped
<1>2. ASSUME NEW e \in Seq(Names), NEW m \in 0..Len(e), NEW n \in m..Len(e)
      PROVE  SubSeq(e, m + 1, n) \in Seq(Names)
  <2>1. m \in Nat /\ n \in Nat /\ m <= n /\ n <= Len(e)
    BY LenProperties
  <2>2. PICK r : r = SubSeq(e, m + 1, n)
    OBVIOUS
  <2>. QED
    BY <2>1, <2>2, Between
<1>3. CASE ReadAll
  <2>1. handle.state = "open"
    BY <1>3 DEF ReadAll
  <2>2. PICK whole \in Seq(Names) : whole = handle.under \o handle.dirs
    BY <2>1, OpenHandle, ConcatProperties
  <2>3. handle.entries \in Seq(Names) /\ handle.off \in 0..Len(handle.entries)
    BY <2>1, OpenHandle
  <2>4. PICK e \in Seq(Names) : e = IF handle.off = 0 THEN whole ELSE handle.entries
    BY <2>2, <2>3
  <2>5. PICK m \in 0..Len(e) : m = handle.off
    BY <2>3, <2>4, LenProperties
  <2>6. Len(e) \in m..Len(e)
    BY LenProperties
  <2>7. SubSeq(e, m + 1, Len(e)) \in Seq(Names)
    BY <1>2, <2>6
  <2>8. listed' = listed \o SubSeq(e, m + 1, Len(e))
    BY <1>3, <2>2, <2>4, <2>5 DEF ReadAll
  <2>. QED
    BY <2>7, <2>8, ConcatProperties DEF ListedTyped
<1>4. ASSUME NEW c \in PageSizes, FirstPage(c)
      PROVE  ListedTyped'
  <2>1. handle.state = "open" /\ handle.off = 0 /\ c \in Nat \ {0}
    BY <1>4, NamespaceAssumption DEF FirstPage
  <2>2. handle.under \in Seq(Names) /\ handle.dirs \in Seq(Names)
    BY <2>1, OpenHandle
  <2>3. CASE handle.under = <<>>
    BY <1>1, <1>4, <2>3 DEF FirstPage
  <2>4. CASE handle.under # <<>>
    <3>1. PICK k : k = IF handle.dirs # <<>> /\ c < Len(handle.under) THEN c ELSE Len(handle.under)
      OBVIOUS
    <3>2. PICK u \in Seq(Names) : u = handle.under
      BY <2>2
    <3>3. k \in 0..Len(u) /\ 0 \in 0..Len(u) /\ 0 + 1 = 1
      BY <2>1, <3>1, <3>2, LenProperties
    <3>4. SubSeq(u, 0 + 1, k) \in Seq(Names)
      BY <1>2, <3>3
    <3>5. PICK e \in Seq(Names) : e = SubSeq(handle.under, 1, k) \o handle.dirs
      BY <2>2, <3>2, <3>3, <3>4, ConcatProperties
    <3>6. PICK n : n = IF c > Len(e) THEN Len(e) ELSE c
      OBVIOUS
    <3>7. n \in 0..Len(e) /\ 0 \in 0..Len(e)
      BY <2>1, <3>6, LenProperties
    <3>8. SubSeq(e, 0 + 1, n) \in Seq(Names)
      BY <1>2, <3>7
    <3>9. listed' = SubSeq(e, 1, n)
      BY <1>4, <2>4, <3>1, <3>5, <3>6 DEF FirstPage
    <3>. QED
      BY <3>3, <3>8, <3>9 DEF ListedTyped
  <2>. QED
    BY <2>3, <2>4
<1>5. ASSUME NEW c \in PageSizes, NextPage(c)
      PROVE  ListedTyped'
  <2>1. handle.state = "open" /\ handle.off < Len(handle.entries) /\ c \in Nat \ {0}
    BY <1>5, NamespaceAssumption DEF NextPage
  <2>2. PICK e \in Seq(Names) : e = handle.entries
    BY <2>1, OpenHandle
  <2>3. PICK m \in 0..Len(e) : m = handle.off
    BY <2>1, <2>2, OpenHandle
  <2>4. PICK n : n = m + IF c > Len(e) - m THEN Len(e) - m ELSE c
    OBVIOUS
  <2>5. n \in m..Len(e)
    <3>1. Len(e) \in Nat /\ m < Len(e)
      BY <2>1, <2>2, <2>3, LenProperties
    <3>. QED
      BY <2>1, <2>4, <3>1
  <2>6. SubSeq(e, m + 1, n) \in Seq(Names)
    BY <1>2, <2>5
  <2>7. listed' = listed \o SubSeq(e, m + 1, n)
    BY <1>5, <2>2, <2>3, <2>4 DEF NextPage
  <2>. QED
    BY <2>6, <2>7, ConcatProperties DEF ListedTyped
<1>. QED
  BY <1>1, <1>3, <1>4, <1>5
     DEF NamespaceNext, ReadDir, LastPage, Mount, Unmount, OpenDirectory, OpenOther, Delegate, Closed, nsVars

LEMMA NamespaceTyped == DirectoryInv /\ ListedTyped => NamespaceTypes
<1>. SUFFICES ASSUME DirectoryInv, ListedTyped PROVE NamespaceTypes
  OBVIOUS
<1>1. \A s \in Seq(Bindings) : Len(s) <= MaxMounts => s \in SeqOf(Bindings, MaxMounts)
  <2>. SUFFICES ASSUME NEW s \in Seq(Bindings), Len(s) <= MaxMounts PROVE s \in SeqOf(Bindings, MaxMounts)
    OBVIOUS
  <2>1. Len(s) \in 0..MaxMounts /\ s \in [1..Len(s) -> Bindings]
    BY LenProperties, NamespaceAssumption
  <2>. QED
    BY <2>1 DEF SeqOf
<1>2. binds \in SeqOf(Bindings, MaxMounts) /\ live \in SeqOf(Bindings, MaxMounts) /\ Len(binds) = Len(live)
  BY <1>1 DEF DirectoryInv, MountsTyped, LiveTyped
<1>3. ordered \in BOOLEAN /\ contents \in [FileSystems \ Unopened -> SUBSET Names]
  BY DEF DirectoryInv, MountsTyped, HandleShape
<1>4. handle # NoHandle => handle.off \in 0..Len(handle.entries)
  <2>. SUFFICES ASSUME handle # NoHandle PROVE handle.off \in 0..Len(handle.entries)
    OBVIOUS
  <2>1. handle.off \in Nat /\ handle.entries \in Seq(Names) /\ handle.off <= Len(handle.entries)
    BY DEF DirectoryInv, HandleShape, PageShape, Handles
  <2>. QED
    BY <2>1, LenProperties
<1>5. \A i \in 1..Len(listed) : listed[i] \in Names
  BY ElementOfSeq DEF ListedTyped
<1>. QED
  BY <1>2, <1>3, <1>4, <1>5 DEF NamespaceTypes

LEMMA CopyTyped == CopyInv => CopyTypes
<1>. SUFFICES ASSUME CopyInv PROVE CopyTypes
  OBVIOUS
<1>1. DOMAIN tree \subseteq EntryPaths \cup {<<>>}
  BY ArchivedPaths DEF CopyInv, SourceShape, TreeShape
<1>2. \A p \in DOMAIN tree : p # <<>> => Front(p) \in DOMAIN tree
  BY DEF CopyInv, TreeShape
<1>3. ASSUME NEW i \in 1..Len(frames)
      PROVE  frames[i].path \in DOMAIN tree /\ tree[frames[i].path].kind # "file"
  BY DEF CopyInv, FrameShape, FrameOf, IsDirectory, DirectoryKinds
<1>4. copying \subseteq DOMAIN tree
  BY DEF CopyInv, Writing
<1>5. Cardinality(copying) <= 1
  <2>1. CASE copying = {}
    BY <2>1, FS_EmptySet
  <2>2. CASE copying # {}
    <3>1. PICK p : p \in copying
      BY <2>2
    <3>2. \A q \in copying : q = p
      BY <3>1 DEF CopyInv, Writing
    <3>3. copying = {p}
      BY <3>1, <3>2
    <3>4. Cardinality({p}) = 1
      BY FS_Singleton
    <3>. QED
      BY <3>3, <3>4
  <2>. QED
    BY <2>1, <2>2
<1>6. /\ copy \in {"ready", "running", "done", "failed"}
      /\ copy = "done" => frames = <<>> /\ copying = {}
      /\ cause \in {"none", "exists", "kind", "permission", "directory", "read", "write"}
  BY DEF CopyInv, TreeShape
<1>. QED
  BY <1>1, <1>2, <1>3, <1>4, <1>5, <1>6 DEF CopyTypes

\* Somebody was the last to begin in every directory that has been made.
Begun == \A d \in Directories : d \in dirs <=> lastIn[d] # {}

LEMMA BegunStep ==
    ASSUME PullInv, HistoryTyped, Begun, [PullNext]_pullVars
    PROVE  Begun'
<1>1. ASSUME UNCHANGED <<dirs, lastIn>> PROVE Begun'
  BY <1>1 DEF Begun
<1>2. ASSUME NEW p \in Pullers, NEW d \in Directories,
             dirs' = dirs \cup {d}, lastIn' = [lastIn EXCEPT ![d] = {p}]
      PROVE  Begun'
  BY <1>2 DEF Begun, HistoryTyped
<1>3. ASSUME NEW p \in Pullers, Makes(p) \/ MakesCopy(p)
      PROVE  Begun'
  <2>1. dst[p] \in Directories /\ (MakesCopy(p) => copies[p] \in Directories)
    BY OwnDirectory DEF MakesCopy, At
  <2>. QED
    BY <1>2, <1>3, <2>1 DEF Makes, MakesCopy
<1>. QED
  BY <1>1, <1>3
     DEF PullNext, PullStep, Publishes, Looks, Resolves, Downloads, SkipsEntry, ExtractsFile, WritesFile,
         Extracted, LooksForCopy, CopiesFile, WritesCopy, CopiedAll, PullFails, pullVars, storeVars, given, chosen, history

LEMMA PullTypesHold == PullInv /\ HistoryTyped /\ Begun => PullTypes
<1>. SUFFICES ASSUME PullInv, HistoryTyped, Begun PROVE PullTypes
  OBVIOUS
<1>1. dst \in [Pullers -> Directories]
  BY NamesDiffer DEF PullInv, PullTyped
<1>2. ASSUME NEW p \in Pullers, stage[p] \in {"download", "make", "extract", "done"}
      PROVE  dst[p] # Local
  BY <1>2 DEF PullInv, ChosenTag, Resolved
<1>3. ASSUME NEW p \in Pullers
      PROVE  partial[p] \subseteq ImageFiles /\ Cardinality(partial[p]) <= 1
  <2>1. partial[p] \subseteq ImageFiles
    BY DEF PullInv, PullTyped
  <2>2. CASE partial[p] = {}
    BY <2>1, <2>2, FS_EmptySet
  <2>3. CASE partial[p] # {}
    <3>1. PICK f : partial[p] = {f}
      BY <2>3 DEF HistoryTyped
    <3>2. Cardinality({f}) = 1
      BY FS_Singleton
    <3>. QED
      BY <2>1, <3>1, <3>2
  <2>. QED
    BY <2>2, <2>3
<1>4. /\ latest \in 1..Len(Published) /\ dirs \subseteq Directories /\ stage \in [Pullers -> Stages]
      /\ stored \in [Directories -> [ImageFiles -> Releases \cup {Missing, Cut}]]
      /\ \A d \in Directories \ dirs, f \in ImageFiles : stored[d][f] = Missing
      /\ concurrent \in BOOLEAN
  BY DEF PullInv, PullTyped, NoDirNoFiles
<1>5. /\ \A d \in Directories : lastIn[d] \subseteq Pullers /\ (d \in dirs <=> lastIn[d] # {})
      /\ overlapped \subseteq Pullers
  BY DEF HistoryTyped, Begun
<1>. QED
  BY <1>1, <1>2, <1>3, <1>4, <1>5 DEF PullTypes

----------------------------------------------------------------------------
(* the four parts *)

FilesInv == /\ NamespaceInv /\ DirectoryInv /\ ListedTyped
            /\ CopyInv
            /\ WholeInv /\ Begun
            /\ CreateInv

LEMMA FilesStart == Init => FilesInv
<1>. SUFFICES ASSUME Init PROVE FilesInv
  OBVIOUS
<1>1. NamespaceInv /\ DirectoryInv /\ ListedTyped
  BY NamespaceInitInv, DirectoryInitInv, EmptySeq DEF Init, NamespaceInit, ListedTyped
<1>2. CopyInv
  BY CopyStarts DEF Init
<1>3. WholeInv /\ Begun
  <2>1. PullInit
    BY DEF Init
  <2>2. Begun
    BY <2>1 DEF PullInit, Begun
  <2>. QED
    BY <2>1, <2>2, WholeStart
<1>4. CreateInv
  BY CreateInitInv DEF Init
<1>. QED
  BY <1>1, <1>2, <1>3, <1>4 DEF FilesInv

LEMMA FilesStep == FilesInv /\ [Next]_filesVars => FilesInv'
<1>. SUFFICES ASSUME FilesInv, [Next]_filesVars PROVE FilesInv'
  OBVIOUS
<1>1. [NamespaceNext]_nsVars /\ [CopyNext]_copyVars /\ [PullNext]_pullVars /\ [CreateNext]_createVars
  BY DEF Next, filesVars, PublishStep, CopyStep, PullsStep, CreateStep
<1>2. NamespaceInv' /\ DirectoryInv' /\ ListedTyped'
  BY <1>1, NamespaceInvStep, DirectoryInvStep, ListedStep DEF FilesInv
<1>3. CopyInv'
  BY <1>1, CopyInvStep DEF FilesInv
<1>4. WholeInv' /\ Begun'
  BY <1>1, WholeStep, BegunStep DEF FilesInv, WholeInv
<1>5. CreateInv'
  BY <1>1, CreateInvStep DEF FilesInv
<1>. QED
  BY <1>2, <1>3, <1>4, <1>5 DEF FilesInv

\* Every part of what moves files stays in its types, whichever is at work.
THEOREM FilesTypeCorrect == Spec => []TypeOK
<1>1. FilesInv => TypeOK
  BY NamespaceTyped, CopyTyped, PullTypesHold DEF FilesInv, WholeInv, CreateInv, TypeOK
<1>. QED
  BY <1>1, FilesStart, FilesStep, PTL DEF Spec

\* What moves files does with each of its parts only what that part does by
\* itself, so what is proved of a part holds of the whole.
THEOREM FilesImplementParts == Spec => NamespaceSpec /\ CopySpec /\ PullSpec /\ CreateSpec
<1>1. Init => NamespaceInit /\ CopyInit /\ PullInit /\ CreateInit
  BY DEF Init
<1>2. [Next]_filesVars => [NamespaceNext]_nsVars /\ [CopyNext]_copyVars
                          /\ [PullNext]_pullVars /\ [CreateNext]_createVars
  BY DEF Next, filesVars, PublishStep, CopyStep, PullsStep, CreateStep
<1>. QED
  BY <1>1, <1>2, PTL DEF Spec, NamespaceSpec, CopySpec, PullSpec, CreateSpec

\* Whatever else is at work, mounts, copies, pulls and creates keep what they
\* promise.
THEOREM FilesSafe ==
    Spec => [](/\ ServedByNewest /\ DirectoryWhole
               /\ CopyFaithful /\ CopyFailsForCause
               /\ OneRelease /\ PulledWhole
               /\ CreatedServesFiles)
<1>. QED
  BY FilesImplementParts, ServesNewest, ListsWhole, CopiesFaithfully, CopiesOrSaysWhy,
     KeepsReleasesApart, PullsWhole, CreatedServes, PTL
=============================================================================
