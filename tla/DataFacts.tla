----------------------------- MODULE DataFacts -----------------------------
(* What the proofs about streams, mounts and pulls need to know of numbers  *)
(* and of sequences.                                                        *)
EXTENDS SequencesExt, SequenceTheorems, FiniteSetTheorems, WellFoundedInduction, TLAPS

\* The order of the natural numbers is well-founded.
Less == {p \in Nat \X Nat : p[1] < p[2]}

\* Every descent in the natural numbers ends.
LEMMA LessWellFounded == IsWellFoundedOn(Less, Nat)
BY NatLessThanWellFounded DEF OpToRel, Less

\* Of some natural numbers one is the least.
LEMMA LeastNatural ==
    ASSUME NEW S \in SUBSET Nat, S # {}
    PROVE  \E m \in S : \A k \in S : m <= k
<1>1. PICK m \in S : \A k \in S : <<k, m>> \notin Less
  BY LessWellFounded, WFMin
<1>2. \A x, y \in Nat : <<x, y>> \in Less <=> x < y
  BY DEF Less
<1>3. \A k \in S : ~(k < m)
  BY <1>1, <1>2
<1>. QED
  BY <1>3

\* The elements of a sequence after the m-th, up to the n-th.
LEMMA Between ==
    ASSUME NEW S, NEW s \in Seq(S), NEW m \in Nat, NEW n \in Nat, m <= n, n <= Len(s),
           NEW r, r = SubSeq(s, m + 1, n)
    PROVE  r \in Seq(S) /\ Len(r) = n - m /\ \A j \in 1..n - m : r[j] = s[m + j]
<1>1. Len(s) \in Nat /\ \A j \in 1..Len(s) : s[j] \in S
  BY LenProperties, ElementOfSeq
<1>2. m + 1 \in Int /\ n \in Int /\ \A j \in m + 1..n : s[j] \in S
  BY <1>1
<1>3. /\ r \in Seq(S) /\ Len(r) = IF m + 1 <= n THEN n - (m + 1) + 1 ELSE 0
      /\ \A j \in 1..n - (m + 1) + 1 : r[j] = s[m + 1 + j - 1]
  BY <1>2, SubSeqProperties
<1>4. n - (m + 1) + 1 = n - m /\ \A j \in 1..n - m : m + 1 + j - 1 = m + j
  OBVIOUS
<1>5. Len(r) = n - m
  BY <1>3
<1>6. \A j \in 1..n - m : r[j] = s[m + j]
  BY <1>3, <1>4
<1>. QED
  BY <1>3, <1>5, <1>6

\* Induction over the natural numbers, for a set of them.
LEMMA AllNaturals ==
    ASSUME NEW S, 0 \in S, \A n \in Nat : n \in S => n + 1 \in S
    PROVE  \A n \in Nat : n \in S
<1>1. SUFFICES ASSUME NEW n \in Nat, n \notin S PROVE FALSE
  OBVIOUS
<1>2. {k \in Nat : k \notin S} \in SUBSET Nat /\ {k \in Nat : k \notin S} # {}
  BY <1>1
<1>3. PICK m \in {k \in Nat : k \notin S} : \A k \in {k \in Nat : k \notin S} : m <= k
  BY <1>2, LeastNatural
<1>4. m # 0 /\ m - 1 \in Nat /\ m - 1 \notin S
  BY <1>3
<1>. QED
  BY <1>3, <1>4

----------------------------------------------------------------------------
(* sequences put together: FlattenSeq *)

\* The first n of the sequences, put together one after the other.
Puts(f, seqs, n) ==
    f = [i \in 1..n |-> IF i = 1 THEN seqs[i] ELSE f[i - 1] \o seqs[i]]

\* There is such a function.
LEMMA PutsExists ==
    ASSUME NEW seqs
    PROVE  \A n \in Nat : \E f : Puts(f, seqs, n)
<1>. DEFINE S == {n \in Nat : \E f : Puts(f, seqs, n)}
<1>1. 0 \in S
  <2>1. \E f : f = [i \in 1..0 |-> IF i = 1 THEN seqs[i] ELSE <<>> \o seqs[i]]
    OBVIOUS
  <2>2. PICK f : f = [i \in {} |-> <<>>]
    OBVIOUS
  <2>3. 1..0 = {} /\ [i \in {} |-> IF i = 1 THEN seqs[i] ELSE f[i - 1] \o seqs[i]] = f
    BY <2>2
  <2>4. Puts(f, seqs, 0)
    BY <2>3 DEF Puts
  <2>. QED
    BY <2>4
<1>2. ASSUME NEW n \in Nat, n \in S PROVE n + 1 \in S
  <2>1. PICK f : Puts(f, seqs, n)
    BY <1>2
  <2>2. PICK g : g = [i \in 1..n + 1 |-> IF i \in 1..n THEN f[i]
                                         ELSE IF i = 1 THEN seqs[i] ELSE f[i - 1] \o seqs[i]]
    OBVIOUS
  <2>3. \A i \in 1..n + 1 : g[i] = IF i = 1 THEN seqs[i] ELSE g[i - 1] \o seqs[i]
    <3>1. TAKE i \in 1..n + 1
    <3>2. CASE i \in 1..n
      <4>1. f[i] = IF i = 1 THEN seqs[i] ELSE f[i - 1] \o seqs[i]
        BY <2>1, <3>2 DEF Puts
      <4>2. i # 1 => i - 1 \in 1..n /\ i - 1 \in 1..n + 1
        BY <3>2
      <4>3. g[i] = f[i] /\ (i # 1 => g[i - 1] = f[i - 1])
        BY <2>2, <3>1, <3>2, <4>2
      <4>. QED
        BY <4>1, <4>3
    <3>3. CASE i \notin 1..n
      <4>1. i = n + 1 /\ (i # 1 => i - 1 \in 1..n /\ i - 1 \in 1..n + 1)
        BY <3>1, <3>3
      <4>2. g[i] = (IF i = 1 THEN seqs[i] ELSE f[i - 1] \o seqs[i]) /\ (i # 1 => g[i - 1] = f[i - 1])
        BY <2>2, <3>1, <3>3, <4>1
      <4>. QED
        BY <4>2
    <3>. QED
      BY <3>2, <3>3
  <2>4. Puts(g, seqs, n + 1)
    BY <2>2, <2>3 DEF Puts
  <2>. QED
    BY <2>4
<1>3. \A n \in Nat : n \in S
  BY <1>1, <1>2, AllNaturals
<1>. QED
  BY <1>3

\* In the first n they are put together in one way.
LEMMA PutsAgree ==
    ASSUME NEW seqs, NEW f, NEW g, NEW m \in Nat, NEW n \in Nat, m <= n,
           Puts(f, seqs, m), Puts(g, seqs, n)
    PROVE  \A i \in 1..m : f[i] = g[i]
<1>. DEFINE S == {k \in Nat : k \in 1..m => f[k] = g[k]}
<1>1. 0 \in S
  OBVIOUS
<1>2. ASSUME NEW k \in Nat, k \in S PROVE k + 1 \in S
  <2>1. SUFFICES ASSUME k + 1 \in 1..m PROVE f[k + 1] = g[k + 1]
    OBVIOUS
  <2>2. k + 1 \in 1..n /\ (k + 1) - 1 = k
    BY <2>1
  <2>3. f[k + 1] = IF k + 1 = 1 THEN seqs[k + 1] ELSE f[(k + 1) - 1] \o seqs[k + 1]
    BY <2>1 DEF Puts
  <2>4. g[k + 1] = IF k + 1 = 1 THEN seqs[k + 1] ELSE g[(k + 1) - 1] \o seqs[k + 1]
    BY <2>2 DEF Puts
  <2>5. k + 1 # 1 => f[k] = g[k]
    BY <1>2, <2>1
  <2>. QED
    BY <2>2, <2>3, <2>4, <2>5
<1>3. \A k \in Nat : k \in S
  BY <1>1, <1>2, AllNaturals
<1>. QED
  BY <1>3

\* What they put together are sequences of the same elements.
LEMMA PutsType ==
    ASSUME NEW S, NEW seqs \in Seq(Seq(S)), NEW f, NEW n \in Nat, n <= Len(seqs), Puts(f, seqs, n)
    PROVE  \A i \in 1..n : f[i] \in Seq(S)
<1>. DEFINE T == {k \in Nat : k \in 1..n => f[k] \in Seq(S)}
<1>1. 0 \in T
  OBVIOUS
<1>2. ASSUME NEW k \in Nat, k \in T PROVE k + 1 \in T
  <2>1. SUFFICES ASSUME k + 1 \in 1..n PROVE f[k + 1] \in Seq(S)
    OBVIOUS
  <2>2. k + 1 \in 1..Len(seqs) /\ (k + 1) - 1 = k /\ Len(seqs) \in Nat
    BY <2>1, LenProperties
  <2>3. f[k + 1] = IF k + 1 = 1 THEN seqs[k + 1] ELSE f[(k + 1) - 1] \o seqs[k + 1]
    BY <2>1 DEF Puts
  <2>4. seqs[k + 1] \in Seq(S)
    BY <2>2, ElementOfSeq
  <2>5. k + 1 # 1 => f[k] \in Seq(S)
    BY <1>2, <2>1
  <2>. QED
    BY <2>2, <2>3, <2>4, <2>5, ConcatProperties
<1>3. \A k \in Nat : k \in T
  BY <1>1, <1>2, AllNaturals
<1>. QED
  BY <1>3

\* FlattenSeq is the last of them.
LEMMA FlattenIs ==
    ASSUME NEW S, NEW seqs \in Seq(Seq(S)), NEW f, Puts(f, seqs, Len(seqs)), Len(seqs) # 0
    PROVE  FlattenSeq(seqs) = f[Len(seqs)]
<1>. DEFINE flatten == CHOOSE g : g = [i \in 1..Len(seqs) |-> IF i = 1 THEN seqs[i] ELSE g[i - 1] \o seqs[i]]
<1>1. FlattenSeq(seqs) = flatten[Len(seqs)]
  BY DEF FlattenSeq
<1>2. Puts(flatten, seqs, Len(seqs))
  BY DEF Puts
<1>. QED
  BY <1>1, <1>2, PutsAgree, LenProperties

\* Nothing put together is nothing.
LEMMA FlattenEmpty == FlattenSeq(<<>>) = <<>>
BY EmptySeq DEF FlattenSeq

\* FlattenSeq gives a sequence of the elements.
LEMMA FlattenType ==
    ASSUME NEW S, NEW seqs \in Seq(Seq(S))
    PROVE  FlattenSeq(seqs) \in Seq(S)
<1>1. Len(seqs) \in Nat
  BY LenProperties
<1>2. CASE Len(seqs) = 0
  BY <1>2, EmptySeq DEF FlattenSeq
<1>3. CASE Len(seqs) # 0
  <2>1. PICK f : Puts(f, seqs, Len(seqs))
    BY <1>1, PutsExists
  <2>2. FlattenSeq(seqs) = f[Len(seqs)] /\ Len(seqs) \in 1..Len(seqs)
    BY <1>1, <1>3, <2>1, FlattenIs
  <2>. QED
    BY <1>1, <2>1, <2>2, PutsType
<1>. QED
  BY <1>2, <1>3

\* One sequence more comes at the end.
LEMMA FlattenAppend ==
    ASSUME NEW S, NEW seqs \in Seq(Seq(S)), NEW s \in Seq(S)
    PROVE  FlattenSeq(Append(seqs, s)) = FlattenSeq(seqs) \o s
<1>1. PICK n, more : n = Len(seqs) /\ more = Append(seqs, s)
  OBVIOUS
<1>2. /\ n \in Nat /\ n + 1 \in Nat /\ more \in Seq(Seq(S)) /\ Len(more) = n + 1 /\ n + 1 # 0
      /\ more[n + 1] = s /\ \A i \in 1..n : more[i] = seqs[i]
  BY <1>1, LenProperties, AppendProperties
<1>3. PICK g : Puts(g, more, n + 1)
  <2>1. \A k \in Nat : \E g : Puts(g, more, k)
    BY PutsExists
  <2>. QED
    BY <1>2, <2>1
<1>4. FlattenSeq(more) = g[n + 1]
  BY <1>2, <1>3, FlattenIs
<1>7. g[n + 1] = IF n + 1 = 1 THEN more[n + 1] ELSE g[(n + 1) - 1] \o more[n + 1]
  <2>1. n + 1 \in 1..n + 1
    BY <1>2
  <2>. QED
    BY <1>3, <2>1 DEF Puts
<1>5. CASE n = 0
  <2>1. FlattenSeq(seqs) = <<>>
    BY <1>1, <1>5, EmptySeq DEF FlattenSeq
  <2>. QED
    BY <1>1, <1>2, <1>4, <1>5, <1>7, <2>1, ConcatEmptySeq
<1>6. CASE n # 0
  <2>1. PICK f : Puts(f, seqs, n)
    BY <1>2, PutsExists
  <2>2. FlattenSeq(seqs) = f[n]
    BY <1>1, <1>6, <2>1, FlattenIs
  <2>3. Puts(f, more, n)
    <3>1. \A i \in 1..n : more[i] = seqs[i]
      BY <1>2
    <3>. QED
      BY <2>1, <3>1 DEF Puts
  <2>4. n <= n + 1 /\ n + 1 \in Nat /\ n \in 1..n /\ n + 1 # 1 /\ (n + 1) - 1 = n
    BY <1>2, <1>6
  <2>5. f[n] = g[n]
    BY <1>2, <1>3, <2>3, <2>4, PutsAgree
  <2>. QED
    BY <1>1, <1>2, <1>4, <1>7, <2>2, <2>4, <2>5
<1>. QED
  BY <1>2, <1>5, <1>6

\* The first k of them, put together: Upto(seqs, k).
Upto(seqs, k) == FlattenSeq([i \in 1..k |-> seqs[i]])

\* The first k of the sequences, put together, one more at a time.
LEMMA UptoFacts ==
    ASSUME NEW S, NEW seqs \in Seq(Seq(S))
    PROVE  /\ Upto(seqs, 0) = <<>>
           /\ Upto(seqs, Len(seqs)) = FlattenSeq(seqs)
           /\ \A k \in 0..Len(seqs) :
                Upto(seqs, k) \in Seq(S) /\ Len(Upto(seqs, k)) \in Nat
           /\ \A k \in 0..Len(seqs) - 1 :
                /\ Upto(seqs, k + 1) = Upto(seqs, k) \o seqs[k + 1]
                /\ Len(Upto(seqs, k + 1)) = Len(Upto(seqs, k)) + Len(seqs[k + 1])
<1>1. Len(seqs) \in Nat /\ seqs = [i \in 1..Len(seqs) |-> seqs[i]] /\ \A i \in 1..Len(seqs) : seqs[i] \in Seq(S)
  BY LenProperties
<1>2. ASSUME NEW k \in 0..Len(seqs)
      PROVE  [i \in 1..k |-> seqs[i]] \in Seq(Seq(S)) /\ Len([i \in 1..k |-> seqs[i]]) = k
  <2>1. k \in Nat /\ \A i \in 1..k : seqs[i] \in Seq(S)
    BY <1>1
  <2>. QED
    BY <2>1
<1>3. Upto(seqs, 0) = <<>>
  <2>1. [i \in 1..0 |-> seqs[i]] = <<>>
    BY <1>1, <1>2, EmptySeq
  <2>. QED
    BY <2>1, FlattenEmpty DEF Upto
<1>4. Upto(seqs, Len(seqs)) = FlattenSeq(seqs)
  BY <1>1 DEF Upto
<1>5. ASSUME NEW k \in 0..Len(seqs)
      PROVE  Upto(seqs, k) \in Seq(S) /\ Len(Upto(seqs, k)) \in Nat
  BY <1>2, FlattenType, LenProperties DEF Upto
<1>6. ASSUME NEW k \in 0..Len(seqs) - 1
      PROVE  /\ Upto(seqs, k + 1) = Upto(seqs, k) \o seqs[k + 1]
             /\ Len(Upto(seqs, k + 1)) = Len(Upto(seqs, k)) + Len(seqs[k + 1])
  <2>1. k \in 0..Len(seqs) /\ k + 1 \in 0..Len(seqs) /\ k + 1 \in 1..Len(seqs) /\ seqs[k + 1] \in Seq(S) /\ k \in Nat
    BY <1>1
  <2>2. PICK a, b : a = [i \in 1..k |-> seqs[i]] /\ b = [i \in 1..k + 1 |-> seqs[i]]
    OBVIOUS
  <2>3. a \in Seq(Seq(S)) /\ Len(a) = k /\ b \in Seq(Seq(S)) /\ Len(b) = k + 1
    BY <1>2, <2>1, <2>2
  <2>4. b = Append(a, seqs[k + 1])
    <3>1. /\ Append(a, seqs[k + 1]) \in Seq(Seq(S)) /\ Len(Append(a, seqs[k + 1])) = k + 1
          /\ Append(a, seqs[k + 1])[k + 1] = seqs[k + 1]
          /\ \A i \in 1..k : Append(a, seqs[k + 1])[i] = a[i]
      BY <2>1, <2>3, AppendProperties
    <3>2. \A i \in 1..k + 1 : b[i] = Append(a, seqs[k + 1])[i]
      BY <2>1, <2>2, <3>1
    <3>. QED
      BY <2>3, <3>1, <3>2, SeqEqual
  <2>5. Upto(seqs, k + 1) = FlattenSeq(b) /\ Upto(seqs, k) = FlattenSeq(a)
    BY <2>2 DEF Upto
  <2>6. FlattenSeq(b) = FlattenSeq(a) \o seqs[k + 1]
    BY <2>1, <2>3, <2>4, FlattenAppend
  <2>. QED
    BY <1>5, <2>1, <2>5, <2>6, ConcatProperties
<1>. QED
  BY <1>3, <1>4, <1>5, <1>6

\* They come one after the other: what the first k make is how the first l begin,
\* and what follows it there is the next.
LEMMA UptoBegins ==
    ASSUME NEW S, NEW seqs \in Seq(Seq(S)), NEW k \in 0..Len(seqs), NEW l \in k..Len(seqs)
    PROVE  /\ Len(Upto(seqs, k)) <= Len(Upto(seqs, l))
           /\ \A i \in 1..Len(Upto(seqs, k)) : Upto(seqs, l)[i] = Upto(seqs, k)[i]
<1>. DEFINE Good(n) == /\ Len(Upto(seqs, k)) <= Len(Upto(seqs, n))
                       /\ \A i \in 1..Len(Upto(seqs, k)) : Upto(seqs, n)[i] = Upto(seqs, k)[i]
            T == {n \in Nat : k + n <= Len(seqs) => Good(k + n)}
<1>1. Len(seqs) \in Nat /\ k \in Nat /\ l \in Nat /\ k + 0 = k
  BY LenProperties
<1>2. 0 \in T
  <2>1. Good(k)
    BY <1>1, UptoFacts
  <2>. QED
    BY <1>1, <2>1
<1>3. ASSUME NEW n \in Nat, n \in T PROVE n + 1 \in T
  <2>1. SUFFICES ASSUME k + (n + 1) <= Len(seqs) PROVE Good(k + (n + 1))
    OBVIOUS
  <2>2. k + n \in 0..Len(seqs) - 1 /\ k + (n + 1) = (k + n) + 1 /\ k + n \in 0..Len(seqs)
        /\ k + n + 1 \in 1..Len(seqs)
    BY <1>1, <2>1
  <2>3. Good(k + n)
    BY <1>3, <2>2
  <2>4. PICK a, b, c : a = Upto(seqs, k) /\ b = Upto(seqs, k + n) /\ c = seqs[k + n + 1]
    OBVIOUS
  <2>5. a \in Seq(S) /\ b \in Seq(S) /\ c \in Seq(S) /\ Upto(seqs, k + (n + 1)) = b \o c
    BY <2>2, <2>4, UptoFacts, ElementOfSeq
  <2>6. /\ Len(b \o c) = Len(b) + Len(c) /\ Len(a) \in Nat /\ Len(b) \in Nat /\ Len(c) \in Nat
        /\ \A i \in 1..Len(b) + Len(c) : (b \o c)[i] = IF i <= Len(b) THEN b[i] ELSE c[i - Len(b)]
    BY <2>5, ConcatProperties, LenProperties
  <2>7. Len(a) <= Len(b) /\ \A i \in 1..Len(a) : b[i] = a[i]
    BY <2>3, <2>4
  <2>8. Len(a) <= Len(b \o c) /\ \A i \in 1..Len(a) : (b \o c)[i] = a[i]
    BY <2>6, <2>7
  <2>. QED
    BY <2>4, <2>5, <2>8
<1>4. \A n \in Nat : n \in T
  <2>. HIDE DEF T
  <2>. QED
    BY <1>2, <1>3, AllNaturals
<1>5. l - k \in Nat /\ k + (l - k) = l /\ l <= Len(seqs)
  BY <1>1
<1>. QED
  BY <1>4, <1>5

\* And each sequence stands after those before it.
LEMMA UptoNext ==
    ASSUME NEW S, NEW seqs \in Seq(Seq(S)), NEW k \in 0..Len(seqs) - 1, NEW l \in k + 1..Len(seqs)
    PROVE  /\ Len(Upto(seqs, k)) + Len(seqs[k + 1]) <= Len(Upto(seqs, l))
           /\ \A i \in 1..Len(seqs[k + 1]) : Upto(seqs, l)[Len(Upto(seqs, k)) + i] = seqs[k + 1][i]
<1>1. Len(seqs) \in Nat /\ k \in 0..Len(seqs) /\ k + 1 \in 0..Len(seqs) /\ k + 1 \in 1..Len(seqs)
  BY LenProperties
<1>2. PICK a, c, d : a = Upto(seqs, k) /\ c = seqs[k + 1] /\ d = Upto(seqs, k + 1)
  OBVIOUS
<1>3. a \in Seq(S) /\ c \in Seq(S) /\ d = a \o c
  BY <1>1, <1>2, UptoFacts, ElementOfSeq
<1>4. /\ Len(d) = Len(a) + Len(c) /\ Len(a) \in Nat /\ Len(c) \in Nat
      /\ \A i \in 1..Len(a) + Len(c) : d[i] = IF i <= Len(a) THEN a[i] ELSE c[i - Len(a)]
  BY <1>3, ConcatProperties, LenProperties
<1>5. Len(d) <= Len(Upto(seqs, l)) /\ \A i \in 1..Len(d) : Upto(seqs, l)[i] = d[i]
  BY <1>1, <1>2, UptoBegins
<1>6. ASSUME NEW i \in 1..Len(c)
      PROVE  Upto(seqs, l)[Len(a) + i] = c[i]
  <2>1. Len(a) + i \in 1..Len(d) /\ ~(Len(a) + i <= Len(a)) /\ Len(a) + i - Len(a) = i
        /\ Len(a) + i \in 1..Len(a) + Len(c)
    BY <1>4
  <2>. QED
    BY <1>4, <1>5, <2>1
<1>. QED
  BY <1>2, <1>4, <1>5, <1>6

\* Those of them that end within the first w elements are the first few.
LEMMA UptoCount ==
    ASSUME NEW S, NEW seqs \in Seq(Seq(S)), NEW w \in Nat
    PROVE  \E k \in 0..Len(seqs) :
             /\ {f \in 1..Len(seqs) : Len(Upto(seqs, f)) <= w} = 1..k
             /\ Cardinality(1..k) = k
             /\ Len(Upto(seqs, k)) <= w
             /\ k < Len(seqs) => w < Len(Upto(seqs, k + 1))
<1>. DEFINE n == Len(seqs)
            End(f) == Len(Upto(seqs, f))
            Beyond == {f \in 1..n + 1 : f <= n => w < End(f)}
<1>1. n \in Nat /\ \A f \in 0..n : End(f) \in Nat
  BY LenProperties, UptoFacts
<1>2. Beyond \in SUBSET Nat /\ n + 1 \in Beyond
  BY <1>1
<1>3. PICK m \in Beyond : \A f \in Beyond : m <= f
  <2>. HIDE DEF Beyond
  <2>. QED
    BY <1>2, LeastNatural
<1>4. m \in 1..n + 1 /\ m - 1 \in 0..n /\ m - 1 \in Nat /\ m \in Nat /\ (m - 1) + 1 = m
  BY <1>1, <1>3
<1>5. ASSUME NEW f \in 1..n, f < m PROVE End(f) <= w
  <2>1. f \notin Beyond
    BY <1>3, <1>4, <1>5
  <2>. QED
    BY <1>1, <2>1
<1>6. ASSUME NEW f \in 1..n, m <= f PROVE ~(End(f) <= w)
  <2>1. m \in 1..n /\ m \in 0..n /\ f \in m..n /\ f \in 0..n
    BY <1>1, <1>4, <1>6
  <2>2. w < End(m) /\ End(m) <= End(f)
    BY <1>3, <2>1, UptoBegins
  <2>. QED
    BY <1>1, <2>1, <2>2
<1>7. {f \in 1..n : End(f) <= w} = 1..m - 1
  <2>1. ASSUME NEW f \in 1..n PROVE End(f) <= w <=> f \in 1..m - 1
    BY <1>4, <1>5, <1>6
  <2>2. \A f \in 1..m - 1 : f \in 1..n
    BY <1>4
  <2>. QED
    BY <2>1, <2>2
<1>8. Cardinality(1..m - 1) = m - 1
  <2>1. Cardinality(1..m - 1) = IF 1 > m - 1 THEN 0 ELSE (m - 1) - 1 + 1
    BY <1>4, FS_Interval
  <2>. QED
    BY <1>4, <2>1
<1>9. End(m - 1) <= w
  <2>1. CASE m - 1 = 0
    <3>1. End(0) = 0
      BY UptoFacts, EmptySeq
    <3>. QED
      BY <2>1, <3>1
  <2>2. CASE m - 1 # 0
    <3>1. m - 1 \in 1..n /\ m - 1 < m
      BY <1>4, <2>2
    <3>. QED
      BY <1>5, <3>1
  <2>. QED
    BY <2>1, <2>2
<1>10. m - 1 < n => w < End((m - 1) + 1)
  <2>1. m - 1 < n => m <= n
    BY <1>1, <1>4
  <2>. QED
    BY <1>3, <1>4, <2>1
<1>. QED
  BY <1>4, <1>7, <1>8, <1>9, <1>10

\* Sequences that are the beginning of others.
LEMMA BeginsWith ==
    ASSUME NEW S, NEW s \in Seq(S), NEW t \in Seq(S),
           Len(s) <= Len(t), \A i \in 1..Len(s) : s[i] = t[i]
    PROVE  IsPrefix(s, t)
<1>1. Len(s) \in Nat /\ Len(t) \in Nat /\ 0 <= Len(s) /\ Len(s) <= Len(s)
  BY LenProperties
<1>2. PICK r, q : r = SubSeq(s, 0 + 1, Len(s)) /\ q = SubSeq(t, 0 + 1, Len(s))
  OBVIOUS
<1>3. r \in Seq(S) /\ Len(r) = Len(s) - 0 /\ \A j \in 1..Len(s) - 0 : r[j] = s[0 + j]
  BY <1>1, <1>2, Between
<1>4. q \in Seq(S) /\ Len(q) = Len(s) - 0 /\ \A j \in 1..Len(s) - 0 : q[j] = t[0 + j]
  BY <1>1, <1>2, Between
<1>5. \A j \in 1..Len(r) : r[j] = q[j]
  BY <1>1, <1>3, <1>4
<1>6. r = q
  BY <1>3, <1>4, <1>5, SeqEqual
<1>. QED
  BY <1>2, <1>6 DEF IsPrefix

\* What a sequence is prolonged from is its beginning.
LEMMA ConcatBegins ==
    ASSUME NEW S, NEW s \in Seq(S), NEW t \in Seq(S)
    PROVE  IsPrefix(s, s \o t)
<1>1. PICK r : r = s \o t
  OBVIOUS
<1>2. /\ r \in Seq(S) /\ Len(r) = Len(s) + Len(t) /\ Len(s) \in Nat /\ Len(t) \in Nat
      /\ \A i \in 1..Len(s) + Len(t) : r[i] = IF i <= Len(s) THEN s[i] ELSE t[i - Len(s)]
  BY <1>1, ConcatProperties, LenProperties
<1>3. Len(s) <= Len(r) /\ \A i \in 1..Len(s) : s[i] = r[i]
  BY <1>2
<1>. QED
  BY <1>1, <1>2, <1>3, BeginsWith

\* A sequence begins with itself.
LEMMA SameBegins ==
    ASSUME NEW S, NEW s \in Seq(S)
    PROVE  IsPrefix(s, s)
<1>1. Len(s) <= Len(s)
  BY LenProperties
<1>. QED
  BY <1>1, BeginsWith
=============================================================================
