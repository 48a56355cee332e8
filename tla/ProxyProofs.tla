----------------------------- MODULE ProxyProofs ----------------------------
(* What a relay delivers before it returns, for any number of chunks. *)
EXTENDS Proxy, TLAPS

\* Way w cannot deliver any more: its receiver has left or a side is closed.
Cut(w) == app[Target(w)] = "closed" \/ ~isOpen[Target(w)] \/ ~isOpen[Source(w)]

\* All that was sent on way w, and ever will be, has arrived.
Complete(w) == app[Source(w)] # "open" /\ got[w] = sent[w]

\* What each stage of a copier says of its counts, unless its way is cut.
CopierCounts ==
    \A w \in Ways :
      /\ copier[w] = "reading" => got[w] = taken[w] \/ Cut(w)
      /\ copier[w] = "writing" => got[w] + 1 = taken[w] \/ Cut(w)
      /\ copier[w] \in {"done", "gone"} => Complete(w) \/ Cut(w)

\* Nothing is closed while the relay copies.
CopyingOpen == relay = "copying" => \A s \in Sides : isOpen[s]

\* Nothing is copied any more once the relay has returned.
ReturnedStill ==
    relay = "returned" =>
      IF mode # "first" THEN \A w \in Ways : copier[w] = "done" ELSE \A s \in Sides : ~isOpen[s]

\* What was true when the relay returned stays true.
ReturnedComplete ==
    relay = "returned" =>
      IF mode # "first"
      THEN \A w \in Ways : Complete(w) \/ app[Target(w)] = "closed"
      ELSE \/ \E w \in Ways : Complete(w)
           \/ \E s \in Sides : app[s] = "closed"

RelayInv == TypeOK /\ CopierCounts /\ CopyingOpen /\ ReturnedStill /\ ReturnedComplete

\* The names of the sides, for every proof below.
LEMMA SidesFacts ==
    /\ \A w \in Ways : Source(w) \in Sides /\ Target(w) \in Sides /\ Source(w) # Target(w)
    /\ "in" \in Ways /\ "out" \in Ways /\ "conn" \in Sides /\ "channel" \in Sides
BY DEF Ways, Sides, Source, Target

LEMMA RelayInit == Init => RelayInv
BY ChunksAssumption, SidesFacts
   DEF Init, RelayInv, TypeOK, Modes, CopierCounts, CopyingOpen, ReturnedStill, ReturnedComplete, Cut, Complete

\* Each action keeps the invariant.
LEMMA RelayNext == RelayInv /\ [Next]_vars => RelayInv'
<1> SUFFICES ASSUME RelayInv, [Next]_vars PROVE RelayInv'
    OBVIOUS
<1> USE ChunksAssumption, SidesFacts
<1> USE DEF RelayInv, TypeOK, Modes, CopierCounts, CopyingOpen, ReturnedStill, ReturnedComplete, Cut, Complete
<1>1. ASSUME NEW w \in Ways, AppSends(w) PROVE RelayInv'
    BY <1>1 DEF AppSends
<1>2. ASSUME NEW s \in Sides, AppEnds(s) PROVE RelayInv'
    BY <1>2 DEF AppEnds
<1>10. ASSUME NEW s \in Sides, AppStopsReading(s) PROVE RelayInv'
    BY <1>10 DEF AppStopsReading
<1>3. ASSUME NEW w \in Ways, CopyReads(w) PROVE RelayInv'
    BY <1>3 DEF CopyReads
<1>4. ASSUME NEW w \in Ways, CopyWrites(w) PROVE RelayInv'
    <2>1. relay = "copying" /\ ~Cut(w)
        BY <1>4 DEF CopyWrites
    <2>2. got[w] + 1 = taken[w] /\ got'[w] = taken[w] /\ TypeOK'
        BY <1>4, <2>1 DEF CopyWrites
    <2> QED
        BY <1>4, <2>1, <2>2 DEF CopyWrites
<1>5. ASSUME NEW w \in Ways, CopyFails(w) PROVE RelayInv'
    BY <1>5 DEF CopyFails
<1>6. ASSUME NEW w \in Ways, CopyEnds(w) PROVE RelayInv'
    BY <1>6 DEF CopyEnds
<1>7. ASSUME FirstDone PROVE RelayInv'
    BY <1>7 DEF FirstDone
<1>8. ASSUME BothDone PROVE RelayInv'
    BY <1>8 DEF BothDone
<1>9. ASSUME UNCHANGED vars PROVE RelayInv'
    BY <1>9 DEF vars
<1> QED
    BY <1>1, <1>2, <1>3, <1>4, <1>5, <1>6, <1>7, <1>8, <1>9, <1>10
       DEF Next, CopyStep, CopyGoesOn, RelayStep

LEMMA RelayInvHolds == Spec => []RelayInv
BY RelayInit, RelayNext, PTL DEF Spec

\* The relay keeps its types: no chunk arrives before it was read, nor is read
\* before it was sent.
THEOREM RelayTypes == Spec => []TypeOK
<1>1. RelayInv => TypeOK
    BY DEF RelayInv
<1> QED
    BY <1>1, RelayInvHolds, PTL

\* Mount, Dial, Terminal, Mount9P and joinSerialPipe return with everything sent
\* either way delivered, unless its receiver had left.
THEOREM JoinLosesNothing == Spec => []JoinedNothingLost
<1>1. RelayInv => JoinedNothingLost
    BY DEF RelayInv, ReturnedComplete, JoinedNothingLost, Complete
<1> QED
    BY <1>1, RelayInvHolds, PTL

\* forwardPort ends a connection only with one direction complete, or when a
\* program at one of its ends has left.
THEOREM ForwardCompletesOneWay == Spec => []ForwardedOneWayComplete
<1>1. RelayInv => ForwardedOneWayComplete
    BY DEF RelayInv, ReturnedComplete, ForwardedOneWayComplete, Complete
<1> QED
    BY <1>1, RelayInvHolds, PTL
=============================================================================
