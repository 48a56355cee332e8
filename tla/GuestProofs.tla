---------------------------- MODULE GuestProofs -----------------------------
(****************************************************************************)
(* Programs that the host runs in the VM, for any number of calls, of       *)
(* chunks of output and input, and of callers of Ready: what they write and *)
(* are sent stays in order, and Ready knows the version.                    *)
(****************************************************************************)
EXTENDS GuestService, SequenceTheorems, TLAPS

----------------------------------------------------------------------------
(* The inductive invariant. *)

Chunk(s, n) == [kind |-> s, chunk |-> n]

\* Among its first i messages w has the chunks of stream s after g up to n.
Complete(w, s, g, n, i) == \A k \in g + 1..n : \E j \in 1..i : w[j] = Chunk(s, k)

\* The chunks of stream s in w come after g, up to n at most, in order and each
\* with all before it.
InOrder(w, s, g, n) ==
    /\ \A i \in 1..Len(w) :
         w[i].kind = s => w[i].chunk \in g + 1..n /\ Complete(w, s, g, w[i].chunk - 1, i - 1)
    /\ \A i, j \in 1..Len(w) : i < j /\ w[i].kind = s /\ w[j].kind = s => w[i].chunk < w[j].chunk

\* A chunk that is counted was written, and a reader that sends, or a copier
\* that writes, has one.
Counted ==
    /\ ExecTypeOK
    /\ \A c \in Calls : copier[c] = "writing" => 0 < holds[c]
    /\ \A c \in Calls, s \in Streams :
         /\ wrote[c][s] <= produced
         /\ reader[c][s] = "sending" => sent[c][s] < wrote[c][s]

\* How far the host, the handler and the program of a call can be apart.
InStep ==
    \A c \in Calls :
      /\ link = "none" => host[c] = "idle"
      /\ host[c] # "idle" => \A d \in Calls : d < c => host[d] \in Ended
      /\ host[c] \in Ended => ~open[c] \/ link = "down"
      /\ host[c] = "idle" => handler[c] = "none"
      /\ handler[c] = "starting" => host[c] = "calling" \/ link = "down"
      /\ handler[c] \in {"none", "starting"} => prog[c] = "none" /\ wire[c] = <<>>
      /\ handler[c] \in {"waiting", "reporting", "closing"} => prog[c] # "none"
      /\ handler[c] \in {"reporting", "closing"} => prog[c] = "exited"
      /\ prog[c] = "none" => ~open[c] /\ \A s \in Streams : wrote[c][s] = 0
      /\ host[c] = "returned" => prog[c] = "exited"
      /\ \A i \in 1..Len(wire[c]) :
           /\ wire[c][i].kind = "error" => prog[c] = "none"
           /\ wire[c][i].kind = "status" => prog[c] = "exited"
      /\ quiet[c] => prog[c] = "exited" /\ sent[c] = wrote[c]

\* What is said of a call: its channel is open, its program was quiet when it
\* exited, Run has returned.
Flags(c) == {f \in {"open", "quiet", "returned"} : \/ f = "open" /\ open[c]
                                                   \/ f = "quiet" /\ quiet[c]
                                                   \/ f = "returned" /\ host[c] = "returned"}

\* Of stream s a program wrote m chunks, n were sent, q is what the host has got
\* and w what is under way, and f are the flags of its call.  Then w continues q;
\* an open channel has all that was sent; and before the status of a quiet
\* program there is all that it wrote.
FlowOf(s, w, q, n, m, f) ==
    LET g == Len(q)
    IN /\ q = [i \in 1..g |-> i]
       /\ g <= n
       /\ InOrder(w, s, g, n)
       /\ "open" \in f => Complete(w, s, g, n, Len(w))
       /\ "quiet" \in f => /\ \A i \in 1..Len(w) : w[i].kind = "status" => Complete(w, s, g, m, i - 1)
                           /\ "returned" \in f => g = m

FlowAt(c, s) == FlowOf(s, wire[c], got[c][s], sent[c][s], wrote[c][s], Flags(c))

Flow == \A c \in Calls, s \in Streams : FlowAt(c, s)

\* A call that has not started has no copier and no input, and what a copier
\* holds is newer than any input of its call and of those before it.
InputPlaced ==
    /\ \A c \in Calls :
         /\ host[c] \in {"idle", "calling"} => copier[c] = "none" /\ input[c] = <<>>
         /\ holds[c] <= taken
         /\ \A i \in 1..Len(input[c]) : input[c][i] <= taken
    /\ \A c, d \in Calls :
         copier[d] = "writing" /\ c <= d => \A i \in 1..Len(input[c]) : input[c][i] < holds[d]
    /\ InputInOrder

ExecInv == Counted /\ InStep /\ Flow /\ InputPlaced

\* The connection comes once, and ready is set after the version.
Served ==
    /\ serving = "none" => link = "none"
    /\ serving = "versioned" => version
    /\ ready => version
    /\ ReadyMeansVersion

GuestInv == TypeOK /\ ExecInv /\ Served

----------------------------------------------------------------------------
(* Queues of messages. *)

\* A message at the end of a queue leaves the others where they are.
LEMMA QueueAppend ==
    ASSUME NEW S, NEW w \in Seq(S), NEW m \in S, NEW v, v = Append(w, m)
    PROVE  /\ v \in Seq(S) /\ Len(w) \in Nat /\ Len(v) = Len(w) + 1
           /\ \A i \in 1..Len(w) : v[i] = w[i]
           /\ v[Len(w) + 1] = m
  BY AppendProperties, LenProperties

\* Without its head a queue moves up.
LEMMA QueueTail ==
    ASSUME NEW S, NEW w \in Seq(S), w # <<>>, NEW v, v = Tail(w)
    PROVE  /\ v \in Seq(S) /\ Len(w) \in Nat \ {0} /\ Len(v) = Len(w) - 1
           /\ \A i \in 1..Len(v) : v[i] = w[i + 1]
           /\ Head(w) = w[1] /\ w[1] \in S
  <1>1. Len(w) \in Nat /\ Len(w) # 0
    BY LenProperties, EmptySeq
  <1>2. /\ v \in Seq(S) /\ Len(v) = Len(w) - 1 /\ Head(w) = w[1]
        /\ \A i \in 1..Len(v) : v[i] = w[i + 1]
    BY HeadTailProperties
  <1>3. w[1] \in S
    BY <1>1, ElementOfSeq
  <1> QED
    BY <1>1, <1>2, <1>3

\* The numbers up to g, and one more.
LEMMA CountOn ==
    ASSUME NEW S, NEW g \in Nat, NEW s \in Seq(S), s = [i \in 1..g |-> i], g + 1 \in S
    PROVE  Append(s, g + 1) = [i \in 1..g + 1 |-> i] /\ Len(Append(s, g + 1)) = g + 1
  <1>1. PICK v : v = Append(s, g + 1)
    OBVIOUS
  <1>2. Len(s) = g
    BY LenProperties
  <1>3. v \in Seq(S) /\ Len(v) = g + 1 /\ (\A i \in 1..g : v[i] = s[i]) /\ v[g + 1] = g + 1
    BY <1>1, <1>2, QueueAppend
  <1>4. \A i \in 1..g + 1 : v[i] = i
    <2>1. \A i \in 1..g + 1 : i \in 1..g \/ i = g + 1
      OBVIOUS
    <2> QED
      BY <1>3, <2>1
  <1>5. v = [i \in 1..Len(v) |-> v[i]]
    BY <1>3, LenProperties
  <1> QED
    BY <1>1, <1>3, <1>4, <1>5

\* The next chunk goes behind those before it.
LEMMA AppendChunk ==
    ASSUME NEW w \in Seq(Messages), NEW s \in Streams, NEW g \in Nat, NEW n \in Nat, g <= n,
           InOrder(w, s, g, n), Complete(w, s, g, n, Len(w)),
           Chunk(s, n + 1) \in Messages,
           NEW v, v = Append(w, Chunk(s, n + 1))
    PROVE  InOrder(v, s, g, n + 1) /\ Complete(v, s, g, n + 1, Len(v))
  <1>1. PICK l \in Nat : l = Len(w)
    BY LenProperties
  <1>2. /\ Len(v) = l + 1
        /\ \A i \in 1..l : v[i] = w[i]
        /\ v[l + 1].kind = s /\ v[l + 1].chunk = n + 1 /\ v[l + 1] = Chunk(s, n + 1)
    BY <1>1, QueueAppend DEF Chunk
  <1>3. \A i \in 1..l + 1 : i \in 1..l \/ i = l + 1
    OBVIOUS
  <1>4. ASSUME NEW i \in 1..l, w[i].kind = s
        PROVE  w[i].chunk \in g + 1..n /\ Complete(v, s, g, w[i].chunk - 1, i - 1)
    BY <1>1, <1>2, <1>4 DEF InOrder, Complete
  <1>5. Complete(v, s, g, n, l)
    BY <1>1, <1>2 DEF Complete
  <1>6. ASSUME NEW i \in 1..l + 1, v[i].kind = s
        PROVE  v[i].chunk \in g + 1..n + 1 /\ Complete(v, s, g, v[i].chunk - 1, i - 1)
    <2>1. CASE i \in 1..l
      BY <1>2, <1>4, <1>6, <2>1
    <2>2. CASE i = l + 1
      BY <1>2, <1>5, <2>2 
    <2> QED
      BY <1>3, <2>1, <2>2
  <1>7. ASSUME NEW i \in 1..l + 1, NEW j \in 1..l + 1, i < j, v[i].kind = s, v[j].kind = s
        PROVE  v[i].chunk < v[j].chunk
    <2>1. i \in 1..l
      BY <1>7
    <2>2. CASE j \in 1..l
      BY <1>1, <1>2, <1>7, <2>1, <2>2 DEF InOrder
    <2>3. CASE j = l + 1
      BY <1>2, <1>4, <1>7, <2>1, <2>3
    <2> QED
      BY <1>3, <2>2, <2>3
  <1>8. Complete(v, s, g, n + 1, l + 1)
    <2>1. \A k \in g + 1..n + 1 : k \in g + 1..n \/ k = n + 1
      OBVIOUS
    <2> QED
      BY <1>2, <1>5, <2>1 DEF Complete
  <1> QED
    BY <1>2, <1>6, <1>7, <1>8 DEF InOrder

\* Another message at the end of the queue changes nothing for a stream.
LEMMA AppendOther ==
    ASSUME NEW w \in Seq(Messages), NEW s \in Streams, NEW g \in Nat, NEW n \in Nat,
           NEW m \in Messages, m.kind # s, NEW v, v = Append(w, m), InOrder(w, s, g, n)
    PROVE  /\ InOrder(v, s, g, n)
           /\ \A k, i \in Nat : i <= Len(w) /\ Complete(w, s, g, k, i) => Complete(v, s, g, k, i)
           /\ \A k \in Nat : Complete(w, s, g, k, Len(w)) => Complete(v, s, g, k, Len(v))
  <1>1. PICK l \in Nat : l = Len(w)
    BY LenProperties
  <1>2. Len(v) = l + 1 /\ (\A i \in 1..l : v[i] = w[i]) /\ v[l + 1].kind # s
    BY <1>1, QueueAppend
  <1>3. \A i \in 1..l + 1 : v[i].kind = s => i \in 1..l
    BY <1>2
  <1>4. \A k, i \in Nat : i <= l /\ Complete(w, s, g, k, i) => Complete(v, s, g, k, i)
    BY <1>2 DEF Complete
  <1>5. \A k \in Nat : Complete(w, s, g, k, l) => Complete(v, s, g, k, l + 1)
    BY <1>2 DEF Complete
  <1>6. \A i \in 1..l : w[i].kind = s => w[i].chunk \in g + 1..n /\ Complete(w, s, g, w[i].chunk - 1, i - 1)
    BY <1>1 DEF InOrder
  <1>7. ASSUME NEW i \in 1..l + 1, v[i].kind = s
        PROVE  v[i].chunk \in g + 1..n /\ Complete(v, s, g, v[i].chunk - 1, i - 1)
    BY <1>2, <1>3, <1>4, <1>6, <1>7
  <1>8. ASSUME NEW i \in 1..l + 1, NEW j \in 1..l + 1, i < j, v[i].kind = s, v[j].kind = s
        PROVE  v[i].chunk < v[j].chunk
    <2>1. i \in 1..l /\ j \in 1..l /\ v[i] = w[i] /\ v[j] = w[j]
      BY <1>2, <1>3, <1>8
    <2> QED
      BY <1>1, <1>8, <2>1 DEF InOrder
  <1> QED
    BY <1>1, <1>2, <1>4, <1>5, <1>7, <1>8 DEF InOrder

\* The chunk at the head of a queue is the next one.
LEMMA TailChunk ==
    ASSUME NEW w \in Seq(Messages), w # <<>>, NEW s \in Streams, NEW g \in Nat, NEW n \in Nat,
           InOrder(w, s, g, n), Head(w).kind = s, NEW v, v = Tail(w)
    PROVE  /\ Head(w).chunk = g + 1 /\ g + 1 <= n
           /\ InOrder(v, s, g + 1, n)
           /\ \A k \in Nat, i \in 1..Len(w) : Complete(w, s, g, k, i) => Complete(v, s, g + 1, k, i - 1)
  <1>1. PICK l \in Nat : l = Len(v)
    BY QueueTail, LenProperties
  <1>2. /\ Len(w) = l + 1
        /\ \A i \in 1..l : v[i] = w[i + 1]
        /\ Head(w) = w[1]
    BY <1>1, QueueTail
  <1>3. w[1].chunk \in g + 1..n /\ Complete(w, s, g, w[1].chunk - 1, 0)
    BY <1>2 DEF InOrder
  <1>4. w[1].chunk = g + 1
    BY <1>3 DEF Complete
  <1>5. \A j \in 1..l + 1 : j = 1 \/ j - 1 \in 1..l
    OBVIOUS
  <1>6. ASSUME NEW k \in Int, NEW i \in 1..l + 1, Complete(w, s, g, k, i)
        PROVE  Complete(v, s, g + 1, k, i - 1)
    <2> SUFFICES ASSUME NEW q \in g + 1 + 1..k PROVE \E j \in 1..i - 1 : v[j] = Chunk(s, q)
      BY DEF Complete
    <2>1. PICK j \in 1..i : w[j] = Chunk(s, q)
      BY <1>6 DEF Complete
    <2>2. j # 1
      BY <1>4, <2>1 DEF Chunk
    <2>3. j - 1 \in 1..i - 1 /\ j - 1 \in 1..l /\ j - 1 + 1 = j
      BY <2>2
    <2> QED
      BY <1>2, <2>1, <2>3
  <1>7. ASSUME NEW i \in 1..l, v[i].kind = s
        PROVE  v[i].chunk \in g + 1 + 1..n /\ Complete(v, s, g + 1, v[i].chunk - 1, i - 1)
    <2>1. i + 1 \in 1..l + 1 /\ 1 \in 1..l + 1 /\ 1 < i + 1 /\ w[i + 1].kind = s /\ w[1].kind = s
      BY <1>2, <1>7
    <2>2. w[i + 1].chunk \in g + 1..n /\ Complete(w, s, g, w[i + 1].chunk - 1, i + 1 - 1)
      BY <1>2, <2>1 DEF InOrder
    <2>3. g + 1 < w[i + 1].chunk
      BY <1>2, <1>4, <2>1 DEF InOrder
    <2>4. Complete(v, s, g + 1, w[i + 1].chunk - 1, i - 1)
      BY <1>6, <2>2
    <2> QED
      BY <1>2, <2>2, <2>3, <2>4
  <1>8. \A i, j \in 1..l : i < j /\ v[i].kind = s /\ v[j].kind = s => v[i].chunk < v[j].chunk
    BY <1>2 DEF InOrder
  <1> QED
    BY <1>1, <1>2, <1>3, <1>4, <1>6, <1>7, <1>8 DEF InOrder

\* Another message at the head of a queue can go.
LEMMA TailOther ==
    ASSUME NEW w \in Seq(Messages), w # <<>>, NEW s \in Streams, NEW g \in Nat, NEW n \in Nat,
           InOrder(w, s, g, n), Head(w).kind # s, NEW v, v = Tail(w)
    PROVE  /\ InOrder(v, s, g, n)
           /\ \A k \in Nat, i \in 1..Len(w) : Complete(w, s, g, k, i) => Complete(v, s, g, k, i - 1)
  <1>1. PICK l \in Nat : l = Len(v)
    BY QueueTail, LenProperties
  <1>2. /\ Len(w) = l + 1
        /\ \A i \in 1..l : v[i] = w[i + 1]
        /\ w[1].kind # s
    BY <1>1, QueueTail
  <1>3. ASSUME NEW k \in Int, NEW i \in 1..l + 1, Complete(w, s, g, k, i)
        PROVE  Complete(v, s, g, k, i - 1)
    <2> SUFFICES ASSUME NEW q \in g + 1..k PROVE \E j \in 1..i - 1 : v[j] = Chunk(s, q)
      BY DEF Complete
    <2>1. PICK j \in 1..i : w[j] = Chunk(s, q)
      BY <1>3 DEF Complete
    <2>2. j # 1
      BY <1>2, <2>1 DEF Chunk
    <2>3. j - 1 \in 1..i - 1 /\ j - 1 \in 1..l /\ j - 1 + 1 = j
      BY <2>2
    <2> QED
      BY <1>2, <2>1, <2>3
  <1>4. ASSUME NEW i \in 1..l, v[i].kind = s
        PROVE  v[i].chunk \in g + 1..n /\ Complete(v, s, g, v[i].chunk - 1, i - 1)
    <2>1. i + 1 \in 1..l + 1 /\ w[i + 1].kind = s
      BY <1>2, <1>4
    <2>2. w[i + 1].chunk \in g + 1..n /\ Complete(w, s, g, w[i + 1].chunk - 1, i + 1 - 1)
      BY <1>2, <2>1 DEF InOrder
    <2>3. Complete(v, s, g, w[i + 1].chunk - 1, i - 1)
      BY <1>3, <2>2
    <2> QED
      BY <1>2, <2>2, <2>3
  <1>5. \A i, j \in 1..l : i < j /\ v[i].kind = s /\ v[j].kind = s => v[i].chunk < v[j].chunk
    BY <1>2 DEF InOrder
  <1> QED
    BY <1>1, <1>2, <1>3, <1>4, <1>5 DEF InOrder

----------------------------------------------------------------------------
(* The steps of the calls. *)

\* What a step of the guest service is to the calls: one of theirs, a call that
\* begins, or the connection that comes or goes.
LinkMove ==
    /\ \/ link = "none" /\ link' = "up"
       \/ link = "up" /\ link' = "down"
    /\ UNCHANGED <<pty, hostVars, guestVars, wire, open, stdinVars>>

CallMove == (\E c \in Calls : HostCall(c)) \/ ExecStep \/ LinkMove \/ UNCHANGED execVars

\* The messages of the calls.
LEMMA MessageKinds ==
    ASSUME NEW m \in Messages
    PROVE  /\ m.kind \in {"continue", "error", "status"} \cup Streams
           /\ m.kind \in Streams => m.chunk \in 1..MaxOutput /\ m = Chunk(m.kind, m.chunk)
  BY DEF Messages, Chunk, Streams

LEMMA MadeMessages ==
    /\ \A k \in {"continue", "error", "status"} : [kind |-> k] \in Messages /\ [kind |-> k].kind = k
    /\ \A s \in Streams, n \in 1..MaxOutput : Chunk(s, n) \in Messages /\ Chunk(s, n).kind = s
  BY DEF Messages, Chunk

\* A queue that something is sent to keeps its type.
LEMMA SendsType ==
    ASSUME Counted, NEW c \in Calls, NEW m \in Messages, Sends(c, m)
    PROVE  /\ wire' \in [Calls -> Seq(Messages)]
           /\ \A d \in Calls : d # c => wire'[d] = wire[d]
           /\ wire'[c] = IF open[c] THEN Append(wire[c], m) ELSE wire[c]
  <1>1. Append(wire[c], m) \in Seq(Messages)
    BY AppendProperties DEF Counted, ExecTypeOK
  <1> QED
    BY <1>1 DEF Sends, Counted, ExecTypeOK

\* The calls' variables keep their types, and their counters their order.
LEMMA CountedStep == ASSUME Counted, CallMove PROVE Counted'
  <1> USE ExecAssumption DEF hostVars, guestVars, stdinVars
  <1>0. /\ ExecTypeOK
        /\ \A c \in Calls : copier[c] = "writing" => 0 < holds[c]
        /\ \A c \in Calls, s \in Streams : /\ wrote[c][s] <= produced
                                           /\ reader[c][s] = "sending" => sent[c][s] < wrote[c][s]
    BY DEF Counted
  <1>1. ASSUME NEW c \in Calls, HostCall(c) PROVE Counted'
    BY <1>0, <1>1 DEF HostCall, Counted, ExecTypeOK, Ended
  <1>2. ASSUME NEW c \in Calls, wire[c] # <<>>
        PROVE  /\ Head(wire[c]) \in Messages
               /\ [wire EXCEPT ![c] = Tail(@)] \in [Calls -> Seq(Messages)]
    <2>1. Tail(wire[c]) \in Seq(Messages) /\ Head(wire[c]) \in Messages
      BY <1>0, <1>2, HeadTailProperties DEF ExecTypeOK
    <2> QED
      BY <1>0, <2>1 DEF ExecTypeOK
  <1>3. ASSUME NEW c \in Calls, HostCalled(c) PROVE Counted'
    <2>1. /\ wire' \in [Calls -> Seq(Messages)]
          /\ host' \in [Calls -> {"idle", "calling", "receiving"} \cup Ended]
          /\ copier' \in [Calls -> {"none", "reading", "writing", "ended"}]
      BY <1>0, <1>2, <1>3 DEF HostCalled, ExecTypeOK, Ended
    <2> QED
      BY <1>0, <1>3, <2>1 DEF HostCalled, Counted, ExecTypeOK
  <1>4. ASSUME NEW c \in Calls, HostOutput(c) PROVE Counted'
    <2>1. PICK m \in Messages : m = Head(wire[c])
      BY <1>2, <1>4 DEF HostOutput
    <2>2. PICK s \in Streams : m.kind = s /\ m.chunk \in 1..MaxOutput
      BY <1>4, <2>1, MessageKinds DEF HostOutput
    <2>3. got' = [got EXCEPT ![c][s] = Append(@, m.chunk)]
      BY <1>4, <2>1, <2>2 DEF HostOutput
    <2>4. Append(got[c][s], m.chunk) \in Seq(1..MaxOutput)
      BY <1>0, <2>2, AppendProperties DEF ExecTypeOK
    <2>5. got' \in [Calls -> [Streams -> Seq(1..MaxOutput)]]
      BY <1>0, <2>3, <2>4 DEF ExecTypeOK
    <2>6. wire' \in [Calls -> Seq(Messages)]
      BY <1>2, <1>4 DEF HostOutput
    <2> QED
      BY <1>0, <1>4, <2>5, <2>6 DEF HostOutput, Counted, ExecTypeOK
  <1>5. ASSUME NEW c \in Calls, HostStatus(c) PROVE Counted'
    <2>1. wire' \in [Calls -> Seq(Messages)]
      BY <1>2, <1>5 DEF HostStatus
    <2> QED
      BY <1>0, <1>5, <2>1 DEF HostStatus, Counted, ExecTypeOK, Ended
  <1>6. ASSUME NEW c \in Calls, HostFails(c) PROVE Counted'
    BY <1>0, <1>6 DEF HostFails, Counted, ExecTypeOK, Ended
  <1>7. ASSUME NEW c \in Calls, CopierReads(c) PROVE Counted'
    BY <1>0, <1>7 DEF CopierReads, Counted, ExecTypeOK
  <1>8. ASSUME NEW c \in Calls, CopierWrites(c) PROVE Counted'
    <2>1. copier[c] = "writing" /\ holds[c] \in 1..MaxInput
      BY <1>0, <1>8 DEF CopierWrites, ExecTypeOK
    <2>2. Append(input[c], holds[c]) \in Seq(1..MaxInput)
      BY <1>0, <2>1, AppendProperties DEF ExecTypeOK
    <2>3. input' \in [Calls -> Seq(1..MaxInput)]
      <3>1. input' = input \/ input' = [input EXCEPT ![c] = Append(@, holds[c])]
        BY <1>8 DEF CopierWrites
      <3> QED
        BY <1>0, <2>2, <3>1 DEF ExecTypeOK
    <2>4. /\ holds' \in [Calls -> 0..MaxInput]
          /\ copier' \in [Calls -> {"none", "reading", "writing", "ended"}]
          /\ \A d \in Calls : copier'[d] = "writing" => copier[d] = "writing" /\ holds'[d] = holds[d]
      <3>1. PICK k \in {"reading", "ended"} : copier' = [copier EXCEPT ![c] = k]
        BY <1>8 DEF CopierWrites
      <3>2. holds' = [holds EXCEPT ![c] = 0]
        BY <1>8 DEF CopierWrites
      <3> QED
        BY <1>0, <3>1, <3>2 DEF ExecTypeOK
    <2>5. UNCHANGED <<link, pty, hostVars, guestVars, wire, open, taken>>
      BY <1>8 DEF CopierWrites
    <2> QED
      BY <1>0, <2>3, <2>4, <2>5 DEF Counted, ExecTypeOK
  <1>9. ASSUME NEW c \in Calls, NEW m \in Messages, Sends(c, m)
        PROVE  wire' \in [Calls -> Seq(Messages)]
    BY <1>9, SendsType DEF Counted
  <1>10. ASSUME NEW c \in Calls, NEW m \in Messages
         PROVE  [wire EXCEPT ![c] = Append(@, m)] \in [Calls -> Seq(Messages)]
    BY <1>0, AppendProperties DEF ExecTypeOK
  <1>11. ASSUME NEW c \in Calls, GuestStart(c) \/ GuestStartFails(c) PROVE Counted'
    <2>1. wire' \in [Calls -> Seq(Messages)]
      <3>1. [kind |-> "continue"] \in Messages /\ [kind |-> "error"] \in Messages
        BY DEF Messages
      <3>2. \/ wire' = [wire EXCEPT ![c] = Append(@, [kind |-> "continue"])]
            \/ wire' = [wire EXCEPT ![c] = Append(@, [kind |-> "error"])]
        BY <1>11 DEF GuestStart, GuestStartFails
      <3> QED
        BY <1>10, <3>1, <3>2, ZenonT(30)
    <2>2. /\ handler' \in [Calls -> {"none", "starting", "waiting", "reporting", "closing", "done"}]
          /\ prog' \in [Calls -> {"none", "running", "exited"}]
          /\ open' \in [Calls -> BOOLEAN]
      BY <1>0, <1>11 DEF GuestStart, GuestStartFails, ExecTypeOK
    <2>3. /\ reader' \in [Calls -> [Streams -> {"none", "reading", "sending"}]]
          /\ \A d \in Calls, s \in Streams : reader'[d][s] = "sending" => reader[d][s] = "sending"
      <3>1. CASE reader' = reader
        BY <1>0, <3>1 DEF ExecTypeOK
      <3>2. CASE GuestStart(c)
        <4>1. PICK r \in [Streams -> {"none", "reading"}] : reader' = [reader EXCEPT ![c] = r]
          BY <3>2 DEF GuestStart
        <4>2. reader \in [Calls -> [Streams -> {"none", "reading", "sending"}]]
          BY <1>0 DEF ExecTypeOK
        <4>3. \A d \in Calls : reader'[d] = IF d = c THEN r ELSE reader[d]
          BY <4>1, <4>2
        <4>4. reader' \in [Calls -> [Streams -> {"none", "reading", "sending"}]]
          <5>1. r \in [Streams -> {"none", "reading", "sending"}]
            OBVIOUS
          <5> QED
            BY <4>1, <4>2, <5>1
        <4>5. \A s \in Streams : r[s] # "sending"
          OBVIOUS
        <4> QED
          BY <4>3, <4>4, <4>5
      <3> QED
        BY <1>11, <3>1, <3>2 DEF GuestStartFails
    <2>4. UNCHANGED <<link, pty, hostVars, stdinVars, quiet, produced, wrote, sent>>
      BY <1>11 DEF GuestStart, GuestStartFails, Guest
    <2> QED
      BY <1>0, <2>1, <2>2, <2>3, <2>4 DEF Counted, ExecTypeOK
  <1>12. ASSUME NEW c \in Calls, HandlerWait(c) \/ HandlerReport(c) \/ HandlerClose(c) PROVE Counted'
    <2>1. wire' \in [Calls -> Seq(Messages)]
      BY <1>0, <1>9, <1>12, MadeMessages DEF HandlerWait, HandlerReport, HandlerClose, ExecTypeOK
    <2>2. /\ handler' \in [Calls -> {"none", "starting", "waiting", "reporting", "closing", "done"}]
          /\ open' \in [Calls -> BOOLEAN]
      BY <1>0, <1>12 DEF HandlerWait, HandlerReport, HandlerClose, ExecTypeOK
    <2>3. UNCHANGED <<link, pty, hostVars, stdinVars, prog, quiet, produced, wrote, sent, reader>>
      BY <1>12 DEF HandlerWait, HandlerReport, HandlerClose, Guest
    <2> QED
      BY <1>0, <2>1, <2>2, <2>3 DEF Counted, ExecTypeOK
  <1>13. ASSUME NEW c \in Calls, ProgramExits(c) PROVE Counted'
    BY <1>0, <1>13 DEF ProgramExits, Counted, ExecTypeOK
  <1>14. ASSUME NEW c \in Calls, NEW s \in Streams, ProgramWrites(c, s) PROVE Counted'
    <2>1. /\ produced \in Nat /\ produced < MaxOutput /\ produced' = produced + 1
          /\ wrote' = [wrote EXCEPT ![c][s] = @ + 1]
      <3>1. produced \in 0..MaxOutput
        BY <1>0 DEF ExecTypeOK
      <3> QED
        BY <1>14, <3>1 DEF ProgramWrites
    <2>2. \A d \in Calls, t \in Streams :
            /\ wrote[d][t] \in Nat /\ wrote[d][t] <= produced
            /\ wrote'[d][t] = IF d = c /\ t = s THEN wrote[d][t] + 1 ELSE wrote[d][t]
      <3>1. wrote \in [Calls -> [Streams -> 0..MaxOutput]]
        BY <1>0 DEF ExecTypeOK
      <3>2. \A d \in Calls, t \in Streams : wrote[d][t] \in Nat
        BY <3>1
      <3>3. \A d \in Calls, t \in Streams :
              wrote'[d][t] = IF d = c /\ t = s THEN wrote[d][t] + 1 ELSE wrote[d][t]
        BY <2>1, <3>1
      <3> QED
        BY <1>0, <3>2, <3>3
    <2>3. \A d \in Calls, t \in Streams : /\ wrote'[d][t] \in 0..MaxOutput
                                          /\ wrote'[d][t] <= produced'
                                          /\ wrote[d][t] <= wrote'[d][t]
      BY <2>1, <2>2
    <2>4. wrote' \in [Calls -> [Streams -> 0..MaxOutput]]
      <3>1. wrote \in [Calls -> [Streams -> Nat]]
        BY <1>0 DEF ExecTypeOK
      <3>2. wrote' \in [Calls -> [Streams -> Nat]]
        BY <2>1, <3>1
      <3> QED
        BY <2>3, <3>2
    <2>5. UNCHANGED <<link, pty, hostVars, prog, quiet, handler, sent, reader, wire, open, stdinVars>>
      BY <1>14 DEF ProgramWrites
    <2>6. \A d \in Calls, t \in Streams : /\ sent[d][t] <= wrote'[d][t]
                                          /\ reader[d][t] = "sending" => sent[d][t] < wrote'[d][t]
      <3>1. \A d \in Calls, t \in Streams : /\ sent[d][t] \in Nat /\ wrote'[d][t] \in Nat /\ wrote[d][t] \in Nat
                                            /\ sent[d][t] <= wrote[d][t]
        BY <1>0, <2>3, SMTT(30) DEF ExecTypeOK
      <3> QED
        BY <1>0, <2>3, <3>1
    <2> QED
      BY <1>0, <2>1, <2>3, <2>4, <2>5, <2>6 DEF Counted, ExecTypeOK
  <1>15. ASSUME NEW c \in Calls, NEW s \in Streams, ReaderReads(c, s) PROVE Counted'
    <2>1. /\ reader' \in [Calls -> [Streams -> {"none", "reading", "sending"}]]
          /\ \A d \in Calls, t \in Streams : reader'[d][t] = "sending" => sent[d][t] < wrote[d][t]
      BY <1>0, <1>15 DEF ReaderReads, ExecTypeOK
    <2>2. UNCHANGED <<link, pty, hostVars, prog, quiet, handler, produced, wrote, sent, wire, open, stdinVars>>
      BY <1>15 DEF ReaderReads
    <2> QED
      BY <1>0, <2>1, <2>2 DEF Counted, ExecTypeOK
  <1>16. ASSUME NEW c \in Calls, NEW s \in Streams, ReaderSends(c, s) PROVE Counted'
    <2>1. /\ reader[c][s] = "sending" /\ reader' = [reader EXCEPT ![c][s] = "reading"]
          /\ sent' = [sent EXCEPT ![c][s] = @ + 1]
          /\ UNCHANGED <<link, pty, hostVars, prog, quiet, handler, produced, wrote, open, stdinVars>>
      BY <1>16 DEF ReaderSends
    <2>2. \A d \in Calls, t \in Streams :
            /\ sent[d][t] \in Nat /\ wrote[d][t] \in 0..MaxOutput /\ sent[d][t] <= wrote[d][t]
            /\ sent'[d][t] = IF d = c /\ t = s THEN sent[d][t] + 1 ELSE sent[d][t]
            /\ reader'[d][t] = IF d = c /\ t = s THEN "reading" ELSE reader[d][t]
      <3>1. \A d \in Calls, t \in Streams :
              sent[d][t] \in Nat /\ wrote[d][t] \in 0..MaxOutput /\ sent[d][t] <= wrote[d][t]
        BY <1>0 DEF ExecTypeOK
      <3>2. /\ sent \in [Calls -> [Streams -> 0..MaxOutput]]
            /\ reader \in [Calls -> [Streams -> {"none", "reading", "sending"}]]
        BY <1>0 DEF ExecTypeOK
      <3>3. \A d \in Calls, t \in Streams :
              sent'[d][t] = IF d = c /\ t = s THEN sent[d][t] + 1 ELSE sent[d][t]
        BY <2>1, <3>2
      <3>4. \A d \in Calls, t \in Streams :
              reader'[d][t] = IF d = c /\ t = s THEN "reading" ELSE reader[d][t]
        BY <2>1, <3>2
      <3> QED
        BY <3>1, <3>3, <3>4
    <2>3. sent[c][s] < wrote[c][s]
      BY <1>0, <2>1
    <2>4. \A d \in Calls, t \in Streams : /\ sent'[d][t] \in 0..MaxOutput
                                          /\ sent'[d][t] <= wrote[d][t]
                                          /\ reader'[d][t] = "sending" => sent'[d][t] < wrote[d][t]
      BY <1>0, <2>2, <2>3
    <2>5. sent' \in [Calls -> [Streams -> 0..MaxOutput]]
      <3>1. sent' \in [Calls -> [Streams -> Nat]]
        BY <1>0, <2>1 DEF ExecTypeOK
      <3> QED
        BY <2>4, <3>1
    <2>6. reader' \in [Calls -> [Streams -> {"none", "reading", "sending"}]]
      BY <1>0, <2>1 DEF ExecTypeOK
    <2>7. sent'[c][s] \in 1..MaxOutput
      BY <2>2, <2>4
    <2>8. wire' \in [Calls -> Seq(Messages)]
      BY <1>9, <1>16, <2>7, MadeMessages DEF ReaderSends, Chunk
    <2> QED
      BY <1>0, <2>1, <2>4, <2>5, <2>6, <2>8 DEF Counted, ExecTypeOK
  <1>17. CASE LinkMove
    BY <1>0, <1>17 DEF LinkMove, Counted, ExecTypeOK
  <1>18. CASE UNCHANGED execVars
    BY <1>0, <1>18 DEF execVars, Counted, ExecTypeOK
  <1> QED
    BY <1>1, <1>3, <1>4, <1>5, <1>6, <1>7, <1>8, <1>11, <1>12, <1>13, <1>14, <1>15, <1>16, <1>17, <1>18
       DEF CallMove, ExecStep, HostStep, CopierStep, HandlerStep, ReaderStep

\* How far host, handler and program are apart after a step.
LEMMA InStepStep == ASSUME Counted, InStep, CallMove PROVE InStep'
  <1> USE DEF hostVars, guestVars, stdinVars
  <1>0. ExecTypeOK /\ Calls \subseteq Nat
    BY DEF Counted, Calls
  <1> DEFINE At(c) ==
        /\ link = "none" => host[c] = "idle"
        /\ host[c] # "idle" => \A d \in Calls : d < c => host[d] \in Ended
        /\ host[c] \in Ended => ~open[c] \/ link = "down"
        /\ host[c] = "idle" => handler[c] = "none"
        /\ handler[c] = "starting" => host[c] = "calling" \/ link = "down"
        /\ handler[c] \in {"none", "starting"} => prog[c] = "none" /\ wire[c] = <<>>
        /\ handler[c] \in {"waiting", "reporting", "closing"} => prog[c] # "none"
        /\ handler[c] \in {"reporting", "closing"} => prog[c] = "exited"
        /\ prog[c] = "none" => ~open[c] /\ \A s \in Streams : wrote[c][s] = 0
        /\ host[c] = "returned" => prog[c] = "exited"
        /\ \A i \in 1..Len(wire[c]) :
             /\ wire[c][i].kind = "error" => prog[c] = "none"
             /\ wire[c][i].kind = "status" => prog[c] = "exited"
        /\ quiet[c] => prog[c] = "exited" /\ sent[c] = wrote[c]
  <1>1. \A c \in Calls : At(c)
    BY DEF InStep
  <1> SUFFICES ASSUME NEW c \in Calls PROVE At(c)'
    BY DEF InStep
  <1>2. \A d \in Calls : host[d] \in Ended => host'[d] \in Ended
    <2>1. host' = host \/ \E d \in Calls : host[d] \notin Ended /\ \E k : host' = [host EXCEPT ![d] = k]
      <3>1. ASSUME NEW d \in Calls, HostCall(d) \/ HostStep(d)
            PROVE  host' = host \/ (host[d] \notin Ended /\ \E k : host' = [host EXCEPT ![d] = k])
        BY <3>1 DEF HostCall, HostStep, HostCalled, HostOutput, HostStatus, HostFails, Ended
      <3>2. CASE \A d \in Calls : ~HostCall(d) /\ ~HostStep(d)
        BY <3>2 DEF CallMove, ExecStep, LinkMove, execVars, CopierStep, CopierReads, CopierWrites,
           HandlerStep, Guest, GuestStart, GuestStartFails, HandlerWait, HandlerReport, HandlerClose,
           ProgramExits, ProgramWrites, ReaderStep, ReaderReads, ReaderSends
      <3> QED
        BY <3>1, <3>2
    <2> QED
      BY <1>0, <2>1 DEF ExecTypeOK
  <1>3. \A d \in Calls : wire[d] \in Seq(Messages) /\ Len(wire[d]) \in Nat
    BY <1>0, LenProperties DEF ExecTypeOK
  <1>4. ASSUME wire[c] # <<>>, wire'[c] = Tail(wire[c])
        PROVE  /\ \A i \in 1..Len(wire'[c]) : \E j \in 1..Len(wire[c]) : wire'[c][i] = wire[c][j]
               /\ Head(wire[c]) = wire[c][1] /\ 1 \in 1..Len(wire[c])
    <2>1. PICK v : v = wire'[c]
      OBVIOUS
    <2>2. /\ Len(wire[c]) \in Nat \ {0} /\ Len(v) = Len(wire[c]) - 1 /\ Head(wire[c]) = wire[c][1]
          /\ \A i \in 1..Len(v) : v[i] = wire[c][i + 1]
      BY <1>3, <1>4, <2>1, QueueTail
    <2>3. \A i \in 1..Len(v) : i + 1 \in 1..Len(wire[c])
      BY <2>2
    <2> QED
      BY <2>1, <2>2, <2>3
  <1>5. ASSUME NEW m \in Messages, wire'[c] = Append(wire[c], m) \/ wire'[c] = wire[c]
        PROVE  \A i \in 1..Len(wire'[c]) :
                 wire'[c][i] = m \/ \E j \in 1..Len(wire[c]) : wire'[c][i] = wire[c][j]
    <2>1. PICK v : v = wire'[c]
      OBVIOUS
    <2>2. CASE v = Append(wire[c], m)
      <3>1. /\ Len(v) = Len(wire[c]) + 1 /\ v[Len(wire[c]) + 1] = m
            /\ \A i \in 1..Len(wire[c]) : v[i] = wire[c][i]
        BY <1>3, <2>2, QueueAppend
      <3>2. \A i \in 1..Len(v) : i \in 1..Len(wire[c]) \/ i = Len(wire[c]) + 1
        BY <1>3, <3>1
      <3> QED
        BY <2>1, <3>1, <3>2
    <2> QED
      BY <1>5, <2>1, <2>2
  <1>6. ASSUME /\ host'[c] = host[c] /\ handler'[c] = handler[c] /\ prog'[c] = prog[c]
               /\ open'[c] = open[c] /\ wire'[c] = wire[c] /\ wrote'[c] = wrote[c]
               /\ sent'[c] = sent[c] /\ quiet'[c] = quiet[c],
               link' = link \/ LinkMove
        PROVE  At(c)'
    BY <1>0, <1>1, <1>2, <1>6 DEF LinkMove, Ended
  <1>7. CASE LinkMove \/ UNCHANGED execVars
    BY <1>6, <1>7 DEF LinkMove, execVars
  <1>8. ASSUME NEW d \in Calls, HostCall(d) PROVE At(c)'
    <2>1. CASE d = c
      <3>1. /\ link # "none" /\ link' = link /\ host[c] = "idle" /\ \A e \in Calls : e < c => host[e] \in Ended
            /\ host'[c] = IF link = "up" THEN "calling" ELSE "failed"
            /\ handler'[c] = IF link = "up" THEN "starting" ELSE "none"
            /\ UNCHANGED <<prog, open, wire, wrote, sent, quiet>>
        BY <1>0, <1>1, <1>8, <2>1 DEF HostCall, ExecTypeOK
      <3> QED
        BY <1>0, <1>1, <1>2, <3>1 DEF Ended
    <2>2. CASE d # c
      BY <1>0, <1>6, <1>8, <2>2 DEF HostCall, ExecTypeOK
    <2> QED
      BY <2>1, <2>2
  <1>9. ASSUME NEW d \in Calls, HostStep(d) PROVE At(c)'
    <2>1. CASE d # c
      BY <1>0, <1>6, <1>9, <2>1
         DEF HostStep, HostCalled, HostOutput, HostStatus, HostFails, ExecTypeOK
    <2>2. CASE d = c /\ HostFails(c)
      <3>1. /\ link = "down" /\ link' = link /\ host[c] \notin Ended /\ host[c] # "idle" /\ host'[c] = "failed"
            /\ ~open'[c] /\ UNCHANGED <<handler, prog, wire, wrote, sent, quiet>>
        BY <1>0, <2>2 DEF HostFails, ExecTypeOK, Ended
      <3> QED
        BY <1>1, <1>2, <3>1
    <2>3. CASE d = c /\ ~HostFails(c)
      <3>1. /\ link' = link /\ wire[c] # <<>> /\ wire'[c] = Tail(wire[c])
            /\ UNCHANGED <<handler, prog, wrote, sent, quiet>>
            /\ host[c] \in {"calling", "receiving"} /\ host'[c] # "idle"
        BY <1>0, <1>9, <2>3 DEF HostStep, HostCalled, HostOutput, HostStatus, ExecTypeOK
      <3>2. /\ host'[c] = "returned" => Head(wire[c]).kind = "status" /\ ~open'[c]
            /\ host'[c] = "failed" => Head(wire[c]).kind = "error" 
            /\ open'[c] => open[c]
        BY <1>0, <1>9, <2>3 DEF HostStep, HostCalled, HostOutput, HostStatus, ExecTypeOK
      <3>3. /\ host'[c] = "returned" => prog[c] = "exited"
            /\ host'[c] = "failed" => prog[c] = "none"
        BY <1>1, <1>4, <3>1, <3>2
      <3>4. link # "none" /\ handler[c] \notin {"none", "starting"}
        BY <1>1, <3>1
      <3>5. \A i \in 1..Len(wire'[c]) :
             /\ wire'[c][i].kind = "error" => prog[c] = "none"
             /\ wire'[c][i].kind = "status" => prog[c] = "exited"
        BY <1>1, <1>4, <3>1
      <3> QED
        BY <1>1, <1>2, <3>1, <3>2, <3>3, <3>4, <3>5 DEF Ended
    <2> QED
      BY <2>1, <2>2, <2>3
  <1>10. ASSUME NEW d \in Calls, CopierStep(d) PROVE At(c)'
    BY <1>6, <1>10 DEF CopierStep, CopierReads, CopierWrites
  <1>11. ASSUME NEW d \in Calls, HandlerStep(d) PROVE At(c)'
    <2>1. CASE d # c
      BY <1>0, <1>6, <1>11, <2>1 DEF HandlerStep, Guest, GuestStart,
         GuestStartFails, HandlerWait, HandlerReport, HandlerClose, Sends, ExecTypeOK
    <2>2. CASE d = c
      <3>1. /\ link = "up" /\ link' = link /\ host' = host
            /\ UNCHANGED <<quiet, wrote, sent>> /\ handler[c] \notin {"none", "done"}
            /\ handler'[c] \notin {"none", "starting"}
        BY <1>0, <1>11, <2>2 DEF HandlerStep, Guest, GuestStart, GuestStartFails, HandlerWait, HandlerReport,
           HandlerClose, ExecTypeOK
      <3>2. host[c] # "idle" /\ (host[c] \in Ended => ~open[c])
        BY <1>1, <3>1
      <3>3. CASE GuestStart(c)
        <4>1. [kind |-> "continue"] \in Messages
          BY DEF Messages
        <4>2. /\ handler[c] = "starting" /\ handler'[c] = "waiting" /\ prog'[c] = "running" /\ open'[c]
              /\ wire'[c] = Append(wire[c], [kind |-> "continue"])
          BY <1>0, <3>3 DEF GuestStart, Guest, ExecTypeOK
        <4>3. prog[c] = "none" /\ Len(wire[c]) = 0 /\ ~quiet[c]
          BY <1>1, <4>2
        <4>4. \A i \in 1..Len(wire'[c]) : wire'[c][i] = [kind |-> "continue"]
          BY <1>5, <4>1, <4>2, <4>3
        <4>5. host[c] \notin Ended
          BY <1>1, <3>1, <4>2 DEF Ended
        <4> QED
          BY <1>1, <1>2, <3>1, <3>2, <4>2, <4>3, <4>4, <4>5
      <3>4. CASE GuestStartFails(c)
        <4>1. [kind |-> "error"] \in Messages
          BY DEF Messages
        <4>2. /\ handler[c] = "starting" /\ handler'[c] = "done" /\ UNCHANGED <<prog, open>>
              /\ wire'[c] = Append(wire[c], [kind |-> "error"])
          BY <1>0, <3>4 DEF GuestStartFails, Guest, ExecTypeOK
        <4>3. prog[c] = "none" /\ Len(wire[c]) = 0
          BY <1>1, <4>2
        <4>4. \A i \in 1..Len(wire'[c]) : wire'[c][i] = [kind |-> "error"]
          BY <1>5, <4>1, <4>2, <4>3
        <4> QED
          BY <1>1, <1>2, <3>1, <3>2, <4>2, <4>3, <4>4
      <3>5. CASE HandlerWait(c) \/ HandlerClose(c)
        <4>1. /\ handler[c] = "waiting" => prog[c] = "exited"
              /\ handler[c] \in {"waiting", "closing"} /\ handler'[c] \in {"reporting", "done"}
              /\ UNCHANGED <<prog, wire>> /\ (open'[c] => open[c])
          BY <1>0, <3>5 DEF HandlerWait, HandlerClose, Guest, ExecTypeOK
        <4> QED
          BY <1>1, <1>2, <3>1, <3>2, <4>1
      <3>6. CASE HandlerReport(c)
        <4>1. [kind |-> "status"] \in Messages
          BY DEF Messages
        <4>2. /\ handler[c] = "reporting" /\ handler'[c] = "closing" /\ UNCHANGED <<prog, open>>
              /\ wire'[c] = Append(wire[c], [kind |-> "status"]) \/ wire'[c] = wire[c]
          BY <1>0, <3>6 DEF HandlerReport, Guest, Sends, ExecTypeOK
        <4>3. prog[c] = "exited"
          BY <1>1, <4>2
        <4>4. \A i \in 1..Len(wire'[c]) : wire'[c][i].kind = "error" => prog[c] = "none"
          BY <1>1, <1>5, <4>1, <4>2
        <4> QED
          BY <1>1, <1>2, <3>1, <3>2, <4>2, <4>3, <4>4
      <3> QED
        BY <1>11, <2>2, <3>3, <3>4, <3>5, <3>6 DEF HandlerStep
    <2> QED
      BY <2>1, <2>2
  <1>12. ASSUME NEW d \in Calls, ProgramExits(d) PROVE At(c)'
    <2>1. CASE d # c
      BY <1>0, <1>6, <1>12, <2>1 DEF ProgramExits, ExecTypeOK
    <2>2. CASE d = c
      <3>1. /\ prog[c] = "running" /\ prog'[c] = "exited" /\ quiet'[c] = (sent[c] = wrote[c])
            /\ UNCHANGED <<link, host, handler, wrote, sent, wire, open>>
        BY <1>0, <1>12, <2>2 DEF ProgramExits, ExecTypeOK
      <3> QED
        BY <1>1, <1>2, <3>1
    <2> QED
      BY <2>1, <2>2
  <1>13. ASSUME NEW d \in Calls, NEW s \in Streams, ProgramWrites(d, s) \/ ReaderReads(d, s) PROVE At(c)'
    <2>1. CASE ReaderReads(d, s) \/ d # c
      BY <1>0, <1>6, <1>13, <2>1 DEF ProgramWrites, ReaderReads, ExecTypeOK
    <2>2. CASE ProgramWrites(c, s)
      <3>1. /\ prog[c] = "running"
            /\ UNCHANGED <<link, host, handler, prog, quiet, sent, wire, open>>
        BY <2>2 DEF ProgramWrites
      <3> QED
        BY <1>1, <1>2, <3>1
    <2> QED
      BY <1>13, <2>1, <2>2
  <1>14. ASSUME NEW d \in Calls, NEW s \in Streams, ReaderSends(d, s) PROVE At(c)'
    <2>1. CASE d # c
      BY <1>0, <1>6, <1>14, <2>1 DEF ReaderSends, Sends, ExecTypeOK
    <2>2. CASE d = c
      <3>1. /\ reader[c][s] = "sending" /\ sent[c][s] < wrote[c][s] /\ sent[c][s] \in Nat
            /\ wrote[c][s] \in 0..MaxOutput
            /\ sent'[c][s] = sent[c][s] + 1
            /\ UNCHANGED <<link, host, handler, prog, quiet, wrote, open>>
        BY <1>0, <1>14, <2>2 DEF ReaderSends, ExecTypeOK, Counted
      <3>2. Chunk(s, sent'[c][s]) \in Messages /\ Chunk(s, sent'[c][s]).kind = s
        BY <3>1, ExecAssumption DEF Messages, Chunk
      <3>3. wire'[c] = Append(wire[c], Chunk(s, sent'[c][s])) \/ wire'[c] = wire[c]
        BY <1>0, <1>14, <2>2 DEF ReaderSends, Sends, Chunk, ExecTypeOK
      <3>4. \A i \in 1..Len(wire'[c]) :
             /\ wire'[c][i].kind = "error" => prog[c] = "none"
             /\ wire'[c][i].kind = "status" => prog[c] = "exited"
        BY <1>1, <1>5, <3>2, <3>3 DEF Streams
      <3>5. ~quiet[c] /\ prog[c] # "none"
        BY <1>0, <1>1, <3>1 DEF ExecTypeOK
      <3> QED
        BY <1>1, <1>2, <3>1, <3>4, <3>5
    <2> QED
      BY <2>1, <2>2
  <1> QED
    BY <1>7, <1>8, <1>9, <1>10, <1>11, <1>12, <1>13, <1>14 DEF CallMove, ExecStep, ReaderStep

----------------------------------------------------------------------------
(* Output. *)

\* What FlowOf says, once the length of q has a name.
LEMMA FlowParts ==
    ASSUME NEW s, NEW w, NEW q, NEW n, NEW m, NEW f, NEW g, g = Len(q)
    PROVE  FlowOf(s, w, q, n, m, f) <=>
             /\ q = [i \in 1..g |-> i]
             /\ g <= n
             /\ InOrder(w, s, g, n)
             /\ "open" \in f => Complete(w, s, g, n, Len(w))
             /\ "quiet" \in f => \A i \in 1..Len(w) : w[i].kind = "status" => Complete(w, s, g, m, i - 1)
             /\ "quiet" \in f /\ "returned" \in f => g = m
  BY ZenonT(40) DEF FlowOf

\* A channel that was closed, or a program that was not quiet, asks for less.
LEMMA FlowKept ==
    ASSUME NEW s \in Streams, NEW w \in Seq(Messages), NEW q, NEW n \in Nat, NEW m \in Nat, NEW k \in Nat,
           NEW f, NEW h, FlowOf(s, w, q, n, m, f), "open" \in h => "open" \in f,
           "quiet" \in h => "quiet" \in f /\ k = m /\ ("returned" \in h => "returned" \in f)
    PROVE  FlowOf(s, w, q, n, k, h)
  BY DEF FlowOf

\* A program exits, quiet or not: there is no status before that.
LEMMA FlowExits ==
    ASSUME NEW s, NEW w, NEW q, NEW n, NEW m, NEW f, NEW h, FlowOf(s, w, q, n, m, f),
           "open" \in h => "open" \in f, "returned" \notin h,
           \A i \in 1..Len(w) : w[i].kind # "status"
    PROVE  FlowOf(s, w, q, n, m, h)
  BY Zenon DEF FlowOf

\* What an open channel has.
LEMMA FlowOpen ==
    ASSUME NEW s, NEW w, NEW q, NEW n, NEW m, NEW f, NEW g, g = Len(q), FlowOf(s, w, q, n, m, f)
    PROVE  "open" \in f => Complete(w, s, g, n, Len(w))
  BY Zenon DEF FlowOf

\* The host writes the chunk at the head.
LEMMA FlowTakes ==
    ASSUME NEW s \in Streams, NEW w \in Seq(Messages), w # <<>>, Head(w).kind = s,
           NEW q \in Seq(1..MaxOutput), NEW n \in Nat, NEW m \in Nat, n <= m, m <= MaxOutput,
           NEW f, "returned" \notin f, FlowOf(s, w, q, n, m, f)
    PROVE  FlowOf(s, Tail(w), Append(q, Head(w).chunk), n, m, f)
  <1>1. PICK g \in Nat : g = Len(q)
    BY LenProperties
  <1>2. PICK v : v = Tail(w)
    OBVIOUS
  <1>3. q = [i \in 1..g |-> i] /\ g <= n /\ InOrder(w, s, g, n)
    BY <1>1, FlowParts
  <1>3a. "open" \in f => Complete(w, s, g, n, Len(w))
    BY <1>1, FlowOpen
  <1>3b. "quiet" \in f => \A i \in 1..Len(w) : w[i].kind = "status" => Complete(w, s, g, m, i - 1)
    BY <1>1, FlowParts
  <1>4. /\ Head(w).chunk = g + 1 /\ g + 1 <= n
        /\ InOrder(v, s, g + 1, n)
        /\ \A k \in Nat, i \in 1..Len(w) : Complete(w, s, g, k, i) => Complete(v, s, g + 1, k, i - 1)
    BY <1>2, <1>3, TailChunk
  <1>5. PICK l \in Nat : l = Len(v)
    BY <1>2, QueueTail, LenProperties
  <1>6. Len(w) = l + 1 /\ \A i \in 1..l : v[i] = w[i + 1]
    BY <1>2, <1>5, QueueTail
  <1>7. PICK p : p = Append(q, g + 1)
    OBVIOUS
  <1>8. p = [i \in 1..g + 1 |-> i] /\ Len(p) = g + 1
    BY <1>3, <1>4, <1>7, CountOn, ExecAssumption
  <1>9. "open" \in f => Complete(v, s, g + 1, n, l)
    <2>1. l + 1 \in 1..l + 1 /\ l + 1 - 1 = l
      OBVIOUS
    <2> QED
      BY <1>4, <1>6, <1>3a, <2>1
  <1>10. ASSUME "quiet" \in f, NEW i \in 1..l, v[i].kind = "status" PROVE Complete(v, s, g + 1, m, i - 1)
    <2>1. i + 1 \in 1..l + 1 /\ w[i + 1].kind = "status" /\ i + 1 - 1 = i /\ i \in 1..l + 1
      BY <1>6, <1>10
    <2>2. Complete(w, s, g, m, i)
      BY <1>6, <1>10, <1>3b, <2>1
    <2> QED
      BY <1>4, <1>6, <2>1, <2>2
  <1> QED
    <2>1. p = Append(q, Head(w).chunk) /\ v = Tail(w) /\ Len(p) = g + 1
      BY <1>2, <1>4, <1>7, <1>8
    <2>2. FlowOf(s, v, p, n, m, f)
      BY <1>4, <1>5, <1>8, <1>9, <1>10, FlowParts
    <2> QED
      BY <2>1, <2>2

\* The host takes a message that is no chunk of the stream: when it is the
\* status and the program was quiet, the host has got everything.
LEMMA FlowPasses ==
    ASSUME NEW s \in Streams, NEW w \in Seq(Messages), w # <<>>, Head(w).kind # s,
           NEW q \in Seq(1..MaxOutput), NEW n \in Nat, NEW m \in Nat, n <= m,
           NEW f, NEW h, FlowOf(s, w, q, n, m, f),
           "open" \in h => "open" \in f, "quiet" \in h => "quiet" \in f,
           "returned" \in h => Head(w).kind = "status"
    PROVE  FlowOf(s, Tail(w), q, n, m, h)
  <1>1. PICK g \in Nat : g = Len(q)
    BY LenProperties
  <1>2. PICK v : v = Tail(w)
    OBVIOUS
  <1>3. q = [i \in 1..g |-> i] /\ g <= n /\ InOrder(w, s, g, n)
    BY <1>1, FlowParts
  <1>3a. /\ "open" \in f => Complete(w, s, g, n, Len(w))
         /\ "quiet" \in f => \A i \in 1..Len(w) : w[i].kind = "status" => Complete(w, s, g, m, i - 1)
    BY <1>1, FlowParts
  <1>4. /\ InOrder(v, s, g, n)
        /\ \A k \in Nat, i \in 1..Len(w) : Complete(w, s, g, k, i) => Complete(v, s, g, k, i - 1)
    BY <1>2, <1>3, TailOther
  <1>5. PICK l \in Nat : l = Len(v)
    BY <1>2, QueueTail, LenProperties
  <1>6. Len(w) = l + 1 /\ (\A i \in 1..l : v[i] = w[i + 1]) /\ Head(w) = w[1]
    BY <1>2, <1>5, QueueTail
  <1>7. "open" \in h => Complete(v, s, g, n, l)
    <2>1. l + 1 \in 1..l + 1 /\ l + 1 - 1 = l
      OBVIOUS
    <2> QED
      BY <1>4, <1>6, <1>3a, <2>1
  <1>8. ASSUME "quiet" \in h, NEW i \in 1..l, v[i].kind = "status" PROVE Complete(v, s, g, m, i - 1)
    <2>1. i + 1 \in 1..l + 1 /\ w[i + 1].kind = "status" /\ i + 1 - 1 = i /\ i \in 1..l + 1
      BY <1>6, <1>8
    <2>2. Complete(w, s, g, m, i)
      BY <1>6, <1>8, <1>3a, <2>1
    <2> QED
      BY <1>4, <1>6, <2>1, <2>2
  <1>9. "quiet" \in h /\ "returned" \in h => g = m
    <2>1. "quiet" \in h /\ "returned" \in h => Complete(w, s, g, m, 0)
      BY <1>6, <1>3a
    <2>2. "quiet" \in h /\ "returned" \in h => m \notin g + 1..m
      BY <2>1 DEF Complete
    <2> QED
      BY <1>3, <2>2
  <1> QED
    BY <1>1, <1>2, <1>3, <1>4, <1>5, <1>7, <1>8, <1>9 DEF FlowOf

\* The reader sends the next chunk: it is lost if the channel is closed.
LEMMA FlowSends ==
    ASSUME NEW s \in Streams, NEW w \in Seq(Messages), NEW q \in Seq(1..MaxOutput),
           NEW n \in Nat, NEW m \in Nat, Chunk(s, n + 1) \in Messages,
           NEW f, "quiet" \notin f, FlowOf(s, w, q, n, m, f),
           NEW v, v = IF "open" \in f THEN Append(w, Chunk(s, n + 1)) ELSE w
    PROVE  FlowOf(s, v, q, n + 1, m, f)
  <1>1. PICK g \in Nat : g = Len(q)
    BY LenProperties
  <1>2. InOrder(w, s, g, n) /\ q = [i \in 1..g |-> i] /\ g <= n
    BY <1>1 DEF FlowOf
  <1>3. CASE "open" \in f
    <2>1. Complete(w, s, g, n, Len(w))
      BY <1>1, <1>3 DEF FlowOf
    <2>2. InOrder(v, s, g, n + 1) /\ Complete(v, s, g, n + 1, Len(v))
      BY <1>2, <1>3, <2>1, AppendChunk
    <2> QED
      BY <1>1, <1>2, <2>2 DEF FlowOf
  <1>4. CASE "open" \notin f
    <2>1. InOrder(w, s, g, n + 1)
      <3>1. g + 1..n \subseteq g + 1..n + 1
        OBVIOUS
      <3> QED
        BY <1>2, <3>1 DEF InOrder
    <2> QED
      BY <1>1, <1>2, <1>4, <2>1 DEF FlowOf
  <1> QED
    BY <1>3, <1>4

\* Another message is sent.  When it is the status of a quiet program, all of
\* the stream is before it.
LEMMA FlowSendsOther ==
    ASSUME NEW s \in Streams, NEW w \in Seq(Messages), NEW q \in Seq(1..MaxOutput),
           NEW n \in Nat, NEW m \in Nat, NEW e \in Messages, e.kind # s,
           NEW f, FlowOf(s, w, q, n, m, f),
           "quiet" \in f /\ e.kind = "status" => "open" \in f /\ n = m,
           NEW v, v = Append(w, e)
    PROVE  FlowOf(s, v, q, n, m, f)
  <1>1. PICK g \in Nat : g = Len(q)
    BY LenProperties
  <1>2. PICK l \in Nat : l = Len(w)
    BY LenProperties
  <1>3. InOrder(w, s, g, n) /\ q = [i \in 1..g |-> i] /\ g <= n
    BY <1>1 DEF FlowOf
  <1>4. Len(v) = l + 1 /\ (\A i \in 1..l : v[i] = w[i]) /\ v[l + 1] = e
    BY <1>2, QueueAppend
  <1>5. /\ InOrder(v, s, g, n)
        /\ \A k, i \in Nat : i <= l /\ Complete(w, s, g, k, i) => Complete(v, s, g, k, i)
        /\ \A k \in Nat : Complete(w, s, g, k, l) => Complete(v, s, g, k, l + 1)
    BY <1>2, <1>3, <1>4, AppendOther
  <1>6. "open" \in f => Complete(w, s, g, n, l)
    BY <1>1, <1>2 DEF FlowOf
  <1>7. ASSUME "quiet" \in f, NEW i \in 1..l + 1, v[i].kind = "status" PROVE Complete(v, s, g, m, i - 1)
    <2>1. CASE i \in 1..l
      <3>1. w[i].kind = "status" /\ i - 1 \in Nat /\ i - 1 <= l
        BY <1>4, <1>7, <2>1
      <3>2. Complete(w, s, g, m, i - 1)
        BY <1>1, <1>2, <1>7, <2>1, <3>1 DEF FlowOf
      <3> QED
        BY <1>5, <3>1, <3>2
    <2>2. CASE i = l + 1
      <3>1. "open" \in f /\ n = m
        BY <1>4, <1>7, <2>2
      <3>2. Complete(v, s, g, m, l)
        BY <1>5, <1>6, <3>1
      <3>3. i - 1 = l
        BY <2>2
      <3> QED
        BY <3>2, <3>3
    <2>3. i \in 1..l \/ i = l + 1
      BY <1>7
    <2> QED
      BY <2>1, <2>2, <2>3
  <1>8. "quiet" \in f /\ "returned" \in f => g = m
    BY <1>1 DEF FlowOf
  <1> QED
    BY <1>1, <1>3, <1>4, <1>5, <1>6, <1>7, <1>8 DEF FlowOf

\* Every step keeps the streams of output.
LEMMA FlowStep == ASSUME Counted, InStep, Flow, CallMove PROVE Flow'
  <1> SUFFICES ASSUME NEW c \in Calls, NEW s \in Streams PROVE FlowAt(c, s)'
    BY DEF Flow
  <1> USE DEF hostVars, guestVars, stdinVars
  <1>0. ExecTypeOK
    BY DEF Counted
  <1>1. PICK w \in Seq(Messages), q \in Seq(1..MaxOutput), n \in Nat, m \in Nat :
          w = wire[c] /\ q = got[c][s] /\ n = sent[c][s] /\ m = wrote[c][s] /\ n <= m /\ m <= MaxOutput
    BY <1>0, ExecAssumption DEF ExecTypeOK
  <1>2. PICK f : /\ f = Flags(c)
                 /\ "open" \in f <=> open[c]
                 /\ "quiet" \in f <=> quiet[c]
                 /\ "returned" \in f <=> host[c] = "returned"
    <2>1. /\ "open" \in Flags(c) <=> open[c]
          /\ "quiet" \in Flags(c) <=> quiet[c]
          /\ "returned" \in Flags(c) <=> host[c] = "returned"
      BY DEF Flags
    <2> QED
      BY <2>1
  <1>3. FlowOf(s, w, q, n, m, f)
    BY <1>1, <1>2 DEF Flow, FlowAt
  \* The stream after the step, piece by piece.
  <1>4. ASSUME NEW v, v = wire'[c], NEW x, x = got'[c][s], NEW k, k = sent'[c][s],
               NEW j, j = wrote'[c][s], NEW h, h = Flags(c)',
               FlowOf(s, v, x, k, j, h)
        PROVE  FlowAt(c, s)'
    BY <1>4 DEF FlowAt
  <1>5. Counted'
    BY CountedStep
  <1>6. PICK j, h : /\ j \in Nat /\ j = wrote'[c][s] /\ h = Flags(c)'
                    /\ "open" \in h <=> open'[c]
                    /\ "quiet" \in h <=> quiet'[c]
                    /\ "returned" \in h <=> host'[c] = "returned"
    <2>1. wrote' \in [Calls -> [Streams -> Nat]]
      BY <1>5, ExecAssumption DEF Counted, ExecTypeOK
    <2>2. /\ "open" \in Flags(c)' <=> open'[c]
          /\ "quiet" \in Flags(c)' <=> quiet'[c]
          /\ "returned" \in Flags(c)' <=> host'[c] = "returned"
      BY DEF Flags
    <2> QED
      BY <2>1, <2>2
  <1>7. ASSUME wire'[c] = wire[c], got'[c][s] = got[c][s], sent'[c][s] = sent[c][s],
               open'[c] => open[c],
               quiet'[c] => quiet[c] /\ wrote'[c][s] = wrote[c][s]
                            /\ (host'[c] = "returned" => host[c] = "returned")
        PROVE  FlowAt(c, s)'
    <2>1. /\ "open" \in h => "open" \in f
          /\ "quiet" \in h => "quiet" \in f /\ j = m /\ ("returned" \in h => "returned" \in f)
      BY <1>1, <1>2, <1>6, <1>7
    <2>2. FlowOf(s, w, q, n, j, h)
      BY <1>3, <1>6, <2>1, FlowKept
    <2> QED
      BY <1>1, <1>4, <1>6, <1>7, <2>2
  <1>8. ASSUME UNCHANGED <<wire, got, sent, wrote, open, quiet>>,
               host'[c] = "returned" => host[c] = "returned"
        PROVE  FlowAt(c, s)'
    BY <1>7, <1>8
  <1>9. CASE LinkMove \/ UNCHANGED execVars
    BY <1>8, <1>9 DEF LinkMove, execVars
  <1>10. ASSUME NEW d \in Calls, HostCall(d) \/ CopierStep(d) \/ HandlerWait(d) PROVE FlowAt(c, s)'
    BY <1>0, <1>8, <1>10 DEF HostCall, CopierStep, CopierReads, CopierWrites, HandlerWait, Guest, ExecTypeOK
  <1>11. ASSUME NEW d \in Calls, d # c, HostStep(d) \/ HandlerStep(d) \/ ProgramExits(d) PROVE FlowAt(c, s)'
    <2>1. /\ wire'[c] = wire[c] /\ got'[c] = got[c] /\ sent' = sent /\ wrote' = wrote
          /\ open'[c] = open[c] /\ quiet'[c] = quiet[c] /\ host'[c] = host[c]
      BY <1>0, <1>11 DEF HostStep, HostCalled, HostOutput, HostStatus, HostFails, HandlerStep, Guest,
         GuestStart, GuestStartFails, HandlerWait, HandlerReport, HandlerClose, ProgramExits,
         Sends, ExecTypeOK
    <2> QED
      BY <1>7, <2>1
  <1>12. ASSUME NEW d \in Calls, NEW t \in Streams, ProgramWrites(d, t) \/ ReaderReads(d, t)
         PROVE  FlowAt(c, s)'
    <2>1. UNCHANGED <<wire, got, sent, open, quiet, host>>
      BY <1>12 DEF ProgramWrites, ReaderReads
    <2>2. wrote'[c][s] = wrote[c][s] \/ ~quiet[c]
      <3>1. CASE ReaderReads(d, t) \/ d # c
        <4>1. ProgramWrites(d, t) => wrote' = [wrote EXCEPT ![d][t] = @ + 1]
          BY DEF ProgramWrites
        <4>2. CASE ReaderReads(d, t)
          BY <4>2 DEF ReaderReads
        <4> QED
          BY <1>0, <1>12, <3>1, <4>1, <4>2 DEF ExecTypeOK
      <3>2. CASE ProgramWrites(d, t) /\ d = c
        BY <3>2 DEF ProgramWrites, InStep
      <3> QED
        BY <1>12, <3>1, <3>2
    <2> QED
      BY <1>7, <2>1, <2>2
  <1>13. ASSUME w # <<>>, wire'[c] = Tail(w), host[c] # "returned",
                got'[c][s] = q, sent' = sent, wrote' = wrote, quiet' = quiet,
                Head(w).kind # s, "returned" \in h => Head(w).kind = "status", "open" \in h => "open" \in f
         PROVE  FlowAt(c, s)'
    <2>1. "quiet" \in h => "quiet" \in f
      BY <1>2, <1>6, <1>13
    <2>2. PICK v : v = Tail(w)
      OBVIOUS
    <2>3. FlowOf(s, v, q, n, m, h)
      BY <1>1, <1>3, <1>13, <2>1, <2>2, FlowPasses
    <2> QED
      BY <1>1, <1>2, <1>4, <1>6, <1>13, <2>2, <2>3
  <1>14. CASE HostCalled(c) \/ HostStatus(c)
    <2>1. /\ w # <<>> /\ wire'[c] = Tail(w) /\ host[c] # "returned"
          /\ Head(w).kind \in {"continue", "error", "status"}
          /\ host'[c] = "returned" => Head(w).kind = "status"
          /\ open'[c] => open[c]
          /\ UNCHANGED <<got, sent, wrote, quiet>>
      BY <1>0, <1>1, <1>14 DEF HostCalled, HostStatus, ExecTypeOK
    <2>2. Head(w).kind # s
      BY <2>1 DEF Streams
    <2> QED
      BY <1>1, <1>2, <1>6, <1>13, <2>1, <2>2
  <1>15. CASE HostOutput(c)
    <2>1. /\ w # <<>> /\ wire'[c] = Tail(w) /\ host[c] # "returned" /\ "returned" \notin h
          /\ Head(w).kind \in Streams
          /\ got' = [got EXCEPT ![c][Head(w).kind] = Append(@, Head(w).chunk)]
          /\ UNCHANGED <<host, sent, wrote, open, quiet>>
      BY <1>0, <1>1, <1>6, <1>15 DEF HostOutput, ExecTypeOK
    <2>2. CASE Head(w).kind = s
      <3>1. PICK v, x : v = Tail(w) /\ x = Append(q, Head(w).chunk)
        OBVIOUS
      <3>2. got'[c][s] = x
        BY <1>0, <1>1, <2>1, <2>2, <3>1 DEF ExecTypeOK
      <3>3. "returned" \notin f
        BY <1>2, <2>1
      <3>4. FlowOf(s, v, x, n, m, f)
        BY <1>1, <1>3, <2>1, <2>2, <3>1, <3>3, FlowTakes
      <3>5. FlowOf(s, v, x, n, m, h)
        BY <1>2, <1>6, <2>1, <3>4 DEF FlowOf
      <3> QED
        BY <1>1, <1>2, <1>4, <1>6, <2>1, <3>1, <3>2, <3>5
    <2>3. CASE Head(w).kind # s
      <3>1. got'[c][s] = q
        BY <1>0, <1>1, <2>1, <2>3 DEF ExecTypeOK
      <3> QED
        BY <1>2, <1>6, <1>13, <2>1, <2>3, <3>1
    <2> QED
      BY <2>2, <2>3
  <1>16. CASE HostFails(c) \/ HandlerClose(c)
    <2>1. /\ UNCHANGED <<wire, got, sent, wrote, quiet>> /\ ~open'[c]
          /\ host'[c] = "returned" => host[c] = "returned"
      BY <1>0, <1>16 DEF HostFails, HandlerClose, Guest, ExecTypeOK
    <2> QED
      BY <1>7, <2>1
  <1>17. ASSUME NEW e \in Messages, e.kind # s, wire'[c] = Append(w, e),
                "quiet" \in f /\ e.kind = "status" => "open" \in f /\ n = m,
                UNCHANGED <<host, got, wrote, quiet>>, sent'[c][s] = n, open'[c] = open[c]
         PROVE  FlowAt(c, s)'
    <2>1. PICK v : v = Append(w, e)
      OBVIOUS
    <2>2. FlowOf(s, v, q, n, m, f)
      BY <1>3, <1>17, <2>1, FlowSendsOther
    <2>3. h = f
      BY <1>2, <1>6, <1>17 DEF Flags
    <2> QED
      BY <1>1, <1>4, <1>6, <1>17, <2>1, <2>2, <2>3
  <1>18. CASE GuestStart(c) \/ GuestStartFails(c)
    <2>1. PICK e \in Messages : e.kind \in {"continue", "error"} /\ wire'[c] = Append(w, e)
      <3>1. /\ [kind |-> "continue"] \in Messages /\ [kind |-> "continue"].kind = "continue"
            /\ [kind |-> "error"] \in Messages /\ [kind |-> "error"].kind = "error"
        BY DEF Messages
      <3>2. \/ wire'[c] = Append(w, [kind |-> "continue"])
            \/ wire'[c] = Append(w, [kind |-> "error"])
        BY <1>0, <1>1, <1>18 DEF GuestStart, GuestStartFails, ExecTypeOK
      <3> QED
        BY <3>1, <3>2
    <2>2. /\ handler[c] = "starting" /\ UNCHANGED <<host, got, sent, wrote, quiet>>
      BY <1>0, <1>18 DEF GuestStart, GuestStartFails, Guest, ExecTypeOK
    <2>3. prog[c] = "none" /\ m = 0 /\ n = 0 /\ "quiet" \notin f /\ "quiet" \notin h
      BY <1>1, <1>2, <1>6, <2>2 DEF InStep
    <2>4. e.kind # s /\ e.kind # "status"
      BY <2>1 DEF Streams
    <2>5. PICK v : v = Append(w, e)
      OBVIOUS
    <2>6. FlowOf(s, v, q, n, m, f)
      BY <1>3, <2>4, <2>5, FlowSendsOther
    <2>7. FlowOf(s, v, q, n, m, h)
      <3>1. Len(q) = 0
        BY <2>3, <2>6, LenProperties DEF FlowOf
      <3>2. Complete(v, s, 0, 0, Len(v))
        BY DEF Complete
      <3> QED
        BY <2>3, <2>6, <3>1, <3>2 DEF FlowOf
    <2> QED
      BY <1>1, <1>2, <1>4, <1>6, <2>1, <2>2, <2>5, <2>7
  <1>19. CASE HandlerReport(c)
    <2>1. /\ handler[c] = "reporting" /\ UNCHANGED <<host, got, sent, wrote, quiet, open>>
          /\ wire'[c] = IF open[c] THEN Append(w, [kind |-> "status"]) ELSE w
      BY <1>0, <1>1, <1>19 DEF HandlerReport, Guest, Sends, ExecTypeOK
    <2>2. "quiet" \in f => n = m
      BY <1>1, <1>2 DEF InStep
    <2>3. CASE "open" \in f
      <3>1. [kind |-> "status"] \in Messages /\ [kind |-> "status"].kind = "status"
        BY DEF Messages
      <3>2. PICK e \in Messages : e = [kind |-> "status"] /\ e.kind = "status"
        BY <3>1
      <3>3. e.kind # s
        BY <3>2 DEF Streams
      <3> QED
        BY <1>1, <1>2, <1>6, <1>17, <2>1, <2>2, <2>3, <3>2, <3>3
    <2>4. CASE "open" \notin f
      BY <1>1, <1>2, <1>7, <2>1, <2>4
    <2> QED
      BY <2>3, <2>4
  <1>20. CASE ProgramExits(c)
    <2>1. /\ prog[c] = "running" /\ UNCHANGED <<host, got, sent, wrote, open, wire>>
          /\ quiet'[c] = (sent[c] = wrote[c])
      BY <1>0, <1>20 DEF ProgramExits, ExecTypeOK
    <2>2. /\ "returned" \notin f /\ "returned" \notin h /\ ("open" \in h <=> "open" \in f)
          /\ \A i \in 1..Len(w) : w[i].kind # "status"
      BY <1>1, <1>2, <1>6, <2>1 DEF InStep
    <2>3. FlowOf(s, w, q, n, m, h)
      BY <1>3, <2>2, FlowExits
    <2> QED
      BY <1>1, <1>2, <1>4, <1>6, <2>1, <2>3
  <1>21. ASSUME NEW d \in Calls, NEW t \in Streams, ReaderSends(d, t) PROVE FlowAt(c, s)'
    <2>1. PICK k \in Nat : k = sent[d][t] /\ k < wrote[d][t]
      <3>1. sent[d][t] \in Nat
        BY <1>0 DEF ExecTypeOK
      <3>2. sent[d][t] < wrote[d][t]
        BY <1>21 DEF ReaderSends, Counted
      <3> QED
        BY <3>1, <3>2
    <2>2. /\ sent' = [sent EXCEPT ![d][t] = k + 1] /\ sent'[d][t] = k + 1
          /\ UNCHANGED <<host, got, wrote, open, quiet>>
          /\ Sends(d, Chunk(t, k + 1))
      BY <1>0, <1>21, <2>1 DEF ReaderSends, Chunk, ExecTypeOK
    <2>3. PICK e \in Messages : e = Chunk(t, k + 1) /\ e.kind = t
      <3>1. k + 1 \in 1..MaxOutput
        <4>1. wrote[d][t] \in Nat /\ wrote[d][t] <= MaxOutput
          BY <1>0, ExecAssumption DEF ExecTypeOK
        <4> QED
          BY <2>1, <4>1, ExecAssumption
      <3> QED
        BY <3>1, MadeMessages
    <2>4. wire'[d] = IF open[d] THEN Append(wire[d], e) ELSE wire[d]
      BY <1>0, <2>2, <2>3 DEF Sends, ExecTypeOK
    <2>5. CASE d # c
      <3>1. wire'[c] = wire[c] /\ sent'[c] = sent[c]
        BY <1>0, <2>2, <2>5 DEF Sends, ExecTypeOK
      <3> QED
        BY <1>7, <2>2, <3>1
    <2>6. CASE d = c /\ t = s
      <3>1. "quiet" \notin f
        BY <1>2, <2>1, <2>6 DEF InStep
      <3>2. h = f
        BY <1>2, <1>6, <2>2 DEF Flags
      <3>3. PICK v : v = IF "open" \in f THEN Append(w, Chunk(s, n + 1)) ELSE w
        OBVIOUS
      <3>4. k = n /\ Chunk(s, n + 1) \in Messages
        BY <1>1, <2>1, <2>3, <2>6
      <3>5. PICK i : i = n + 1
        OBVIOUS
      <3>6. FlowOf(s, v, q, i, m, h)
        BY <1>3, <3>1, <3>2, <3>3, <3>4, <3>5, FlowSends
      <3> QED
        BY <1>1, <1>2, <1>4, <1>6, <2>1, <2>2, <2>3, <2>4, <2>6, <3>2, <3>3, <3>4, <3>5, <3>6
    <2>7. CASE d = c /\ t # s
      <3>1. sent'[c][s] = n
        BY <1>0, <1>1, <2>2, <2>7 DEF ExecTypeOK
      <3>2. e.kind # s /\ e.kind # "status"
        BY <2>3, <2>7 DEF Streams
      <3>3. CASE "open" \in f
        BY <1>1, <1>2, <1>6, <1>17, <2>2, <2>4, <2>7, <3>1, <3>2, <3>3
      <3>4. CASE "open" \notin f
        BY <1>1, <1>2, <1>7, <2>2, <2>4, <2>7, <3>1, <3>4
      <3> QED
        BY <3>3, <3>4
    <2> QED
      BY <2>5, <2>6, <2>7
  <1> QED
    BY <1>9, <1>10, <1>11, <1>12, <1>14, <1>15, <1>16, <1>18, <1>19, <1>20, <1>21
       DEF CallMove, ExecStep, HostStep, HandlerStep, ReaderStep

\* Every step keeps the chunks of input in place: who writes one to a channel
\* that is open is the latest call, and holds the latest chunk of those.
LEMMA InputStep == ASSUME Counted, InStep, InputPlaced, CallMove PROVE InputPlaced'
  <1> USE DEF hostVars, guestVars, stdinVars
  <1>0. ExecTypeOK /\ Calls \subseteq Nat /\ taken \in Nat
    BY ExecAssumption DEF Counted, ExecTypeOK, Calls
  <1>1. \A c \in Calls : input[c] \in Seq(1..MaxInput) /\ Len(input[c]) \in Nat /\ holds[c] \in Nat
    BY <1>0, ExecAssumption, LenProperties DEF ExecTypeOK
  <1>2. \A c \in Calls : \A i \in 1..Len(input[c]) : input[c][i] \in Nat
    <2>1. ASSUME NEW c \in Calls, NEW i \in 1..Len(input[c]) PROVE input[c][i] \in Nat
      <3>1. PICK x \in Seq(1..MaxInput) : x = input[c]
        BY <1>1
      <3>2. x[i] \in 1..MaxInput
        BY <3>1, ElementOfSeq
      <3> QED
        BY <3>1, <3>2
    <2> QED
      BY <2>1
  <1>3. /\ \A c \in Calls : host[c] \in {"idle", "calling"} => copier[c] = "none" /\ input[c] = <<>>
        /\ \A c \in Calls : holds[c] <= taken
        /\ \A c \in Calls : \A i \in 1..Len(input[c]) : input[c][i] <= taken
    BY DEF InputPlaced
  <1>4. \A c, d \in Calls :
          copier[d] = "writing" /\ c <= d => \A i \in 1..Len(input[c]) : input[c][i] < holds[d]
    BY DEF InputPlaced
  <1>5. \A c, d \in Calls : \A i \in 1..Len(input[c]), j \in 1..Len(input[d]) :
          c < d \/ (c = d /\ i < j) => input[c][i] < input[d][j]
    BY <1>1, LenProperties DEF InputPlaced, InputInOrder
  <1>6. ASSUME UNCHANGED <<taken, holds, input>>,
               \A c \in Calls : copier'[c] = copier[c] \/ (copier'[c] = "reading" /\ host'[c] = "receiving"),
               \A c \in Calls : host'[c] \in {"idle", "calling"} => host[c] \in {"idle", "calling"}
        PROVE  InputPlaced'
    BY <1>3, <1>4, <1>6 DEF InputPlaced, InputInOrder
  <1>7. ASSUME NEW c \in Calls, HostCall(c) \/ HostOutput(c) \/ HostStatus(c) \/ HostFails(c)
        PROVE  InputPlaced'
    <2>1. /\ UNCHANGED <<taken, holds, input, copier>>
          /\ \A d \in Calls : host'[d] \in {"idle", "calling"} => host[d] \in {"idle", "calling"}
      BY <1>0, <1>7 DEF HostCall, HostOutput, HostStatus, HostFails, ExecTypeOK
    <2> QED
      BY <1>6, <2>1
  <1>8. ASSUME NEW c \in Calls, HostCalled(c) PROVE InputPlaced'
    <2>1. /\ UNCHANGED <<taken, holds, input>>
          /\ \A d \in Calls : copier'[d] = copier[d] \/ (copier'[d] = "reading" /\ host'[d] = "receiving")
          /\ \A d \in Calls : host'[d] \in {"idle", "calling"} => host[d] \in {"idle", "calling"}
      BY <1>0, <1>8 DEF HostCalled, ExecTypeOK
    <2> QED
      BY <1>6, <2>1
  <1>9. CASE UNCHANGED <<host, stdinVars>>
    BY <1>6, <1>9
  <1>10. ASSUME NEW c \in Calls, HandlerStep(c) \/ ProgramExits(c) PROVE InputPlaced'
    BY <1>9, <1>10 DEF HandlerStep, Guest, GuestStart, GuestStartFails, HandlerWait, HandlerReport,
       HandlerClose, ProgramExits
  <1>11. ASSUME NEW c \in Calls, NEW s \in Streams, ProgramWrites(c, s) \/ ReaderStep(c, s)
         PROVE  InputPlaced'
    BY <1>9, <1>11 DEF ProgramWrites, ReaderStep, ReaderReads, ReaderSends
  <1>12. CASE LinkMove \/ UNCHANGED execVars
    BY <1>9, <1>12 DEF LinkMove, execVars
  <1>13. ASSUME NEW e \in Calls, CopierReads(e) PROVE InputPlaced'
    <2>1. /\ copier[e] = "reading" /\ taken' = taken + 1 /\ UNCHANGED <<host, input>>
          /\ \A d \in Calls : d # e => holds'[d] = holds[d] /\ copier'[d] = copier[d]
          /\ holds'[e] = taken + 1
      BY <1>0, <1>13 DEF CopierReads, ExecTypeOK
    <2>2. \A c \in Calls : /\ host[c] \in {"idle", "calling"} => copier'[c] = "none" /\ input[c] = <<>>
                           /\ holds'[c] <= taken'
                           /\ \A i \in 1..Len(input[c]) : input[c][i] <= taken'
      <3>1. ASSUME NEW c \in Calls, NEW i \in 1..Len(input[c]) PROVE input[c][i] <= taken'
        <4>1. input[c][i] \in Nat /\ input[c][i] <= taken
          BY <1>2, <1>3
        <4> QED
          BY <1>0, <2>1, <4>1
      <3>2. ASSUME NEW c \in Calls PROVE holds'[c] <= taken'
        <4>1. holds[c] \in Nat /\ holds[c] <= taken
          BY <1>1, <1>3
        <4> QED
          BY <1>0, <2>1, <4>1
      <3> QED
        BY <1>3, <2>1, <3>1, <3>2
    <2>3. ASSUME NEW c \in Calls, NEW d \in Calls, copier'[d] = "writing", c <= d,
                 NEW i \in 1..Len(input[c])
          PROVE  input[c][i] < holds'[d]
      <3>1. CASE d = e
        <4>1. input[c][i] \in Nat /\ input[c][i] <= taken
          BY <1>2, <1>3
        <4> QED
          BY <1>0, <2>1, <3>1, <4>1
      <3>2. CASE d # e
        BY <1>4, <2>1, <2>3, <3>2
      <3> QED
        BY <3>1, <3>2
    <2>4. InputInOrder'
      BY <2>1 DEF InputPlaced, InputInOrder
    <2> QED
      BY <2>1, <2>2, <2>3, <2>4 DEF InputPlaced
  <1>14. ASSUME NEW e \in Calls, CopierWrites(e) PROVE InputPlaced'
    <2>1. PICK x \in Seq(1..MaxInput), h \in Nat : x = input[e] /\ h = holds[e] /\ h \in 1..MaxInput
      BY <1>0, <1>1, <1>14 DEF CopierWrites, Counted, ExecTypeOK
    <2>2. /\ copier[e] = "writing" /\ UNCHANGED <<host, taken>> /\ holds'[e] = 0
          /\ \A d \in Calls : d # e => holds'[d] = holds[d] /\ copier'[d] = copier[d] /\ input'[d] = input[d]
          /\ copier'[e] \notin {"none", "writing"}
      BY <1>0, <1>14 DEF CopierWrites, ExecTypeOK
    <2>3. \A c \in Calls : /\ host'[c] \in {"idle", "calling"} => copier'[c] = "none"
                           /\ holds'[c] <= taken'
      BY <1>0, <1>3, <2>2
    <2>4. CASE ~(open[e] /\ link = "up")
      <3>1. input' = input
        BY <1>14, <2>4 DEF CopierWrites
      <3>2. \A c, d \in Calls :
              copier'[d] = "writing" /\ c <= d => \A i \in 1..Len(input[c]) : input[c][i] < holds'[d]
        BY <1>4, <2>2
      <3> QED
        BY <1>3, <2>2, <2>3, <3>1, <3>2 DEF InputPlaced, InputInOrder
    <2>5. CASE open[e] /\ link = "up"
      <3>1. PICK y : y = Append(x, h)
        OBVIOUS
      <3>2. input'[e] = y
        BY <1>0, <1>14, <2>1, <2>5, <3>1 DEF CopierWrites, ExecTypeOK
      <3>3. PICK l \in Nat : l = Len(x)
        BY <2>1, LenProperties
      <3>4. Len(y) = l + 1 /\ (\A i \in 1..l : y[i] = x[i]) /\ y[l + 1] = h /\ y \in Seq(1..MaxInput)
        BY <2>1, <3>1, <3>3, QueueAppend
      <3>5. \A i \in 1..l + 1 : i \in 1..l \/ i = l + 1
        OBVIOUS
      <3>6. host[e] \notin Ended /\ host[e] \notin {"idle", "calling"}
        BY <1>3, <2>2, <2>5 DEF InStep
      \* The calls after it have not begun.
      <3>7. \A d \in Calls : e < d => host[d] = "idle" /\ input[d] = <<>> /\ copier[d] = "none"
        BY <1>3, <3>6 DEF InStep
      <3>8. \A i \in 1..l : x[i] \in Nat /\ x[i] <= taken /\ x[i] < h
        BY <1>0, <1>2, <1>3, <1>4, <2>1, <2>2, <3>3
      <3>9. \A i \in 1..l + 1 : y[i] \in Nat /\ y[i] <= taken
        BY <1>3, <2>1, <3>4, <3>5, <3>8
      <3>10. \A c \in Calls : /\ host'[c] \in {"idle", "calling"} => input'[c] = <<>>
                              /\ \A i \in 1..Len(input'[c]) : input'[c][i] <= taken'
        BY <1>3, <2>2, <3>2, <3>4, <3>6, <3>9
      <3>11. ASSUME NEW c \in Calls, NEW d \in Calls, copier'[d] = "writing", c <= d,
                    NEW i \in 1..Len(input'[c])
             PROVE  input'[c][i] < holds'[d]
        <4>1. d # e /\ c # e
          BY <1>0, <2>2, <3>7, <3>11
        <4> QED
          BY <1>4, <2>2, <3>11, <4>1
      <3>12. ASSUME NEW c \in Calls, NEW d \in Calls, NEW i \in 1..Len(input'[c]), NEW j \in 1..Len(input'[d]),
                    c < d \/ (c = d /\ i < j)
             PROVE  input'[c][i] < input'[d][j]
        <4>1. CASE c # e /\ d # e
          BY <1>5, <2>2, <3>12, <4>1
        <4>2. CASE c = e /\ d # e
          <5>1. Len(input'[d]) = 0
            BY <2>2, <3>7, <3>12, <4>2, EmptySeq
          <5> QED
            BY <5>1
        <4>3. CASE d = e /\ c # e
          <5>1. c < e /\ c <= e /\ input'[c] = input[c]
            BY <1>0, <2>2, <3>12, <4>3
          <5>2. CASE j = l + 1
            BY <1>4, <2>1, <2>2, <3>2, <3>4, <3>12, <4>3, <5>1, <5>2
          <5>3. CASE j \in 1..l
            BY <1>5, <2>1, <3>2, <3>3, <3>4, <3>12, <4>3, <5>1, <5>3
          <5> QED
            BY <3>2, <3>4, <3>5, <4>3, <5>2, <5>3
        <4>4. CASE c = e /\ d = e
          <5>1. i \in 1..l + 1 /\ j \in 1..l + 1 /\ i < j
            BY <1>0, <3>2, <3>4, <3>12, <4>4
          <5>2. i \in 1..l
            BY <5>1
          <5>3. y[i] < y[j]
            <6>1. CASE j \in 1..l
              BY <1>5, <2>1, <3>3, <3>4, <5>1, <5>2, <6>1
            <6>2. CASE j = l + 1
              BY <3>4, <3>8, <5>2, <6>2
            <6> QED
              BY <3>5, <5>1, <6>1, <6>2
          <5> QED
            BY <3>2, <4>4, <5>3
        <4> QED
          BY <4>1, <4>2, <4>3, <4>4
      <3>13. \A c \in Calls : DOMAIN input'[c] = 1..Len(input'[c])
        <4>1. \A c \in Calls : input'[c] \in Seq(1..MaxInput)
          BY <1>1, <2>2, <3>2, <3>4
        <4> QED
          BY <4>1, LenProperties
      <3>14. InputInOrder'
        BY <3>12, <3>13 DEF InputInOrder
      <3> QED
        BY <2>3, <3>10, <3>11, <3>14 DEF InputPlaced
    <2> QED
      BY <2>4, <2>5
  <1> QED
    BY <1>7, <1>8, <1>10, <1>11, <1>12, <1>13, <1>14 DEF CallMove, ExecStep, HostStep, CopierStep

----------------------------------------------------------------------------
(* The guest service, and all together. *)

\* The connection comes while there is none.
LEMMA NextMoves == ASSUME Served, Next PROVE CallMove
  <1>1. ASSUME ServeStep PROVE UNCHANGED execVars
    BY <1>1 DEF ServeStep, Serves, GuestAssign, CondAssign, VersionFails, VersionAssign, ReadyAssign,
       Broadcast, Respond
  <1>2. ASSUME NEW k \in Waiters, WaiterStep(k) PROVE UNCHANGED execVars
    BY <1>2 DEF WaiterStep, ReadyLock, ReadyCheck, ReadyPark, WaiterTo
  <1>3. ASSUME DriverStep PROVE UNCHANGED execVars \/ \E c \in Calls : HostCall(c)
    BY <1>3 DEF DriverStep, GuestLookup, NetworkReset, RunCall, DriverTo
  <1>4. ASSUME GuestConnects \/ LinkLost PROVE LinkMove
    BY <1>4 DEF GuestConnects, LinkLost, LinkMove, Served
  <1> QED
    BY <1>1, <1>2, <1>3, <1>4 DEF Next, CallMove

\* The variables of the session keep their types.
LEMMA SessionTypes == ASSUME TypeOK, Next, ExecTypeOK' PROVE TypeOK'
  <1> USE DEF TypeOK, ServingStages, WaiterStages, sessionVars
  <1>1. CASE GuestConnects \/ LinkLost
    BY <1>1 DEF GuestConnects, LinkLost
  <1>2. CASE ServeStep
    <2>1. /\ serving' \in ServingStages /\ UNCHANGED <<client, present, driver>>
          /\ guest' \in BOOLEAN /\ cond' \in BOOLEAN /\ version' \in BOOLEAN /\ ready' \in BOOLEAN
      BY <1>2 DEF ServeStep, Serves, GuestAssign, CondAssign, VersionFails, VersionAssign, ReadyAssign,
         Broadcast, Respond
    <2>2. waiter' \in [Waiters -> WaiterStages]
      BY <1>2 DEF ServeStep, Serves, GuestAssign, CondAssign, VersionFails, VersionAssign, ReadyAssign,
         Broadcast, Respond
    <2> QED
      BY <2>1, <2>2
  <1>3. ASSUME NEW k \in Waiters, WaiterStep(k) PROVE TypeOK'
    BY <1>3 DEF WaiterStep, ReadyLock, ReadyCheck, ReadyPark, WaiterTo
  <1>4. CASE DriverStep
    BY <1>4 DEF DriverStep, GuestLookup, NetworkReset, RunCall, DriverTo
  <1>5. CASE UNCHANGED <<sessionVars, waiter, driver>>
    BY <1>5
  <1> QED
    BY <1>1, <1>2, <1>3, <1>4, <1>5 DEF Next

\* The version is set before ready, and ready before a caller returns.
LEMMA ServedStep == ASSUME TypeOK, Served, Next PROVE Served'
  <1> USE DEF Served, ReadyMeansVersion, sessionVars
  <1>1. CASE GuestConnects \/ LinkLost
    BY <1>1 DEF GuestConnects, LinkLost
  <1>2. CASE ServeStep
    <2>1. link' = link /\ serving' # "none"
      BY <1>2 DEF ServeStep, Serves, GuestAssign, CondAssign, VersionFails, VersionAssign, ReadyAssign,
         Broadcast, Respond, execVars
    <2>2. \A k \in Waiters : waiter'[k] = "returned" => waiter[k] = "returned"
      BY <1>2 DEF ServeStep, Serves, GuestAssign, CondAssign, VersionFails, VersionAssign, ReadyAssign,
         Broadcast, Respond, TypeOK
    <2>3. /\ version => version'
          /\ serving' = "versioned" => version'
          /\ ready' => ready \/ serving = "versioned"
      BY <1>2 DEF ServeStep, Serves, GuestAssign, CondAssign, VersionFails, VersionAssign, ReadyAssign,
         Broadcast, Respond
    <2> QED
      BY <2>1, <2>2, <2>3
  <1>3. ASSUME NEW k \in Waiters, WaiterStep(k) PROVE Served'
    <2>1. /\ UNCHANGED <<link, serving, version, ready>>
          /\ \A d \in Waiters : waiter'[d] = "returned" => waiter[d] = "returned" \/ ready
      BY <1>3 DEF WaiterStep, ReadyLock, ReadyCheck, ReadyPark, WaiterTo, execVars, TypeOK
    <2> QED
      BY <2>1
  <1>4. CASE DriverStep
    BY <1>4 DEF DriverStep, GuestLookup, NetworkReset, RunCall, HostCall, DriverTo, execVars
  <1>5. CASE ExecStep /\ UNCHANGED <<sessionVars, waiter, driver>>
    <2>1. link' = link
      BY <1>5 DEF ExecStep, HostStep, HostCalled, HostOutput, HostStatus, HostFails, CopierStep, CopierReads,
         CopierWrites, HandlerStep, Guest, GuestStart, GuestStartFails, HandlerWait, HandlerReport,
         HandlerClose, ProgramExits, ProgramWrites, ReaderStep, ReaderReads, ReaderSends
    <2> QED
      BY <1>5, <2>1
  <1> QED
    BY <1>1, <1>2, <1>3, <1>4, <1>5 DEF Next

\* No call has begun.
LEMMA GuestStarts == Init => GuestInv
  <1> SUFFICES ASSUME Init PROVE GuestInv
    OBVIOUS
  <1> USE ExecAssumption DEF Init, ExecInit
  <1>1. \A S : <<>> \in Seq(S)
    BY EmptySeq
  <1>2. Len(<<>>) = 0
    OBVIOUS
  <1>3. ExecTypeOK
    BY <1>1 DEF ExecTypeOK
  <1>4. TypeOK
    BY <1>3 DEF TypeOK, ServingStages, WaiterStages
  <1>5. Counted
    BY <1>3 DEF Counted
  <1>6. InStep
    BY <1>2 DEF InStep, Ended
  <1>7. ASSUME NEW c \in Calls, NEW s \in Streams PROVE FlowAt(c, s)
    <2>1. wire[c] = <<>> /\ got[c][s] = <<>> /\ sent[c][s] = 0 /\ ~quiet[c] /\ wrote[c][s] = 0
      OBVIOUS
    <2>2. PICK q : q = <<>>
      OBVIOUS
    <2>3. Len(q) = 0 /\ q = [i \in 1..0 |-> i]
      BY <2>2
    <2>4. InOrder(q, s, 0, 0) /\ Complete(q, s, 0, 0, 0)
      BY <2>3 DEF InOrder, Complete
    <2>5. "quiet" \notin Flags(c)
      BY <2>1 DEF Flags
    <2>6. PICK f : f = Flags(c)
      OBVIOUS
    <2>7. FlowOf(s, q, q, 0, 0, f)
      BY <2>3, <2>4, <2>5, <2>6 DEF FlowOf
    <2> QED
      BY <2>1, <2>2, <2>6, <2>7 DEF FlowAt
  <1>8. InputPlaced
    <2>1. \A c \in Calls : /\ input[c] = <<>> /\ Len(input[c]) = 0 /\ DOMAIN input[c] = 1..0
                           /\ copier[c] = "none" /\ holds[c] = 0
      OBVIOUS
    <2> QED
      BY <2>1 DEF InputPlaced, InputInOrder
  <1>9. Served
    BY DEF Served, ReadyMeansVersion
  <1> QED
    BY <1>4, <1>5, <1>6, <1>7, <1>8, <1>9 DEF GuestInv, ExecInv, Flow

\* Every step of the guest service keeps the invariant.
LEMMA GuestKept == ASSUME GuestInv, [Next]_vars PROVE GuestInv'
  <1>1. CASE UNCHANGED vars
    <2>1. CallMove /\ UNCHANGED <<sessionVars, waiter, driver, link>>
      BY <1>1 DEF vars, CallMove, execVars
    <2>2. ExecInv'
      BY <2>1, CountedStep, InStepStep, FlowStep, InputStep DEF GuestInv, ExecInv
    <2>3. Served'
      BY <2>1 DEF GuestInv, Served, ReadyMeansVersion, sessionVars
    <2>4. TypeOK'
      BY <2>1, <2>2 DEF GuestInv, TypeOK, ExecInv, Counted, sessionVars
    <2> QED
      BY <2>2, <2>3, <2>4 DEF GuestInv
  <1>2. CASE Next
    <2>1. CallMove
      BY <1>2, NextMoves DEF GuestInv
    <2>2. ExecInv'
      BY <2>1, CountedStep, InStepStep, FlowStep, InputStep DEF GuestInv, ExecInv
    <2>3. TypeOK'
      BY <1>2, <2>2, SessionTypes DEF GuestInv, ExecInv, Counted
    <2> QED
      BY <1>2, <2>2, <2>3, ServedStep DEF GuestInv
  <1> QED
    BY <1>1, <1>2

\* The invariant holds in every state the guest service reaches.
LEMMA GuestAlways == Spec => []GuestInv
  <1> QED
    BY GuestStarts, GuestKept, PTL DEF Spec

\* Type correctness.
THEOREM GuestTypeCorrect == Spec => []TypeOK
  <1>1. GuestInv => TypeOK
    BY DEF GuestInv
  <1> QED
    BY <1>1, GuestAlways, PTL

\* Ready returns only for a guest whose version is known, however many callers
\* wait and whenever the connection is lost.
THEOREM ReadyKnowsVersion == Spec => []ReadyMeansVersion
  <1>1. GuestInv => ReadyMeansVersion
    BY DEF GuestInv, Served
  <1> QED
    BY <1>1, GuestAlways, PTL

\* The host writes each stream of every program in the order it was written and
\* leaves no chunk out before its end, for any number of calls and chunks.
THEOREM OutputStaysInOrder == Spec => []OutputInOrder
  <1>1. GuestInv => OutputInOrder
    <2> SUFFICES ASSUME GuestInv, NEW c \in Calls, NEW s \in Streams
                 PROVE  /\ Len(got[c][s]) <= wrote[c][s]
                        /\ got[c][s] = [i \in 1..Len(got[c][s]) |-> i]
      BY DEF OutputInOrder
    <2>1. PICK q \in Seq(1..MaxOutput), n \in Nat, m \in Nat :
            q = got[c][s] /\ n = sent[c][s] /\ m = wrote[c][s] /\ n <= m
      BY ExecAssumption DEF GuestInv, TypeOK, ExecTypeOK
    <2>2. PICK g \in Nat : g = Len(q)
      BY LenProperties
    <2>3. PICK w, f : w = wire[c] /\ f = Flags(c)
      OBVIOUS
    <2>4. FlowOf(s, w, q, n, m, f)
      BY <2>1, <2>3 DEF GuestInv, ExecInv, Flow, FlowAt
    <2>5. q = [i \in 1..g |-> i] /\ g <= n
      BY <2>2, <2>4, FlowParts
    <2> QED
      BY <2>1, <2>2, <2>5
  <1> QED
    BY <1>1, GuestAlways, PTL

\* When all that a program wrote had been sent before it exited, Run returns
\* with all of it, however the exit races the readers.
THEOREM QuietExitLosesNothing == Spec => []QuietExitComplete
  <1>1. GuestInv => QuietExitComplete
    <2> SUFFICES ASSUME GuestInv, NEW c \in Calls, NEW s \in Streams, host[c] = "returned", quiet[c]
                 PROVE  Len(got[c][s]) = wrote[c][s]
      BY DEF QuietExitComplete
    <2>1. "quiet" \in Flags(c) /\ "returned" \in Flags(c)
      BY DEF Flags
    <2>2. PICK w, q, g, n, m, f : /\ w = wire[c] /\ q = got[c][s] /\ g = Len(q)
                                  /\ n = sent[c][s] /\ m = wrote[c][s] /\ f = Flags(c)
      OBVIOUS
    <2>3. FlowOf(s, w, q, n, m, f)
      BY <2>2 DEF GuestInv, ExecInv, Flow, FlowAt
    <2>4. g = m
      <3>1. "quiet" \in f /\ "returned" \in f /\ g = Len(q)
        BY <2>1, <2>2
      <3> QED
        BY <2>3, <3>1, Zenon DEF FlowOf
    <2> QED
      BY <2>2, <2>4
  <1> QED
    BY <1>1, GuestAlways, PTL

\* What the user types reaches the programs in order, each chunk one of them,
\* whatever copiers the earlier calls have left behind.
THEOREM InputStaysInOrder == Spec => []InputInOrder
  <1>1. GuestInv => InputInOrder
    BY DEF GuestInv, ExecInv, InputPlaced
  <1> QED
    BY <1>1, GuestAlways, PTL
=============================================================================
