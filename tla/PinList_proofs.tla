---------------------------- MODULE PinList_proofs ----------------------------
(* What each operation of the pin list does to the types of its state, and  *)
(* what it does to one queue and to one stream: the lemmas the theorems     *)
(* about the main loops rest on.                                           *)
EXTENDS PinList, TLAPS, SequenceTheorems, FiniteSetTheorems

(* The remainder in the byte of a reference count.                         *)
LEMMA ModRange == ASSUME NEW n \in Int, NEW m \in Nat \ {0}
                  PROVE  n % m \in 0..(m - 1)
  OBVIOUS

(* There are finitely many pins, so that their number is a number.          *)
LEMMA Cards ==
  ASSUME NEW S \in SUBSET Conns
  PROVE  IsFiniteSet(S) /\ Cardinality(S) \in Nat
  <1>1. IsFiniteSet(Conns)  BY PinListAssumption
  <1> QED  BY <1>1, FS_Subset, FS_CardinalityType

(* The restrict_pin values partition the pins: a pin is reached by exactly  *)
(* the write that carries its listener's user_flags.                       *)
LEMMA OneWritePerPin ==
  ASSUME NEW c \in Conns, flags[c] \in Ports
  PROVE  (CHOOSE r \in Ports : Matches(c, r)) = flags[c]
  <1>1. \A r \in Ports : Matches(c, r) <=> r = flags[c]
    BY PinListAssumption DEF Matches
  <1> QED  BY <1>1

LEMMA WriteSamplesType ==
  ASSUME PinTypeOK, NEW n \in Numbers, WriteSamples(n)
  PROVE  /\ queue' \in [Conns -> Seq(Entries)]
         /\ refs' \in [Buffers -> 0..(RefMod - 1)]
         /\ live' \subseteq Buffers
         /\ mode' \in [Conns -> {"in", "inET", "inoutET"}]
         /\ edge' \in [Conns -> BOOLEAN]
  <1> DEFINE Reached == UNION {Targets(r) : r \in Ports}
             Entry(r) == [num |-> n, ch |-> r, written |-> 0]
  <1>1. ASSUME NEW c \in Reached
        PROVE  Enqueue(c, Entry(CHOOSE r \in Ports : Matches(c, r))) \in Seq(Entries)
    <2>1. PICK r \in Ports : c \in Targets(r)  OBVIOUS
    <2>2. c \in Conns /\ Matches(c, r)  BY <2>1 DEF Targets, PinTypeOK
    <2>3. (CHOOSE q \in Ports : Matches(c, q)) \in Ports  BY <2>2
    <2>4. Entry(CHOOSE q \in Ports : Matches(c, q)) \in Entries
      BY <2>3, PinListAssumption DEF Entries, Offsets
    <2>5. queue[c] \in Seq(Entries)  BY <2>2 DEF PinTypeOK
    <2> QED  BY <2>4, <2>5, AppendProperties DEF Enqueue
  <1>2. queue' \in [Conns -> Seq(Entries)]
    BY <1>1 DEF WriteSamples, PinTypeOK
  <1>3. refs' \in [Buffers -> 0..(RefMod - 1)]
    <2>1. \A b \in Buffers : Targets(b[2]) \subseteq Conns  BY DEF Targets, PinTypeOK
    <2>2. ASSUME NEW b \in Buffers
          PROVE  Cardinality(Targets(b[2])) % RefMod \in 0..(RefMod - 1)
      <3>1. Cardinality(Targets(b[2])) \in Int  BY <2>1, Cards
      <3> QED  BY <3>1, ModRange, PinListAssumption
    <2> QED  BY <2>2 DEF WriteSamples, PinTypeOK
  <1>4. live' \subseteq Buffers  BY DEF WriteSamples, PinTypeOK
  <1>5. /\ mode' \in [Conns -> {"in", "inET", "inoutET"}]
        /\ edge' \in [Conns -> BOOLEAN]
    BY DEF WriteSamples, EpollMod, PinTypeOK
  <1> QED  BY <1>2, <1>3, <1>4, <1>5

LEMMA DestroyPinsType ==
  ASSUME PinTypeOK, NEW P \in SUBSET Conns, DestroyPins(P)
  PROVE  /\ pins' \subseteq Conns
         /\ queue' \in [Conns -> Seq(Entries)]
         /\ refs' \in [Buffers -> 0..(RefMod - 1)]
         /\ live' \subseteq Buffers
  <1>1. \A b \in Buffers : Drops(b, P) \in Nat
    <2>1. \A b \in Buffers : {c \in P : b \in Queued(c)} \in SUBSET Conns  OBVIOUS
    <2> QED  BY <2>1, Cards DEF Drops
  <1>2. ASSUME NEW b \in Buffers
        PROVE  (refs[b] - Drops(b, P)) % RefMod \in 0..(RefMod - 1)
    <2>1. refs[b] \in 0..(RefMod - 1)  BY DEF PinTypeOK
    <2>2. refs[b] - Drops(b, P) \in Int  BY <1>1, <2>1, PinListAssumption
    <2> QED  BY <2>2, ModRange, PinListAssumption
  <1>3. refs' \in [Buffers -> 0..(RefMod - 1)]  BY <1>2 DEF DestroyPins
  <1>4. queue' \in [Conns -> Seq(Entries)]
    BY EmptySeq DEF DestroyPins, PinTypeOK
  <1>5. pins' \subseteq Conns /\ live' \subseteq Buffers
    BY DEF DestroyPins, PinTypeOK
  <1> QED  BY <1>3, <1>4, <1>5
(* One send() of n units of the head entry.  They go to the end of the wire; *)
(* the entry leaves the queue when they complete it (HeadLeaves); otherwise *)
(* they are added to what is written of it, and the send buffer is full.   *)
WireGrows(c, n) ==
  LET head == queue[c][1]
  IN  /\ wire' \in [Conns -> Seq(Units)]
      /\ \A d \in Conns \ {c} : wire'[d] = wire[d]
      /\ head \in Entries
      /\ Len(wire'[c]) = Len(wire[c]) + n
      /\ \A i \in 1..Len(wire[c]) : wire'[c][i] = wire[c][i]
      /\ \A i \in (Len(wire[c]) + 1)..(Len(wire[c]) + n) :
           wire'[c][i] = [num |-> head.num, ch |-> head.ch,
                          off |-> head.written + (i - Len(wire[c])) - 1]

HeadLeaves(c, n) ==
  /\ n = SampleUnits - queue[c][1].written
  /\ SendWhole(c)
  /\ Len(queue'[c]) = Len(queue[c]) - 1
  /\ \A i \in 1..(Len(queue[c]) - 1) : queue'[c][i] = queue[c][i + 1]

HeadAdvances(c, n) ==
  /\ n < SampleUnits - queue[c][1].written
  /\ SendPart(c, n)
  /\ n = Free(c)
  /\ Len(queue'[c]) = Len(queue[c])
  /\ queue'[c][1] = [queue[c][1] EXCEPT !.written = @ + n]
  /\ \A i \in 2..Len(queue[c]) : queue'[c][i] = queue[c][i]

LEMMA SendEffect ==
  ASSUME PinTypeOK, NEW c \in Conns, DeliverSend(c)
  PROVE  /\ queue' \in [Conns -> Seq(Entries)]
         /\ \A d \in Conns \ {c} : queue'[d] = queue[d]
         /\ \E n \in 1..SampleUnits :
              WireGrows(c, n) /\ (HeadLeaves(c, n) \/ HeadAdvances(c, n))
  <1> DEFINE q == queue[c]
             w == wire[c]
             head == Head(q)
             rest == SampleUnits - head.written
             n == IF rest <= Free(c) THEN rest ELSE Free(c)
             sent == [j \in 1..n |-> [num |-> head.num, ch |-> head.ch,
                                      off |-> head.written + j - 1]]
  <1>1. /\ q \in Seq(Entries) /\ q # <<>>
        /\ w \in Seq(Units)
        /\ Free(c) \in Int /\ Free(c) > 0
    BY PinListAssumption DEF DeliverSend, PinTypeOK, Free
  <1>2. /\ head = q[1] /\ head \in Entries
        /\ Len(q) \in Nat \ {0}
        /\ Tail(q) \in Seq(Entries) /\ Len(Tail(q)) = Len(q) - 1
        /\ \A i \in 1..(Len(q) - 1) : Tail(q)[i] = q[i + 1]
    BY <1>1, HeadTailProperties, EmptySeq
  <1>3. /\ n \in 1..rest /\ rest \in 1..SampleUnits
        /\ head.written \in Nat /\ head.written + rest = SampleUnits
    <2>1. head.written \in 0..(SampleUnits - 1)
      BY <1>2 DEF Entries, Offsets
    <2>2. SampleUnits \in Nat  BY PinListAssumption
    <2>3. rest \in 1..SampleUnits  BY <2>1, <2>2
    <2>4. n \in 1..rest  BY <1>1, <2>2, <2>3
    <2> QED  BY <2>1, <2>2, <2>3, <2>4
  <1>4. sent \in Seq(Units) /\ Len(sent) = n
    <2>1. ASSUME NEW j \in 1..n
          PROVE  [num |-> head.num, ch |-> head.ch, off |-> head.written + j - 1] \in Units
      <3>1. head.written + j - 1 \in Offsets
        <4> HIDE DEF n
        <4> SUFFICES head.written + j - 1 \in 0..(SampleUnits - 1)  BY DEF Offsets
        <4> QED  BY <1>3, PinListAssumption
      <3> QED  BY <1>2, <3>1 DEF Entries, Units
    <2> QED  BY <2>1, <1>3
  <1>5. wire' = [wire EXCEPT ![c] = w \o sent]
    BY DEF DeliverSend
  <1>6. /\ wire'[c] = w \o sent
        /\ wire' \in [Conns -> Seq(Units)]
        /\ Len(wire'[c]) = Len(w) + n
    <2> HIDE DEF n, sent, w
    <2>1. w \o sent \in Seq(Units) /\ Len(w \o sent) = Len(w) + n
      BY <1>1, <1>4, ConcatProperties
    <2> QED  BY <1>5, <2>1 DEF PinTypeOK
  <1>7. /\ \A i \in 1..Len(w) : wire'[c][i] = w[i]
        /\ \A i \in (Len(w) + 1)..(Len(w) + n) :
             wire'[c][i] = [num |-> q[1].num, ch |-> q[1].ch,
                            off |-> q[1].written + (i - Len(w)) - 1]
    <2>1. Len(w) \in Nat  BY <1>1
    <2>2. \A i \in 1..(Len(w) + Len(sent)) :
            (w \o sent)[i] = IF i <= Len(w) THEN w[i] ELSE sent[i - Len(w)]
      <3> HIDE DEF n, w, sent
      <3> QED  BY <1>1, <1>4, ConcatProperties
    <2>3. \A j \in 1..n : sent[j] = [num |-> q[1].num, ch |-> q[1].ch,
                                     off |-> q[1].written + j - 1]
      BY <1>2
    <2>4. n \in Nat  BY <1>3
    <2>5. ASSUME NEW i \in (Len(w) + 1)..(Len(w) + n)
          PROVE  i - Len(w) \in 1..n /\ ~(i <= Len(w)) /\ i \in 1..(Len(w) + n)
      <3> HIDE DEF n, w
      <3> QED  BY <2>1, <2>4
    <2> HIDE DEF n, w, sent, q
    <2>6. \A i \in 1..Len(w) : wire'[c][i] = w[i]
      BY <2>1, <2>2, <2>4, <1>4, <1>6
    <2> QED  BY <2>2, <2>3, <2>5, <2>6, <1>4, <1>6
  <1>8. WireGrows(c, n)
    BY <1>2, <1>5, <1>6, <1>7 DEF WireGrows, PinTypeOK
  <1>9. CASE n = rest
    <2>1. SendWhole(c)  BY <1>9 DEF DeliverSend
    <2>2. queue' = [queue EXCEPT ![c] = Tail(q)]  BY <2>1 DEF SendWhole
    <2>3. /\ queue' \in [Conns -> Seq(Entries)]
          /\ queue'[c] = Tail(q)
          /\ \A d \in Conns \ {c} : queue'[d] = queue[d]
      BY <1>2, <2>2 DEF PinTypeOK
    <2>4. HeadLeaves(c, n)
      BY <1>2, <1>9, <2>1, <2>3 DEF HeadLeaves
    <2>5. n \in 1..SampleUnits  BY <1>3, <1>9
    <2> HIDE DEF n
    <2> QED  BY <1>8, <2>3, <2>4, <2>5
  <1>10. CASE n # rest
    <2>1. SendPart(c, n)  BY <1>10 DEF DeliverSend
    <2>2. n = Free(c) /\ n < rest /\ n \in 1..SampleUnits
      BY <1>1, <1>3, <1>10, PinListAssumption
    <2> DEFINE e == [q[1] EXCEPT !.written = @ + n]
    <2> HIDE DEF n
    <2>3. e \in Entries
      <3>1. q[1].written + n \in 0..(SampleUnits - 1)
        BY <1>2, <1>3, <2>2, PinListAssumption
      <3> QED  BY <1>2, <3>1 DEF Entries, Offsets
    <2>4. queue' = [queue EXCEPT ![c] = [q EXCEPT ![1] = e]]
      BY <2>1 DEF SendPart
    <2>5. queue'[c] = [q EXCEPT ![1] = e]  BY <2>4 DEF PinTypeOK
    <2>6. /\ queue'[c] \in Seq(Entries) /\ Len(queue'[c]) = Len(q)
          /\ queue'[c][1] = e
          /\ \A i \in 2..Len(q) : queue'[c][i] = q[i]
      <3> HIDE DEF e, q
      <3>1. 1 \in 1..Len(q) /\ \A i \in 2..Len(q) : i \in 1..Len(q) /\ i # 1
        BY <1>2
      <3> QED  BY <1>1, <2>3, <2>5, <3>1, ExceptSeq
    <2>7. /\ queue' \in [Conns -> Seq(Entries)]
          /\ \A d \in Conns \ {c} : queue'[d] = queue[d]
      BY <2>4, <2>5, <2>6 DEF PinTypeOK
    <2>8. HeadAdvances(c, n)
      BY <1>2, <2>1, <2>2, <2>6 DEF HeadAdvances
    <2> QED  BY <1>8, <2>2, <2>7, <2>8
  <1> QED  BY <1>9, <1>10
LEMMA TimesSucc == ASSUME NEW a \in Int, NEW s \in Nat
                   PROVE  (a + 1) * s = a * s + s
  OBVIOUS

LEMMA Shift ==
  ASSUME NEW x \in Int, NEW y \in Int, NEW z \in Int, NEW l \in Int, NEW i \in Int,
         x + z = y + l
  PROVE  x + (z + (i - l) - 1) = y + i - 1
  OBVIOUS

LEMMA ShiftIndex ==
  ASSUME NEW p \in Int, NEW l \in Int, NEW i \in Int
  PROVE  p - (l - 1) + i - 1 = p - l + (i + 1) - 1
  OBVIOUS

-----------------------------------------------------------------------------
(* What a step of a main loop over the list can do to it, when k samples    *)
(* have been written before the step and m after it.                       *)

TakesInput == readList' \in {readList, readList \ {Input}}

Reads(k, m) ==
  /\ m = k /\ TakesInput
  /\ UNCHANGED <<pins, flags, queue, refs, live, mode, writeList, cur, kernelVars, first>>

Waits(k, m) ==
  /\ m = k
  /\ \E S \in SUBSET pins, A \in SUBSET backlog, in \in BOOLEAN : WaitStep(S, A, in, k)

Writes(k, m) ==
  /\ m = k + 1 /\ k \in Numbers
  /\ WriteSamples(k) /\ TakesInput
  /\ UNCHANGED <<pins, flags, writeList, cur, peer, port, backlog, wire, drained, first>>

Destroys(k, m) ==
  /\ m = k
  /\ \E P \in SUBSET Conns :
       /\ DestroyPins(P)
       /\ readList' \in {readList, readList \ P}
       /\ cur' = cur \/ cur' = Input
  /\ UNCHANGED <<flags, mode, writeList, kernelVars, first>>

Serves(k, m) ==
  /\ m = k
  /\ \E c \in Conns :
       DeliverPop(c) \/ DeliverSend(c) \/ DeliverAgain(c) \/ DeliverDone(c)

ClientActs(k, m) ==
  /\ m = k
  /\ \E c \in Conns : Connect(c) \/ Drain(c) \/ Close(c)

PinStep(k, m) ==
  \/ Reads(k, m) \/ Waits(k, m) \/ Writes(k, m)
  \/ Destroys(k, m) \/ Serves(k, m) \/ ClientActs(k, m)

-----------------------------------------------------------------------------
(* Types.                                                                  *)

LEMMA PinTypeInit == PinInit => PinTypeOK
  <1>1. 0 \in 0..MaxSamples /\ 0 \in 0..(RefMod - 1)  BY PinListAssumption
  <1> QED  BY <1>1, EmptySeq, PinListAssumption DEF PinInit, PinTypeOK

LEMMA PinTypeStep ==
  ASSUME PinTypeOK, NEW k \in 0..MaxSamples, NEW m, PinStep(k, m)
  PROVE  PinTypeOK'
  <1> USE PinListAssumption
  <1>1. CASE Reads(k, m)
    BY <1>1 DEF Reads, TakesInput, kernelVars, PinTypeOK
  <1>2. CASE Waits(k, m)
    BY <1>2 DEF Waits, WaitStep, ForRead, PinTypeOK
  <1>3. CASE Writes(k, m)
    <2>1. /\ queue' \in [Conns -> Seq(Entries)]
          /\ refs' \in [Buffers -> 0..(RefMod - 1)]
          /\ live' \subseteq Buffers
          /\ mode' \in [Conns -> {"in", "inET", "inoutET"}]
          /\ edge' \in [Conns -> BOOLEAN]
      BY <1>3, WriteSamplesType DEF Writes
    <2> QED  BY <1>3, <2>1 DEF Writes, TakesInput, PinTypeOK
  <1>4. CASE Destroys(k, m)
    <2>1. PICK P \in SUBSET Conns :
            DestroyPins(P) /\ readList' \in {readList, readList \ P} /\ cur' \in {cur, Input}
      BY <1>4 DEF Destroys
    <2> QED  BY <1>4, <2>1, DestroyPinsType DEF Destroys, kernelVars, PinTypeOK
  <1>5. ASSUME NEW c \in Conns, DeliverPop(c) PROVE PinTypeOK'
    BY <1>5 DEF DeliverPop, kernelVars, PinTypeOK
  <1>6. ASSUME NEW c \in Conns, DeliverSend(c) PROVE PinTypeOK'
    <2>1. queue' \in [Conns -> Seq(Entries)] /\ wire' \in [Conns -> Seq(Units)]
      BY <1>6, SendEffect DEF WireGrows
    <2>2. /\ refs' \in [Buffers -> 0..(RefMod - 1)]
          /\ live' \subseteq Buffers
          /\ cur' \in Conns \cup {Input}
      <3>1. CASE SendWhole(c)
        <4> DEFINE b == BufferOf(Head(queue[c]))
        <4>1. refs' = [refs EXCEPT ![b] = (refs[b] - 1) % RefMod]
          BY <3>1 DEF SendWhole
        <4>2. b \in Buffers
          <5>1. Head(queue[c]) \in Entries
            BY <1>6, HeadTailProperties DEF DeliverSend, PinTypeOK
          <5> QED  BY <5>1 DEF Entries, BufferOf, Buffers
        <4>3. (refs[b] - 1) % RefMod \in 0..(RefMod - 1)
          <5>1. refs[b] - 1 \in Int  BY <4>2 DEF PinTypeOK
          <5> QED  BY <5>1, ModRange
        <4>4. refs' \in [Buffers -> 0..(RefMod - 1)]
          BY <4>1, <4>3 DEF PinTypeOK
        <4> QED  BY <3>1, <4>4 DEF SendWhole, PinTypeOK
      <3>2. ASSUME NEW n \in 1..SampleUnits, SendPart(c, n)
            PROVE  UNCHANGED <<refs, live>> /\ cur' = Input
        BY <3>2 DEF SendPart
      <3> QED
        BY <1>6, SendEffect, <3>1, <3>2 DEF HeadLeaves, HeadAdvances, PinTypeOK
    <2> QED  BY <1>6, <2>1, <2>2 DEF DeliverSend, PinTypeOK
  <1>7. ASSUME NEW c \in Conns, DeliverAgain(c) PROVE PinTypeOK'
    BY <1>7 DEF DeliverAgain, kernelVars, PinTypeOK
  <1>8. ASSUME NEW c \in Conns, DeliverDone(c) PROVE PinTypeOK'
    BY <1>8 DEF DeliverDone, EpollMod, PinTypeOK
  <1>9. ASSUME NEW c \in Conns, Connect(c) PROVE PinTypeOK'
    BY <1>9 DEF Connect, listVars, PinTypeOK
  <1>10. ASSUME NEW c \in Conns, Drain(c) PROVE PinTypeOK'
    <2>1. drained' \in [Conns -> Nat]
      BY <1>10 DEF Drain, PinTypeOK
    <2>2. edge' \in [Conns -> BOOLEAN]
      <3> DEFINE e == edge[c] \/ Free(c) = 0
      <3>1. e \in BOOLEAN  BY DEF PinTypeOK
      <3>2. edge' = [edge EXCEPT ![c] = e]  BY <1>10 DEF Drain
      <3> HIDE DEF e
      <3> QED  BY <3>1, <3>2 DEF PinTypeOK
    <2>3. UNCHANGED <<listVars, peer, port, backlog, wire, first>>
      BY <1>10 DEF Drain
    <2> QED  BY <2>1, <2>2, <2>3 DEF listVars, PinTypeOK
  <1>11. ASSUME NEW c \in Conns, Close(c) PROVE PinTypeOK'
    BY <1>11 DEF Close, listVars, PinTypeOK
  <1> QED
    BY <1>1, <1>2, <1>3, <1>4, <1>5, <1>6, <1>7, <1>8, <1>9, <1>10, <1>11
    DEF PinStep, Serves, ClientActs

-----------------------------------------------------------------------------
(* Stream integrity.                                                       *)

(* A connection has no wire and no pin before its accept(), no queue without *)
(* a pin, and its pin has the user_flags of the listener it came by.        *)
AcceptInv ==
  /\ \A c \in Conns :
       /\ peer[c] = "idle" => c \notin backlog
       /\ peer[c] = "idle" \/ c \in backlog => wire[c] = <<>> /\ c \notin pins
       /\ c \notin pins => queue[c] = <<>>
  /\ \A c \in pins : flags[c] = port[c]

StreamAt(k) == AcceptInv /\ WireIsStream /\ QueueContinues(k)

streamVars == <<pins, flags, queue, peer, port, backlog, wire, first>>

LEMMA StreamFrame ==
  ASSUME NEW k \in Nat, StreamAt(k), UNCHANGED streamVars
  PROVE  StreamAt(k)'
  BY DEF StreamAt, streamVars, AcceptInv, WireIsStream, QueueContinues, HeadWritten

LEMMA StreamInit == PinInit => StreamAt(0)
  BY DEF PinInit, StreamAt, AcceptInv, WireIsStream, QueueContinues

(* Disconnecting pins takes their queues away and no one else's.            *)
LEMMA StreamDestroy ==
  ASSUME PinTypeOK, NEW k \in Nat, StreamAt(k), NEW P \in SUBSET Conns, DestroyPins(P),
         UNCHANGED <<flags, peer, port, backlog, wire, first>>
  PROVE  StreamAt(k)'
  <1>1. /\ pins' = pins \ P
        /\ \A c \in Conns : queue'[c] = IF c \in P THEN <<>> ELSE queue[c]
    BY DEF DestroyPins
  <1>2. pins \subseteq Conns  BY DEF PinTypeOK
  <1>3. AcceptInv'  BY <1>1, <1>2 DEF StreamAt, AcceptInv
  <1>4. WireIsStream'  BY DEF StreamAt, WireIsStream
  <1>5. QueueContinues(k)'
    BY <1>1, <1>2 DEF StreamAt, QueueContinues, HeadWritten
  <1> QED  BY <1>3, <1>4, <1>5 DEF StreamAt

(* A new sample goes to the end of every pin's queue, once.                 *)
LEMMA WriteAppends ==
  ASSUME PinTypeOK, AcceptInv, NEW k, WriteSamples(k)
  PROVE  /\ \A c \in pins :
              queue'[c] = Append(queue[c], [num |-> k, ch |-> port[c], written |-> 0])
         /\ \A c \in Conns \ pins : queue'[c] = queue[c]
  <1>1. ASSUME NEW c \in pins
        PROVE  queue'[c] = Append(queue[c], [num |-> k, ch |-> port[c], written |-> 0])
    <2>1. c \in Conns /\ flags[c] = port[c] /\ port[c] \in Ports
      BY DEF AcceptInv, PinTypeOK
    <2>2. c \in Targets(flags[c])  BY DEF Targets, Matches
    <2>3. c \in UNION {Targets(r) : r \in Ports}  BY <2>1, <2>2
    <2>4. (CHOOSE r \in Ports : Matches(c, r)) = port[c]  BY <2>1, OneWritePerPin
    <2> QED  BY <2>1, <2>3, <2>4 DEF WriteSamples, Enqueue
  <1>2. ASSUME NEW c \in Conns \ pins
        PROVE  queue'[c] = queue[c]
    <2>1. c \notin UNION {Targets(r) : r \in Ports}  BY DEF Targets
    <2> QED  BY <2>1 DEF WriteSamples
  <1> QED  BY <1>1, <1>2

LEMMA StreamWrite ==
  ASSUME PinTypeOK, NEW k \in Nat, StreamAt(k), WriteSamples(k),
         UNCHANGED <<pins, flags, peer, port, backlog, wire, first>>
  PROVE  StreamAt(k + 1)'
  <1> DEFINE Entry(r) == [num |-> k, ch |-> r, written |-> 0]
  <1>1. \A c \in pins : queue'[c] = Append(queue[c], Entry(port[c]))
    BY WriteAppends DEF StreamAt
  <1>2. \A c \in Conns \ pins : queue'[c] = queue[c]
    BY WriteAppends DEF StreamAt
  <1>3. AcceptInv'
    BY <1>2 DEF StreamAt, AcceptInv
  <1>4. WireIsStream'
    BY DEF StreamAt, WireIsStream
  <1>5. ASSUME NEW c \in pins
        PROVE  /\ (k + 1 - Len(queue'[c])) * SampleUnits + HeadWritten(c)'
                    = first'[c] * SampleUnits + Len(wire'[c])
               /\ \A i \in DOMAIN queue'[c] :
                    /\ queue'[c][i].num = k + 1 - Len(queue'[c]) + i - 1
                    /\ queue'[c][i].ch = port'[c]
                    /\ i > 1 => queue'[c][i].written = 0
    <2> DEFINE q == queue[c]
               e == Entry(port[c])
    <2>1. /\ c \in Conns /\ k \in Nat
          /\ q \in Seq(Entries) /\ Len(q) \in Nat
      BY DEF PinTypeOK
    <2>2. /\ Len(queue'[c]) = Len(q) + 1
          /\ DOMAIN queue'[c] = 1..(Len(q) + 1)
          /\ \A i \in 1..Len(q) : queue'[c][i] = q[i]
          /\ queue'[c][Len(q) + 1] = e
      BY <1>1, <2>1
    <2>3. HeadWritten(c)' = HeadWritten(c)
      <3>1. queue'[c] # <<>>  BY <2>1, <2>2
      <3>2. CASE q = <<>>  BY <2>2, <3>1, <3>2 DEF HeadWritten
      <3>3. CASE q # <<>>
        <4>1. 1 \in 1..Len(q)  BY <2>1, <3>3
        <4> QED  BY <2>2, <3>1, <3>3, <4>1 DEF HeadWritten
      <3> QED  BY <3>2, <3>3
    <2>4. k + 1 - Len(queue'[c]) = k - Len(q)
      BY <2>1, <2>2
    <2>5. /\ (k - Len(q)) * SampleUnits + HeadWritten(c)
               = first[c] * SampleUnits + Len(wire[c])
          /\ \A i \in 1..Len(q) : /\ q[i].num = k - Len(q) + i - 1
                                  /\ q[i].ch = port[c]
                                  /\ i > 1 => q[i].written = 0
      BY <2>1 DEF StreamAt, QueueContinues
    <2>6. ASSUME NEW i \in 1..(Len(q) + 1)
          PROVE  /\ queue'[c][i].num = k - Len(q) + i - 1
                 /\ queue'[c][i].ch = port[c]
                 /\ i > 1 => queue'[c][i].written = 0
      <3>1. CASE i \in 1..Len(q)  BY <2>2, <2>5, <3>1
      <3>2. CASE i = Len(q) + 1  BY <2>1, <2>2, <3>2
      <3>3. i \in 1..Len(q) \/ i = Len(q) + 1
        <4> HIDE DEF q
        <4> QED  BY <2>1
      <3> QED  BY <3>1, <3>2, <3>3
    <2> QED  BY <2>2, <2>3, <2>4, <2>5, <2>6
  <1>6. QueueContinues(k + 1)'  BY <1>5 DEF QueueContinues
  <1> QED  BY <1>3, <1>4, <1>6 DEF StreamAt

(* send() moves the head of the queue to the end of the wire.               *)
LEMMA StreamSend ==
  ASSUME PinTypeOK, NEW k \in Nat, StreamAt(k), NEW c \in Conns, DeliverSend(c)
  PROVE  StreamAt(k)'
  <1> DEFINE q == queue[c]
             w == wire[c]
  <1>1. c \in pins  BY DEF DeliverSend, StreamAt, AcceptInv
  <1>2. /\ q \in Seq(Entries) /\ q # <<>> /\ Len(q) \in Nat \ {0}
        /\ w \in Seq(Units) /\ Len(w) \in Nat
        /\ k \in Nat /\ first[c] \in Nat
        /\ SampleUnits \in Nat \ {0}
    BY PinListAssumption, EmptySeq, LenProperties
    DEF DeliverSend, PinTypeOK
  <1>3. PICK n \in 1..SampleUnits :
          WireGrows(c, n) /\ (HeadLeaves(c, n) \/ HeadAdvances(c, n))
    BY SendEffect DEF PinTypeOK
  <1>4. /\ wire' \in [Conns -> Seq(Units)] /\ queue' \in [Conns -> Seq(Entries)]
        /\ \A d \in Conns \ {c} : wire'[d] = wire[d] /\ queue'[d] = queue[d]
        /\ UNCHANGED <<pins, flags, peer, port, backlog, first>>
    BY <1>3, SendEffect DEF WireGrows, DeliverSend, PinTypeOK
  <1>5. /\ (k - Len(q)) * SampleUnits + q[1].written
             = first[c] * SampleUnits + Len(w)
        /\ q[1].written \in 0..(SampleUnits - 1)
        /\ q[1].num = k - Len(q) /\ q[1].ch = port[c]
        /\ \A i \in 1..Len(q) : /\ q[i].num = k - Len(q) + i - 1
                                /\ q[i].ch = port[c]
                                /\ i > 1 => q[i].written = 0
    <2>1. 1 \in DOMAIN q /\ DOMAIN q = 1..Len(q)  BY <1>2
    <2>2. q[1].written \in 0..(SampleUnits - 1)
      BY <1>3 DEF WireGrows, Entries, Offsets
    <2>3. /\ (k - Len(q)) * SampleUnits + HeadWritten(c)
               = first[c] * SampleUnits + Len(w)
          /\ \A i \in 1..Len(q) : /\ q[i].num = k - Len(q) + i - 1
                                  /\ q[i].ch = port[c]
                                  /\ i > 1 => q[i].written = 0
      BY <1>1, <2>1 DEF StreamAt, QueueContinues
    <2>4. HeadWritten(c) = q[1].written  BY <1>2 DEF HeadWritten
    <2>5. q[1].num = k - Len(q) /\ q[1].ch = port[c]
      <3>1. q[1].num = k - Len(q) + 1 - 1 /\ q[1].ch = port[c]
        BY <1>2, <2>1, <2>3
      <3> QED  BY <1>2, <3>1
    <2> QED  BY <2>2, <2>3, <2>4, <2>5
  <1>6. AcceptInv'
    BY <1>1, <1>4 DEF StreamAt, AcceptInv
  <1>7. WireIsStream'
    <2>1. SUFFICES ASSUME NEW d \in Conns, NEW i \in DOMAIN wire'[d]
                   PROVE  /\ wire'[d][i].ch = port[d]
                          /\ wire'[d][i].num * SampleUnits + wire'[d][i].off
                               = first[d] * SampleUnits + i - 1
      BY <1>4 DEF WireIsStream
    <2>2. CASE d # c  BY <1>4, <2>2 DEF StreamAt, WireIsStream
    <2>3. CASE d = c
      <3>1. i \in 1..(Len(w) + n)  BY <1>3, <1>4, <2>3 DEF WireGrows
      <3>2. CASE i <= Len(w)
        <4>1. i \in 1..Len(w) /\ i \in DOMAIN w  BY <1>2, <3>1, <3>2
        <4>2. wire'[d][i] = w[i]  BY <1>3, <2>3, <4>1 DEF WireGrows
        <4> QED  BY <2>3, <4>1, <4>2 DEF StreamAt, WireIsStream
      <3>3. CASE ~(i <= Len(w))
        <4>1. i \in (Len(w) + 1)..(Len(w) + n)  BY <1>2, <3>1, <3>3
        <4>2. wire'[d][i] = [num |-> q[1].num, ch |-> q[1].ch,
                             off |-> q[1].written + (i - Len(w)) - 1]
          BY <1>3, <2>3, <4>1 DEF WireGrows
        <4>3. q[1].num * SampleUnits + q[1].written = first[c] * SampleUnits + Len(w)
          BY <1>5
        <4>4. q[1].num * SampleUnits \in Int /\ first[c] * SampleUnits \in Int
          BY <1>2, <1>5
        <4>5. q[1].num * SampleUnits + (q[1].written + (i - Len(w)) - 1)
                = first[c] * SampleUnits + i - 1
          <5> DEFINE x == q[1].num * SampleUnits
                     y == first[c] * SampleUnits
                     z == q[1].written
                     l == Len(w)
          <5>1. x \in Int /\ y \in Int /\ z \in Int /\ l \in Int /\ i \in Int
            <6>1. x \in Int /\ y \in Int  BY <4>4
            <6>2. l \in Int /\ i \in Int  BY <1>2, <4>1
            <6>3. z \in Int  BY <1>5
            <6> QED  BY <6>1, <6>2, <6>3
          <5>2. x + z = y + l  BY <4>3
          <5> HIDE DEF x, y, z, l
          <5>3. x + (z + (i - l) - 1) = y + i - 1  BY <5>1, <5>2, Shift
          <5> QED  BY <5>3 DEF x, y, z, l
        <4> QED  BY <1>5, <2>3, <4>2, <4>5
      <3> QED  BY <3>2, <3>3
    <2> QED  BY <2>2, <2>3
  <1>8. ASSUME NEW d \in pins
        PROVE  /\ (k - Len(queue'[d])) * SampleUnits + HeadWritten(d)'
                    = first[d] * SampleUnits + Len(wire'[d])
               /\ \A i \in DOMAIN queue'[d] :
                    /\ queue'[d][i].num = k - Len(queue'[d]) + i - 1
                    /\ queue'[d][i].ch = port[d]
                    /\ i > 1 => queue'[d][i].written = 0
    <2>1. CASE d # c
      <3>1. d \in Conns  BY DEF PinTypeOK
      <3>2. queue'[d] = queue[d] /\ wire'[d] = wire[d]  BY <1>4, <2>1, <3>1
      <3>3. HeadWritten(d)' = HeadWritten(d)  BY <3>2 DEF HeadWritten
      <3> QED  BY <3>2, <3>3 DEF StreamAt, QueueContinues
    <2>2. CASE d = c /\ HeadLeaves(c, n)
      <3> DEFINE r == queue'[c]
      <3>1. /\ Len(r) = Len(q) - 1 /\ r \in Seq(Entries) /\ DOMAIN r = 1..Len(r)
            /\ \A i \in 1..(Len(q) - 1) : r[i] = q[i + 1]
            /\ n = SampleUnits - q[1].written
            /\ Len(wire'[c]) = Len(w) + n
        BY <1>3, <1>4, <2>2 DEF HeadLeaves, WireGrows
      <3>2. HeadWritten(c)' = 0
        <4>1. CASE r = <<>>  BY <4>1 DEF HeadWritten
        <4>2. CASE r # <<>>
          <5>1. 1 \in 1..(Len(q) - 1) /\ 2 \in 1..Len(q)  BY <1>2, <3>1, <4>2
          <5>2. r[1] = q[2]  BY <3>1, <5>1
          <5>3. q[2].written = 0
            <6> HIDE DEF q
            <6>1. \A i \in 1..Len(q) : i > 1 => q[i].written = 0  BY <1>5
            <6> QED  BY <5>1, <6>1
          <5> QED  BY <4>2, <5>2, <5>3 DEF HeadWritten
        <4> QED  BY <4>1, <4>2
      <3>3. (k - Len(r)) * SampleUnits
              = (k - Len(q)) * SampleUnits + SampleUnits
        <4>1. k - Len(q) \in Int /\ k - Len(r) = (k - Len(q)) + 1
          BY <1>2, <3>1
        <4> QED  BY <1>2, <4>1, TimesSucc
      <3>4. (k - Len(r)) * SampleUnits + HeadWritten(c)'
              = first[c] * SampleUnits + Len(wire'[c])
        <4>1. /\ (k - Len(q)) * SampleUnits \in Int
              /\ first[c] * SampleUnits \in Int
          BY <1>2
        <4> DEFINE x == (k - Len(q)) * SampleUnits
                   y == first[c] * SampleUnits
                   z == q[1].written
                   l == Len(w)
                   t == (k - Len(r)) * SampleUnits
                   h == HeadWritten(c)'
        <4>2. /\ x \in Int /\ y \in Int /\ z \in Int /\ l \in Int
              /\ SampleUnits \in Int
          BY <1>2, <1>5, <4>1
        <4>3. /\ x + z = y + l /\ t = x + SampleUnits /\ h = 0
              /\ Len(wire'[c]) = l + (SampleUnits - z)
          BY <1>5, <3>1, <3>2, <3>3
        <4> HIDE DEF x, y, z, l, t, h
        <4>4. t + h = y + Len(wire'[c])  BY <4>2, <4>3
        <4> QED  BY <4>4 DEF y, t, h
      <3>5. ASSUME NEW i \in DOMAIN r
            PROVE  /\ r[i].num = k - Len(r) + i - 1
                   /\ r[i].ch = port[c]
                   /\ i > 1 => r[i].written = 0
        <4>1. i \in 1..(Len(q) - 1) /\ i + 1 \in 1..Len(q)  BY <1>2, <3>1
        <4>2. r[i] = q[i + 1]  BY <3>1, <4>1
        <4>3. /\ q[i + 1].num = k - Len(q) + (i + 1) - 1
              /\ q[i + 1].ch = port[c]
              /\ i + 1 > 1 => q[i + 1].written = 0
          BY <1>5, <4>1
        <4>4. /\ k - Len(r) + i - 1 = k - Len(q) + (i + 1) - 1
              /\ i + 1 > 1
          <5>1. i \in Int /\ i + 1 > 1  BY <1>2, <4>1
          <5>2. k \in Int /\ Len(q) \in Int  BY <1>2
          <5> HIDE DEF q, r
          <5> QED  BY <3>1, <5>1, <5>2, ShiftIndex
        <4> QED  BY <4>2, <4>3, <4>4
      <3> QED  BY <2>2, <3>4, <3>5
    <2>3. CASE d = c /\ HeadAdvances(c, n)
      <3> DEFINE r == queue'[c]
      <3>1. /\ Len(r) = Len(q) /\ r \in Seq(Entries) /\ DOMAIN r = 1..Len(r)
            /\ r[1] = [q[1] EXCEPT !.written = @ + n]
            /\ \A i \in 2..Len(q) : r[i] = q[i]
            /\ Len(wire'[c]) = Len(w) + n
            /\ q[1] \in Entries
        BY <1>3, <1>4, <2>3 DEF HeadAdvances, WireGrows
      <3>2. /\ r[1].num = q[1].num /\ r[1].ch = q[1].ch
            /\ r[1].written = q[1].written + n
        BY <3>1 DEF Entries
      <3>3. HeadWritten(c)' = q[1].written + n
        <4>1. r # <<>>  BY <1>2, <3>1
        <4> QED  BY <3>2, <4>1 DEF HeadWritten
      <3>4. (k - Len(r)) * SampleUnits + HeadWritten(c)'
              = first[c] * SampleUnits + Len(wire'[c])
        <4>1. /\ (k - Len(q)) * SampleUnits \in Int
              /\ first[c] * SampleUnits \in Int
          BY <1>2
        <4> DEFINE x == (k - Len(q)) * SampleUnits
                   y == first[c] * SampleUnits
                   z == q[1].written
                   l == Len(w)
                   h == HeadWritten(c)'
        <4>2. x \in Int /\ y \in Int /\ z \in Int /\ l \in Int /\ n \in Int
          BY <1>2, <1>5, <4>1
        <4>3. x + z = y + l /\ h = z + n /\ Len(wire'[c]) = l + n
          BY <1>5, <3>1, <3>3
        <4> HIDE DEF x, y, z, l, h
        <4>4. x + h = y + Len(wire'[c])  BY <4>2, <4>3
        <4>5. (k - Len(r)) * SampleUnits = x  BY <3>1 DEF x
        <4> QED  BY <4>4, <4>5 DEF y, h
      <3>5. ASSUME NEW i \in DOMAIN r
            PROVE  /\ r[i].num = k - Len(r) + i - 1
                   /\ r[i].ch = port[c]
                   /\ i > 1 => r[i].written = 0
        <4>1. i \in 1..Len(q)  BY <3>1
        <4>2. CASE i = 1
          <5>1. k - Len(r) + i - 1 = k - Len(q) /\ ~(i > 1)
            BY <1>2, <3>1, <4>2
          <5> QED  BY <1>5, <3>2, <4>2, <5>1
        <4>3. CASE i # 1
          <5>1. i \in 2..Len(q)  BY <1>2, <4>1, <4>3
          <5> QED  BY <1>5, <3>1, <4>1, <5>1
        <4> QED  BY <4>2, <4>3
      <3> QED  BY <2>3, <3>4, <3>5
    <2> QED  BY <1>3, <2>1, <2>2, <2>3
  <1>9. QueueContinues(k)'  BY <1>4, <1>8 DEF QueueContinues
  <1> QED  BY <1>6, <1>7, <1>9 DEF StreamAt

LEMMA StreamWait ==
  ASSUME PinTypeOK, NEW k \in Nat, StreamAt(k),
         NEW S \in SUBSET pins, NEW A \in SUBSET backlog, NEW in \in BOOLEAN,
         WaitStep(S, A, in, k)
  PROVE  StreamAt(k)'
  <1>2. A \subseteq Conns /\ A \cap pins = {}
    BY DEF StreamAt, AcceptInv, PinTypeOK
  <1>3. /\ pins' = pins \cup A /\ backlog' = backlog \ A
        /\ UNCHANGED <<queue, peer, port, wire>>
        /\ \A c \in Conns : /\ flags'[c] = IF c \in A THEN port[c] ELSE flags[c]
                            /\ first'[c] = IF c \in A THEN k ELSE first[c]
    BY DEF WaitStep
  <1>4. AcceptInv'
    BY <1>2, <1>3 DEF StreamAt, AcceptInv, PinTypeOK
  <1>5. \A c \in A : wire[c] = <<>> /\ queue[c] = <<>>
    BY <1>2 DEF StreamAt, AcceptInv
  <1>6. WireIsStream'
    <2>1. \A c \in A : DOMAIN wire'[c] = {}  BY <1>3, <1>5
    <2> QED  BY <1>3, <2>1 DEF StreamAt, WireIsStream
  <1>7. ASSUME NEW c \in A
        PROVE  /\ (k - Len(queue'[c])) * SampleUnits + HeadWritten(c)'
                    = first'[c] * SampleUnits + Len(wire'[c])
               /\ DOMAIN queue'[c] = {}
    <2>1. /\ queue'[c] = <<>> /\ wire'[c] = <<>> /\ first'[c] = k
      BY <1>2, <1>3, <1>5
    <2>2. k \in Nat /\ SampleUnits \in Nat
      BY PinListAssumption DEF PinTypeOK
    <2>3. HeadWritten(c)' = 0 /\ Len(queue'[c]) = 0 /\ Len(wire'[c]) = 0
      BY <2>1 DEF HeadWritten
    <2> QED  BY <2>1, <2>2, <2>3
  <1>8. QueueContinues(k)'
    <2>1. \A c \in pins : c \in Conns /\ c \notin A
      BY <1>2 DEF PinTypeOK
    <2> QED  BY <1>3, <1>7, <2>1 DEF StreamAt, QueueContinues, HeadWritten
  <1> QED  BY <1>4, <1>6, <1>8 DEF StreamAt


LEMMA StreamStepAt ==
  ASSUME PinTypeOK, NEW k \in 0..MaxSamples, StreamAt(k), NEW m, PinStep(k, m)
  PROVE  StreamAt(m)'
  <1> k \in Nat  BY PinListAssumption
  <1>1. CASE Reads(k, m)
    BY <1>1, StreamFrame DEF Reads, kernelVars, streamVars
  <1>2. CASE Waits(k, m)
    BY <1>2, StreamWait DEF Waits
  <1>3. CASE Writes(k, m)
    BY <1>3, StreamWrite DEF Writes
  <1>4. CASE Destroys(k, m)
    <2>1. PICK P \in SUBSET Conns : DestroyPins(P)  BY <1>4 DEF Destroys
    <2> QED  BY <1>4, <2>1, StreamDestroy DEF Destroys, kernelVars
  <1>5. CASE Serves(k, m)
    <2>1. PICK c \in Conns :
            DeliverPop(c) \/ DeliverSend(c) \/ DeliverAgain(c) \/ DeliverDone(c)
      BY <1>5 DEF Serves
    <2>2. CASE DeliverSend(c)  BY <1>5, <2>2, StreamSend DEF Serves
    <2>3. CASE DeliverPop(c) \/ DeliverAgain(c) \/ DeliverDone(c)
      <3>1. UNCHANGED streamVars
        BY <2>3 DEF DeliverPop, DeliverAgain, DeliverDone, kernelVars, streamVars
      <3> QED  BY <1>5, <3>1, StreamFrame DEF Serves
    <2> QED  BY <2>1, <2>2, <2>3
  <1>6. CASE ClientActs(k, m)
    <2>1. PICK c \in Conns : Connect(c) \/ Drain(c) \/ Close(c)
      BY <1>6 DEF ClientActs
    <2>2. /\ UNCHANGED <<pins, flags, queue, port, wire, first>>
          /\ \A d \in Conns \ {c} : peer'[d] = peer[d] /\ (d \in backlog' <=> d \in backlog)
          /\ peer'[c] # "idle" \/ UNCHANGED <<peer, backlog>>
          /\ c \in backlog' => c \in backlog \/ peer[c] = "idle"
      BY <2>1 DEF Connect, Drain, Close, listVars, PinTypeOK
    <2>3. AcceptInv'  BY <2>2 DEF StreamAt, AcceptInv
    <2>4. m = k  BY <1>6 DEF ClientActs
    <2> QED  BY <2>2, <2>3, <2>4 DEF StreamAt, WireIsStream, QueueContinues, HeadWritten
  <1> QED  BY <1>1, <1>2, <1>3, <1>4, <1>5, <1>6 DEF PinStep

-----------------------------------------------------------------------------
(* Reference counts.                                                       *)

(* Counting x holders down by d in a byte: with no more than RefMod of them *)
(* the count passes 0 when the last one lets go, and only then.             *)
LEMMA CountDown ==
  ASSUME NEW n \in Nat \ {0}, NEW x \in 0..n, NEW d \in 0..x
  PROVE  /\ ((x % n) - d) % n = (x - d) % n
         /\ d > 0 => (((x % n) - d) % n = 0 <=> d = x)
  <1>1. CASE x < n
    <2>1. x % n = x  BY <1>1
    <2>2. x - d \in 0..(n - 1)  BY <1>1
    <2> QED  BY <2>1, <2>2
  <1>2. CASE x = n
    <2>1. x % n = 0  BY <1>2
    <2>2. CASE d = 0  BY <2>1, <2>2
    <2>3. CASE d = n
      <3>1. (0 - d) % n = 0  BY <2>3
      <3> QED  BY <1>2, <2>1, <2>3, <3>1
    <2>4. CASE d \in 1..(n - 1)
      <3>1. (0 - d) % n = n - d  BY <2>4
      <3>2. (x - d) % n = n - d  BY <1>2, <2>4
      <3> QED  BY <1>2, <2>1, <2>4, <3>1, <3>2
    <2> QED  BY <1>2, <2>2, <2>3, <2>4
  <1> QED  BY <1>1, <1>2

LEMMA CountOne ==
  ASSUME NEW n \in Nat \ {0}, NEW x \in 1..n
  PROVE  /\ ((x % n) - 1) % n = (x - 1) % n
         /\ ((x % n) - 1) % n = 0 <=> x = 1
  <1>1. CASE x < n
    <2>1. x % n = x /\ x - 1 \in 0..(n - 1)  BY <1>1
    <2> QED  BY <2>1
  <1>2. CASE x = n
    <2>1. x % n = 0  BY <1>2
    <2>2. CASE n = 1  BY <1>2, <2>1, <2>2
    <2>3. CASE n # 1
      <3>1. (0 - 1) % n = n - 1 /\ (x - 1) % n = n - 1  BY <1>2, <2>3
      <3> QED  BY <1>2, <2>1, <2>3, <3>1
    <2> QED  BY <2>2, <2>3
  <1> QED  BY <1>1, <1>2

(* Finitely many pins hold a buffer.                                       *)
LEMMA HoldersFinite ==
  ASSUME PinTypeOK, NEW b
  PROVE  /\ IsFiniteSet(Holders(b)) /\ Cardinality(Holders(b)) \in Nat
         /\ Cardinality(Holders(b)) <= Cardinality(Conns)
         /\ Cardinality(Holders(b)) = 0 <=> Holders(b) = {}
  <1>1. Holders(b) \in SUBSET Conns  BY DEF Holders, PinTypeOK
  <1>2. IsFiniteSet(Conns)  BY PinListAssumption
  <1> QED  BY <1>1, <1>2, Cards, FS_Subset, FS_EmptySet

(* An entry of sample num is queued only in the place its number says, so   *)
(* no queue holds a buffer twice, and none one of a later sample.           *)
LEMMA QueuedByPlace ==
  ASSUME PinTypeOK, NEW k \in Nat, StreamAt(k), NEW c \in pins, NEW b
  PROVE  /\ Len(queue[c]) \in Nat /\ DOMAIN queue[c] = 1..Len(queue[c])
         /\ b \in Queued(c) <=> \E i \in 1..Len(queue[c]) :
                                  b = <<k - Len(queue[c]) + i - 1, port[c]>>
  <1>1. c \in Conns /\ queue[c] \in Seq(Entries)  BY DEF PinTypeOK
  <1>2. \A i \in DOMAIN queue[c] :
          BufferOf(queue[c][i]) = <<k - Len(queue[c]) + i - 1, port[c]>>
    BY DEF StreamAt, QueueContinues, BufferOf
  <1>3. b \in Queued(c) <=> \E i \in DOMAIN queue[c] : b = BufferOf(queue[c][i])
    BY DEF Queued
  <1>4. DOMAIN queue[c] = 1..Len(queue[c]) /\ Len(queue[c]) \in Nat  BY <1>1
  <1> QED  BY <1>2, <1>3, <1>4

(* The count is exact where the holders and the bytes stay as they are.     *)
LEMMA RefFrame ==
  ASSUME RefExact, UNCHANGED <<refs, live>>,
         \A b \in Buffers : Holders(b)' = Holders(b)
  PROVE  RefExact'
  BY DEF RefExact

LEMMA RefWait ==
  ASSUME PinTypeOK, NEW k \in Nat, StreamAt(k), RefExact,
         NEW S \in SUBSET pins, NEW A \in SUBSET backlog, NEW in \in BOOLEAN,
         WaitStep(S, A, in, k)
  PROVE  RefExact'
  <1>1. pins' = pins \cup A /\ UNCHANGED <<queue, refs, live>>  BY DEF WaitStep
  <1>2. \A c \in A : Queued(c) = {}  BY DEF StreamAt, AcceptInv, PinTypeOK, Queued
  <1>3. \A b \in Buffers : Holders(b)' = Holders(b)
    BY <1>1, <1>2 DEF Holders, Queued
  <1> QED  BY <1>1, <1>3, RefFrame

LEMMA RefWrite ==
  ASSUME PinTypeOK, NEW k \in Numbers, StreamAt(k), RefExact, WriteSamples(k),
         UNCHANGED <<pins, flags, port>>
  PROVE  RefExact'
  <1> k \in Nat  BY PinListAssumption DEF Numbers
  <1>1. ASSUME NEW c \in pins
        PROVE  Queued(c)' = Queued(c) \cup {<<k, port[c]>>}
    <2> DEFINE q == queue[c]
               e == [num |-> k, ch |-> port[c], written |-> 0]
    <2>1. q \in Seq(Entries) /\ Len(q) \in Nat  BY DEF PinTypeOK
    <2>2. queue'[c] = Append(q, e)  BY WriteAppends DEF StreamAt
    <2>3. /\ DOMAIN queue'[c] = DOMAIN q \cup {Len(q) + 1}
          /\ \A i \in DOMAIN q : queue'[c][i] = q[i]
          /\ queue'[c][Len(q) + 1] = e
      BY <2>1, <2>2
    <2>4. BufferOf(e) = <<k, port[c]>>  BY DEF BufferOf
    <2> HIDE DEF e
    <2> QED  BY <2>3, <2>4 DEF Queued, BufferOf
  <1>2. \A c \in pins : \A r \in Ports : <<k, r>> \notin Queued(c)
    <2> SUFFICES ASSUME NEW c \in pins, NEW r \in Ports PROVE <<k, r>> \notin Queued(c)
      OBVIOUS
    <2>1. /\ Len(queue[c]) \in Nat
          /\ <<k, r>> \in Queued(c) <=> \E i \in 1..Len(queue[c]) :
                                         <<k, r>> = <<k - Len(queue[c]) + i - 1, port[c]>>
      BY QueuedByPlace
    <2>2. \A i \in 1..Len(queue[c]) : k # k - Len(queue[c]) + i - 1
      <3> DEFINE l == Len(queue[c])
      <3>1. l \in Nat  BY <2>1
      <3> HIDE DEF l
      <3>2. \A i \in 1..l : k # k - l + i - 1  BY <3>1
      <3> QED  BY <3>2 DEF l
    <2> QED  BY <2>1, <2>2
  <1>3. ASSUME NEW b \in Buffers, b[1] # k
        PROVE  /\ Holders(b)' = Holders(b)
               /\ refs'[b] = refs[b]
               /\ b \in live' <=> b \in live
    BY <1>1, <1>3 DEF Holders, WriteSamples
  <1>4. ASSUME NEW b \in Buffers, b[1] = k
        PROVE  /\ Holders(b)' = Targets(b[2])
               /\ refs'[b] = Cardinality(Targets(b[2])) % RefMod
               /\ b \in live' <=> Targets(b[2]) # {}
    <2>1. b[2] \in Ports /\ b = <<k, b[2]>>  BY <1>4 DEF Buffers
    <2>2. ASSUME NEW c \in pins
          PROVE  b \in Queued(c)' <=> Matches(c, b[2])
      <3>1. b \notin Queued(c)  BY <1>2, <2>1
      <3>2. flags[c] = port[c] /\ port[c] \in Ports
        BY DEF StreamAt, AcceptInv, PinTypeOK
      <3>3. Matches(c, b[2]) <=> b[2] = port[c]
        BY <2>1, <3>2, PinListAssumption DEF Matches
      <3> QED  BY <1>1, <2>1, <3>1, <3>3
    <2>3. Holders(b)' = Targets(b[2])  BY <2>2 DEF Holders, Targets
    <2>4. Holders(b) = {}  BY <1>2, <2>1 DEF Holders
    <2> QED  BY <1>4, <2>3, <2>4 DEF WriteSamples, RefExact
  <1> QED
    BY <1>3, <1>4 DEF RefExact

LEMMA RefDestroy ==
  ASSUME PinTypeOK, AcceptInv, RefExact, Cardinality(Conns) <= RefMod,
         NEW P \in SUBSET Conns, DestroyPins(P)
  PROVE  RefExact'
  <1> SUFFICES ASSUME NEW b \in Buffers
               PROVE  /\ refs'[b] = Cardinality(Holders(b)') % RefMod
                      /\ b \in live' <=> Holders(b)' # {}
    BY DEF RefExact
  <1> DEFINE H == Holders(b)
             G == {c \in P : b \in Queued(c)}
             x == Cardinality(H)
             d == Cardinality(G)
  <1>1. Holders(b)' = H \ P
    <2>1. \A c \in pins \ P : Queued(c)' = Queued(c)
      BY DEF DestroyPins, Queued, PinTypeOK
    <2> QED  BY <2>1 DEF DestroyPins, Holders
  <1>2. G = H \cap P
    BY DEF AcceptInv, Holders, Queued, PinTypeOK
  <1>3. /\ x \in 0..RefMod /\ d \in 0..x
        /\ Cardinality(H \ P) = x - d
        /\ x - d = 0 <=> H \ P = {}
        /\ x = 0 <=> H = {}
    <2>1. /\ IsFiniteSet(H) /\ x \in Nat /\ x <= Cardinality(Conns)
          /\ x = 0 <=> H = {}
      BY HoldersFinite
    <2>2. H \ P = H \ G /\ H \cap G = G /\ G \subseteq H  BY <1>2
    <2>3. Cardinality(H \ P) = x - d
      <3> HIDE DEF H, G
      <3>1. Cardinality(H \ P) = Cardinality(H) - Cardinality(H \cap P)
        BY <2>1, FS_Difference
      <3> QED  BY <1>2, <3>1
    <2>4. d \in Nat /\ d <= x
      BY <2>1, <2>2, FS_Subset, FS_CardinalityType
    <2>5. IsFiniteSet(H \ P) /\ (Cardinality(H \ P) = 0 <=> H \ P = {})
      BY <2>1, FS_Difference, FS_EmptySet
    <2>6. Cardinality(Conns) \in Nat /\ RefMod \in Nat
      BY Cards, PinListAssumption
    <2> HIDE DEF x, d
    <2> QED  BY <2>1, <2>3, <2>4, <2>5, <2>6
  <1>4. refs[b] = x % RefMod /\ (b \in live <=> H # {})  BY DEF RefExact
  <1>5. /\ refs'[b] = (refs[b] - d) % RefMod
        /\ b \in live' <=> b \in live /\ \A k \in 1..d : (refs[b] - k) % RefMod # 0
    BY DEF DestroyPins, Drops
  <1> HIDE DEF x, d, H, G
  <1>6. /\ (refs[b] - d) % RefMod = (x - d) % RefMod
        /\ \A k \in 1..d : (refs[b] - k) % RefMod = 0 <=> k = x
    <2>1. RefMod \in Nat \ {0}  BY PinListAssumption
    <2>2. (refs[b] - d) % RefMod = (x - d) % RefMod
      BY <1>3, <1>4, <2>1, CountDown
    <2>3. ASSUME NEW k \in 1..d
          PROVE  (refs[b] - k) % RefMod = 0 <=> k = x
      <3>1. k \in 0..x /\ k > 0  BY <1>3
      <3> QED  BY <1>3, <1>4, <2>1, <3>1, CountDown
    <2> QED  BY <2>2, <2>3
  <1>7. b \in live' <=> H \ P # {}
    <2>1. CASE d = x
      <3>1. x > 0 => x \in 1..d  BY <1>3, <2>1
      <3> QED  BY <1>3, <1>4, <1>5, <1>6, <2>1, <3>1
    <2>2. CASE d # x
      <3>1. \A k \in 1..d : k # x  BY <1>3, <2>2
      <3>2. x - d # 0 /\ x # 0  BY <1>3, <2>2
      <3> QED  BY <1>3, <1>4, <1>5, <1>6, <3>1, <3>2
    <2> QED  BY <2>1, <2>2
  <1> QED  BY <1>1, <1>3, <1>5, <1>6, <1>7

LEMMA RefSend ==
  ASSUME PinTypeOK, NEW k \in Nat, StreamAt(k), RefExact, Cardinality(Conns) <= RefMod,
         NEW c \in Conns, DeliverSend(c)
  PROVE  RefExact'
  <1> DEFINE q == queue[c]
             b == BufferOf(q[1])
  <1>1. /\ c \in pins /\ UNCHANGED pins
        /\ q \in Seq(Entries) /\ q # <<>> /\ Len(q) \in Nat \ {0}
        /\ DOMAIN q = 1..Len(q) /\ Head(q) = q[1]
    BY EmptySeq DEF DeliverSend, StreamAt, AcceptInv, PinTypeOK
  <1>2. PICK n \in 1..SampleUnits :
          WireGrows(c, n) /\ (HeadLeaves(c, n) \/ HeadAdvances(c, n))
    BY SendEffect
  <1>3. /\ queue' \in [Conns -> Seq(Entries)]
        /\ \A d \in Conns \ {c} : queue'[d] = queue[d]
    BY SendEffect
  <1>4. \A d \in pins \ {c} : Queued(d)' = Queued(d)
    BY <1>3 DEF Queued, PinTypeOK
  <1>5. CASE HeadAdvances(c, n)
    <2>1. /\ DOMAIN queue'[c] = DOMAIN q
          /\ \A i \in DOMAIN q : BufferOf(queue'[c][i]) = BufferOf(q[i])
      <3>1. /\ queue'[c] \in Seq(Entries) /\ Len(queue'[c]) = Len(q)
            /\ queue'[c][1] = [q[1] EXCEPT !.written = @ + n]
            /\ \A i \in 2..Len(q) : queue'[c][i] = q[i]
            /\ q[1] \in Entries
        BY <1>2, <1>3, <1>5 DEF HeadAdvances, WireGrows
      <3>2. queue'[c][1].num = q[1].num /\ queue'[c][1].ch = q[1].ch
        BY <3>1 DEF Entries
      <3>3. \A i \in DOMAIN q : i = 1 \/ i \in 2..Len(q)
        <4> HIDE DEF q
        <4> QED  BY <1>1
      <3>4. DOMAIN queue'[c] = DOMAIN q  BY <1>1, <3>1
      <3>5. \A i \in DOMAIN q : queue'[c][i].num = q[i].num /\ queue'[c][i].ch = q[i].ch
        <4> HIDE DEF q
        <4> QED  BY <3>1, <3>2, <3>3
      <3> QED  BY <3>4, <3>5 DEF BufferOf
    <2>2. Queued(c)' = Queued(c)  BY <2>1 DEF Queued
    <2>3. \A d \in Buffers : Holders(d)' = Holders(d)
      BY <1>1, <1>4, <2>2 DEF Holders
    <2>4. UNCHANGED <<refs, live>>  BY <1>5 DEF HeadAdvances, SendPart
    <2> QED  BY <2>3, <2>4, RefFrame
  <1>6. CASE HeadLeaves(c, n)
    <2>1. /\ DOMAIN queue'[c] = 1..(Len(q) - 1)
          /\ \A i \in 1..(Len(q) - 1) : queue'[c][i] = q[i + 1]
      BY <1>2, <1>3, <1>6 DEF HeadLeaves
    <2>2. b \in Queued(c)  BY <1>1 DEF Queued
    <2>3. Queued(c)' = Queued(c) \ {b}
      <3> DEFINE Place(i) == <<k - Len(q) + i - 1, port[c]>>
      <3>1. \A i \in 1..Len(q) : BufferOf(q[i]) = Place(i)
        BY <1>1 DEF StreamAt, QueueContinues, BufferOf
      <3>2. \A i, j \in 1..Len(q) : Place(i) = Place(j) => i = j
        <4> HIDE DEF q
        <4> QED  BY <1>1
      <3>3. /\ \A i \in 1..(Len(q) - 1) : i + 1 \in 1..Len(q) /\ i + 1 # 1
            /\ \A i \in 1..Len(q) : i # 1 => i - 1 \in 1..(Len(q) - 1) /\ (i - 1) + 1 = i
            /\ 1 \in 1..Len(q)
        <4> HIDE DEF q
        <4> QED  BY <1>1
      <3>4. Queued(c)' = {BufferOf(queue'[c][i]) : i \in 1..(Len(q) - 1)}
        BY <2>1 DEF Queued
      <3>5. \A i \in 1..(Len(q) - 1) : BufferOf(queue'[c][i]) = BufferOf(q[i + 1])
        BY <2>1
      <3>6. Queued(c) = {BufferOf(q[i]) : i \in 1..Len(q)}
        BY <1>1 DEF Queued
      <3> HIDE DEF q, Place
      <3>7. ASSUME NEW i \in 1..(Len(q) - 1)
            PROVE  BufferOf(queue'[c][i]) \in Queued(c) \ {b}
        BY <3>1, <3>2, <3>3, <3>5, <3>6
      <3>8. ASSUME NEW i \in 1..Len(q), BufferOf(q[i]) # b
            PROVE  BufferOf(q[i]) \in Queued(c)'
        BY <3>3, <3>4, <3>5, <3>8
      <3> QED  BY <3>4, <3>6, <3>7, <3>8
    <2>4. \A d \in Buffers : Holders(d)' = IF d = b THEN Holders(d) \ {c} ELSE Holders(d)
      BY <1>1, <1>4, <2>3 DEF Holders
    <2>5. /\ b \in Buffers /\ c \in Holders(b)
          /\ refs' = [refs EXCEPT ![b] = (refs[b] - 1) % RefMod]
          /\ live' = IF refs'[b] = 0 THEN live \ {b} ELSE live
      <3>1. b \in Buffers
        BY <1>2 DEF WireGrows, Entries, BufferOf, Buffers
      <3>2. SendWhole(c)  BY <1>6 DEF HeadLeaves
      <3> QED  BY <1>1, <2>2, <3>1, <3>2 DEF Holders, SendWhole
    <2> DEFINE x == Cardinality(Holders(b))
    <2>6. /\ x \in 1..RefMod
          /\ Cardinality(Holders(b) \ {c}) = x - 1
          /\ x = 1 <=> Holders(b) \ {c} = {}
      <3>1. /\ IsFiniteSet(Holders(b)) /\ x \in Nat /\ x <= Cardinality(Conns)
            /\ x = 0 <=> Holders(b) = {}
        BY HoldersFinite
      <3>2. /\ IsFiniteSet(Holders(b) \ {c})
            /\ Cardinality(Holders(b) \ {c}) = x - 1
        BY <2>5, <3>1, FS_RemoveElement
      <3>3. Cardinality(Holders(b) \ {c}) = 0 <=> Holders(b) \ {c} = {}
        BY <3>2, FS_EmptySet
      <3>4. Cardinality(Conns) \in Nat /\ RefMod \in Nat
        BY Cards, PinListAssumption
      <3> HIDE DEF x
      <3> QED  BY <2>5, <3>1, <3>2, <3>3, <3>4
    <2>7. refs[b] = x % RefMod /\ b \in live
      BY <2>5, <2>6 DEF RefExact
    <2> HIDE DEF x, b
    <2>8. /\ (refs[b] - 1) % RefMod = (x - 1) % RefMod
          /\ (refs[b] - 1) % RefMod = 0 <=> x = 1
      <3>1. RefMod \in Nat \ {0}  BY PinListAssumption
      <3> QED  BY <2>6, <2>7, <3>1, CountOne
    <2>9. refs'[b] = (refs[b] - 1) % RefMod /\ \A d \in Buffers \ {b} : refs'[d] = refs[d]
      BY <2>5 DEF PinTypeOK
    <2>10. ASSUME NEW d \in Buffers
           PROVE  /\ refs'[d] = Cardinality(Holders(d)') % RefMod
                  /\ d \in live' <=> Holders(d)' # {}
      <3>1. CASE d = b
        BY <2>4, <2>5, <2>6, <2>7, <2>8, <2>9, <3>1
      <3>2. CASE d # b
        <4>1. Holders(d)' = Holders(d) /\ refs'[d] = refs[d] /\ (d \in live' <=> d \in live)
          BY <2>4, <2>5, <2>9, <3>2
        <4> QED  BY <4>1 DEF RefExact
      <3> QED  BY <3>1, <3>2
    <2> QED  BY <2>10 DEF RefExact
  <1> QED  BY <1>2, <1>5, <1>6

LEMMA RefInit == PinInit => RefExact
  <1> SUFFICES ASSUME PinInit PROVE RefExact  OBVIOUS
  <1>1. \A b : Holders(b) = {}  BY DEF PinInit, Holders
  <1>2. 0 % RefMod = 0  BY PinListAssumption
  <1> QED  BY <1>1, <1>2, FS_EmptySet DEF PinInit, RefExact

LEMMA RefStep ==
  ASSUME PinTypeOK, NEW k \in 0..MaxSamples, StreamAt(k), RefExact,
         Cardinality(Conns) <= RefMod, NEW m, PinStep(k, m)
  PROVE  RefExact'
  <1> k \in Nat  BY PinListAssumption
  <1>frame. ASSUME UNCHANGED <<pins, queue, refs, live>> PROVE RefExact'
    BY <1>frame, RefFrame DEF Holders, Queued
  <1>1. CASE Reads(k, m)   BY <1>1, <1>frame DEF Reads
  <1>2. CASE Waits(k, m)   BY <1>2, RefWait DEF Waits
  <1>3. CASE Writes(k, m)  BY <1>3, RefWrite DEF Writes
  <1>4. CASE Destroys(k, m)
    BY <1>4, RefDestroy DEF Destroys, StreamAt
  <1>5. CASE Serves(k, m)
    <2>1. PICK c \in Conns :
            DeliverPop(c) \/ DeliverSend(c) \/ DeliverAgain(c) \/ DeliverDone(c)
      BY <1>5 DEF Serves
    <2>2. CASE DeliverSend(c)  BY <2>2, RefSend
    <2>3. CASE DeliverPop(c) \/ DeliverAgain(c) \/ DeliverDone(c)
      BY <2>3, <1>frame DEF DeliverPop, DeliverAgain, DeliverDone
    <2> QED  BY <2>1, <2>2, <2>3
  <1>6. CASE ClientActs(k, m)
    BY <1>6, <1>frame DEF ClientActs, Connect, Drain, Close, listVars
  <1> QED  BY <1>1, <1>2, <1>3, <1>4, <1>5, <1>6 DEF PinStep

-----------------------------------------------------------------------------
(* The end of file of a client.                                            *)

(* ClosedClientWakes, pin by pin and with its definitions expanded.         *)
ClosedWakes(c) == peer[c] = "closed" => c \in readList \/ mode[c] = "in" \/ edge[c]

LEMMA ClosedByPin == ClosedClientWakes <=> \A c \in pins : ClosedWakes(c)
  BY DEF ClosedClientWakes, ClosedWakes, ConnReady, InReady, Closed

LEMMA ClosedStep ==
  ASSUME PinTypeOK, AcceptInv, ClosedClientWakes, NEW k, NEW m, PinStep(k, m)
  PROVE  \A c \in pins' : ClosedWakes(c)'
  <1> USE PinListAssumption
  <1>1. \A c \in pins : ClosedWakes(c) /\ c \in Conns /\ c # Input
    BY ClosedByPin DEF PinTypeOK
  <1>2. CASE Reads(k, m)
    BY <1>1, <1>2 DEF Reads, TakesInput, kernelVars, ClosedWakes
  <1>3. CASE Waits(k, m)
    <2>1. PICK S \in SUBSET pins, A \in SUBSET backlog, in \in BOOLEAN : WaitStep(S, A, in, k)
      BY <1>3 DEF Waits
    <2>2. ASSUME NEW c \in A PROVE ClosedWakes(c)'
      <3>1. mode'[c] = "in"  BY <2>1 DEF WaitStep, PinTypeOK
      <3> QED  BY <3>1 DEF ClosedWakes
    <2>3. ASSUME NEW c \in pins, c \notin A PROVE ClosedWakes(c)'
      <3>1. /\ mode'[c] = mode[c] /\ peer' = peer
            /\ edge'[c] = (edge[c] /\ c \notin S)
            /\ c \in readList' <=> c \in readList \/ (c \in S /\ peer[c] = "closed")
        BY <1>1, <2>1, <2>3 DEF WaitStep, ForRead, InReady, Closed
      <3> QED  BY <1>1, <3>1 DEF ClosedWakes
    <2>4. pins' = pins \cup A  BY <2>1 DEF WaitStep
    <2> QED  BY <2>2, <2>3, <2>4
  <1>4. CASE Writes(k, m)
    <2>1. ASSUME NEW c \in pins PROVE ClosedWakes(c)'
      <3>1. flags[c] \in Ports  BY <1>1 DEF AcceptInv, PinTypeOK
      <3>2. c \in UNION {Targets(r) : r \in Ports}
        BY <3>1 DEF Targets, Matches
      <3>3. peer[c] = "closed" => edge'[c]
        BY <1>1, <1>4, <3>2 DEF Writes, WriteSamples, EpollMod, InReady, Closed
      <3> QED  BY <1>4, <3>3 DEF Writes, ClosedWakes
    <2> QED  BY <1>4, <2>1 DEF Writes
  <1>5. CASE Destroys(k, m)
    <2>1. PICK P \in SUBSET Conns :
            DestroyPins(P) /\ readList' \in {readList, readList \ P}
      BY <1>5 DEF Destroys
    <2> QED  BY <1>1, <1>5, <2>1 DEF Destroys, DestroyPins, kernelVars, ClosedWakes
  <1>6. CASE Serves(k, m)
    <2>1. PICK c \in Conns :
            DeliverPop(c) \/ DeliverSend(c) \/ DeliverAgain(c) \/ DeliverDone(c)
      BY <1>6 DEF Serves
    <2>2. CASE DeliverDone(c)
      <3>1. /\ UNCHANGED <<pins, readList, peer>>
            /\ \A d \in Conns : /\ d # c => mode'[d] = mode[d]
                                /\ edge'[d] = (edge[d] \/ (d = c /\ peer[c] = "closed"))
        BY <2>2 DEF DeliverDone, EpollMod, InReady, Closed
      <3> QED  BY <1>1, <3>1 DEF ClosedWakes
    <2>3. CASE DeliverPop(c) \/ DeliverSend(c) \/ DeliverAgain(c)
      <3>1. UNCHANGED <<pins, readList, mode, peer, edge>>
        BY <2>3 DEF DeliverPop, DeliverSend, DeliverAgain, kernelVars
      <3> QED  BY <1>1, <3>1 DEF ClosedWakes
    <2> QED  BY <2>1, <2>2, <2>3
  <1>7. CASE ClientActs(k, m)
    <2>1. PICK c \in Conns : Connect(c) \/ Drain(c) \/ Close(c)
      BY <1>7 DEF ClientActs
    <2>2. UNCHANGED <<pins, mode, readList>>
      BY <2>1 DEF Connect, Drain, Close, listVars
    <2>3. ASSUME NEW d \in pins
          PROVE  /\ edge[d] => edge'[d]
                 /\ peer'[d] = "closed" => peer[d] = "closed" \/ edge'[d]
      BY <1>1, <2>1 DEF Connect, Drain, Close, PinTypeOK
    <2> QED  BY <1>1, <2>2, <2>3 DEF ClosedWakes
  <1> QED  BY <1>2, <1>3, <1>4, <1>5, <1>6, <1>7 DEF PinStep

-----------------------------------------------------------------------------
(* The event lists' room.                                                  *)

(* One epoll_wait reports at most as many pins as the lists have room for.  *)
LEMMA ReportFits ==
  ASSUME PinTypeOK, NEW S \in SUBSET pins, NEW A \in SUBSET backlog, NEW in \in BOOLEAN,
         NEW ready, Reported(S, A, in, ready),
         readList = {}, writeList = {}, NEW k, WaitStep(S, A, in, k)
  PROVE  ListsFit'
  <1> USE PinListAssumption
  <1>1. /\ IsFiniteSet(S) /\ Cardinality(S) \in Nat
        /\ IsFiniteSet(A) /\ Cardinality(A) \in Nat
    <2>1. S \in SUBSET Conns /\ A \in SUBSET Conns  BY DEF PinTypeOK
    <2> QED  BY <2>1, Cards
  <1>2. Cardinality(S) + (IF in THEN 1 ELSE 0) <= EventsCount
    <2>1. PICK t \in Nat :
            Cardinality(S) + Cardinality(A) + (IF in THEN 1 ELSE 0) = Returned(t)
      <3> DEFINE up == {c \in pins : ConnReady(c)}
                 t == Cardinality(up) + Cardinality(Waiting) + (IF ready THEN 1 ELSE 0)
      <3>1. Cardinality(up) \in Nat
        <4>1. up \in SUBSET Conns  BY DEF PinTypeOK
        <4> QED  BY <4>1, Cards
      <3>2. Cardinality(Waiting) \in Nat
        <4>1. Waiting \subseteq Ports  BY DEF Waiting
        <4> QED  BY <4>1, FS_Subset, FS_CardinalityType
      <3>3. t \in Nat  BY <3>1, <3>2
      <3>4. Cardinality(S) + Cardinality(A) + (IF in THEN 1 ELSE 0) = Returned(t)
        BY DEF Reported
      <3> QED  BY <3>3, <3>4
    <2>2. Returned(t) <= EventsCount  BY <2>1 DEF Returned
    <2> QED  BY <1>1, <2>1, <2>2
  <1> DEFINE R == ForRead(S)
             I == IF in THEN {Input} ELSE {}
             W == {c \in S : OutReady(c)}
  <1>3. /\ IsFiniteSet(R) /\ Cardinality(R) \in Nat /\ Cardinality(R) <= Cardinality(S)
        /\ IsFiniteSet(W) /\ Cardinality(W) \in Nat /\ Cardinality(W) <= Cardinality(S)
    <2>1. R \subseteq S /\ W \subseteq S  BY DEF ForRead
    <2> QED  BY <1>1, <2>1, FS_Subset, FS_CardinalityType
  <1>4. IsFiniteSet(I) /\ Cardinality(I) = IF in THEN 1 ELSE 0
    BY FS_EmptySet, FS_Singleton
  <1>5. Cardinality(R \cup I) <= Cardinality(R) + Cardinality(I)
    <2>1. Cardinality(R \cup I)
            = Cardinality(R) + Cardinality(I) - Cardinality(R \cap I)
      BY <1>3, <1>4, FS_Union
    <2>2. Cardinality(R \cap I) \in Nat
      BY <1>3, FS_Intersection, FS_CardinalityType
    <2> HIDE DEF R, I
    <2>3. Cardinality(I) \in Nat  BY <1>4
    <2> QED  BY <1>3, <2>1, <2>2, <2>3
  <1>6. readList' = R \cup I /\ writeList' = W
    BY DEF WaitStep
  <1>7. Cardinality(R \cup I) <= EventsCount /\ Cardinality(W) <= EventsCount
    <2>1. IsFiniteSet(R \cup I) /\ Cardinality(R \cup I) \in Nat
      BY <1>3, <1>4, FS_Union, FS_CardinalityType
    <2> HIDE DEF R, I, W
    <2> QED  BY <1>1, <1>2, <1>3, <1>4, <1>5, <2>1
  <1> QED  BY <1>6, <1>7 DEF ListsFit

=============================================================================
