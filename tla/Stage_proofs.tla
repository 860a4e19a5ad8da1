----------------------------- MODULE Stage_proofs -----------------------------
(* Theorems about the main loop of split and fft, for any number of         *)
(* clients, any sizes and any number of samples.  A step of the loop, of    *)
(* the sender or of a client is a step of the pin list (StageIsPinStep), so *)
(* the lemmas of PinList_proofs apply.                                     *)
EXTENDS Stage, PinList_proofs

LEMMA TimesLess ==
  ASSUME NEW a \in Nat, NEW b \in Nat, NEW s \in Nat \ {0}, a * s + s <= b * s
  PROVE  a < b
  OBVIOUS

-----------------------------------------------------------------------------
(* Type correctness.                                                       *)

(* The sender sends at most MaxSamples samples.                            *)
InputBound == produced * SampleUnits + part + avail <= MaxSamples * SampleUnits

TypeInv == TypeOK /\ InputBound

LEMMA TypeInit == Init => TypeInv
  <1> SUFFICES ASSUME Init PROVE TypeInv  OBVIOUS
  <1> USE PinListAssumption
  <1>1. PinTypeOK  BY PinTypeInit DEF Init
  <1>2. TypeOK
    <2>1. 0 \in Offsets /\ 0 \in 0..MaxSamples  BY DEF Offsets
    <2> QED  BY <1>1, <2>1 DEF Init, TypeOK
  <1>3. InputBound
    BY DEF Init, InputBound
  <1> QED  BY <1>2, <1>3 DEF TypeInv

(* A complete sample is one of the MaxSamples.                             *)
LEMMA ReadBound ==
  ASSUME TypeInv, ReadSample
  PROVE  /\ produced \in Numbers /\ produced + 1 \in 0..MaxSamples
         /\ avail' \in Nat /\ part' \in Offsets
         /\ InputBound'
  <1>1. /\ produced \in Nat /\ part \in 0..(SampleUnits - 1) /\ avail \in Nat
        /\ SampleUnits \in Nat \ {0} /\ MaxSamples \in Nat
        /\ produced \in 0..MaxSamples
    BY PinListAssumption DEF TypeInv, TypeOK, Offsets
  <1>2. /\ produced * SampleUnits \in Nat /\ MaxSamples * SampleUnits \in Nat
        /\ part + avail >= SampleUnits
        /\ produced * SampleUnits + part + avail <= MaxSamples * SampleUnits
    BY <1>1 DEF TypeInv, InputBound, ReadSample
  <1>3. produced * SampleUnits + SampleUnits <= MaxSamples * SampleUnits
    BY <1>1, <1>2
  <1>4. produced \in Numbers /\ produced + 1 \in 0..MaxSamples
    BY <1>1, <1>3, TimesLess DEF Numbers
  <1>5. InputBound'
    <2>1. (produced + 1) * SampleUnits = produced * SampleUnits + SampleUnits
      BY <1>1, TimesSucc
    <2> QED  BY <1>1, <1>2, <2>1 DEF ReadSample, InputBound
  <1>6. avail' \in Nat /\ part' \in Offsets
    BY <1>1, <1>2 DEF ReadSample, Offsets
  <1> QED  BY <1>4, <1>5, <1>6

LEMMA StageIsPinStep ==
  ASSUME TypeInv, [Next]_vars, NEW k, k = produced, NEW m, m = produced'
  PROVE  PinStep(k, m)
  <1>0. ASSUME UNCHANGED <<pinVars, produced>> PROVE PinStep(k, m)
    BY <1>0 DEF pinVars, listVars, PinStep, Reads, TakesInput
  <1>1. CASE Wait
    BY <1>1 DEF Wait, inputVars, PinStep, Waits
  <1>2. CASE ReadInput
    <2>1. CASE ReadSample
      BY <1>2, <2>1, ReadBound DEF ReadInput, ReadSample, TakeRead, TakesInput, PinStep, Writes
    <2>2. CASE ReadPart
      BY <1>2, <2>2
      DEF ReadInput, ReadPart, TakeRead, TakesInput, kernelVars, PinStep, Reads
    <2> QED  BY <1>2, <2>1, <2>2 DEF ReadInput
  <1>3. ASSUME NEW c \in Conns, ReadClient(c) PROVE PinStep(k, m)
    BY <1>3, {c} \in SUBSET Conns
    DEF ReadClient, TakeRead, Disconnect, inputVars, PinStep, Destroys
  <1>4. ASSUME NEW c \in Conns, Serve(c) PROVE PinStep(k, m)
    BY <1>4 DEF Serve, inputVars, PinStep, Serves
  <1>5. ASSUME NEW c \in Conns, ServeFails(c) PROVE PinStep(k, m)
    BY <1>5, {c} \in SUBSET Conns
    DEF ServeFails, DeliverFail, Disconnect, inputVars, PinStep, Destroys
  <1>6. CASE Exit
    <2>1. pins \in SUBSET Conns  BY DEF TypeInv, TypeOK, PinTypeOK
    <2> QED  BY <1>6, <2>1 DEF Exit, inputVars, PinStep, Destroys
  <1>7. ASSUME NEW c \in Conns, Client(c), UNCHANGED <<pc, active, inputVars>>
        PROVE  PinStep(k, m)
    BY <1>7 DEF Client, inputVars, PinStep, ClientActs
  <1> QED
    BY <1>0, <1>1, <1>2, <1>3, <1>4, <1>5, <1>6, <1>7
    DEF Next, Loop, Sender, Clients, ReadDone, UseFreedPin, Delivered, Killed, Arrive,
        SenderCloses, inputVars, vars

LEMMA TypeStep == TypeInv /\ [Next]_vars => TypeInv'
  <1> SUFFICES ASSUME TypeInv, [Next]_vars PROVE TypeInv'  OBVIOUS
  <1> USE PinListAssumption
  <1>1. PinTypeOK'
    <2>1. PICK k \in 0..MaxSamples : k = produced  BY DEF TypeInv, TypeOK
    <2>2. PICK m : m = produced'  OBVIOUS
    <2>3. PinStep(k, m)  BY <2>1, <2>2, StageIsPinStep
    <2> QED  BY <2>1, <2>3, PinTypeStep DEF TypeInv, TypeOK
  <1>2. CASE ReadInput
    <2>1. CASE ReadSample
      BY <1>1, <1>2, <2>1, ReadBound DEF ReadInput, ReadSample, TypeInv, TypeOK
    <2>2. CASE ReadPart
      BY <1>1, <1>2, <2>2 DEF ReadInput, ReadPart, TypeInv, TypeOK, Offsets, InputBound
    <2> QED  BY <1>2, <2>1, <2>2 DEF ReadInput
  <1>3. CASE Arrive
    BY <1>1, <1>3 DEF Arrive, TypeInv, TypeOK, InputBound, Offsets
  <1>4. CASE SenderCloses
    BY <1>1, <1>4 DEF SenderCloses, TypeInv, TypeOK, InputBound
  <1>5. ASSUME UNCHANGED <<active, inputVars>>,
               pc' \in {"wait", "read", "deliver"} \cup Terminal
        PROVE  TypeInv'
    BY <1>1, <1>5 DEF inputVars, TypeInv, TypeOK, InputBound
  <1>6. CASE Loop /\ ~ReadInput
    <2>1. UNCHANGED <<active, inputVars>> /\ pc' \in {pc, "wait", "read", "deliver"} \cup Terminal
      BY <1>6
      DEF Loop, Wait, ReadDone, UseFreedPin, Delivered, Exit, ReadClient, Serve,
          ServeFails, Killed, Terminal
    <2> QED  BY <1>5, <2>1 DEF TypeInv, TypeOK
  <1>7. CASE Clients \/ UNCHANGED vars
    BY <1>5, <1>7 DEF Clients, vars, TypeInv, TypeOK
  <1> QED  BY <1>2, <1>3, <1>4, <1>6, <1>7 DEF Next, Sender

(* In every reachable state every variable has its type: queues hold        *)
(* entries of real samples, a head is never written to its end, the         *)
(* reference count stays in its byte, the input buffer below a sample.     *)
THEOREM TypeCorrect == Spec => []TypeOK
  <1>1. TypeInv => TypeOK  BY DEF TypeInv
  <1> QED  BY TypeInit, TypeStep, <1>1, PTL DEF Spec

-----------------------------------------------------------------------------
(* Stream integrity.                                                       *)

StreamInv == StreamAt(produced)

LEMMA StageStreamInit == Init => StreamInv
  <1> SUFFICES ASSUME Init PROVE StreamInv  OBVIOUS
  <1>1. StreamAt(0) /\ produced = 0  BY StreamInit DEF Init
  <1> QED  BY <1>1 DEF StreamInv

LEMMA StreamStep == TypeInv /\ StreamInv /\ [Next]_vars => StreamInv'
  <1> SUFFICES ASSUME TypeInv, StreamInv, [Next]_vars PROVE StreamInv'  OBVIOUS
  <1>1. PICK k \in 0..MaxSamples : k = produced  BY DEF TypeInv, TypeOK
  <1>2. PICK m : m = produced'  OBVIOUS
  <1>3. StreamAt(k)  BY <1>1 DEF StreamInv
  <1>4. PinStep(k, m)  BY <1>1, <1>2, StageIsPinStep
  <1>5. StreamAt(m)'  BY <1>1, <1>3, <1>4, StreamStepAt DEF TypeInv, TypeOK
  <1> QED  BY <1>2, <1>5 DEF StreamInv, StreamAt, QueueContinues

(* However sends are split, refused or fail, and whoever else comes and     *)
(* goes, each client is sent a contiguous run of its own port's stream.     *)
THEOREM StreamIntegrity == Spec => []WireIsStream
  <1>1. TypeInv /\ StreamInv => WireIsStream  BY DEF StreamInv, StreamAt
  <1>2. Init => TypeInv /\ StreamInv  BY TypeInit, StageStreamInit
  <1>3. (TypeInv /\ StreamInv) /\ [Next]_vars => (TypeInv /\ StreamInv)'
    BY TypeStep, StreamStep
  <1> QED  BY <1>1, <1>2, <1>3, PTL DEF Spec

(* What a connected client has not been sent yet, up to the newest sample,  *)
(* is exactly what its pin still has queued.                               *)
THEOREM NothingLost == Spec => []QueueContinuesWire
  <1>1. TypeInv /\ StreamInv => QueueContinuesWire
    BY DEF StreamInv, StreamAt, QueueContinuesWire
  <1>2. Init => TypeInv /\ StreamInv  BY TypeInit, StageStreamInit
  <1>3. (TypeInv /\ StreamInv) /\ [Next]_vars => (TypeInv /\ StreamInv)'
    BY TypeStep, StreamStep
  <1> QED  BY <1>1, <1>2, <1>3, PTL DEF Spec

-----------------------------------------------------------------------------
(* Reference counts.                                                       *)

RefInv == TypeInv /\ StreamInv /\ RefExact

(* With no more clients than the byte of the reference count has values,    *)
(* it counts the holders of the buffer, and the buffer is freed when the   *)
(* last one lets go: in pin_list_deliver, pin_disconnect or                *)
(* pin_list_destroy, in any order.  (The run stage is at the limit.)        *)
THEOREM RefCountsExact ==
  ASSUME Cardinality(Conns) <= RefMod
  PROVE  Spec => []RefExact
  <1>1. Init => RefInv  BY TypeInit, StageStreamInit, RefInit DEF RefInv, Init
  <1>2. RefInv /\ [Next]_vars => RefInv'
    <2> SUFFICES ASSUME RefInv, [Next]_vars PROVE RefInv'  OBVIOUS
    <2>1. TypeInv' /\ StreamInv'  BY TypeStep, StreamStep DEF RefInv
    <2>2. PICK k \in 0..MaxSamples : k = produced  BY DEF RefInv, TypeInv, TypeOK
    <2>3. PICK m : m = produced'  OBVIOUS
    <2>4. StreamAt(k)  BY <2>2 DEF RefInv, StreamInv
    <2>5. PinStep(k, m)  BY <2>2, <2>3, StageIsPinStep DEF RefInv
    <2>6. RefExact'
      BY <2>2, <2>4, <2>5, RefStep DEF RefInv, TypeInv, TypeOK
    <2> QED  BY <2>1, <2>6 DEF RefInv
  <1>3. RefInv => RefExact  BY DEF RefInv
  <1> QED  BY <1>1, <1>2, <1>3, PTL DEF Spec

-----------------------------------------------------------------------------
(* No event is lost.                                                       *)

(* A pin is served only inside pin_list_deliver, which starts when the read *)
(* list has been emptied.                                                  *)
LoopInv ==
  /\ pc \in {"wait", "read"} => cur = Input
  /\ pc \in {"wait", "deliver", "killed", "exit"} => readList = {}

WakeInv == LoopInv /\ ServedPinsLive /\ PendingDataWakes /\ ClosedClientWakes

(* PendingDataWakes, pin by pin and with its definitions expanded.          *)
PendingWakes(c) ==
  queue[c] # <<>> =>
    /\ mode[c] = "inoutET"
    /\ c \in writeList \/ cur = c \/ edge[c] \/ (Free(c) <= 0 /\ peer[c] # "closed")

Pinwise ==
  /\ PendingDataWakes <=> \A c \in pins : PendingWakes(c)
  /\ ClosedClientWakes <=> \A c \in pins : ClosedWakes(c)

LEMMA WakesByPin == TypeOK => Pinwise
  <1> SUFFICES ASSUME TypeOK PROVE Pinwise  OBVIOUS
  <1>1. \A c \in pins : Free(c) \in Int
    BY PinListAssumption, LenProperties DEF Free, TypeOK, PinTypeOK
  <1>2. PendingDataWakes <=> \A c \in pins : PendingWakes(c)
    BY <1>1 DEF PendingDataWakes, PendingWakes, Writable, Closed
  <1>3. ClosedClientWakes <=> \A c \in pins : ClosedWakes(c)
    BY ClosedByPin
  <1> QED  BY <1>2, <1>3 DEF Pinwise

LEMMA WakeInit == Init => WakeInv
  BY DEF Init, PinInit, WakeInv, LoopInv, ServedPinsLive, PendingDataWakes,
         ClosedClientWakes

(* It is enough that a step keeps the loop's part and every pin awake.      *)
LEMMA WakeStep == TypeInv /\ StreamInv /\ WakeInv /\ [Next]_vars => WakeInv'
  <1> SUFFICES ASSUME TypeInv, StreamInv, WakeInv, [Next]_vars PROVE WakeInv'  OBVIOUS
  <1> USE PinListAssumption
  <1>1. TypeOK /\ TypeOK'  BY TypeStep DEF TypeInv
  <1>2. /\ LoopInv /\ readList \cup {cur} \subseteq pins \cup {Input}
        /\ \A c \in pins : PendingWakes(c) /\ ClosedWakes(c)
    BY <1>1, WakesByPin DEF WakeInv, ServedPinsLive, Pinwise
  <1> DEFINE Goal == /\ LoopInv' /\ (readList \cup {cur} \subseteq pins \cup {Input})'
                     /\ \A c \in pins' : PendingWakes(c)' /\ ClosedWakes(c)'
  <1>3. SUFFICES Goal
    <2>1. TypeOK' => Pinwise'  BY WakesByPin, PTL
    <2> QED  BY <1>1, <2>1 DEF WakeInv, ServedPinsLive, Pinwise
  <1>4. CASE UNCHANGED vars
    BY <1>2, <1>4 DEF vars, pinVars, listVars, kernelVars, LoopInv, PendingWakes,
                      ClosedWakes, Free
  <1>5. ASSUME NEW P \in SUBSET Conns, DestroyPins(P), cur \notin P \/ cur' = Input,
               cur' \in {cur, Input}, LoopInv', readList' = readList \ P,
               \A d \in Conns \ P : cur' = d <=> cur = d,
               UNCHANGED <<mode, writeList, kernelVars>>
        PROVE  Goal
    <2>1. /\ pins' = pins \ P
          /\ \A c \in pins' : queue'[c] = queue[c]
      BY <1>1, <1>5 DEF DestroyPins, TypeOK, PinTypeOK
    <2>2. ASSUME NEW c \in pins' PROVE PendingWakes(c)' /\ ClosedWakes(c)'
      <3>1. c \in Conns \ P /\ c \in pins  BY <1>1, <2>1 DEF TypeOK, PinTypeOK
      <3>2. PendingWakes(c) /\ ClosedWakes(c)  BY <1>2, <3>1
      <3>3. /\ UNCHANGED <<mode, writeList, peer, edge, wire, drained>>
            /\ queue'[c] = queue[c]
            /\ c \in readList' <=> c \in readList
            /\ cur' = c <=> cur = c
        <4>1. UNCHANGED <<mode, writeList, peer, edge, wire, drained>>
          BY <1>5 DEF kernelVars
        <4>2. c \in readList' <=> c \in readList  BY <1>5, <3>1
        <4>3. cur' = c <=> cur = c  BY <1>5, <3>1
        <4> QED  BY <2>1, <4>1, <4>2, <4>3
      <3>4. PendingWakes(c)'  BY <3>2, <3>3 DEF PendingWakes, Free
      <3>5. ClosedWakes(c)'  BY <3>2, <3>3 DEF ClosedWakes
      <3> QED  BY <3>4, <3>5
    <2>3. (readList \cup {cur} \subseteq pins \cup {Input})'
      BY <1>2, <1>5, <2>1
    <2> QED  BY <1>5, <2>2, <2>3
  <1>6. ASSUME UNCHANGED <<listVars, kernelVars>>, LoopInv'
        PROVE  Goal
    BY <1>2, <1>6 DEF listVars, kernelVars, PendingWakes, ClosedWakes, Free
  <1>7. CASE Wait
    <2>1. PICK S \in SUBSET pins, A \in SUBSET backlog, in \in BOOLEAN :
            WaitStep(S, A, in, produced)
      BY <1>7 DEF Wait
    <2>2. LoopInv'
      BY <1>2, <1>7, <2>1 DEF LoopInv, Wait, WaitStep
    <2>3. (readList \cup {cur} \subseteq pins \cup {Input})'
      BY <1>2, <2>1 DEF WaitStep, ForRead
    <2>4. ASSUME NEW c \in pins' PROVE PendingWakes(c)' /\ ClosedWakes(c)'
      <3>1. c \in Conns  BY <1>1 DEF TypeOK, PinTypeOK
      <3>2. CASE c \in A
        <4>1. queue'[c] = <<>> /\ mode'[c] = "in"
          BY <2>1, <3>1, <3>2 DEF WaitStep, StreamInv, StreamAt, AcceptInv
        <4> QED  BY <4>1 DEF PendingWakes, ClosedWakes
      <3>3. CASE c \notin A
        <4>1. PendingWakes(c) /\ ClosedWakes(c)
          BY <1>2, <2>1, <3>3 DEF WaitStep
        <4>2. /\ UNCHANGED <<queue, cur, peer, wire, drained>>
              /\ mode'[c] = mode[c]
              /\ edge'[c] = (edge[c] /\ c \notin S)
              /\ c \in readList' <=> c \in readList \/ (c \in S /\ peer[c] = "closed")
              /\ c \in writeList' <=> c \in writeList \/ (c \in S /\ OutReady(c))
          BY <2>1, <3>1, <3>3 DEF WaitStep, ForRead, InReady, Closed
        <4>3. Free(c) \in Int  BY <1>1, <3>1, LenProperties DEF Free, TypeOK, PinTypeOK
        <4>4. PendingWakes(c)'
          <5>1. Free(c)' = Free(c)  BY <4>2 DEF Free
          <5>2. OutReady(c) <=> mode[c] = "inoutET" /\ (Free(c) > 0 \/ peer[c] = "closed")
            BY DEF OutReady, Writable, Closed
          <5>3. SUFFICES ASSUME queue[c] # <<>>
                         PROVE  /\ mode'[c] = "inoutET"
                                /\ \/ c \in writeList' \/ cur' = c \/ edge'[c]
                                   \/ Free(c)' <= 0 /\ peer'[c] # "closed"
            BY <4>2 DEF PendingWakes
          <5>4. /\ mode[c] = "inoutET"
                /\ \/ c \in writeList \/ cur = c \/ edge[c]
                   \/ Free(c) <= 0 /\ peer[c] # "closed"
            BY <4>1, <5>3 DEF PendingWakes
          <5>5. CASE c \in writeList \/ cur = c \/ ~(c \in S)
            BY <4>2, <5>1, <5>4, <5>5
          <5>6. CASE c \in S /\ Free(c) <= 0 /\ peer[c] # "closed"
            BY <4>2, <5>1, <5>4, <5>6
          <5>7. CASE c \in S /\ (Free(c) > 0 \/ peer[c] = "closed")
            BY <4>2, <5>2, <5>4, <5>7
          <5> QED  BY <4>3, <5>5, <5>6, <5>7
        <4>5. ClosedWakes(c)'
          BY <4>1, <4>2 DEF ClosedWakes
        <4> QED  BY <4>4, <4>5
      <3> QED  BY <3>2, <3>3
    <2> QED  BY <2>2, <2>3, <2>4
  <1>8. CASE ReadInput
    <2>1. /\ readList' = readList \ {Input}
          /\ UNCHANGED <<pc, cur, pins, writeList, peer, wire, drained>>
      BY <1>8 DEF ReadInput, TakeRead, ReadSample, ReadPart
    <2>2. LoopInv' /\ (readList \cup {cur} \subseteq pins \cup {Input})'
      BY <1>2, <2>1 DEF LoopInv
    <2>3. ASSUME NEW c \in pins PROVE PendingWakes(c)' /\ ClosedWakes(c)'
      <3>1. c \in Conns /\ c \in readList' <=> c \in readList
        BY <1>1, <2>1 DEF TypeOK, PinTypeOK
      <3>2. CASE ReadSample
        <4>1. c \in Conns /\ flags[c] \in Ports
          BY <1>1 DEF StreamInv, StreamAt, AcceptInv, TypeOK, PinTypeOK
        <4>2. c \in UNION {Targets(r) : r \in Ports}
          BY <4>1 DEF Targets, Matches
        <4>3. /\ mode'[c] = "inoutET"
              /\ edge'[c] = (edge[c] \/ peer[c] = "closed" \/ Free(c) > 0)
          BY <3>2, <4>1, <4>2
          DEF ReadSample, WriteSamples, EpollMod, InReady, Writable, Closed, TypeOK,
              PinTypeOK
        <4>4. Free(c) \in Int  BY <1>1, <4>1, LenProperties DEF Free, TypeOK, PinTypeOK
        <4>5. PendingWakes(c)'
          <5>1. Free(c)' = Free(c)  BY <2>1 DEF Free
          <5>2. Free(c) > 0 \/ Free(c) <= 0  BY <4>4
          <5> QED  BY <2>1, <4>3, <5>1, <5>2 DEF PendingWakes
        <4>6. ClosedWakes(c)'  BY <2>1, <4>3 DEF ClosedWakes
        <4> QED  BY <4>5, <4>6
      <3>3. CASE ReadPart
        <4>1. UNCHANGED <<queue, mode, edge>>  BY <3>3 DEF ReadPart
        <4> QED  BY <1>2, <2>1, <3>1, <4>1 DEF PendingWakes, ClosedWakes, Free
      <3> QED  BY <1>8, <3>2, <3>3 DEF ReadInput
    <2> QED  BY <2>1, <2>2, <2>3
  <1>9. ASSUME NEW c \in Conns, ReadClient(c) PROVE Goal
    <2>1. /\ DestroyPins({c}) /\ readList' = readList \ {c}
          /\ UNCHANGED <<pc, cur, mode, writeList, kernelVars>>
      BY <1>9 DEF ReadClient, TakeRead, Disconnect
    <2>2. cur = Input /\ LoopInv'
      BY <1>2, <1>9, <2>1 DEF ReadClient, LoopInv
    <2> QED  BY <1>5, <2>1, <2>2
  <1>10. CASE ReadDone
    <2>1. LoopInv'  BY <1>2, <1>10 DEF ReadDone, pinVars, listVars, LoopInv
    <2> QED  BY <1>6, <1>10, <2>1 DEF ReadDone, pinVars
  <1>11. ASSUME NEW c \in Conns, Serve(c) PROVE Goal
    <2>1. pc = "deliver" /\ pc' = pc /\ readList = {} /\ UNCHANGED readList
      BY <1>2, <1>11
      DEF Serve, LoopInv, DeliverPop, DeliverSend, DeliverAgain, DeliverDone
    <2>2. LoopInv'  BY <2>1 DEF LoopInv
    <2>3. CASE DeliverPop(c)
      <3>1. /\ cur = Input /\ cur' = c /\ c \in pins /\ writeList' = writeList \ {c}
            /\ UNCHANGED <<pins, queue, mode, peer, edge, wire, drained>>
        BY <2>3 DEF DeliverPop, kernelVars
      <3>2. ASSUME NEW d \in pins PROVE PendingWakes(d)' /\ ClosedWakes(d)'
        <4>1. d # Input  BY <1>1 DEF TypeOK, PinTypeOK
        <4> QED  BY <1>2, <2>1, <3>1, <4>1 DEF PendingWakes, ClosedWakes, Free
      <3> QED  BY <2>1, <2>2, <3>1, <3>2
    <2>4. CASE DeliverSend(c)
      <3>1. /\ cur = c /\ queue[c] # <<>>
            /\ UNCHANGED <<pins, mode, writeList, peer, edge, drained>>
        BY <2>4 DEF DeliverSend
      <3>2. PICK n \in 1..SampleUnits :
              WireGrows(c, n) /\ (HeadLeaves(c, n) \/ HeadAdvances(c, n))
        BY <2>4, SendEffect DEF TypeInv, TypeOK
      <3>3. \A d \in Conns \ {c} : queue'[d] = queue[d] /\ wire'[d] = wire[d]
        BY <2>4, <3>2, SendEffect DEF TypeInv, TypeOK, WireGrows
      <3>4. cur' \in {c, Input}
        BY <3>1, <3>2 DEF HeadLeaves, HeadAdvances, SendWhole, SendPart
      <3>5. ASSUME NEW d \in pins PROVE PendingWakes(d)' /\ ClosedWakes(d)'
        <4>1. d \in Conns /\ d # Input  BY <1>1 DEF TypeOK, PinTypeOK
        <4>2. PendingWakes(d) /\ ClosedWakes(d)  BY <1>2
        <4>3. ClosedWakes(d)'  BY <2>1, <3>1, <4>2 DEF ClosedWakes
        <4>4. CASE d # c
          BY <3>1, <3>3, <4>1, <4>2, <4>3, <4>4 DEF PendingWakes, Free
        <4>5. CASE d = c /\ HeadLeaves(c, n)
          <5>1. cur' = c /\ mode'[c] = "inoutET"
            BY <3>1, <4>2, <4>5 DEF HeadLeaves, SendWhole, PendingWakes
          <5> QED  BY <4>3, <4>5, <5>1 DEF PendingWakes
        <4>6. CASE d = c /\ HeadAdvances(c, n)
          <5>1. mode[c] = "inoutET"  BY <3>1, <4>2, <4>6 DEF PendingWakes
          <5>2. Free(c)' = 0
            <6>1. /\ Len(wire'[c]) = Len(wire[c]) + n /\ n = SockCap - (Len(wire[c]) - drained[c])
                  /\ Len(wire[c]) \in Nat /\ drained[c] \in Nat /\ drained' = drained
              BY <1>1, <3>1, <3>2, <4>6, LenProperties
              DEF WireGrows, HeadAdvances, Free, TypeOK, PinTypeOK
            <6> QED  BY <6>1 DEF Free
          <5>3. peer[c] = "closed" => edge[c]
            BY <2>1, <4>2, <4>6, <5>1 DEF ClosedWakes
          <5>4. PendingWakes(c)'  BY <3>1, <5>1, <5>2, <5>3 DEF PendingWakes
          <5> QED  BY <4>3, <4>6, <5>4
        <4> QED  BY <3>2, <4>4, <4>5, <4>6
      <3> QED  BY <1>2, <2>1, <2>2, <3>1, <3>4, <3>5
    <2>5. CASE DeliverAgain(c)
      <3>1. /\ cur = c /\ cur' = Input /\ queue[c] # <<>> /\ Free(c) = 0
            /\ UNCHANGED <<pins, queue, mode, writeList, peer, edge, wire, drained>>
        BY <2>5 DEF DeliverAgain, kernelVars
      <3>2. ASSUME NEW d \in pins PROVE PendingWakes(d)' /\ ClosedWakes(d)'
        <4>1. PendingWakes(d) /\ ClosedWakes(d)  BY <1>2
        <4>2. CASE d # c
          BY <2>1, <3>1, <4>1, <4>2 DEF PendingWakes, ClosedWakes, Free
        <4>3. CASE d = c
          <5>1. mode[c] = "inoutET"  BY <3>1, <4>1, <4>3 DEF PendingWakes
          <5>2. peer[c] = "closed" => edge[c]
            BY <2>1, <4>1, <4>3, <5>1 DEF ClosedWakes
          <5>3. Free(c)' = 0  BY <3>1 DEF Free
          <5>4. PendingWakes(c)'  BY <3>1, <5>1, <5>2, <5>3 DEF PendingWakes
          <5>5. ClosedWakes(c)'  BY <3>1, <5>2 DEF ClosedWakes
          <5> QED  BY <4>3, <5>4, <5>5
        <4> QED  BY <4>2, <4>3
      <3> QED  BY <2>1, <2>2, <3>1, <3>2
    <2>6. CASE DeliverDone(c)
      <3>1. /\ cur = c /\ cur' = Input /\ queue[c] = <<>>
            /\ UNCHANGED <<pins, queue, writeList, peer, wire, drained>>
            /\ \A d \in Conns : /\ mode'[d] = IF d = c THEN "inET" ELSE mode[d]
                                /\ edge'[d] = (edge[d] \/ (d = c /\ peer[c] = "closed"))
        BY <2>6 DEF DeliverDone, EpollMod, InReady, Closed
      <3>2. ASSUME NEW d \in pins PROVE PendingWakes(d)' /\ ClosedWakes(d)'
        <4>1. PendingWakes(d) /\ ClosedWakes(d) /\ d \in Conns
          BY <1>1, <1>2 DEF TypeOK, PinTypeOK
        <4>2. PendingWakes(d)'  BY <3>1, <4>1 DEF PendingWakes, Free
        <4>3. ClosedWakes(d)'  BY <2>1, <3>1, <4>1 DEF ClosedWakes
        <4> QED  BY <4>2, <4>3
      <3> QED  BY <2>1, <2>2, <3>1, <3>2
    <2> QED  BY <1>11, <2>3, <2>4, <2>5, <2>6 DEF Serve
  <1>12. ASSUME NEW c \in Conns, ServeFails(c) PROVE Goal
    <2>1. /\ DestroyPins({c}) /\ cur = c /\ cur' = Input /\ pc' = "wait"
          /\ readList = {} /\ UNCHANGED <<readList, mode, writeList, kernelVars>>
      BY <1>2, <1>12 DEF ServeFails, DeliverFail, Disconnect, LoopInv
    <2>2. LoopInv'  BY <2>1 DEF LoopInv
    <2>3. \A d \in Conns \ {c} : d # Input /\ (cur' = d <=> cur = d)
      BY <2>1
    <2> QED  BY <1>5, <2>1, <2>2, <2>3
  <1>13. ASSUME NEW c \in Conns, Killed(c) PROVE Goal
    <2>1. LoopInv'  BY <1>2, <1>13 DEF Killed, pinVars, listVars, LoopInv
    <2> QED  BY <1>6, <1>13, <2>1 DEF Killed, pinVars
  <1>14. CASE UseFreedPin
    <2>1. LoopInv'  BY <1>14 DEF UseFreedPin, LoopInv
    <2> QED  BY <1>6, <1>14, <2>1 DEF UseFreedPin, pinVars
  <1>15. CASE Delivered
    <2>1. LoopInv'  BY <1>2, <1>15 DEF Delivered, pinVars, listVars, LoopInv
    <2> QED  BY <1>6, <1>15, <2>1 DEF Delivered, pinVars
  <1>16. CASE Exit
    <2>1. /\ pins \in SUBSET Conns /\ DestroyPins(pins) /\ cur = Input
          /\ readList = {} /\ pc' = "exit"
          /\ UNCHANGED <<cur, readList, mode, writeList, kernelVars>>
      BY <1>1, <1>2, <1>16 DEF Exit, LoopInv, TypeOK, PinTypeOK
    <2>2. LoopInv'  BY <2>1 DEF LoopInv
    <2> QED  BY <1>5, <2>1, <2>2
  <1>17. CASE Sender
    <2>1. LoopInv'
      BY <1>2, <1>17 DEF Sender, Arrive, SenderCloses, pinVars, listVars, LoopInv
    <2> QED  BY <1>6, <1>17, <2>1 DEF Sender, Arrive, SenderCloses, pinVars
  <1>18. ASSUME NEW c \in Conns, Client(c), UNCHANGED <<pc, active, inputVars>>
         PROVE  Goal
    <2>1. UNCHANGED <<listVars, pc>>
      BY <1>18 DEF Client, Connect, Drain, Close
    <2>2. LoopInv' /\ (readList \cup {cur} \subseteq pins \cup {Input})'
      BY <1>2, <2>1 DEF listVars, LoopInv
    <2>3. ASSUME NEW d \in pins PROVE PendingWakes(d)' /\ ClosedWakes(d)'
      <3>1. PendingWakes(d) /\ ClosedWakes(d) /\ d \in Conns
        BY <1>1, <1>2 DEF TypeOK, PinTypeOK
      <3>2. UNCHANGED <<queue, mode, writeList, readList, cur>>  BY <2>1 DEF listVars
      <3>3. CASE Connect(c)
        <4>1. d # c /\ UNCHANGED <<edge, wire, drained>> /\ peer'[d] = peer[d]
          BY <1>1, <3>1, <3>3 DEF Connect, StreamInv, StreamAt, AcceptInv, TypeOK, PinTypeOK
        <4> QED  BY <3>1, <3>2, <4>1 DEF PendingWakes, ClosedWakes, Free
      <3>4. CASE Drain(c)
        <4>1. /\ UNCHANGED <<peer, wire>> /\ (edge[d] => edge'[d])
              /\ d # c => drained'[d] = drained[d]
              /\ d = c => /\ drained'[d] = drained[d] + 1
                          /\ Free(d) = 0 => edge'[d]
          <5>1. /\ UNCHANGED <<peer, wire>>
                /\ drained' = [drained EXCEPT ![c] = drained[c] + 1]
                /\ edge' = [edge EXCEPT ![c] = edge[c] \/ Free(c) = 0]
            BY <3>4 DEF Drain
          <5>2. c \in DOMAIN drained /\ c \in DOMAIN edge /\ edge \in [Conns -> BOOLEAN]
            BY <1>1, <1>18 DEF TypeOK, PinTypeOK
          <5>3. /\ d # c => drained'[d] = drained[d] /\ edge'[d] = edge[d]
                /\ drained'[c] = drained[c] + 1
                /\ edge'[c] = (edge[c] \/ Free(c) = 0)
            BY <5>1, <5>2
          <5> QED  BY <5>1, <5>3
        <4>2. Len(wire[d]) \in Nat /\ drained[d] \in Nat
          BY <1>1, <3>1, LenProperties DEF TypeOK, PinTypeOK
        <4>3. Free(d) <= 0 => edge'[d] \/ Free(d)' <= 0
          BY <4>1, <4>2 DEF Free
        <4> QED  BY <3>1, <3>2, <4>1, <4>3 DEF PendingWakes, ClosedWakes
      <3>5. CASE Close(c)
        <4>1. /\ UNCHANGED <<wire, drained>> /\ (edge[d] => edge'[d])
              /\ d # c => peer'[d] = peer[d]
              /\ d = c => edge'[d]
          BY <1>1, <3>1, <3>5 DEF Close, TypeOK, PinTypeOK
        <4> QED  BY <3>1, <3>2, <4>1 DEF PendingWakes, ClosedWakes, Free
      <3> QED  BY <1>18, <3>3, <3>4, <3>5 DEF Client
    <2> QED  BY <2>1, <2>2, <2>3 DEF listVars
  <1> QED
    BY <1>4, <1>7, <1>8, <1>9, <1>10, <1>11, <1>12, <1>13, <1>14, <1>15, <1>16, <1>17,
       <1>18 DEF Next, Loop, Clients

AllInv == TypeInv /\ StreamInv /\ WakeInv

LEMMA AllInvariant == Spec => []AllInv
  <1>1. Init => AllInv  BY TypeInit, StageStreamInit, WakeInit DEF AllInv
  <1>2. AllInv /\ [Next]_vars => AllInv'
    BY TypeStep, StreamStep, WakeStep DEF AllInv
  <1> QED  BY <1>1, <1>2, PTL DEF Spec

(* Edge-triggered epoll loses no wakeup: data queued for a client is always *)
(* about to be served, announced by an event, or waits for the client.      *)
THEOREM NoLostWakeup == Spec => []PendingDataWakes
  <1>1. AllInv => PendingDataWakes  BY DEF AllInv, WakeInv
  <1> QED  BY AllInvariant, <1>1, PTL

(* The end of file of a connected client is never forgotten.               *)
THEOREM NoLostClose == Spec => []ClosedClientWakes
  <1>1. AllInv => ClosedClientWakes  BY DEF AllInv, WakeInv
  <1> QED  BY AllInvariant, <1>1, PTL

(* In this loop's order the read list never holds a freed pin, and a pin    *)
(* that is being served is not freed.                                      *)
THEOREM ReadListStaysLive == Spec => []ServedPinsLive
  <1>1. AllInv => ServedPinsLive  BY DEF AllInv, WakeInv
  <1> QED  BY AllInvariant, <1>1, PTL

-----------------------------------------------------------------------------
(* The event lists' room.                                                  *)

(* An event list is written past its end only when pin_list_deliver has     *)
(* left pins on the write list: split and fft never overrun it otherwise,   *)
(* whatever their clients do (pin_list_wait).                              *)
THEOREM OverflowNeedsFailure == Spec => OverflowsOnlyAfterFailure
  <1>1. AllInv /\ [Next]_vars
          => [pc = "wait" /\ pc' = "undefined" => writeList # {}]_vars
    <2> SUFFICES ASSUME AllInv, Next, pc = "wait", pc' = "undefined", writeList = {}
                 PROVE  FALSE
      OBVIOUS
    <2>1. PinTypeOK /\ readList = {}
      BY DEF AllInv, TypeInv, TypeOK, WakeInv, LoopInv
    <2>2. CASE Wait
      <3>1. PICK S \in SUBSET pins, A \in SUBSET backlog, in \in BOOLEAN :
              Reported(S, A, in, avail > 0 \/ eof) /\ WaitStep(S, A, in, produced)
        BY <2>2 DEF Wait
      <3>2. ListsFit'  BY <2>1, <3>1, ReportFits
      <3> QED  BY <2>2, <3>2 DEF Wait
    <2>3. CASE ~Wait
      BY <2>1, <2>3
      DEF Next, Loop, ReadInput, ReadDone, UseFreedPin, Delivered, Exit, ReadClient,
          Serve, ServeFails, Killed, Sender, Arrive, SenderCloses, Clients
    <2> QED  BY <2>2, <2>3
  <1> QED  BY AllInvariant, <1>1, PTL DEF Spec, OverflowsOnlyAfterFailure
=============================================================================
