---------------------------- MODULE Source_proofs ----------------------------
(* Theorems about source: the ownership of the recorded samples between the *)
(* capture thread and the main loop, and, from the lemmas of                *)
(* PinList_proofs, what its main loop keeps of the pin list, for any number *)
(* of clients, samples and pointers in the pipe.                           *)
EXTENDS Source, PinList_proofs

(* OneOwner without Cardinality: what the arithmetic of the actions needs.   *)
InHand == IF cap = "have" THEN 1 ELSE 0

LEMMA OwnerArithmetic ==
  ASSUME cap \in {"record", "have", "stopped"}
  PROVE  OneOwner <=>
           /\ heap = {pipe[i] : i \in DOMAIN pipe}
                       \cup (IF cap = "have" THEN {captured - 1} ELSE {})
                       \cup (IF cap = "stopped" THEN {captured} ELSE {})
           /\ fanned + Len(pipe) + InHand = captured
           /\ \A i \in DOMAIN pipe : pipe[i] = fanned + i - 1
  <1>1. Cardinality(IF cap = "have" THEN {captured - 1} ELSE {}) = InHand
    BY FS_EmptySet, FS_Singleton DEF InHand
  <1> QED BY <1>1 DEF OneOwner, ToSet

(* The pipe's elements are the numbers from fanned on.                     *)
LEMMA PipeSet ==
  ASSUME pipe \in Seq(Nat), fanned \in Nat,
         \A i \in DOMAIN pipe : pipe[i] = fanned + i - 1
  PROVE  {pipe[i] : i \in DOMAIN pipe} = fanned..(fanned + Len(pipe) - 1)
  <1>1. ASSUME NEW n \in fanned..(fanned + Len(pipe) - 1)
        PROVE  n \in {pipe[i] : i \in DOMAIN pipe}
    <2>1. n - fanned + 1 \in DOMAIN pipe
      BY Len(pipe) \in Nat, DOMAIN pipe = 1..Len(pipe)
    <2>2. pipe[n - fanned + 1] = n
      BY <2>1
    <2> QED BY <2>1, <2>2
  <1>2. ASSUME NEW i \in DOMAIN pipe
        PROVE  pipe[i] \in fanned..(fanned + Len(pipe) - 1)
    BY Len(pipe) \in Nat, DOMAIN pipe = 1..Len(pipe)
  <1> QED BY <1>1, <1>2

(* So the invariant is one about three numbers and an interval.             *)
Interval ==
  /\ heap = (fanned..(fanned + Len(pipe) - 1))
              \cup (IF cap = "have" THEN {captured - 1} ELSE {})
              \cup (IF cap = "stopped" THEN {captured} ELSE {})
  /\ fanned + Len(pipe) + InHand = captured
  /\ \A i \in DOMAIN pipe : pipe[i] = fanned + i - 1

Types ==
  /\ cap \in {"record", "have", "stopped"}
  /\ captured \in Nat /\ fanned \in Nat
  /\ pipe \in Seq(Nat)

LEMMA OwnerIsInterval == ASSUME Types PROVE OneOwner <=> Interval
  <1>1. CASE \A i \in DOMAIN pipe : pipe[i] = fanned + i - 1
    <2>1. {pipe[i] : i \in DOMAIN pipe} = fanned..(fanned + Len(pipe) - 1)
      BY <1>1, PipeSet DEF Types
    <2> QED BY <2>1, OwnerArithmetic DEF Types, Interval
  <1>2. CASE ~ \A i \in DOMAIN pipe : pipe[i] = fanned + i - 1
    BY <1>2, OwnerArithmetic DEF Types, Interval
  <1> QED BY <1>1, <1>2

OwnerIInv == Types /\ Interval

LEMMA OwnerInit == Init => OwnerIInv
  BY DEF Init, OwnerIInv, Types, Interval, InHand

LEMMA OwnerStep == OwnerIInv /\ [Next]_vars => OwnerIInv'
  <1> SUFFICES ASSUME OwnerIInv, [Next]_vars PROVE OwnerIInv'
    OBVIOUS
  <1> USE DEF OwnerIInv
  <1>pipe. Len(pipe) \in Nat /\ DOMAIN pipe = 1..Len(pipe)
    BY DEF Types
  <1>same. ASSUME UNCHANGED <<cap, captured, heap, pipe, fanned>> PROVE OwnerIInv'
    BY <1>same DEF Types, Interval, InHand
  <1>1. CASE Record
    <2>1. /\ cap = "record" /\ cap' = "have" /\ captured' = captured + 1
          /\ heap' = heap \cup {captured} /\ UNCHANGED <<pipe, fanned>>
      BY <1>1 DEF Record
    <2>2. heap' = (fanned..(fanned + Len(pipe) - 1)) \cup {captured' - 1}
      BY <2>1 DEF Types, Interval
    <2> QED BY <2>1, <2>2 DEF Types, Interval, InHand
  <1>2. CASE RecordFails
    BY <1>2, <1>pipe DEF RecordFails, Types, Interval, InHand
  <1>3. CASE HandOver
    <2>1. /\ pipe' = Append(pipe, captured - 1) /\ cap = "have" /\ cap' = "record"
          /\ UNCHANGED <<captured, heap, fanned>>
      BY <1>3 DEF HandOver
    <2>2. captured - 1 = fanned + Len(pipe) /\ captured - 1 \in Nat
      BY <2>1, <1>pipe DEF Types, Interval, InHand
    <2>3. pipe' \in Seq(Nat) /\ Len(pipe') = Len(pipe) + 1 /\ DOMAIN pipe' = 1..(Len(pipe) + 1)
      BY <2>1, <2>2 DEF Types
    <2>4. \A i \in DOMAIN pipe' : pipe'[i] = fanned' + i - 1
      <3> SUFFICES ASSUME NEW i \in 1..(Len(pipe) + 1) PROVE pipe'[i] = fanned + i - 1
        BY <2>1, <2>3
      <3>1. CASE i = Len(pipe) + 1
        <4>1. pipe'[i] = captured - 1  BY <2>1, <3>1 DEF Types
        <4> QED  BY <2>2, <3>1, <4>1, <1>pipe DEF Types
      <3>2. CASE i # Len(pipe) + 1
        <4>1. i \in DOMAIN pipe  BY <3>2, <1>pipe
        <4>2. pipe'[i] = pipe[i]  BY <2>1, <4>1, <1>pipe DEF Types
        <4> QED  BY <4>1, <4>2 DEF Interval
      <3> QED  BY <3>1, <3>2
    <2>5. heap' = (fanned'..(fanned' + Len(pipe') - 1))
      BY <2>1, <2>2, <2>3, <1>pipe DEF Types, Interval
    <2> QED BY <2>1, <2>2, <2>3, <2>4, <2>5, <1>pipe DEF Types, Interval, InHand
  <1>4. CASE FanOut
    <2>1. /\ pipe # <<>> /\ pipe' = Tail(pipe) /\ heap' = heap \ {Head(pipe)}
          /\ fanned' = fanned + 1 /\ UNCHANGED <<cap, captured>>
      BY <1>4 DEF FanOut
    <2>2. Len(pipe) > 0 /\ Head(pipe) = fanned
      BY <2>1, <1>pipe DEF Types, Interval
    <2>3. pipe' \in Seq(Nat) /\ Len(pipe') = Len(pipe) - 1 /\ DOMAIN pipe' = 1..(Len(pipe) - 1)
      BY <2>1, <2>2 DEF Types
    <2>4. ASSUME NEW i \in DOMAIN pipe' PROVE pipe'[i] = fanned' + i - 1
      <3>1. i \in Int /\ i + 1 \in DOMAIN pipe
        BY <2>3, <1>pipe
      <3>2. pipe'[i] = pipe[i + 1]
        BY <2>1, <2>2, <2>3, <1>pipe DEF Types
      <3> QED BY <2>1, <3>1, <3>2 DEF Types, Interval
    <2>5. heap' = (fanned'..(fanned' + Len(pipe') - 1))
                    \cup (IF cap' = "have" THEN {captured' - 1} ELSE {})
                    \cup (IF cap' = "stopped" THEN {captured'} ELSE {})
      BY <2>1, <2>2, <2>3, <1>pipe DEF Types, Interval, InHand
    <2> QED BY <2>1, <2>2, <2>3, <2>4, <2>5, <1>pipe DEF Types, Interval, InHand
  <1>5. CASE Overrun
    BY <1>5, <1>same DEF Overrun, sourceVars, captureVars
  <1>6. CASE Main /\ ~FanOut
    <2>1. UNCHANGED sourceVars
      BY <1>6 DEF Main, Wait, Delivered, ReadPipe, PipeEmpty, ReadDone, UseFreedPin,
                  Serve, ServeFails, Killed, ReadClient
    <2> QED BY <2>1, <1>same DEF sourceVars, captureVars
  <1>7. CASE Clients
    BY <1>7, <1>same DEF Clients, sourceVars, captureVars
  <1>8. CASE UNCHANGED vars
    BY <1>8, <1>same DEF vars, sourceVars, captureVars
  <1> QED BY <1>1, <1>2, <1>3, <1>4, <1>5, <1>6, <1>7, <1>8 DEF Next, Capture

(* However the capture thread, the main loop and the clients interleave,    *)
(* every recorded sample has exactly one owner: none is freed twice, and    *)
(* none is forgotten but the buffer of the recording that failed            *)
(* (audio_capture_thr and main of source.c).                               *)
THEOREM SamplesAreOwned == Spec => []OneOwner
  <1>1. Spec => []OwnerIInv
    BY OwnerInit, OwnerStep, PTL DEF Spec
  <1>2. OwnerIInv => OneOwner
    BY OwnerIsInterval DEF OwnerIInv
  <1> QED BY <1>1, <1>2, PTL

-----------------------------------------------------------------------------
(* Type correctness.                                                       *)

(* Samples that are fanned out have been captured (Interval), so the bounds *)
(* of TypeOK follow from the bound of captured.                            *)
TypeInv == TypeOK /\ OwnerIInv

LEMMA TypeInit == Init => TypeInv
  <1> SUFFICES ASSUME Init PROVE TypeInv  OBVIOUS
  <1>1. PinTypeOK  BY PinTypeInit DEF Init
  <1>2. TypeOK
    <2>1. <<>> \in Seq(Numbers) /\ Len(<<>>) = 0  BY EmptySeq
    <2>2. 0 \in 0..MaxSamples /\ 0 <= PipeCap  BY PinListAssumption, SourceAssumption
    <2> QED  BY <1>1, <2>1, <2>2 DEF Init, TypeOK
  <1> QED  BY <1>2, OwnerInit DEF TypeInv

(* The pointer read from the pipe is that of the next sample to fan out.    *)
LEMMA FanOutNext ==
  ASSUME TypeInv, FanOut
  PROVE  /\ Head(pipe) = fanned /\ fanned \in Numbers
         /\ fanned + 1 \in 0..MaxSamples
         /\ pipe' \in Seq(Numbers) /\ Len(pipe') <= PipeCap
  <1>1. /\ pipe \in Seq(Numbers) /\ pipe # <<>> /\ pipe' = Tail(pipe)
        /\ Len(pipe) \in Nat /\ DOMAIN pipe = 1..Len(pipe) /\ Len(pipe) <= PipeCap
        /\ PipeCap \in Nat
    BY SourceAssumption DEF TypeInv, TypeOK, FanOut
  <1>2. /\ Len(pipe) > 0 /\ pipe' \in Seq(Numbers) /\ Len(pipe') = Len(pipe) - 1
        /\ Head(pipe) = pipe[1]
    BY <1>1, HeadTailProperties, EmptySeq
  <1>3. /\ pipe[1] = fanned + 1 - 1
        /\ fanned + Len(pipe) + InHand = captured
        /\ captured \in 0..MaxSamples /\ fanned \in Nat /\ InHand \in {0, 1}
        /\ MaxSamples \in Nat
    <2>1. /\ \A i \in DOMAIN pipe : pipe[i] = fanned + i - 1
          /\ fanned + Len(pipe) + InHand = captured
          /\ fanned \in Nat
      BY DEF TypeInv, OwnerIInv, Types, Interval
    <2>2. 1 \in DOMAIN pipe  BY <1>1, <1>2
    <2>3. captured \in 0..MaxSamples  BY DEF TypeInv, TypeOK
    <2> QED  BY <2>1, <2>2, <2>3, PinListAssumption DEF InHand
  <1>4. Head(pipe) = fanned  BY <1>2, <1>3
  <1>5. fanned < MaxSamples
    <2> DEFINE l == Len(pipe)
    <2>1. l \in Nat /\ l > 0  BY <1>1, <1>2
    <2> HIDE DEF l
    <2> QED  BY <1>3, <2>1 DEF l
  <1> QED  BY <1>1, <1>2, <1>3, <1>4, <1>5 DEF Numbers

LEMMA SourceIsPinStep ==
  ASSUME TypeInv, [Next]_vars, NEW k, k = fanned, NEW m, m = fanned'
  PROVE  PinStep(k, m)
  <1>0. ASSUME UNCHANGED <<pinVars, fanned>> PROVE PinStep(k, m)
    BY <1>0 DEF pinVars, listVars, PinStep, Reads, TakesInput
  <1>1. CASE Wait
    BY <1>1 DEF Wait, sourceVars, PinStep, Waits
  <1>2. ASSUME NEW c \in Conns, Serve(c) PROVE PinStep(k, m)
    BY <1>2 DEF Serve, sourceVars, PinStep, Serves
  <1>3. ASSUME NEW c \in Conns, ServeFails(c) PROVE PinStep(k, m)
    BY <1>3, {c} \in SUBSET Conns
    DEF ServeFails, DeliverFail, Disconnect, sourceVars, PinStep, Destroys
  <1>4. CASE ReadPipe
    BY <1>4 DEF ReadPipe, TakeRead, TakesInput, sourceVars, PinStep, Reads
  <1>5. CASE FanOut
    <2>1. k \in Numbers /\ m = k + 1 /\ WriteSamples(k)
      BY <1>5, FanOutNext DEF FanOut
    <2> QED  BY <1>5, <2>1 DEF FanOut, TakesInput, PinStep, Writes
  <1>6. ASSUME NEW c \in Conns, ReadClient(c) PROVE PinStep(k, m)
    BY <1>6, {c} \in SUBSET Conns
    DEF ReadClient, TakeRead, Disconnect, sourceVars, PinStep, Destroys
  <1>7. ASSUME NEW c \in Conns, Client(c), UNCHANGED <<pc, failed, sourceVars>>
        PROVE  PinStep(k, m)
    BY <1>7 DEF Client, sourceVars, PinStep, ClientActs
  <1> QED
    BY <1>0, <1>1, <1>2, <1>3, <1>4, <1>5, <1>6, <1>7
    DEF Next, Main, Capture, Clients, Delivered, PipeEmpty, ReadDone, UseFreedPin,
        Killed, Record, RecordFails, HandOver, Overrun, sourceVars, vars

LEMMA TypeStep == TypeInv /\ [Next]_vars => TypeInv'
  <1> SUFFICES ASSUME TypeInv, [Next]_vars PROVE TypeInv'  OBVIOUS
  <1> USE PinListAssumption, SourceAssumption
  <1>1. PinTypeOK'
    <2>1. PICK k \in 0..MaxSamples : k = fanned  BY DEF TypeInv, TypeOK
    <2>2. PICK m : m = fanned'  OBVIOUS
    <2>3. PinStep(k, m)  BY <2>1, <2>2, SourceIsPinStep
    <2> QED  BY <2>1, <2>3, PinTypeStep DEF TypeInv, TypeOK
  <1>2. OwnerIInv'  BY OwnerStep DEF TypeInv
  <1>3. SUFFICES TypeOK'  BY <1>2 DEF TypeInv
  <1>4. CASE Record
    BY <1>1, <1>4 DEF Record, TypeInv, TypeOK
  <1>5. CASE RecordFails
    BY <1>1, <1>5 DEF RecordFails, TypeInv, TypeOK
  <1>6. CASE HandOver
    <2>1. captured - 1 \in Numbers
      <3>1. /\ fanned + Len(pipe) + 1 = captured /\ captured \in 0..MaxSamples
            /\ fanned \in Nat /\ Len(pipe) \in Nat
        BY <1>6 DEF HandOver, TypeInv, TypeOK, OwnerIInv, Interval, InHand
      <3> QED  BY <3>1 DEF Numbers
    <2>2. /\ pipe' \in Seq(Numbers) /\ Len(pipe') = Len(pipe) + 1
          /\ Len(pipe) \in Nat /\ Len(pipe) < PipeCap
      BY <1>6, <2>1, AppendProperties DEF HandOver, TypeInv, TypeOK
    <2> QED  BY <1>1, <1>6, <2>2 DEF HandOver, TypeInv, TypeOK
  <1>7. CASE FanOut
    BY <1>1, <1>7, FanOutNext DEF FanOut, TypeInv, TypeOK
  <1>8. ASSUME UNCHANGED sourceVars, failed' \in BOOLEAN,
               pc' \in {pc, "wait", "deliver", "read", "pipe"} \cup Terminal
        PROVE  TypeOK'
    BY <1>1, <1>8 DEF sourceVars, captureVars, TypeInv, TypeOK
  <1>9. CASE Overrun
    BY <1>8, <1>9 DEF Overrun, Terminal, TypeInv, TypeOK
  <1>10. CASE Main /\ ~FanOut
    <2>1. /\ UNCHANGED sourceVars /\ failed' \in BOOLEAN
          /\ pc' \in {pc, "wait", "deliver", "read", "pipe"} \cup Terminal
      BY <1>10
      DEF Main, Wait, Delivered, ReadPipe, PipeEmpty, ReadDone, UseFreedPin, Serve,
          ServeFails, Killed, ReadClient, Terminal, TypeInv, TypeOK
    <2> QED  BY <1>8, <2>1
  <1>11. CASE Clients \/ UNCHANGED vars
    BY <1>8, <1>11 DEF Clients, vars, TypeInv, TypeOK
  <1> QED  BY <1>4, <1>5, <1>6, <1>7, <1>9, <1>10, <1>11 DEF Next, Capture

(* In every reachable state every variable of source has its type: the pipe *)
(* holds at most PipeCap pointers, each of a recorded sample, and the heap  *)
(* and the queues only samples the recorder has numbered.                  *)
THEOREM TypeCorrect == Spec => []TypeOK
  <1>1. TypeInv => TypeOK  BY DEF TypeInv
  <1> QED  BY TypeInit, TypeStep, <1>1, PTL DEF Spec

-----------------------------------------------------------------------------
(* What the pin list keeps under this loop, which delivers before it reads. *)

StreamInv == StreamAt(fanned)
ClientInv == TypeInv /\ StreamInv /\ ClosedClientWakes

LEMMA ClientInit == Init => ClientInv
  <1> SUFFICES ASSUME Init PROVE ClientInv  OBVIOUS
  <1>1. TypeInv  BY TypeInit
  <1>2. StreamAt(0) /\ fanned = 0  BY StreamInit DEF Init
  <1>3. ClosedClientWakes  BY DEF Init, PinInit, ClosedClientWakes
  <1> QED  BY <1>1, <1>2, <1>3 DEF ClientInv, StreamInv

LEMMA ClientStep == ClientInv /\ [Next]_vars => ClientInv'
  <1> SUFFICES ASSUME ClientInv, [Next]_vars PROVE ClientInv'  OBVIOUS
  <1>1. PICK k \in 0..MaxSamples : k = fanned  BY DEF ClientInv, TypeInv, TypeOK
  <1>2. PICK m : m = fanned'  OBVIOUS
  <1>3. PinTypeOK /\ StreamAt(k) /\ ClosedClientWakes
    BY <1>1 DEF ClientInv, StreamInv, TypeInv, TypeOK
  <1>4. PinStep(k, m)  BY <1>1, <1>2, SourceIsPinStep DEF ClientInv
  <1>5. TypeInv'  BY TypeStep DEF ClientInv
  <1>6. StreamInv'
    <2>1. StreamAt(m)'  BY <1>1, <1>3, <1>4, StreamStepAt
    <2> QED  BY <1>2, <2>1 DEF StreamInv, StreamAt, QueueContinues
  <1>7. ClosedClientWakes'
    <2>1. \A c \in pins' : ClosedWakes(c)'
      BY <1>3, <1>4, ClosedStep DEF StreamAt
    <2> QED
      BY <2>1 DEF ClosedClientWakes, ClosedWakes, ConnReady, InReady, Closed
  <1> QED  BY <1>5, <1>6, <1>7 DEF ClientInv

LEMMA ClientInvariant == Spec => []ClientInv
  BY ClientInit, ClientStep, PTL DEF Spec

(* Each client of source is sent a contiguous run of the recorded samples,  *)
(* from the first one fanned out after its accept().                       *)
THEOREM StreamIntegrity == Spec => []WireIsStream
  <1>1. ClientInv => WireIsStream  BY DEF ClientInv, StreamInv, StreamAt
  <1> QED  BY ClientInvariant, <1>1, PTL

(* What it has not been sent yet, up to the newest sample taken from the    *)
(* pipe, is exactly what its pin still has queued.                         *)
THEOREM NothingLost == Spec => []QueueContinuesWire
  <1>1. ClientInv => QueueContinuesWire
    BY DEF ClientInv, StreamInv, StreamAt, QueueContinuesWire
  <1> QED  BY ClientInvariant, <1>1, PTL

(* The end of file of a connected client is never forgotten.               *)
THEOREM NoLostClose == Spec => []ClosedClientWakes
  <1>1. ClientInv => ClosedClientWakes  BY DEF ClientInv
  <1> QED  BY ClientInvariant, <1>1, PTL

(* With at most RefMod clients the reference count is that of the holders,  *)
(* and the last one to let go of a buffer frees it.                        *)
THEOREM RefCountsExact ==
  ASSUME Cardinality(Conns) <= RefMod
  PROVE  Spec => []RefExact
  <1>1. Init => ClientInv /\ RefExact  BY ClientInit, RefInit DEF Init
  <1>2. (ClientInv /\ RefExact) /\ [Next]_vars => (ClientInv /\ RefExact)'
    <2> SUFFICES ASSUME ClientInv, RefExact, [Next]_vars PROVE ClientInv' /\ RefExact'
      OBVIOUS
    <2>1. PICK k \in 0..MaxSamples : k = fanned  BY DEF ClientInv, TypeInv, TypeOK
    <2>2. PICK m : m = fanned'  OBVIOUS
    <2>3. PinTypeOK /\ StreamAt(k)
      BY <2>1 DEF ClientInv, StreamInv, TypeInv, TypeOK
    <2>4. PinStep(k, m)  BY <2>1, <2>2, SourceIsPinStep DEF ClientInv
    <2>5. RefExact'  BY <2>1, <2>3, <2>4, RefStep
    <2> QED  BY <2>5, ClientStep
  <1> QED  BY <1>1, <1>2, PTL DEF Spec

-----------------------------------------------------------------------------
(* The event lists.                                                        *)

(* Without a failed send() every pass empties the write list, then the read *)
(* list: each is filled from empty, and no pin is destroyed while the write *)
(* list holds one.                                                         *)
Lists ==
  /\ readList \subseteq pins \cup {Input} /\ writeList \subseteq pins
  /\ cur \in pins \cup {Input}
  /\ ListsFit
  /\ pc = "wait" => readList = {}
  /\ pc \in {"wait", "read", "pipe"} => writeList = {} /\ cur = Input

ListsInv == failed \/ Lists

LEMMA ListsShrink ==
  ASSUME PinTypeOK, ListsFit, readList' \subseteq readList, writeList' \subseteq writeList
  PROVE  ListsFit'
  <1>1. IsFiniteSet(readList) /\ IsFiniteSet(writeList)
    <2>1. IsFiniteSet(Conns \cup {Input}) /\ IsFiniteSet(Conns)
      BY PinListAssumption, FS_AddElement
    <2> QED  BY <2>1, FS_Subset DEF PinTypeOK
  <1>2. /\ Cardinality(readList') <= Cardinality(readList)
        /\ Cardinality(writeList') <= Cardinality(writeList)
        /\ Cardinality(readList) \in Nat /\ Cardinality(writeList) \in Nat
        /\ Cardinality(readList') \in Nat /\ Cardinality(writeList') \in Nat
    BY <1>1, FS_Subset, FS_CardinalityType
  <1> QED  BY <1>2, PinListAssumption DEF ListsFit

LEMMA ListsInit == Init => ListsInv
  <1> SUFFICES ASSUME Init PROVE Lists  BY DEF ListsInv
  <1>1. Cardinality({}) = 0 /\ EventsCount \in Nat
    BY FS_EmptySet, PinListAssumption
  <1> QED  BY <1>1 DEF Init, PinInit, Lists, ListsFit

LEMMA ListsStep == TypeInv /\ ListsInv /\ [Next]_vars => ListsInv'
  <1> SUFFICES ASSUME TypeInv, ListsInv, [Next]_vars, ~failed' PROVE Lists'
    BY DEF ListsInv
  <1>1. PinTypeOK  BY DEF TypeInv, TypeOK
  <1>2. Lists
    BY DEF ListsInv, Next, Main, Capture, Clients, Wait, Delivered, ReadPipe, FanOut,
           PipeEmpty, ReadDone, UseFreedPin, Serve, ServeFails, Killed, ReadClient,
           Record, RecordFails, HandOver, Overrun, vars
  <1>3. ASSUME readList' \subseteq readList, writeList' \subseteq writeList,
               readList' \cup {cur'} \subseteq pins' \cup {Input}, writeList' \subseteq pins',
               pc' = "wait" => readList' = {},
               pc' \in {"wait", "read", "pipe"} => writeList' = {} /\ cur' = Input
        PROVE  Lists'
    BY <1>1, <1>2, <1>3, ListsShrink DEF Lists
  <1>4. ASSUME UNCHANGED <<pins, readList, writeList, cur>>, pc' \in {pc} \cup Terminal
        PROVE  Lists'
    BY <1>2, <1>3, <1>4 DEF Lists, Terminal
  <1>5. CASE Wait
    <2>1. PICK S \in SUBSET pins, A \in SUBSET backlog, in \in BOOLEAN :
            Reported(S, A, in, pipe # <<>>) /\ WaitStep(S, A, in, fanned)
      BY <1>5 DEF Wait
    <2>2. readList = {} /\ writeList = {} /\ cur = Input
      BY <1>2, <1>5 DEF Wait, Lists
    <2>3. ListsFit'  BY <1>1, <2>1, <2>2, ReportFits
    <2>4. pc' = "deliver"  BY <1>5, <2>3 DEF Wait
    <2> QED  BY <2>1, <2>2, <2>3, <2>4 DEF Lists, WaitStep, ForRead
  <1>6. ASSUME NEW c \in Conns, Serve(c) PROVE Lists'
    <2>1. /\ pc = "deliver" /\ pc' = "deliver" /\ UNCHANGED <<pins, readList>>
          /\ writeList' \subseteq writeList
          /\ cur' \in {cur, Input} \/ (cur' = c /\ c \in pins)
      <3>1. CASE DeliverPop(c)  BY <1>6, <3>1 DEF Serve, DeliverPop
      <3>2. CASE DeliverSend(c)
        BY <1>6, <3>2 DEF Serve, DeliverSend, SendWhole, SendPart
      <3>3. CASE DeliverAgain(c) \/ DeliverDone(c)
        BY <1>6, <3>3 DEF Serve, DeliverAgain, DeliverDone
      <3> QED  BY <1>6, <3>1, <3>2, <3>3 DEF Serve
    <2> QED  BY <1>2, <1>3, <2>1 DEF Lists
  <1>7. ASSUME NEW c \in Conns, ServeFails(c) PROVE Lists'
    BY <1>7 DEF ServeFails
  <1>8. CASE Delivered
    BY <1>2, <1>3, <1>8 DEF Delivered, pinVars, listVars, Lists
  <1>9. CASE ReadPipe
    BY <1>2, <1>3, <1>9 DEF ReadPipe, TakeRead, Lists
  <1>10. CASE FanOut
    BY <1>2, <1>3, <1>10 DEF FanOut, Lists
  <1>11. CASE PipeEmpty \/ ReadDone
    BY <1>2, <1>3, <1>11 DEF PipeEmpty, ReadDone, pinVars, listVars, Lists
  <1>12. ASSUME NEW c \in Conns, ReadClient(c) PROVE Lists'
    <2>1. /\ pc = "read" /\ pc' = "read" /\ pins' = pins \ {c}
          /\ readList' = readList \ {c} /\ UNCHANGED <<writeList, cur>>
      BY <1>12 DEF ReadClient, TakeRead, Disconnect, DestroyPins
    <2>2. writeList = {} /\ cur = Input  BY <1>2, <2>1 DEF Lists
    <2> QED  BY <1>2, <1>3, <2>1, <2>2 DEF Lists
  <1>13. ASSUME UseFreedPin \/ (\E c \in Conns : Killed(c)) \/ Capture \/ Clients
                \/ UNCHANGED vars
         PROVE  Lists'
    BY <1>4, <1>13
    DEF UseFreedPin, Killed, Capture, Clients, Client, Connect, Drain, Close, Record,
        RecordFails, HandOver, Overrun, vars, pinVars, listVars, Terminal
  <1> QED
    BY <1>5, <1>6, <1>7, <1>8, <1>9, <1>10, <1>11, <1>12, <1>13 DEF Next, Main

(* As long as no send() has failed, no freed pin is on an event list or     *)
(* being served, and the lists are not overrun: delivering before reading   *)
(* is what split and fft lack (main of source.c).                          *)
THEOREM ListsLive == Spec => []ListsLiveUntilFailure
  <1>1. Init => TypeInv /\ ListsInv  BY TypeInit, ListsInit
  <1>2. (TypeInv /\ ListsInv) /\ [Next]_vars => (TypeInv /\ ListsInv)'
    BY TypeStep, ListsStep
  <1>3. ListsInv => ListsLiveUntilFailure
    BY DEF ListsInv, Lists, ListsLiveUntilFailure
  <1> QED  BY <1>1, <1>2, <1>3, PTL DEF Spec
=============================================================================
