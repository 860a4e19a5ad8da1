---------------------------- MODULE Display_proofs ----------------------------
(* Theorems about the threads of display, for any inputs, any capacity of   *)
(* the channels and of the pipes and any number of samples.                *)
EXTENDS Display, Least

-----------------------------------------------------------------------------
(* The channels of the reordering buffer.                                  *)

(* The oldest of the numbers a channel holds is one of them.               *)
LEMMA OldestHeld ==
  ASSUME NEW S \in SUBSET Numbers, S # {}
  PROVE  Buffering!Oldest(S) \in S
  <1>1. PICK m \in S : \A k \in S : m <= k
    BY DisplayAssumption, LeastNumber DEF Numbers
  <1> QED  BY <1>1 DEF Buffering!Oldest

(* Assembler counts as Display does.                                       *)
LEMMA SameCardinality ==
  ASSUME NEW S
  PROVE  Buffering!Cardinality(S) = Cardinality(S)
  BY Zenon DEF Cardinality, Buffering!Cardinality, Buffering!IsFiniteSet, IsFiniteSet

LEMMA NumbersFinite ==
  ASSUME NEW S \in SUBSET Numbers
  PROVE  IsFiniteSet(S) /\ Cardinality(S) \in Nat
  <1>1. IsFiniteSet(Numbers)
    BY DisplayAssumption, FS_Interval DEF Numbers
  <1>2. IsFiniteSet(S)
    BY <1>1, FS_Subset
  <1> QED  BY <1>2, FS_CardinalityType

(* The channel of the sample that arrived holds its number, some of those   *)
(* it held, and no more than Cap; the others hold what they held.          *)
LEMMA ReceivedHolds ==
  ASSUME TypeOK, NEW c \in Channels, NEW n \in Numbers,
         NEW h, h = Buffering!Received(c, n)
  PROVE  /\ h \in [Channels -> SUBSET Numbers]
         /\ \A d \in Channels : h[d] \subseteq held[d] \cup {n}
         /\ \A d \in Channels : d # c => h[d] = held[d]
         /\ \A d \in Channels : Cardinality(h[d]) <= Cap
         /\ Forgotten(c) \subseteq Samples
  <1> DEFINE old == Buffering!Oldest(held[c])
             kept == IF Cardinality(held[c]) = Cap THEN held[c] \ {old} ELSE held[c]
  <1>1. /\ held[c] \in SUBSET Numbers /\ IsFiniteSet(held[c])
        /\ Cardinality(held[c]) \in Nat /\ Cardinality(held[c]) <= Cap
        /\ Cap \in Nat \ {0}
    BY NumbersFinite, DisplayAssumption DEF TypeOK
  <1>2. Cardinality(held[c]) = Cap => old \in held[c]
    BY <1>1, OldestHeld, FS_EmptySet
  <1>3. /\ kept \subseteq held[c] /\ IsFiniteSet(kept)
        /\ Cardinality(kept) \in Nat /\ Cardinality(kept) < Cap
    <2>1. CASE Cardinality(held[c]) = Cap
      <3>1. IsFiniteSet(held[c] \ {old}) /\ Cardinality(held[c] \ {old}) = Cap - 1
        <4> HIDE DEF old
        <4> QED  BY <1>1, <1>2, <2>1, FS_RemoveElement
      <3> QED  BY <1>1, <2>1, <3>1
    <2>2. CASE Cardinality(held[c]) # Cap
      BY <1>1, <2>2
    <2> QED  BY <2>1, <2>2
  <1>4. h = [held EXCEPT ![c] = kept \cup {n}]
    BY SameCardinality, Zenon DEF Buffering!Received
  <1>5. Cardinality(kept \cup {n}) <= Cap
    <2> HIDE DEF kept
    <2>1. Cardinality(kept \cup {n}) = IF n \in kept THEN Cardinality(kept)
                                       ELSE Cardinality(kept) + 1
      BY <1>3, FS_AddElement
    <2> QED  BY <1>1, <1>3, <2>1
  <1>6. Forgotten(c) \subseteq Samples
    BY <1>1, <1>2 DEF Forgotten, Samples
  <1>7. held \in [Channels -> SUBSET Numbers] /\ \A d \in Channels : Cardinality(held[d]) <= Cap
    BY DEF TypeOK
  <1> HIDE DEF kept
  <1> QED  BY <1>1, <1>3, <1>4, <1>5, <1>6, <1>7

(* After a sample was buffered.                                            *)
LEMMA BufferedHolds ==
  ASSUME TypeOK, NEW c \in Channels, NEW n \in Numbers, Buffering!Receive(c, n)
  PROVE  /\ held' \in [Channels -> SUBSET Numbers]
         /\ \A d \in Channels : held'[d] \subseteq held[d] \cup {n}
         /\ \A d \in Channels : d # c => held'[d] \subseteq held[d]
         /\ \A d \in Channels : Cardinality(held'[d]) <= Cap
         /\ n > last[c] /\ last' = [last EXCEPT ![c] = n]
         /\ \/ left' = left
            \/ /\ left' = left \cup {n}
               /\ \A d \in Channels : d # c => n \in held[d]
  <1> DEFINE h == Buffering!Received(c, n)
             complete == \A d \in Channels : n \in h[d]
  <1>1. /\ h \in [Channels -> SUBSET Numbers]
        /\ \A d \in Channels : h[d] \subseteq held[d] \cup {n}
        /\ \A d \in Channels : d # c => h[d] = held[d]
        /\ \A d \in Channels : Cardinality(h[d]) <= Cap
    BY ReceivedHolds
  <1>2. /\ n > last[c]
        /\ last' = [last EXCEPT ![c] = n]
        /\ held' = IF complete THEN [d \in Channels |-> {m \in h[d] : m > n}] ELSE h
        /\ left' = IF complete THEN left \cup {n} ELSE left
    BY DEF Buffering!Receive
  <1> HIDE DEF h
  <1>3. CASE complete
    <2>1. \A d \in Channels : Cardinality({m \in h[d] : m > n}) <= Cap
      <3> SUFFICES ASSUME NEW d \in Channels
                   PROVE  Cardinality({m \in h[d] : m > n}) <= Cap
        OBVIOUS
      <3>1. h[d] \in SUBSET Numbers /\ {m \in h[d] : m > n} \in SUBSET h[d]
        BY <1>1
      <3>2. /\ IsFiniteSet(h[d]) /\ Cardinality(h[d]) \in Nat
            /\ Cardinality({m \in h[d] : m > n}) \in Nat
        BY <3>1, NumbersFinite
      <3>3. Cardinality({m \in h[d] : m > n}) <= Cardinality(h[d])
        BY <3>1, <3>2, FS_Subset
      <3> QED  BY <1>1, <3>2, <3>3, DisplayAssumption
    <2>2. /\ held' = [d \in Channels |-> {m \in h[d] : m > n}]
          /\ left' = left \cup {n}
      BY <1>2, <1>3
    <2> QED  BY <1>1, <1>2, <1>3, <2>1, <2>2
  <1>4. CASE ~complete
    BY <1>1, <1>2, <1>4
  <1> QED  BY <1>3, <1>4

-----------------------------------------------------------------------------
(* Type correctness.  That the reorderer finds samples in its pipe is an    *)
(* invariant of its own: MESSAGE_END is never written to it, and what is    *)
(* there has been received.                                                *)

PipeHoldsReceived ==
  /\ \A c \in Channels : start[c] <= next[c]
  /\ \A i \in 1..Len(reordPipe) :
       \E c \in Channels, n \in Numbers :
         reordPipe[i] = <<c, n>> /\ start[c] <= n /\ n < next[c]

TypeInv == TypeOK /\ PipeHoldsReceived

LEMMA TypeInit == Init => TypeInv
  <1> SUFFICES ASSUME Init PROVE TypeInv  OBVIOUS
  <1> USE DisplayAssumption
  <1>1. \A c \in Channels : Cardinality(held[c]) <= Cap
    BY FS_EmptySet DEF Init
  <1>2. start \in [Channels -> 0..MaxStart] /\ MaxStart \in 0..MaxNumber
    BY DEF Init, Numbers
  <1>3. last \in [Channels -> Numbers \cup {-1}]
    BY <1>2 DEF Init, Numbers
  <1>4. next \in [Channels -> 0..(MaxNumber + 1)]
    BY <1>2 DEF Init
  <1>5. TypeOK
    BY <1>1, <1>3, <1>4 DEF Init, TypeOK
  <1>6. \A c \in Channels : start[c] <= next[c]
    BY <1>2 DEF Init
  <1> QED  BY <1>5, <1>6 DEF Init, TypeInv, PipeHoldsReceived

(* The head of the pipe is a sample that has been received, and what is     *)
(* behind it stays.                                                        *)
LEMMA HeadReceived ==
  ASSUME TypeInv, reordPipe # <<>>
  PROVE  \E c \in Channels, n \in Numbers :
           Head(reordPipe) = <<c, n>> /\ start[c] <= n /\ n < next[c]
  <1>1. reordPipe \in Seq(Samples \cup {MessageEnd}) /\ 1 \in 1..Len(reordPipe)
    BY DEF TypeInv, TypeOK
  <1>2. Head(reordPipe) = reordPipe[1]  BY <1>1
  <1> QED  BY <1>1, <1>2 DEF TypeInv, PipeHoldsReceived

LEMMA ReceiveTypes ==
  ASSUME TypeInv, NEW c \in Channels, Receive(c)
  PROVE  TypeInv'
  <1> USE DisplayAssumption
  <1>1. /\ reordPipe \in Seq(Samples \cup {MessageEnd}) /\ Len(reordPipe) <= PipeCap
        /\ next \in [Channels -> 0..(MaxNumber + 1)]
        /\ start \in [Channels -> 0..MaxStart]
        /\ \A d \in Channels : start[d] <= next[d]
    BY DEF TypeInv, TypeOK, PipeHoldsReceived
  <1>2. CASE Fits(reordPipe)
    <2>1. /\ next[c] \in Numbers /\ <<c, next[c]>> \in Samples
          /\ next' = [next EXCEPT ![c] = next[c] + 1]
          /\ reordPipe' = Append(reordPipe, <<c, next[c]>>)
          /\ start' = start
      BY <1>1, <1>2 DEF Receive, Numbers, Samples
    <2>2. /\ reordPipe' \in Seq(Samples \cup {MessageEnd})
          /\ Len(reordPipe') = Len(reordPipe) + 1 /\ Len(reordPipe') <= PipeCap
          /\ reordPipe'[Len(reordPipe) + 1] = <<c, next[c]>>
          /\ \A i \in 1..Len(reordPipe) : reordPipe'[i] = reordPipe[i]
      BY <1>1, <1>2, <2>1 DEF Fits
    <2>3. next' \in [Channels -> 0..(MaxNumber + 1)] /\ \A d \in Channels : next[d] <= next'[d]
      BY <1>1, <2>1 DEF Numbers
    <2>4. TypeOK'
      BY <1>2, <2>2, <2>3 DEF Receive, TypeInv, TypeOK, bufferVars
    <2>5. ASSUME NEW i \in 1..Len(reordPipe')
          PROVE  \E d \in Channels, n \in Numbers :
                   reordPipe'[i] = <<d, n>> /\ start[d] <= n /\ n < next'[d]
      <3>1. CASE i = Len(reordPipe) + 1
        <4>1. reordPipe'[i] = <<c, next[c]>>  BY <2>2, <3>1
        <4>2. start[c] <= next[c] /\ next[c] < next'[c]  BY <1>1, <2>1
        <4> QED  BY <2>1, <4>1, <4>2
      <3>2. CASE i # Len(reordPipe) + 1
        <4>1. i \in 1..Len(reordPipe) /\ reordPipe'[i] = reordPipe[i]
          BY <1>1, <2>2, <3>2
        <4>2. PICK d \in Channels, n \in Numbers :
                reordPipe[i] = <<d, n>> /\ start[d] <= n /\ n < next[d]
          BY <4>1 DEF TypeInv, PipeHoldsReceived
        <4>3. n < next'[d]
          BY <1>1, <2>3, <4>2 DEF Numbers
        <4> QED  BY <4>1, <4>2, <4>3
      <3> QED  BY <3>1, <3>2
    <2>6. \A d \in Channels : start[d] <= next'[d]
      BY <1>1, <2>3
    <2> QED  BY <2>1, <2>4, <2>5, <2>6 DEF TypeInv, PipeHoldsReceived
  <1>3. CASE ~Fits(reordPipe)
    BY <1>3 DEF Receive, TypeInv, TypeOK, PipeHoldsReceived, bufferVars
  <1> QED  BY <1>2, <1>3

LEMMA ReorderTypes ==
  ASSUME TypeInv, Reorder
  PROVE  TypeInv'
  <1> USE DisplayAssumption
  <1>1. /\ reordPipe \in Seq(Samples \cup {MessageEnd}) /\ Len(reordPipe) <= PipeCap
        /\ uiPipe \in Seq(Numbers) /\ Len(uiPipe) <= PipeCap
        /\ reordPipe # <<>> /\ reordPipe' = Tail(reordPipe)
    BY DEF TypeInv, TypeOK, Reorder
  <1>2. /\ reordPipe' \in Seq(Samples \cup {MessageEnd})
        /\ Len(reordPipe') = Len(reordPipe) - 1 /\ Len(reordPipe') <= PipeCap
        /\ \A i \in 1..Len(reordPipe') :
             i + 1 \in 1..Len(reordPipe) /\ reordPipe'[i] = reordPipe[i + 1]
    BY <1>1
  <1>3. start' = start /\ next' = next /\ closed' = closed /\ main' = main /\ drawn' = drawn
    BY DEF Reorder, inputVars
  <1>4. PipeHoldsReceived'
    <2>1. \A i \in 1..Len(reordPipe') :
            \E d \in Channels, n \in Numbers :
              reordPipe'[i] = <<d, n>> /\ start[d] <= n /\ n < next[d]
      BY <1>2 DEF TypeInv, PipeHoldsReceived
    <2> QED  BY <1>3, <2>1 DEF TypeInv, PipeHoldsReceived
  <1>5. ASSUME UNCHANGED <<bufferVars, uiPipe>>, proc' \in {"up", "exit", "died", "undefined"}
        PROVE  TypeOK'
    BY <1>2, <1>3, <1>5 DEF TypeInv, TypeOK, bufferVars
  <1>6. ASSUME Head(reordPipe) = MessageEnd PROVE TypeOK'
    BY <1>5, <1>6 DEF Reorder
  <1>7. ASSUME Head(reordPipe) # MessageEnd PROVE TypeOK'
    <2>1. PICK c \in Channels, n \in Numbers : Head(reordPipe) = <<c, n>>
      BY <1>1, HeadReceived
    <2>2. Buferize(c, n)
      BY <1>7, <2>1 DEF Reorder
    <2>3. CASE Overruns(c, n)
      BY <1>5, <2>2, <2>3 DEF Buferize
    <2>4. CASE ~Overruns(c, n)
      <3>1. /\ Buffering!Receive(c, n) /\ evicted' = evicted \cup Forgotten(c)
            /\ IF left' = left THEN UNCHANGED <<proc, uiPipe>>
               ELSE IF Fits(uiPipe) THEN uiPipe' = Append(uiPipe, n) /\ UNCHANGED proc
               ELSE proc' = "died" /\ UNCHANGED uiPipe
        BY <2>2, <2>4 DEF Buferize
      <3>2. /\ held' \in [Channels -> SUBSET Numbers]
            /\ \A d \in Channels : Cardinality(held'[d]) <= Cap
            /\ last' = [last EXCEPT ![c] = n]
            /\ left' \subseteq left \cup {n}
        BY <3>1, BufferedHolds DEF TypeInv
      <3>3. evicted' \subseteq Samples
        <4> DEFINE h == Buffering!Received(c, n)
        <4>1. Forgotten(c) \subseteq Samples
          BY ReceivedHolds DEF TypeInv
        <4> QED  BY <3>1, <4>1 DEF TypeInv, TypeOK
      <3>4. uiPipe' \in Seq(Numbers) /\ Len(uiPipe') <= PipeCap
            /\ proc' \in {"up", "exit", "died", "undefined"}
        <4>1. proc \in {"up", "exit", "died", "undefined"}
          BY DEF TypeInv, TypeOK
        <4>2. CASE left' = left
          BY <1>1, <3>1, <4>1, <4>2
        <4>3. CASE left' # left /\ Fits(uiPipe)
          <5>1. uiPipe' = Append(uiPipe, n) /\ proc' = proc /\ Len(uiPipe) < PipeCap
            BY <3>1, <4>3 DEF Fits
          <5>2. uiPipe' \in Seq(Numbers) /\ Len(uiPipe') = Len(uiPipe) + 1
            BY <1>1, <5>1
          <5> QED  BY <1>1, <4>1, <5>1, <5>2
        <4>4. CASE left' # left /\ ~Fits(uiPipe)
          BY <1>1, <3>1, <4>4
        <4> QED  BY <4>2, <4>3, <4>4
      <3> QED  BY <1>2, <1>3, <3>2, <3>3, <3>4 DEF TypeInv, TypeOK
    <2> QED  BY <2>3, <2>4
  <1> QED  BY <1>4, <1>6, <1>7 DEF TypeInv

LEMMA TypeStep ==
  ASSUME TypeInv, [Next]_vars
  PROVE  TypeInv'
  <1>1. CASE InputClosed
    BY <1>1 DEF InputClosed, WriteToReadEnd, TypeInv, TypeOK, PipeHoldsReceived, bufferVars, inputVars
  <1>2. ASSUME NEW c \in Channels, Receive(c) PROVE TypeInv'
    BY <1>2, ReceiveTypes
  <1>3. CASE Reorder
    BY <1>3, ReorderTypes
  <1>4. CASE Update
    <2>1. uiPipe \in Seq(Numbers) /\ Len(uiPipe) <= PipeCap /\ drawn \in Seq(Numbers)
      BY DEF TypeInv, TypeOK
    <2>2. /\ uiPipe # <<>> /\ Head(uiPipe) \in Numbers
          /\ Tail(uiPipe) \in Seq(Numbers) /\ Len(Tail(uiPipe)) <= PipeCap
      BY <1>4, <2>1, DisplayAssumption DEF Update
    <2>3. drawn' \in Seq(Numbers)
      BY <1>4, <2>1, <2>2 DEF Update
    <2> QED
      BY <1>4, <2>2, <2>3 DEF Update, TypeInv, TypeOK, PipeHoldsReceived, bufferVars, inputVars
  <1>5. ASSUME NEW c \in Channels, SenderCloses(c) PROVE TypeInv'
    BY <1>5 DEF SenderCloses, TypeInv, TypeOK, PipeHoldsReceived, bufferVars
  <1>6. CASE UNCHANGED vars
    BY <1>6 DEF vars, TypeInv, TypeOK, PipeHoldsReceived, bufferVars, inputVars
  <1> QED
    BY <1>1, <1>2, <1>3, <1>4, <1>5, <1>6 DEF Next, Receiver, Senders

(* Theorem: the pipes, the buffer and the two loops keep to their types:    *)
(* the pipes hold no more than they can, and no channel more than Cap.      *)
THEOREM TypeCorrect == Spec => []TypeOK
  <1>1. TypeInv => TypeOK  BY DEF TypeInv
  <1> QED  BY TypeInit, TypeStep, <1>1, PTL DEF Spec

-----------------------------------------------------------------------------
(* What is drawn.                                                          *)

(* The buffer holds what has been received, and no set that has left is     *)
(* newer than the last sample buffered on any channel: the next set to      *)
(* leave is newer than all before it, the sample that completes it being    *)
(* newer than the last of its channel.                                     *)
BufferedInOrder ==
  \A c \in Channels :
    /\ last[c] < next[c]
    /\ \A m \in held[c] \cup left : start[c] <= m /\ m <= last[c]

DrawnInv == TypeInv /\ BufferedInOrder /\ DrawnIsCompleted

(* The sets that have been handed on, drawn or not.                        *)
Out == drawn \o uiPipe

LEMMA OutType ==
  ASSUME TypeOK
  PROVE  Out \in Seq(Numbers)
  BY DEF Out, TypeOK

LEMMA DrawnFromOut ==
  DrawnIsCompleted <=>
    /\ \A i \in 2..Len(Out) : Out[i - 1] < Out[i]
    /\ ToSet(Out) \subseteq left
    /\ Up => left = ToSet(Out)
    /\ \A n \in left, c \in Channels : start[c] <= n /\ n < next[c]
  BY DEF DrawnIsCompleted, Out

LEMMA DrawnFromOutNext ==
  DrawnIsCompleted' <=>
    /\ \A i \in 2..Len(Out') : Out'[i - 1] < Out'[i]
    /\ ToSet(Out') \subseteq left'
    /\ Up' => left' = ToSet(Out')
    /\ \A n \in left', c \in Channels : start'[c] <= n /\ n < next'[c]
  BY DEF DrawnIsCompleted, Out

LEMMA DrawnInit == Init => DrawnInv
  <1> SUFFICES ASSUME Init PROVE DrawnInv  OBVIOUS
  <1>1. TypeInv  BY TypeInit
  <1>2. BufferedInOrder
    <2> SUFFICES ASSUME NEW c \in Channels
                 PROVE  last[c] < next[c] /\ held[c] \cup left = {}
      BY DEF BufferedInOrder
    <2>1. start[c] \in Int /\ next[c] = start[c] /\ last[c] = start[c] - 1
      BY DEF Init
    <2> QED  BY <2>1 DEF Init
  <1>3. DrawnIsCompleted
    <2>1. Out = <<>>  BY DEF Init, Out
    <2>2. Len(Out) = 0 /\ ToSet(Out) = {}
      BY <2>1 DEF ToSet
    <2> QED  BY <2>2, DrawnFromOut DEF Init
  <1> QED  BY <1>1, <1>2, <1>3 DEF DrawnInv

(* A step that adds no set to what has left.                               *)
LEMMA NoneLeaves ==
  ASSUME DrawnInv, Out' = Out, left' = left, start' = start, Up' => Up,
         next' \in [Channels -> 0..(MaxNumber + 1)],
         \A c \in Channels : next[c] <= next'[c]
  PROVE  DrawnIsCompleted'
  <1>1. /\ left \subseteq Numbers
        /\ next \in [Channels -> 0..(MaxNumber + 1)]
        /\ \A n \in left, c \in Channels : start[c] <= n /\ n < next[c]
    BY DrawnFromOut DEF DrawnInv, TypeInv, TypeOK
  <1>2. \A n \in left', c \in Channels : start'[c] <= n /\ n < next'[c]
    BY <1>1, DisplayAssumption DEF Numbers
  <1> QED  BY <1>2, DrawnFromOut, DrawnFromOutNext DEF DrawnInv

(* A sample is buffered: the set it may complete is behind all others.      *)
LEMMA BufferDraws ==
  ASSUME DrawnInv, TypeInv', NEW c \in Channels, NEW n \in Numbers,
         start[c] <= n, n < next[c], Buferize(c, n), ~Overruns(c, n), Up,
         drawn' = drawn, start' = start, next' = next
  PROVE  BufferedInOrder' /\ DrawnIsCompleted'
  <1>1. /\ Buffering!Receive(c, n)
        /\ IF left' = left THEN UNCHANGED <<proc, uiPipe>>
           ELSE IF Fits(uiPipe) THEN uiPipe' = Append(uiPipe, n) /\ UNCHANGED proc
           ELSE proc' = "died" /\ UNCHANGED uiPipe
    BY DEF Buferize
  <1>2. /\ \A d \in Channels : held'[d] \subseteq held[d] \cup {n}
        /\ \A d \in Channels : d # c => held'[d] \subseteq held[d]
        /\ n > last[c] /\ last' = [last EXCEPT ![c] = n]
        /\ \/ left' = left
           \/ /\ left' = left \cup {n}
              /\ \A d \in Channels : d # c => n \in held[d]
    BY <1>1, BufferedHolds DEF DrawnInv, TypeInv
  <1>3. /\ MaxNumber \in Nat
        /\ start \in [Channels -> Int] /\ next \in [Channels -> Int] /\ last \in [Channels -> Int]
        /\ left \subseteq Int /\ n \in Int
        /\ \A d \in Channels : held[d] \subseteq Int
    BY DisplayAssumption DEF Numbers, DrawnInv, TypeInv, TypeOK
  <1>4. \A d \in Channels : last[d] <= last'[d]
    BY <1>2, <1>3
  <1>5. BufferedInOrder'
    <2> SUFFICES ASSUME NEW d \in Channels
                 PROVE  /\ last'[d] < next[d]
                        /\ \A m \in held'[d] \cup left' : start[d] <= m /\ m <= last'[d]
      BY DEF BufferedInOrder
    <2>1. /\ last[d] < next[d]
          /\ \A m \in held[d] \cup left : start[d] <= m /\ m <= last[d]
      BY DEF DrawnInv, BufferedInOrder
    <2>2. last'[d] < next[d]
      BY <1>2, <1>3, <2>1
    <2>3. ASSUME NEW m \in held'[d] \cup left' PROVE start[d] <= m /\ m <= last'[d]
      <3>1. CASE m \in held[d] \cup left
        <4>1. start[d] <= m /\ m <= last[d] /\ last[d] <= last'[d]
          BY <1>4, <2>1, <3>1
        <4>2. m \in Int /\ last[d] \in Int /\ last'[d] \in Int
          BY <1>2, <1>3, <3>1
        <4> QED  BY <4>1, <4>2
      <3>2. CASE m \notin held[d] \cup left
        <4>1. m = n /\ d = c  BY <1>2, <2>3, <3>2
        <4> QED  BY <1>2, <1>3, <4>1
      <3> QED  BY <3>1, <3>2
    <2> QED  BY <2>2, <2>3
  <1>6. CASE left' = left
    <2>1. Out' = Out /\ Up' = Up
      BY <1>1, <1>6 DEF Out, Up
    <2> QED  BY <1>3, <1>5, <1>6, <2>1, NoneLeaves DEF DrawnInv, TypeInv, TypeOK
  <1>7. CASE left' # left
    <2>1. left' = left \cup {n}
      BY <1>2, <1>7
    <2>2. \A m \in left : m < n
      <3>1. PICK k \in Int : k = last[c]
        BY <1>3
      <3>2. \A m \in left : m \in Int /\ m <= k
        BY <1>3, <3>1 DEF DrawnInv, BufferedInOrder
      <3>3. k < n
        BY <1>2, <1>3, <3>1
      <3> QED  BY <1>3, <3>2, <3>3
    <2>3. \A m \in left', d \in Channels : start'[d] <= m /\ m < next'[d]
      <3>1. \A d \in Channels : last'[d] < next'[d] /\ last'[d] \in Int /\ next'[d] \in Int
        BY <1>2, <1>3, <1>5 DEF BufferedInOrder
      <3>2. \A m \in left', d \in Channels : start'[d] <= m /\ m <= last'[d]
        BY <1>5 DEF BufferedInOrder
      <3> QED  BY <1>3, <2>1, <3>1, <3>2
    <2>4. Out \in Seq(Numbers) /\ ToSet(Out) = left
          /\ \A i \in 2..Len(Out) : Out[i - 1] < Out[i]
      BY OutType, DrawnFromOut DEF DrawnInv, TypeInv
    <2>5. CASE Fits(uiPipe)
      <3>1. uiPipe' = Append(uiPipe, n)
        BY <1>1, <1>7, <2>5
      <3>2. Out' = Append(Out, n)
        <4>1. uiPipe \in Seq(Numbers) /\ drawn \in Seq(Numbers)
          BY DEF DrawnInv, TypeInv, TypeOK
        <4> QED  BY <3>1, <4>1 DEF Out
      <3>3. /\ Len(Out') = Len(Out) + 1 /\ Out'[Len(Out) + 1] = n /\ Len(Out) \in Nat
            /\ \A i \in 1..Len(Out) : Out'[i] = Out[i]
        BY <2>4, <3>2
      <3>4. ToSet(Out') = left'
        <4>1. DOMAIN Out' = 1..(Len(Out) + 1) /\ DOMAIN Out = 1..Len(Out)
          BY <2>4, <3>2
        <4>2. \A i \in 1..Len(Out) : Out[i] \in left
          BY <2>4, <4>1 DEF ToSet
        <4>3. \A m \in left : \E i \in 1..Len(Out) : Out[i] = m
          BY <2>4, <4>1 DEF ToSet
        <4>4. \A i \in 1..(Len(Out) + 1) : Out'[i] \in left'
          BY <2>1, <3>3, <4>2
        <4>5. \A m \in left' : \E i \in 1..(Len(Out) + 1) : Out'[i] = m
          BY <2>1, <3>3, <4>3
        <4> QED  BY <4>1, <4>4, <4>5 DEF ToSet
      <3>5. ASSUME NEW i \in 2..Len(Out') PROVE Out'[i - 1] < Out'[i]
        <4>1. CASE i <= Len(Out)
          <5>1. i \in 2..Len(Out) /\ i - 1 \in 1..Len(Out) /\ i \in 1..Len(Out)
            BY <3>3, <4>1
          <5> QED  BY <2>4, <3>3, <5>1
        <4>2. CASE i = Len(Out) + 1
          <5>1. i - 1 \in 1..Len(Out) /\ i - 1 \in DOMAIN Out
            BY <2>4, <3>3, <4>2
          <5>2. Out[i - 1] \in left
            BY <2>4, <5>1 DEF ToSet
          <5> QED  BY <2>2, <3>3, <4>2, <5>1, <5>2
        <4> QED  BY <3>3, <4>1, <4>2
      <3> QED  BY <1>5, <2>3, <3>4, <3>5, DrawnFromOutNext
    <2>6. CASE ~Fits(uiPipe)
      <3>1. Out' = Out /\ ~Up'
        BY <1>1, <1>7, <2>6 DEF Out, Up
      <3>2. ToSet(Out') \subseteq left'
        BY <2>1, <2>4, <3>1
      <3> QED  BY <1>5, <2>3, <2>4, <3>1, <3>2, DrawnFromOutNext
    <2> QED  BY <2>5, <2>6
  <1> QED  BY <1>6, <1>7, <1>5

LEMMA DrawnStep ==
  ASSUME DrawnInv, [Next]_vars
  PROVE  DrawnInv'
  <1>1. TypeInv'
    BY TypeStep DEF DrawnInv
  <1>2. /\ TypeOK /\ next \in [Channels -> 0..(MaxNumber + 1)]
        /\ last \in [Channels -> Int]
        /\ next' \in [Channels -> 0..(MaxNumber + 1)] /\ MaxNumber \in Nat
    <2>1. TypeOK  BY DEF DrawnInv, TypeInv
    <2>2. next' \in [Channels -> 0..(MaxNumber + 1)]
      BY <1>1 DEF TypeInv, TypeOK
    <2>3. MaxNumber \in Nat /\ Numbers \cup {-1} \subseteq Int
      BY DisplayAssumption DEF Numbers
    <2>4. next \in [Channels -> 0..(MaxNumber + 1)] /\ last \in [Channels -> Numbers \cup {-1}]
      BY <2>1 DEF TypeOK
    <2> HIDE DEF Numbers
    <2>5. last \in [Channels -> Int]
      BY <2>3, <2>4
    <2> QED  BY <2>1, <2>2, <2>3, <2>4, <2>5
  <1>3. ASSUME UNCHANGED <<start, bufferVars>>, \A c \in Channels : next[c] <= next'[c],
               Out' = Out, Up' => Up
        PROVE  DrawnInv'
    <2>1. DrawnIsCompleted'
      BY <1>2, <1>3, NoneLeaves DEF bufferVars
    <2>2. BufferedInOrder'
      <3>1. /\ \A c \in Channels : last[c] < next'[c]
            /\ \A c \in Channels : \A m \in held[c] \cup left :
                 start[c] <= m /\ m <= last[c]
        BY <1>2, <1>3 DEF DrawnInv, BufferedInOrder
      <3> QED  BY <1>3, <3>1 DEF bufferVars, BufferedInOrder
    <2> QED  BY <1>1, <2>1, <2>2 DEF DrawnInv
  <1>4. CASE InputClosed
    BY <1>2, <1>3, <1>4 DEF InputClosed, inputVars, Out, Up
  <1>5. ASSUME NEW c \in Channels, Receive(c) PROVE DrawnInv'
    <2>1. \A d \in Channels : next[d] <= next'[d]
      <3>1. next' = next \/ next' = [next EXCEPT ![c] = @ + 1]
        BY <1>5 DEF Receive
      <3> QED  BY <1>2, <3>1
    <2> QED  BY <1>3, <1>5, <2>1 DEF Receive, Out, Up
  <1>6. CASE Reorder
    <2>1. /\ drawn' = drawn /\ start' = start /\ next' = next /\ Up /\ reordPipe # <<>>
      BY <1>6 DEF Reorder, inputVars
    <2>2. \A c \in Channels : next[c] <= next'[c]
      BY <1>2, <2>1
    <2>3. CASE UNCHANGED <<bufferVars, uiPipe>>
      BY <1>3, <2>1, <2>2, <2>3 DEF Out
    <2>4. CASE ~UNCHANGED <<bufferVars, uiPipe>>
      <3>1. PICK c \in Channels, n \in Numbers :
              Head(reordPipe) = <<c, n>> /\ start[c] <= n /\ n < next[c]
        BY <2>1, HeadReceived DEF DrawnInv
      <3>2. Buferize(c, n)
        BY <1>6, <2>4, <3>1 DEF Reorder
      <3>3. ~Overruns(c, n)
        BY <2>4, <3>2 DEF Buferize
      <3> QED  BY <1>1, <2>1, <3>1, <3>2, <3>3, BufferDraws DEF DrawnInv
    <2> QED  BY <2>3, <2>4
  <1>7. CASE Update
    <2>1. uiPipe \in Seq(Numbers) /\ drawn \in Seq(Numbers) /\ uiPipe # <<>>
      BY <1>2, <1>7 DEF TypeOK, Update
    <2>2. Out' = Out
      <3>1. Append(drawn, Head(uiPipe)) \o Tail(uiPipe) = drawn \o uiPipe
        BY <2>1
      <3> QED  BY <1>7, <3>1 DEF Update, Out
    <2> QED  BY <1>2, <1>3, <1>7, <2>2 DEF Update, inputVars, Up
  <1>8. ASSUME NEW c \in Channels, SenderCloses(c) PROVE DrawnInv'
    BY <1>2, <1>3, <1>8 DEF SenderCloses, Out, Up
  <1>9. CASE UNCHANGED vars
    BY <1>2, <1>3, <1>9 DEF vars, inputVars, Out, Up
  <1> QED
    BY <1>4, <1>5, <1>6, <1>7, <1>8, <1>9 DEF Next, Receiver, Senders

(* Theorem: the sets drawn, followed by those in the pipe to the updater,   *)
(* are the sets the buffer has completed, in the order of their numbers,    *)
(* each received on every channel; none is lost while the process is up.    *)
THEOREM SetsAreDrawn == Spec => []DrawnIsCompleted
  <1>1. DrawnInv => DrawnIsCompleted  BY DEF DrawnInv
  <1> QED  BY DrawnInit, DrawnStep, <1>1, PTL DEF Spec

-----------------------------------------------------------------------------
(* What is received is kept.                                               *)

(* No number lies on every channel at rest, and one that has neither left   *)
(* nor been forgotten lies on every channel it has been buffered on.        *)
NoneComplete == \A m \in Numbers : \E c \in Channels : m \notin held[c]
KeptUntilDone ==
  \A m \in Numbers :
    (\A c \in Channels : start[c] <= m) =>
      \/ m \in left
      \/ \E c \in Channels : <<c, m>> \in evicted
      \/ \A c \in Channels : m \in held[c] \/ last[c] < m

KeptInv == DrawnInv /\ PipeContinuesBuffer /\ NoneComplete /\ KeptUntilDone

(* The pipe by its places.                                                 *)
InPipe(c, n) == \E i \in 1..Len(reordPipe) : reordPipe[i] = <<c, n>>

LEMMA PipePlaces ==
  ASSUME TypeOK, NEW x
  PROVE  /\ DOMAIN reordPipe = 1..Len(reordPipe) /\ Len(reordPipe) \in Nat
         /\ x \in ToSet(reordPipe) <=> \E i \in 1..Len(reordPipe) : reordPipe[i] = x
  <1>1. DOMAIN reordPipe = 1..Len(reordPipe) /\ Len(reordPipe) \in Nat
    BY DEF TypeOK
  <1> QED  BY <1>1 DEF ToSet

PipeInOrder ==
  \A c \in Channels :
    /\ \A n \in Numbers : InPipe(c, n) <=> last[c] < n /\ n < next[c]
    /\ \A m, n \in Numbers, i, j \in 1..Len(reordPipe) :
         reordPipe[i] = <<c, m>> /\ reordPipe[j] = <<c, n>> /\ i < j => m < n

LEMMA PipeByPlace ==
  ASSUME TypeOK
  PROVE  PipeContinuesBuffer <=> (proc # "undefined" => PipeInOrder)
  <1>1. \A c \in Channels, n \in Numbers : <<c, n>> \in ToSet(reordPipe) <=> InPipe(c, n)
    BY PipePlaces DEF InPipe
  <1>2. DOMAIN reordPipe = 1..Len(reordPipe)
    BY PipePlaces
  <1> QED  BY <1>1, <1>2 DEF PipeContinuesBuffer, PipeInOrder

(* A sample is received: it goes behind those of its channel.               *)
LEMMA ReceiveInOrder ==
  ASSUME TypeInv, PipeInOrder, BufferedInOrder, NEW c \in Channels, Receive(c)
  PROVE  PipeInOrder'
  <1>1. /\ reordPipe \in Seq(Samples \cup {MessageEnd})
        /\ next \in [Channels -> 0..(MaxNumber + 1)] /\ MaxNumber \in Nat
        /\ last \in [Channels -> Int] /\ next[c] \in Numbers /\ last' = last
        /\ Numbers \subseteq Int
    BY DisplayAssumption DEF TypeInv, TypeOK, Receive, bufferVars, Numbers
  <1>2. CASE Fits(reordPipe)
    <2>1. /\ next' = [next EXCEPT ![c] = next[c] + 1]
          /\ reordPipe' = Append(reordPipe, <<c, next[c]>>)
      BY <1>2 DEF Receive
    <2>2. PICK l \in Nat : l = Len(reordPipe)
      BY <1>1
    <2>3. /\ Len(reordPipe') = l + 1 /\ reordPipe'[l + 1] = <<c, next[c]>>
          /\ \A i \in 1..l : reordPipe'[i] = reordPipe[i]
      BY <1>1, <2>1, <2>2
    <2>4. ASSUME NEW d \in Channels, NEW n \in Numbers
          PROVE  InPipe(d, n)' <=> InPipe(d, n) \/ (d = c /\ n = next[c])
      <3>1. InPipe(d, n)' <=> \E i \in 1..(l + 1) : reordPipe'[i] = <<d, n>>
        BY <2>3 DEF InPipe
      <3>2. (\E i \in 1..(l + 1) : reordPipe'[i] = <<d, n>>)
              <=> (\E i \in 1..l : reordPipe'[i] = <<d, n>>) \/ reordPipe'[l + 1] = <<d, n>>
        OBVIOUS
      <3>3. (\E i \in 1..l : reordPipe'[i] = <<d, n>>) <=> InPipe(d, n)
        BY <2>2, <2>3 DEF InPipe
      <3> QED  BY <2>3, <3>1, <3>2, <3>3
    <2>5. ASSUME NEW d \in Channels, NEW n \in Numbers
          PROVE  InPipe(d, n)' <=> last[d] < n /\ n < next'[d]
      <3>1. InPipe(d, n) <=> last[d] < n /\ n < next[d]
        BY DEF PipeInOrder
      <3>2. last[c] < next[c]
        BY DEF BufferedInOrder
      <3>3. CASE d = c
        <4>1. n < next'[c] <=> n < next[c] \/ n = next[c]
          BY <1>1, <2>1
        <4> QED  BY <2>4, <3>1, <3>2, <3>3, <4>1
      <3>4. CASE d # c
        BY <1>1, <2>1, <2>4, <3>1, <3>4
      <3> QED  BY <3>3, <3>4
    <2>6. ASSUME NEW d \in Channels, NEW m \in Numbers, NEW n \in Numbers,
                 NEW i \in 1..(l + 1), NEW j \in 1..(l + 1),
                 reordPipe'[i] = <<d, m>>, reordPipe'[j] = <<d, n>>, i < j
          PROVE  m < n
      <3>1. i \in 1..l /\ reordPipe[i] = <<d, m>>
        BY <2>3, <2>6
      <3>2. CASE j \in 1..l
        BY <2>2, <2>3, <2>6, <3>1, <3>2 DEF PipeInOrder
      <3>3. CASE j = l + 1
        <4>1. d = c /\ n = next[c]
          BY <2>3, <2>6, <3>3
        <4>2. InPipe(c, m)
          BY <2>2, <3>1, <4>1 DEF InPipe
        <4> QED  BY <4>1, <4>2 DEF PipeInOrder
      <3> QED  BY <3>2, <3>3
    <2> QED  BY <1>1, <2>3, <2>5, <2>6 DEF PipeInOrder
  <1>3. CASE ~Fits(reordPipe)
    <2>1. reordPipe' = reordPipe /\ next' = next
      BY <1>3 DEF Receive
    <2> QED  BY <1>1, <2>1 DEF PipeInOrder, InPipe
  <1> QED  BY <1>2, <1>3

(* A sample leaves the pipe: it is the next of its channel.                 *)
LEMMA HeadIsNext ==
  ASSUME TypeInv, PipeInOrder, reordPipe # <<>>, NEW c \in Channels, NEW n \in Numbers,
         Head(reordPipe) = <<c, n>>
  PROVE  n = last[c] + 1
  <1>1. /\ last[c] \in Int /\ last[c] >= -1 /\ n \in Int
        /\ \A k \in Int : -1 < k /\ k < n => k \in Numbers
    BY DisplayAssumption DEF TypeInv, TypeOK, Numbers
  <1>2. 1 \in 1..Len(reordPipe) /\ reordPipe[1] = <<c, n>>
    BY DEF TypeInv, TypeOK
  <1>3. last[c] < n /\ n < next[c]
    <2>1. InPipe(c, n)  BY <1>2 DEF InPipe
    <2> QED  BY <2>1 DEF PipeInOrder
  <1>4. ASSUME last[c] + 1 < n PROVE FALSE
    <2> DEFINE k == last[c] + 1
    <2>1. k \in Numbers /\ k < n /\ last[c] < k
      BY <1>1, <1>4
    <2>2. k < next[c]
      <3>1. next[c] \in Int  BY DisplayAssumption DEF TypeInv, TypeOK
      <3> QED  BY <1>1, <1>3, <1>4, <3>1
    <2> HIDE DEF k
    <2>3. PICK i \in 1..Len(reordPipe) : reordPipe[i] = <<c, k>>
      BY <2>1, <2>2 DEF PipeInOrder, InPipe
    <2>4. k # n
      BY <1>1, <2>1 DEF k
    <2>5. i # 1
      BY <1>2, <2>3, <2>4
    <2>6. 1 < i
      BY <2>5
    <2>7. n < k
      BY <1>2, <2>1, <2>3, <2>6 DEF PipeInOrder
    <2> QED  BY <1>1, <2>1, <2>7 DEF k
  <1> QED  BY <1>1, <1>3, <1>4

LEMMA ReorderInOrder ==
  ASSUME TypeInv, PipeInOrder, reordPipe # <<>>, NEW c \in Channels, NEW n \in Numbers,
         Head(reordPipe) = <<c, n>>, reordPipe' = Tail(reordPipe),
         last' = [last EXCEPT ![c] = n], next' = next
  PROVE  PipeInOrder'
  <1>1. /\ reordPipe \in Seq(Samples \cup {MessageEnd})
        /\ last \in [Channels -> Int] /\ Numbers \subseteq Int
    BY DisplayAssumption DEF TypeInv, TypeOK, Numbers
  <1>2. PICK l \in Nat : Len(reordPipe) = l + 1
    <2>1. Len(reordPipe) \in Nat /\ Len(reordPipe) # 0  BY <1>1
    <2>2. Len(reordPipe) - 1 \in Nat /\ Len(reordPipe) = (Len(reordPipe) - 1) + 1  BY <2>1
    <2> QED  BY <2>2
  <1>3. /\ Len(reordPipe') = l /\ reordPipe[1] = <<c, n>>
        /\ \A i \in 1..l : reordPipe'[i] = reordPipe[i + 1]
    BY <1>1, <1>2
  <1>4. n = last[c] + 1
    BY HeadIsNext
  <1>5. ASSUME NEW d \in Channels, NEW m \in Numbers
        PROVE  InPipe(d, m) <=> InPipe(d, m)' \/ (d = c /\ m = n)
    <2>1. InPipe(d, m) <=> \E i \in 1..(l + 1) : reordPipe[i] = <<d, m>>
      BY <1>2 DEF InPipe
    <2>2. InPipe(d, m)' <=> \E i \in 1..l : reordPipe[i + 1] = <<d, m>>
      BY <1>3 DEF InPipe
    <2>3. (\E i \in 1..(l + 1) : reordPipe[i] = <<d, m>>)
            <=> reordPipe[1] = <<d, m>> \/ \E i \in 1..l : reordPipe[i + 1] = <<d, m>>
      <3>1. \A i \in 1..(l + 1) : i = 1 \/ (i - 1 \in 1..l /\ (i - 1) + 1 = i)
        OBVIOUS
      <3>2. 1 \in 1..(l + 1) /\ \A i \in 1..l : i + 1 \in 1..(l + 1)
        OBVIOUS
      <3> QED  BY <3>1, <3>2
    <2> QED  BY <1>3, <2>1, <2>2, <2>3
  <1>6. ~InPipe(c, n)'
    <2> SUFFICES ASSUME NEW i \in 1..l, reordPipe[i + 1] = <<c, n>> PROVE FALSE
      BY <1>3 DEF InPipe
    <2>1. 1 \in 1..Len(reordPipe) /\ i + 1 \in 1..Len(reordPipe) /\ 1 < i + 1
      BY <1>2
    <2>2. n < n
      BY <1>3, <2>1 DEF PipeInOrder
    <2> QED  BY <1>1, <2>2
  <1>7. ASSUME NEW d \in Channels, NEW m \in Numbers
        PROVE  InPipe(d, m)' <=> last'[d] < m /\ m < next[d]
    <2>1. InPipe(d, m) <=> last[d] < m /\ m < next[d]
      BY DEF PipeInOrder
    <2>2. CASE d = c
      <3>1. last'[c] = last[c] + 1 /\ m \in Int /\ last[c] \in Int
        BY <1>1, <1>4
      <3>2. last'[c] < m <=> last[c] < m /\ m # n
        BY <1>4, <3>1
      <3> QED  BY <1>5, <1>6, <2>1, <2>2, <3>2
    <2>3. CASE d # c
      BY <1>1, <1>5, <2>1, <2>3
    <2> QED  BY <2>2, <2>3
  <1>8. ASSUME NEW d \in Channels, NEW m \in Numbers, NEW k \in Numbers,
               NEW i \in 1..l, NEW j \in 1..l,
               reordPipe'[i] = <<d, m>>, reordPipe'[j] = <<d, k>>, i < j
        PROVE  m < k
    <2>1. /\ i + 1 \in 1..Len(reordPipe) /\ j + 1 \in 1..Len(reordPipe) /\ i + 1 < j + 1
      BY <1>2, <1>8
    <2>2. reordPipe[i + 1] = <<d, m>> /\ reordPipe[j + 1] = <<d, k>>
      BY <1>3, <1>8
    <2> QED  BY <2>1, <2>2 DEF PipeInOrder
  <1> QED  BY <1>3, <1>7, <1>8 DEF PipeInOrder

(* The channel of the sample that arrived holds what it held, but for the   *)
(* number it has forgotten.                                                *)
LEMMA ReceivedExactly ==
  ASSUME TypeOK, NEW c \in Channels, NEW n \in Numbers,
         NEW h, h = Buffering!Received(c, n)
  PROVE  \A m \in Numbers :
           m \in h[c] <=> m = n \/ (m \in held[c] /\ <<c, m>> \notin Forgotten(c))
  <1> DEFINE old == Buffering!Oldest(held[c])
             kept == IF Cardinality(held[c]) = Cap THEN held[c] \ {old} ELSE held[c]
  <1>1. h = [held EXCEPT ![c] = kept \cup {n}]
    BY SameCardinality, Zenon DEF Buffering!Received
  <1>2. held \in [Channels -> SUBSET Numbers]
    BY DEF TypeOK
  <1>3. \A m : m \in kept <=> m \in held[c] /\ <<c, m>> \notin Forgotten(c)
    BY DEF Forgotten
  <1> HIDE DEF kept
  <1>4. h[c] = kept \cup {n}
    BY <1>1, <1>2
  <1> QED  BY <1>3, <1>4

(* A sample is buffered: numbers leave the buffer only with their set,      *)
(* behind a set, or forgotten.                                             *)
LEMMA BufferKeeps ==
  ASSUME TypeInv, BufferedInOrder, NoneComplete, KeptUntilDone,
         NEW c \in Channels, NEW n \in Numbers, n = last[c] + 1,
         Buffering!Receive(c, n), evicted' = evicted \cup Forgotten(c), start' = start
  PROVE  NoneComplete' /\ KeptUntilDone'
  <1> DEFINE h == Buffering!Received(c, n)
             complete == \A d \in Channels : n \in h[d]
  <1>1. /\ \A d \in Channels : d # c => h[d] = held[d]
        /\ h \in [Channels -> SUBSET Numbers]
    BY ReceivedHolds DEF TypeInv
  <1>2. \A m \in Numbers :
          m \in h[c] <=> m = n \/ (m \in held[c] /\ <<c, m>> \notin Forgotten(c))
    BY ReceivedExactly DEF TypeInv
  <1>3. /\ last' = [last EXCEPT ![c] = n]
        /\ held' = IF complete THEN [d \in Channels |-> {m \in h[d] : m > n}] ELSE h
        /\ left' = IF complete THEN left \cup {n} ELSE left
    BY DEF Buffering!Receive
  <1>4. /\ last \in [Channels -> Int] /\ Numbers \subseteq Int
        /\ start \in [Channels -> Int] /\ n \in Int
    BY DisplayAssumption DEF TypeInv, TypeOK, Numbers
  <1>5. \A d \in Channels : \A m \in held[d] : m <= last[d]
    BY DEF BufferedInOrder
  <1>6. ASSUME NEW m \in Numbers, m # n PROVE \E d \in Channels : m \notin h[d]
    <2>1. PICK d \in Channels : m \notin held[d]
      BY DEF NoneComplete
    <2> HIDE DEF h
    <2> QED  BY <1>1, <1>2, <1>6, <2>1
  <1>7. ASSUME NEW m \in Numbers, \A d \in Channels : start[d] <= m,
               m \notin left', \A d \in Channels : <<d, m>> \notin evicted'
        PROVE  \A d \in Channels : m \in h[d] \/ last'[d] < m
    <2>1. \A d \in Channels : m \in held[d] \/ last[d] < m
      BY <1>3, <1>7 DEF KeptUntilDone
    <2>2. <<c, m>> \notin Forgotten(c)
      BY <1>7
    <2> SUFFICES ASSUME NEW d \in Channels PROVE m \in h[d] \/ last'[d] < m
      OBVIOUS
    <2> HIDE DEF h
    <2>3. CASE d # c
      BY <1>1, <1>3, <1>4, <2>1, <2>3
    <2>4. CASE d = c
      <3>1. m = n \/ m \in held[c] \/ last'[c] < m
        <4>1. last'[c] = n /\ last[c] \in Int /\ m \in Int
          BY <1>3, <1>4
        <4>2. m \in held[c] \/ last[c] < m
          BY <2>1
        <4>3. last[c] < m => m = n \/ last'[c] < m
          BY <1>4, <4>1
        <4> QED  BY <4>2, <4>3
      <3> QED  BY <1>2, <2>2, <2>4, <3>1
    <2> QED  BY <2>3, <2>4
  <1> HIDE DEF h
  <1>8. CASE ~complete
    <2>1. held' = h /\ left' = left
      BY <1>3, <1>8
    <2>2. NoneComplete'
      BY <1>6, <1>8, <2>1 DEF NoneComplete
    <2>3. KeptUntilDone'
      BY <1>7, <2>1 DEF KeptUntilDone
    <2> QED  BY <2>2, <2>3
  <1>9. CASE complete
    <2>1. /\ held' = [d \in Channels |-> {m \in h[d] : m > n}]
          /\ left' = left \cup {n}
      BY <1>3, <1>9
    <2>2. NoneComplete'
      <3> SUFFICES ASSUME NEW m \in Numbers PROVE \E d \in Channels : m \notin held'[d]
        BY DEF NoneComplete
      <3>1. CASE m = n
        BY <1>4, <2>1, <3>1
      <3>2. CASE m # n
        BY <1>6, <2>1, <3>2
      <3> QED  BY <3>1, <3>2
    <2>3. ASSUME NEW m \in Numbers, \A d \in Channels : start[d] <= m,
                 m \notin left', \A d \in Channels : <<d, m>> \notin evicted',
                 NEW d \in Channels
          PROVE  m \in held'[d] \/ last'[d] < m
      <3>1. \A e \in Channels : m \in h[e] \/ last'[e] < m
        BY <1>7, <2>3
      <3>2. m # n /\ m \in Int
        BY <1>4, <2>1, <2>3
      <3>3. CASE m > n
        BY <2>1, <3>1, <3>3
      <3>4. CASE m < n
        <4>1. ASSUME NEW e \in Channels PROVE m \in h[e]
          <5>1. n <= last'[e]
            <6>1. CASE e = c
              BY <1>3, <1>4, <6>1
            <6>2. CASE e # c
              <7>1. n \in held[e]  BY <1>1, <1>9, <6>2
              <7>2. n <= last[e]  BY <1>5, <7>1
              <7> QED  BY <1>3, <1>4, <6>2, <7>2
            <6> QED  BY <6>1, <6>2
          <5>2. last'[e] \in Int
            BY <1>3, <1>4
          <5>3. ~(last'[e] < m)
            BY <1>4, <3>2, <3>4, <5>1, <5>2
          <5> QED  BY <3>1, <5>3
        <4> QED  BY <1>6, <3>2, <4>1
      <3> QED  BY <1>4, <3>2, <3>3, <3>4
    <2>4. KeptUntilDone'
      BY <2>3 DEF KeptUntilDone
    <2> QED  BY <2>2, <2>4
  <1> QED  BY <1>8, <1>9

LEMMA KeptInit == Init => KeptInv
  <1> SUFFICES ASSUME Init PROVE KeptInv  OBVIOUS
  <1>1. DrawnInv /\ TypeOK  BY DrawnInit DEF DrawnInv, TypeInv
  <1>2. PipeInOrder
    <2>1. Len(reordPipe) = 0  BY DEF Init
    <2>2. 1..Len(reordPipe) = {}  BY <2>1
    <2>3. \A c \in Channels, n \in Numbers : ~(last[c] < n /\ n < next[c])
      <3>1. \A c \in Channels : start[c] \in Int /\ next[c] = start[c]
                                 /\ last[c] = start[c] - 1
        BY DEF Init
      <3>2. Numbers \subseteq Int  BY DEF Numbers
      <3> QED  BY <3>1, <3>2
    <2> QED  BY <2>2, <2>3 DEF PipeInOrder, InPipe
  <1>3. NoneComplete
    BY DisplayAssumption DEF Init, NoneComplete
  <1>4. KeptUntilDone
    <2>1. \A c \in Channels : start[c] \in Int /\ last[c] = start[c] - 1
      BY DEF Init
    <2>2. Numbers \subseteq Int  BY DEF Numbers
    <2>3. \A c \in Channels, m \in Numbers : start[c] <= m => last[c] < m
      BY <2>1, <2>2
    <2> QED  BY <2>3 DEF KeptUntilDone
  <1> QED  BY <1>1, <1>2, <1>3, <1>4, PipeByPlace DEF KeptInv

LEMMA KeptStep ==
  ASSUME KeptInv, [Next]_vars
  PROVE  KeptInv'
  <1>1. TypeInv /\ TypeOK /\ BufferedInOrder /\ DrawnInv
    BY DEF KeptInv, DrawnInv, TypeInv
  <1>2. DrawnInv' /\ TypeOK'
    BY <1>1, DrawnStep DEF DrawnInv, TypeInv
  <1>3. PipeContinuesBuffer' <=> (proc' # "undefined" => PipeInOrder')
    <2>1. DOMAIN reordPipe' = 1..Len(reordPipe')
      BY <1>2 DEF TypeOK
    <2>2. \A c \in Channels, n \in Numbers : <<c, n>> \in ToSet(reordPipe') <=> InPipe(c, n)'
      BY <2>1 DEF ToSet, InPipe
    <2> QED  BY <2>1, <2>2 DEF PipeContinuesBuffer, PipeInOrder
  <1>4. proc # "undefined" => PipeInOrder
    BY <1>1, PipeByPlace DEF KeptInv
  <1>5. ASSUME UNCHANGED <<start, bufferVars>>, proc' # "undefined" => PipeInOrder'
        PROVE  KeptInv'
    BY <1>2, <1>3, <1>5 DEF KeptInv, bufferVars, NoneComplete, KeptUntilDone
  <1>6. ASSUME UNCHANGED <<proc, next, reordPipe, last>>
        PROVE  proc' # "undefined" => PipeInOrder'
    BY <1>4, <1>6 DEF PipeInOrder, InPipe
  <1>7. CASE InputClosed
    BY <1>5, <1>6, <1>7 DEF InputClosed, WriteToReadEnd, inputVars, bufferVars
  <1>8. ASSUME NEW c \in Channels, Receive(c) PROVE KeptInv'
    <2>1. PipeInOrder'
      BY <1>1, <1>4, <1>8, ReceiveInOrder DEF Receive, Up
    <2> QED  BY <1>5, <1>8, <2>1 DEF Receive
  <1>9. CASE Reorder
    <2>1. /\ Up /\ proc # "undefined" /\ reordPipe # <<>> /\ reordPipe' = Tail(reordPipe)
          /\ start' = start /\ next' = next
      BY <1>9 DEF Reorder, inputVars, Up
    <2>2. PipeInOrder
      BY <1>4, <2>1
    <2>3. PICK c \in Channels, n \in Numbers : Head(reordPipe) = <<c, n>>
      BY <1>1, <2>1, HeadReceived
    <2>4. Head(reordPipe) # MessageEnd
      BY <2>3, DisplayAssumption DEF Samples
    <2>5. Buferize(c, n)
      BY <1>9, <2>3, <2>4 DEF Reorder
    <2>6. CASE Overruns(c, n)
      BY <1>5, <2>1, <2>5, <2>6 DEF Buferize
    <2>7. CASE ~Overruns(c, n)
      <3>1. Buffering!Receive(c, n) /\ evicted' = evicted \cup Forgotten(c)
        BY <2>5, <2>7 DEF Buferize
      <3>2. last' = [last EXCEPT ![c] = n]
        BY <3>1 DEF Buffering!Receive
      <3>3. PipeInOrder'
        BY <1>1, <2>1, <2>2, <2>3, <3>2, ReorderInOrder
      <3>4. n = last[c] + 1
        BY <1>1, <2>1, <2>2, <2>3, HeadIsNext
      <3>5. NoneComplete' /\ KeptUntilDone'
        BY <1>1, <2>1, <3>1, <3>4, BufferKeeps DEF KeptInv
      <3> QED  BY <1>2, <1>3, <3>3, <3>5 DEF KeptInv
    <2> QED  BY <2>6, <2>7
  <1>10. CASE Update
    BY <1>5, <1>6, <1>10 DEF Update, inputVars, bufferVars
  <1>11. ASSUME NEW c \in Channels, SenderCloses(c) PROVE KeptInv'
    BY <1>5, <1>6, <1>11 DEF SenderCloses, bufferVars
  <1>12. CASE UNCHANGED vars
    BY <1>5, <1>6, <1>12 DEF vars, inputVars, bufferVars
  <1> QED
    BY <1>7, <1>8, <1>9, <1>10, <1>11, <1>12 DEF Next, Receiver, Senders

LEMMA KeptInvariant == Spec => []KeptInv
  BY KeptInit, KeptStep, PTL DEF Spec

(* Theorem: the pipe to the reorderer holds what main has received and the  *)
(* buffer has not taken, without a gap and each channel's in their order.   *)
THEOREM PipeIsExact == Spec => []PipeContinuesBuffer
  <1>1. KeptInv => PipeContinuesBuffer  BY DEF KeptInv
  <1> QED  BY KeptInvariant, <1>1, PTL

(* Theorem: as long as the process is up, a number that has been buffered   *)
(* on every channel is drawn or on its way to the updater, unless a full    *)
(* channel has forgotten it.                                               *)
THEOREM CompleteSetsLeave == Spec => []CompleteIsHandedOn
  <1>1. KeptInv => CompleteIsHandedOn
    <2> SUFFICES ASSUME KeptInv, Up, NEW n \in Numbers,
                        \A c \in Channels : start[c] <= n /\ n <= last[c],
                        \A c \in Channels : <<c, n>> \notin evicted
                 PROVE  n \in ToSet(drawn \o uiPipe)
      BY DEF CompleteIsHandedOn
    <2>1. \A c \in Channels : ~(last[c] < n)
      <3>1. \A c \in Channels : last[c] \in Int /\ n \in Int
        BY DisplayAssumption DEF KeptInv, DrawnInv, TypeInv, TypeOK, Numbers
      <3> QED  BY <3>1
    <2>2. n \in left
      BY <2>1 DEF KeptInv, KeptUntilDone, NoneComplete
    <2>3. left = ToSet(drawn \o uiPipe)
      BY DEF KeptInv, DrawnInv, DrawnIsCompleted
    <2> QED  BY <2>2, <2>3
  <1> QED  BY KeptInvariant, <1>1, PTL
=============================================================================
