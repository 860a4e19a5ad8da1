---------------------------- MODULE Metabuf_proofs ----------------------------
(* Theorems about the reordering buffer of display, for arrays of any       *)
(* length, any first number of each stream and any number of samples.  What *)
(* makes them easy is what a stream is: its samples arrive in the order of  *)
(* their numbers, so the array of its channel holds a window of consecutive *)
(* numbers that ends with the newest (Window); pushing moves the end of a   *)
(* window, forgetting and shifting its beginning.                           *)
EXTENDS Metabuf, TLAPS, FiniteSetTheorems

-----------------------------------------------------------------------------
(* Channels and streams.                                                   *)

(* The four channels are those of the four streams.                        *)
LEMMA FourStreams ==
  /\ Streams = {<<"ffted", 1>>, <<"ffted", 2>>, <<"sequential", 1>>, <<"sequential", 2>>}
  /\ Channels = {0, 1, 2, 3}
  /\ MetaChannel(<<"ffted", 1>>) = 0 /\ MetaChannel(<<"ffted", 2>>) = 1
  /\ MetaChannel(<<"sequential", 1>>) = 2 /\ MetaChannel(<<"sequential", 2>>) = 3
  BY DEF Streams, Channels, MetaChannel, ChannelsCount

LEMMA OneStream ==
  /\ \A c \in Channels : StreamOf(c) \in Streams /\ MetaChannel(StreamOf(c)) = c
  /\ \A h \in Streams : MetaChannel(h) \in Channels /\ StreamOf(MetaChannel(h)) = h
  /\ StreamOf(0) = <<"ffted", 1>> /\ StreamOf(1) = <<"ffted", 2>>
  /\ StreamOf(2) = <<"sequential", 1>> /\ StreamOf(3) = <<"sequential", 2>>
  <1>1. \A c \in Channels : \E h \in Streams : MetaChannel(h) = c
    BY FourStreams
  <1>2. \A h, g \in Streams : MetaChannel(h) = MetaChannel(g) => h = g
    BY FourStreams
  <1>3. \A c \in Channels : StreamOf(c) \in Streams /\ MetaChannel(StreamOf(c)) = c
    BY <1>1 DEF StreamOf
  <1>4. \A h \in Streams : MetaChannel(h) \in Channels
    BY FourStreams
  <1>5. \A h \in Streams : StreamOf(MetaChannel(h)) = h
    BY <1>2, <1>3, <1>4
  <1> QED  BY <1>3, <1>4, <1>5, FourStreams

-----------------------------------------------------------------------------
(* What the operations on an array do to a window.                         *)

(* The array b holds the samples of stream h before number n.              *)
Window(b, h, n) ==
  \A i \in 0..(b.count - 1) : b.ptr[i] = <<h, n - b.count + i>>

LEMMA BufferType ==
  ASSUME NEW b \in Buffer
  PROVE  \E q \in [0..(Cap - 1) -> Samples \cup {NoSample}], k \in 0..Cap :
           b = [ptr |-> q, count |-> k]
  BY DEF Buffer

LEMMA CountType ==
  ASSUME NEW b \in Buffer
  PROVE  b.count \in 0..Cap /\ b.count \in Nat /\ Cap \in Nat \ {0}
  BY MetabufAssumption DEF Buffer

(* Pushing moves the end of the window, and its beginning when it is full.  *)
LEMMA PushWindow ==
  ASSUME NEW b \in Buffer, NEW h \in Streams, NEW n \in 0..MaxNumber, Window(b, h, n),
         NEW p, p = PushBuffered(b, <<h, n>>)
  PROVE  /\ p \in Buffer
         /\ Window(p, h, n + 1)
         /\ p.count = IF b.count = Cap THEN Cap ELSE b.count + 1
  <1> DEFINE x == <<h, n>>
             Entries == Samples \cup {NoSample}
             Places == 0..(Cap - 1)
  <1>1. PICK q \in [Places -> Entries], k \in 0..Cap : b = [ptr |-> q, count |-> k]
    BY BufferType
  <1>2. /\ Cap \in Nat \ {0} /\ MaxNumber \in Nat
        /\ b.ptr = q /\ b.count = k /\ x \in Entries
    BY <1>1, MetabufAssumption DEF Samples
  <1>3. \A i \in 0..(k - 1) : q[i] = <<h, n - k + i>>
    BY <1>2 DEF Window
  <1>4. ASSUME NEW f \in [Places -> Entries], NEW l \in 0..Cap, p = [ptr |-> f, count |-> l],
               \A i \in 0..(l - 1) : f[i] = <<h, (n + 1) - l + i>>
        PROVE  p \in Buffer /\ Window(p, h, n + 1)
    <2>1. p \in Buffer  BY <1>4 DEF Buffer
    <2>2. p.ptr = f /\ p.count = l  BY <1>4
    <2>3. Window(p, h, n + 1)
      <3> SUFFICES ASSUME NEW i \in 0..(p.count - 1)
                   PROVE  p.ptr[i] = <<h, (n + 1) - p.count + i>>
        BY DEF Window
      <3>1. i \in 0..(l - 1)  BY <2>2
      <3>2. f[i] = <<h, (n + 1) - l + i>>  BY <1>4, <3>1
      <3> QED  BY <2>2, <3>2
    <2> QED  BY <2>1, <2>3
  <1>5. CASE k = Cap
    <2> DEFINE f == [i \in Places |-> IF i = Cap - 1 THEN x ELSE q[i + 1]]
    <2>1. p = [ptr |-> f, count |-> Cap]
      <3>1. p = [b EXCEPT !.ptr = [i \in 0..(Cap - 1) |-> IF i = Cap - 1 THEN x ELSE q[i + 1]]]
        BY <1>2, <1>5 DEF PushBuffered
      <3> QED  BY <1>1, <1>5, <3>1
    <2>2. f \in [Places -> Entries]
      BY <1>2
    <2>3. ASSUME NEW i \in 0..(Cap - 1) PROVE f[i] = <<h, (n + 1) - Cap + i>>
      <3>1. CASE i = Cap - 1
        BY <1>2, <3>1
      <3>2. CASE i # Cap - 1
        <4>1. i + 1 \in 0..(k - 1) /\ n - k + (i + 1) = (n + 1) - Cap + i
          BY <1>2, <1>5, <3>2
        <4>2. f[i] = q[i + 1]  BY <3>2
        <4> QED  BY <1>3, <4>1, <4>2
      <3> QED  BY <3>1, <3>2
    <2>4. Cap \in 0..Cap /\ p.count = Cap  BY <1>2, <2>1
    <2> HIDE DEF f
    <2> QED  BY <1>2, <1>4, <1>5, <2>1, <2>2, <2>3, <2>4
  <1>6. CASE k # Cap
    <2> DEFINE f == [q EXCEPT ![k] = x]
    <2>1. k < Cap /\ k \in Places /\ k + 1 \in 0..Cap
      BY <1>2, <1>6
    <2>2. p = [ptr |-> f, count |-> k + 1]
      BY <1>2, <2>1 DEF PushBuffered
    <2>3. f \in [Places -> Entries]
      BY <1>2
    <2>4. ASSUME NEW i \in 0..((k + 1) - 1) PROVE f[i] = <<h, (n + 1) - (k + 1) + i>>
      <3>1. CASE i = k
        BY <1>2, <2>1, <3>1
      <3>2. CASE i # k
        <4>1. i \in 0..(k - 1) /\ n - k + i = (n + 1) - (k + 1) + i
          BY <1>2, <3>2
        <4>2. f[i] = q[i]  BY <2>1, <3>2
        <4> QED  BY <1>3, <4>1, <4>2
      <3> QED  BY <3>1, <3>2
    <2>5. p.count = k + 1  BY <2>2
    <2> HIDE DEF f
    <2> QED  BY <1>2, <1>4, <1>6, <2>1, <2>2, <2>3, <2>4, <2>5
  <1> QED  BY <1>5, <1>6

(* have_sample finds a number just when it lies in the window, at its place. *)
LEMMA HaveWindow ==
  ASSUME NEW b \in Buffer, NEW h \in Streams, NEW n \in Int, Window(b, h, n), NEW m \in Int
  PROVE  HaveSample(b, m) = IF n - b.count <= m /\ m < n THEN m - (n - b.count) ELSE -1
  <1>1. b.count \in Nat
    BY CountType
  <1>2. \A i \in 0..(b.count - 1) : Number(b.ptr[i]) = n - b.count + i
    BY <1>1 DEF Window, Number
  <1>3. CASE n - b.count <= m /\ m < n
    <2>1. Holding(b, m) = {m - (n - b.count)}
      BY <1>1, <1>2, <1>3 DEF Holding
    <2>2. HaveSample(b, m) = m - (n - b.count)
      <3>1. (CHOOSE i \in Holding(b, m) : \A j \in Holding(b, m) : i <= j) \in Holding(b, m)
        BY <1>1, <2>1
      <3> QED  BY <2>1, <3>1 DEF HaveSample
    <2> QED  BY <1>3, <2>2
  <1>4. CASE ~(n - b.count <= m /\ m < n)
    <2>1. Holding(b, m) = {}
      BY <1>1, <1>2, <1>4 DEF Holding
    <2> QED  BY <1>4, <2>1 DEF HaveSample
  <1> QED  BY <1>3, <1>4

(* shift moves the beginning of the window behind place s, and frees        *)
(* nothing but samples before that place.                                  *)
LEMMA ShiftWindow ==
  ASSUME NEW b \in Buffer, NEW h \in Streams, NEW n \in Int, Window(b, h, n),
         NEW s \in 0..(b.count - 1),
         NEW p, p = Shift(b, s)
  PROVE  /\ p \in Buffer
         /\ Window(p, h, n)
         /\ p.count = b.count - (s + 1)
         /\ \A x \in ShiftFrees(b, s) :
              \E m \in Int : x = <<h, m>> /\ n - b.count <= m /\ m < n - b.count + s
  <1> DEFINE Entries == Samples \cup {NoSample}
             Places == 0..(Cap - 1)
  <1>1. PICK q \in [Places -> Entries], k \in 0..Cap : b = [ptr |-> q, count |-> k]
    BY BufferType
  <1>2. /\ Cap \in Nat \ {0} /\ b.ptr = q /\ b.count = k /\ s \in 0..(k - 1)
    BY <1>1, MetabufAssumption
  <1>3. \A i \in 0..(k - 1) : q[i] = <<h, n - k + i>>
    BY <1>2 DEF Window
  <1> DEFINE f == [i \in Places |-> IF i > k - s THEN q[i]
                                    ELSE IF i + 1 + s < Cap THEN q[i + 1 + s] ELSE NoSample]
             l == k - (s + 1)
  <1>4. p = [ptr |-> f, count |-> l]
    BY <1>2 DEF Shift
  <1>5. f \in [Places -> Entries] /\ l \in 0..Cap
    <2>1. \A i \in Places : i + 1 + s < Cap => i + 1 + s \in Places
      BY <1>2
    <2> QED  BY <1>2, <2>1
  <1>6. ASSUME NEW i \in 0..(l - 1) PROVE f[i] = <<h, n - l + i>>
    <2>1. /\ i \in Places /\ i <= k - s /\ i + 1 + s < Cap
          /\ i + 1 + s \in 0..(k - 1) /\ n - k + (i + 1 + s) = n - l + i
      BY <1>2
    <2>2. f[i] = q[i + 1 + s]
      BY <1>2, <2>1
    <2> QED  BY <1>3, <2>1, <2>2
  <1>7. ASSUME NEW x \in ShiftFrees(b, s)
        PROVE  \E m \in Int : x = <<h, m>> /\ n - k <= m /\ m < n - k + s
    <2>1. PICK i \in 0..(s - 2) : x = q[i]
      BY <1>2 DEF ShiftFrees
    <2>2. i \in 0..(k - 1) /\ i < s
      BY <1>2
    <2>3. x = <<h, n - k + i>>
      BY <1>3, <2>1, <2>2
    <2> QED  BY <1>2, <2>2, <2>3
  <1> HIDE DEF f, l
  <1>8. p \in Buffer
    BY <1>4, <1>5 DEF Buffer
  <1>9. p.ptr = f /\ p.count = l
    BY <1>4
  <1>10. Window(p, h, n)
    BY <1>6, <1>9 DEF Window
  <1> QED  BY <1>2, <1>7, <1>8, <1>9, <1>10 DEF l

-----------------------------------------------------------------------------
(* Type correctness, with the windows.                                     *)

(* The lowest number the array of channel c holds; as many as it lacks of   *)
(* those before the newest are gone.                                       *)
Low(c) == next[StreamOf(c)] - sampleBuf[c].count

ArraysHoldWindows ==
  \A c \in Channels :
    /\ Window(sampleBuf[c], StreamOf(c), next[StreamOf(c)])
    /\ start[StreamOf(c)] <= Low(c)

TypeInv == TypeOK /\ ArraysHoldWindows

LEMMA TypeInit == Init => TypeInv
  <1> SUFFICES ASSUME Init PROVE TypeInv  OBVIOUS
  <1> USE MetabufAssumption
  <1> DEFINE Empty == [ptr |-> [i \in 0..(Cap - 1) |-> NoSample], count |-> 0]
  <1>1. sampleBuf = [c \in Channels |-> Empty] /\ Empty \in Buffer /\ Empty.count = 0
    BY DEF Init, Buffer
  <1>2. start \in [Streams -> 0..MaxStart] /\ next = start
    BY DEF Init
  <1>3. next \in [Streams -> 0..(MaxNumber + 1)]
    BY <1>2
  <1> HIDE DEF Empty
  <1>4. TypeOK
    <2>1. sampleBuf \in [Channels -> Buffer]
      BY <1>1
    <2>2. <<>> \in Seq([Channels -> Samples])
      OBVIOUS
    <2> QED  BY <1>2, <1>3, <2>1, <2>2 DEF Init, TypeOK
  <1>5. \A c \in Channels : sampleBuf[c].count = 0 /\ StreamOf(c) \in Streams
    BY <1>1, OneStream
  <1>6. ArraysHoldWindows
    BY <1>2, <1>5 DEF ArraysHoldWindows, Window, Low
  <1> QED  BY <1>4, <1>6 DEF TypeInv

(* What a channel holds at least once the sample of stream h is pushed.     *)
PushedLow(h, c) ==
  IF c = MetaChannel(h) /\ sampleBuf[c].count = Cap THEN Low(c) + 1 ELSE Low(c)

LEMMA LowType ==
  ASSUME TypeInv, NEW c \in Channels
  PROVE  /\ StreamOf(c) \in Streams
         /\ next[StreamOf(c)] \in 0..(MaxNumber + 1) /\ start[StreamOf(c)] \in 0..MaxStart
         /\ sampleBuf[c] \in Buffer /\ sampleBuf[c].count \in 0..Cap
         /\ Low(c) \in Nat /\ start[StreamOf(c)] <= Low(c) /\ Low(c) <= next[StreamOf(c)]
         /\ MaxNumber \in Nat /\ MaxStart \in Nat
  <1>1. /\ StreamOf(c) \in Streams
        /\ next[StreamOf(c)] \in 0..(MaxNumber + 1) /\ start[StreamOf(c)] \in 0..MaxStart
        /\ sampleBuf[c] \in Buffer /\ sampleBuf[c].count \in 0..Cap
        /\ MaxNumber \in Nat /\ MaxStart \in Nat
    BY OneStream, CountType, MetabufAssumption DEF TypeInv, TypeOK
  <1>2. start[StreamOf(c)] <= Low(c)
    BY DEF TypeInv, ArraysHoldWindows
  <1> QED  BY <1>1, <1>2 DEF Low

(* The arrays and the next numbers once the sample of stream h is pushed.    *)
Pushed(h) ==
  [sampleBuf EXCEPT ![MetaChannel(h)] =
     PushBuffered(sampleBuf[MetaChannel(h)], <<h, next[h]>>)]
After(h) == [next EXCEPT ![h] = next[h] + 1]

PushedHolds(h) ==
  /\ next[h] \in 0..MaxNumber
  /\ After(h) \in [Streams -> 0..(MaxNumber + 1)]
  /\ Pushed(h) \in [Channels -> Buffer]
  /\ \A c \in Channels :
       /\ Window(Pushed(h)[c], StreamOf(c), After(h)[StreamOf(c)])
       /\ After(h)[StreamOf(c)] - Pushed(h)[c].count = PushedLow(h, c)
       /\ start[StreamOf(c)] <= PushedLow(h, c) /\ PushedLow(h, c) \in Nat

LEMMA PushStep ==
  ASSUME TypeInv, NEW h \in Streams, next[h] <= MaxNumber
  PROVE  PushedHolds(h)
  <1> DEFINE d == MetaChannel(h)
  <1>1. d \in Channels /\ StreamOf(d) = h
    BY OneStream
  <1>0. PICK n, nx, pushed : n = next[h] /\ nx = After(h) /\ pushed = Pushed(h)
    OBVIOUS
  <1>2. /\ n \in 0..MaxNumber /\ MaxNumber \in Nat
        /\ next \in [Streams -> 0..(MaxNumber + 1)] /\ sampleBuf \in [Channels -> Buffer]
    BY <1>0, MetabufAssumption DEF TypeInv, TypeOK
  <1> DEFINE b == sampleBuf[d]
             q == PushBuffered(b, <<h, n>>)
  <1>3. b \in Buffer /\ Window(b, h, n)
    BY <1>0, <1>1, <1>2 DEF TypeInv, ArraysHoldWindows
  <1>4. /\ q \in Buffer /\ Window(q, h, n + 1)
        /\ q.count = IF b.count = Cap THEN Cap ELSE b.count + 1
    <2> HIDE DEF b
    <2> QED  BY <1>2, <1>3, PushWindow
  <1>5. nx \in [Streams -> 0..(MaxNumber + 1)] /\ nx[h] = n + 1
        /\ \A g \in Streams : g # h => nx[g] = next[g]
    BY <1>0, <1>2 DEF After
  <1>6. pushed \in [Channels -> Buffer] /\ pushed[d] = q
        /\ \A c \in Channels : c # d => pushed[c] = sampleBuf[c]
    <2>1. pushed = [sampleBuf EXCEPT ![d] = q]
      BY <1>0 DEF Pushed
    <2> HIDE DEF q, d
    <2> QED  BY <1>1, <1>2, <1>4, <2>1
  <1>7. ASSUME NEW c \in Channels
        PROVE  /\ Window(pushed[c], StreamOf(c), nx[StreamOf(c)])
               /\ nx[StreamOf(c)] - pushed[c].count = PushedLow(h, c)
               /\ start[StreamOf(c)] <= PushedLow(h, c) /\ PushedLow(h, c) \in Nat
    <2>1. /\ Low(c) \in Nat /\ start[StreamOf(c)] <= Low(c) /\ start[StreamOf(c)] \in Int
          /\ sampleBuf[c].count \in 0..Cap /\ Cap \in Nat /\ StreamOf(c) \in Streams
          /\ next[StreamOf(c)] \in Int /\ Low(c) = next[StreamOf(c)] - sampleBuf[c].count
      BY LowType, CountType DEF Low
    <2>2. CASE c = d
      <3>1. pushed[c] = q /\ nx[StreamOf(c)] = n + 1 /\ next[StreamOf(c)] = n
        BY <1>0, <1>1, <1>5, <1>6, <2>2
      <3>2. Low(c) = n - b.count
        BY <2>1, <2>2, <3>1
      <3>3. PushedLow(h, c) = IF b.count = Cap THEN Low(c) + 1 ELSE Low(c)
        BY <2>2 DEF PushedLow
      <3>4. (n + 1) - q.count = PushedLow(h, c)
        <4> HIDE DEF q
        <4> QED  BY <1>2, <1>4, <2>1, <2>2, <3>2, <3>3
      <3>5. Window(pushed[c], StreamOf(c), nx[StreamOf(c)])
        BY <1>1, <1>4, <2>2, <3>1
      <3>6. start[StreamOf(c)] <= PushedLow(h, c) /\ PushedLow(h, c) \in Nat
        BY <2>1, <3>3
      <3> QED  BY <1>2, <3>1, <3>4, <3>5, <3>6
    <2>3. CASE c # d
      <3>1. StreamOf(c) # h
        BY <2>3, OneStream
      <3>2. pushed[c] = sampleBuf[c] /\ nx[StreamOf(c)] = next[StreamOf(c)]
            /\ PushedLow(h, c) = Low(c)
        BY <1>5, <1>6, <2>1, <2>3, <3>1 DEF PushedLow
      <3>3. Window(sampleBuf[c], StreamOf(c), next[StreamOf(c)])
        BY DEF TypeInv, ArraysHoldWindows
      <3> QED  BY <2>1, <3>2, <3>3
    <2> QED  BY <2>2, <2>3
  <1> QED  BY <1>0, <1>2, <1>5, <1>6, <1>7 DEF PushedHolds

(* buferize_sample without its arrays: the window of the stream's channel   *)
(* grows, forgetting its oldest sample when it is full; when the number of  *)
(* the sample then lies in every window, the set of that number leaves and  *)
(* every window begins behind it.                                          *)
InEveryWindow(h) ==
  \A c \in Channels : PushedLow(h, c) <= next[h] /\ next[h] < After(h)[StreamOf(c)]

SetLeaves(h) ==
  /\ InEveryWindow(h)
  /\ sets' = Append(sets, [c \in Channels |-> <<StreamOf(c), next[h]>>])
  /\ \A x \in freed' \ freed :
       \E c \in Channels, m \in Int :
         x = <<StreamOf(c), m>> /\ PushedLow(h, c) <= m /\ m < next[h]
  /\ freed \subseteq freed'
  /\ \A c \in Channels : Low(c)' = next[h] + 1

NoSetLeaves(h) ==
  /\ ~InEveryWindow(h)
  /\ sets' = sets /\ freed' = freed
  /\ \A c \in Channels : Low(c)' = PushedLow(h, c)

Forgets(h) ==
  IF PushedLow(h, MetaChannel(h)) = Low(MetaChannel(h)) THEN {}
  ELSE {<<h, Low(MetaChannel(h))>>}

Arrives(h) ==
  /\ start' = start /\ corrupt' = corrupt /\ next' = After(h)
  /\ evicted' = evicted \cup Forgets(h)
  /\ SetLeaves(h) \/ NoSetLeaves(h)

WindowsStay ==
  /\ sampleBuf' \in [Channels -> Buffer]
  /\ \A c \in Channels : Window(sampleBuf'[c], StreamOf(c), next'[StreamOf(c)])

(* Where each array has the number of the sample that arrived.              *)
Having(h) == [c \in Channels |-> HaveSample(Pushed(h)[c], next[h])]

Pops(h) ==
  /\ sampleBuf' = [c \in Channels |-> Shift(Pushed(h)[c], Having(h)[c])]
  /\ sets' = Append(sets, [c \in Channels |-> Pushed(h)[c].ptr[Having(h)[c]]])
  /\ freed' = freed \cup UNION {ShiftFrees(Pushed(h)[c], Having(h)[c]) : c \in Channels}

LEMMA PushedChannel ==
  ASSUME NEW h \in Streams, PushedHolds(h), NEW c \in Channels
  PROVE  /\ StreamOf(c) \in Streams /\ Pushed(h)[c] \in Buffer
         /\ Pushed(h)[c].count \in Nat /\ After(h)[StreamOf(c)] \in Int
         /\ next[h] \in Int /\ PushedLow(h, c) \in Nat
         /\ Window(Pushed(h)[c], StreamOf(c), After(h)[StreamOf(c)])
         /\ After(h)[StreamOf(c)] - Pushed(h)[c].count = PushedLow(h, c)
  BY OneStream, CountType, MetabufAssumption DEF PushedHolds

(* A number in the window is found in the array, at its place.              *)
LEMMA Finds ==
  ASSUME NEW h \in Streams, PushedHolds(h), NEW c \in Channels
  PROVE  Having(h)[c] = IF PushedLow(h, c) <= next[h] /\ next[h] < After(h)[StreamOf(c)]
                        THEN next[h] - PushedLow(h, c) ELSE -1
  <1>1. PICK b, e, n, low :
          b = Pushed(h)[c] /\ e = After(h)[StreamOf(c)] /\ n = next[h] /\ low = PushedLow(h, c)
    OBVIOUS
  <1>2. /\ StreamOf(c) \in Streams /\ b \in Buffer /\ e \in Int /\ n \in Int /\ low \in Nat
        /\ Window(b, StreamOf(c), e) /\ e - b.count = low
    BY <1>1, PushedChannel
  <1>3. HaveSample(b, n) = IF low <= n /\ n < e THEN n - low ELSE -1
    BY <1>2, HaveWindow
  <1>4. Having(h)[c] = HaveSample(b, n)
    BY <1>1 DEF Having
  <1> QED  BY <1>1, <1>3, <1>4

LEMMA ShiftedLow ==
  ASSUME NEW e \in Int, NEW k \in Int, NEW n \in Int, NEW low \in Int, e - k = low
  PROVE  /\ e - (k - ((n - low) + 1)) = n + 1
         /\ e - k + (n - low) = n
         /\ low <= n /\ n < e => n - low \in 0..(k - 1)
  OBVIOUS

LEMMA PopOne ==
  ASSUME NEW h \in Streams, PushedHolds(h), InEveryWindow(h), NEW c \in Channels,
         next' = After(h),
         sampleBuf'[c] = Shift(Pushed(h)[c], Having(h)[c])
  PROVE  /\ sampleBuf'[c] \in Buffer
         /\ Window(sampleBuf'[c], StreamOf(c), next'[StreamOf(c)])
         /\ Low(c)' = next[h] + 1
         /\ Pushed(h)[c].ptr[Having(h)[c]] = <<StreamOf(c), next[h]>>
         /\ \A x \in ShiftFrees(Pushed(h)[c], Having(h)[c]) :
              \E m \in Int :
                x = <<StreamOf(c), m>> /\ PushedLow(h, c) <= m /\ m < next[h]
  <1>1. PICK b, e, n, low, s, p :
          /\ b = Pushed(h)[c] /\ e = After(h)[StreamOf(c)] /\ n = next[h]
          /\ low = PushedLow(h, c) /\ s = Having(h)[c] /\ p = sampleBuf'[c]
    OBVIOUS
  <1>2. /\ StreamOf(c) \in Streams /\ b \in Buffer /\ b.count \in Nat
        /\ e \in Int /\ n \in Int /\ low \in Nat
        /\ Window(b, StreamOf(c), e) /\ e - b.count = low
    BY <1>1, PushedChannel
  <1>3. s = n - low /\ low <= n /\ n < e
    BY <1>1, Finds DEF InEveryWindow
  <1>4. PICK k \in Nat : k = b.count
    BY <1>2
  <1>5. /\ e - (k - (s + 1)) = n + 1 /\ e - k + s = n /\ s \in 0..(b.count - 1)
    BY <1>2, <1>3, <1>4, ShiftedLow
  <1>6. p = Shift(b, s)
    BY <1>1
  <1>7. /\ p \in Buffer /\ Window(p, StreamOf(c), e) /\ p.count = k - (s + 1)
        /\ \A x \in ShiftFrees(b, s) :
             \E m \in Int : x = <<StreamOf(c), m>> /\ e - k <= m /\ m < e - k + s
    BY <1>2, <1>4, <1>5, <1>6, ShiftWindow
  <1>8. b.ptr[s] = <<StreamOf(c), n>>
    BY <1>2, <1>4, <1>5 DEF Window
  <1>9. Low(c)' = e - p.count
    BY <1>1 DEF Low, StreamOf
  <1>10. \A x \in ShiftFrees(b, s) :
           \E m \in Int : x = <<StreamOf(c), m>> /\ low <= m /\ m < n
    BY <1>2, <1>4, <1>5, <1>7
  <1>11. Low(c)' = n + 1
    BY <1>5, <1>7, <1>9
  <1> QED  BY <1>1, <1>7, <1>8, <1>10, <1>11

LEMMA SetPops ==
  ASSUME NEW h \in Streams, PushedHolds(h), InEveryWindow(h), next' = After(h), Pops(h)
  PROVE  SetLeaves(h) /\ WindowsStay
  <1>1. \A c \in Channels : sampleBuf'[c] = Shift(Pushed(h)[c], Having(h)[c])
    BY DEF Pops
  <1>2. ASSUME NEW c \in Channels
        PROVE  /\ sampleBuf'[c] \in Buffer
               /\ Window(sampleBuf'[c], StreamOf(c), next'[StreamOf(c)])
               /\ Low(c)' = next[h] + 1
               /\ Pushed(h)[c].ptr[Having(h)[c]] = <<StreamOf(c), next[h]>>
               /\ \A x \in ShiftFrees(Pushed(h)[c], Having(h)[c]) :
                    \E m \in Int :
                      x = <<StreamOf(c), m>> /\ PushedLow(h, c) <= m /\ m < next[h]
    BY <1>1, PopOne
  <1>3. sets' = Append(sets, [c \in Channels |-> <<StreamOf(c), next[h]>>])
    <2>1. [c \in Channels |-> Pushed(h)[c].ptr[Having(h)[c]]]
            = [c \in Channels |-> <<StreamOf(c), next[h]>>]
      BY <1>2
    <2> QED  BY <2>1 DEF Pops
  <1>4. ASSUME NEW x \in freed' \ freed
        PROVE  \E c \in Channels, m \in Int :
                 x = <<StreamOf(c), m>> /\ PushedLow(h, c) <= m /\ m < next[h]
    <2>1. PICK c \in Channels : x \in ShiftFrees(Pushed(h)[c], Having(h)[c])
      BY DEF Pops
    <2> QED  BY <1>2, <2>1
  <1>5. sampleBuf' \in [Channels -> Buffer]
    <2>1. sampleBuf' = [c \in Channels |-> Shift(Pushed(h)[c], Having(h)[c])]
      BY DEF Pops
    <2>2. \A c \in Channels : Shift(Pushed(h)[c], Having(h)[c]) \in Buffer
      BY <1>1, <1>2
    <2> QED  BY <2>1, <2>2
  <1>6. freed \subseteq freed'
    BY DEF Pops
  <1> QED  BY <1>2, <1>3, <1>4, <1>5, <1>6 DEF SetLeaves, WindowsStay

LEMMA NothingPops ==
  ASSUME NEW h \in Streams, PushedHolds(h), ~InEveryWindow(h), next' = After(h),
         sampleBuf' = Pushed(h), sets' = sets, freed' = freed
  PROVE  NoSetLeaves(h) /\ WindowsStay
  <1>1. \A c \in Channels : Low(c)' = PushedLow(h, c)
    BY DEF Low, StreamOf, PushedHolds
  <1> QED  BY <1>1 DEF NoSetLeaves, WindowsStay, PushedHolds

LEMMA ForgetsOldest ==
  ASSUME TypeInv, NEW h \in Streams
  PROVE  Forgets(h) = IF sampleBuf[MetaChannel(h)].count = Cap
                      THEN {sampleBuf[MetaChannel(h)].ptr[0]} ELSE {}
  <1>1. PICK d, b, low, n :
          d = MetaChannel(h) /\ b = sampleBuf[d] /\ low = Low(d) /\ n = next[h]
    OBVIOUS
  <1>2. d \in Channels /\ StreamOf(d) = h
    BY <1>1, OneStream
  <1>3. /\ low \in Nat /\ low = n - b.count /\ n \in Int /\ b.count \in 0..Cap
        /\ Cap \in Nat \ {0} /\ Window(b, h, n)
    BY <1>1, <1>2, LowType, MetabufAssumption DEF Low, TypeInv, ArraysHoldWindows
  <1>4. PushedLow(h, d) = IF b.count = Cap THEN low + 1 ELSE low
    BY <1>1 DEF PushedLow
  <1>5. b.count = Cap => b.ptr[0] = <<h, low>>
    BY <1>3 DEF Window
  <1>6. PushedLow(h, d) = low <=> b.count # Cap
    BY <1>3, <1>4
  <1>7. Forgets(h) = IF PushedLow(h, d) = low THEN {} ELSE {<<h, low>>}
    BY <1>1 DEF Forgets
  <1> QED  BY <1>1, <1>5, <1>6, <1>7

LEMMA StepArrives ==
  ASSUME TypeInv, NEW h \in Streams, BuferizeSample(h), ~corrupt'
  PROVE  PushedHolds(h) /\ Arrives(h) /\ WindowsStay
  <1> DEFINE old == sampleBuf[MetaChannel(h)]
             haveSet == \A c \in Channels : Having(h)[c] # -1
  <1>1. /\ next[h] <= MaxNumber /\ next' = After(h)
        /\ evicted' = evicted \cup (IF old.count = Cap THEN {old.ptr[0]} ELSE {})
        /\ IF haveSet THEN Pops(h)
           ELSE sampleBuf' = Pushed(h) /\ sets' = sets /\ freed' = freed
        /\ corrupt' = corrupt /\ start' = start
    BY DEF BuferizeSample, Pops, Having, Pushed, After
  <1>2. PushedHolds(h)
    BY <1>1, PushStep
  <1>3. evicted' = evicted \cup Forgets(h)
    <2>1. Forgets(h) = IF old.count = Cap THEN {old.ptr[0]} ELSE {}
      BY ForgetsOldest
    <2> HIDE DEF old
    <2> QED  BY <1>1, <2>1
  <1>4. haveSet <=> InEveryWindow(h)
    <2> SUFFICES ASSUME NEW c \in Channels
                 PROVE  Having(h)[c] # -1
                          <=> PushedLow(h, c) <= next[h] /\ next[h] < After(h)[StreamOf(c)]
      BY DEF InEveryWindow
    <2>1. PushedLow(h, c) \in Nat /\ next[h] \in Int
      BY <1>2, PushedChannel
    <2> QED  BY <1>2, <2>1, Finds
  <1> HIDE DEF haveSet
  <1>5. CASE haveSet
    BY <1>1, <1>2, <1>3, <1>4, <1>5, SetPops DEF Arrives
  <1>6. CASE ~haveSet
    BY <1>1, <1>2, <1>3, <1>4, <1>6, NothingPops DEF Arrives
  <1> QED  BY <1>2, <1>5, <1>6

(* shift() writes behind an array: nothing else is said to happen.          *)
LEMMA StepOverruns ==
  ASSUME TypeInv, NEW h \in Streams, BuferizeSample(h), corrupt'
  PROVE  UNCHANGED <<sampleBuf, start, next, sets, freed, evicted>>
  BY DEF BuferizeSample

(* How the beginning and the end of a window move.                          *)
LEMMA WindowMoves ==
  ASSUME TypeInv, NEW h \in Streams, PushedHolds(h), NEW c \in Channels
  PROVE  /\ Low(c) \in Nat /\ PushedLow(h, c) \in Nat /\ Low(c) <= PushedLow(h, c)
         /\ PushedLow(h, c) # Low(c) =>
              PushedLow(h, c) = Low(c) + 1 /\ Forgets(h) = {<<h, Low(c)>>}
         /\ next[h] \in Nat /\ next[h] \in 0..MaxNumber
         /\ next[StreamOf(c)] \in Nat /\ StreamOf(c) \in Streams
         /\ After(h)[StreamOf(c)] = IF StreamOf(c) = h THEN next[h] + 1
                                    ELSE next[StreamOf(c)]
         /\ start[StreamOf(c)] \in Nat /\ start[StreamOf(c)] <= PushedLow(h, c)
  <1>1. /\ Low(c) \in Nat /\ StreamOf(c) \in Streams /\ next[h] \in 0..MaxNumber
        /\ next[StreamOf(c)] \in Nat /\ start[StreamOf(c)] \in Nat
        /\ PushedLow(h, c) \in Nat /\ start[StreamOf(c)] <= PushedLow(h, c)
    BY LowType DEF PushedHolds
  <1>2. /\ Low(c) <= PushedLow(h, c)
        /\ PushedLow(h, c) # Low(c) => c = MetaChannel(h) /\ PushedLow(h, c) = Low(c) + 1
    BY <1>1 DEF PushedLow
  <1>3. PushedLow(h, c) # Low(c) => Forgets(h) = {<<h, Low(c)>>}
    BY <1>2 DEF Forgets
  <1>4. After(h)[StreamOf(c)] = IF StreamOf(c) = h THEN next[h] + 1 ELSE next[StreamOf(c)]
    <2>1. next \in [Streams -> 0..(MaxNumber + 1)]
      BY DEF TypeInv, TypeOK
    <2> QED  BY <1>1, <2>1 DEF After
  <1> QED  BY <1>1, <1>2, <1>3, <1>4, MetabufAssumption

LEMMA StepTypes ==
  ASSUME TypeInv, NEW h \in Streams, PushedHolds(h), Arrives(h), WindowsStay
  PROVE  TypeInv'
  <1>1. /\ sets \in Seq([Channels -> Samples]) /\ freed \subseteq Samples
        /\ evicted \subseteq Samples /\ corrupt \in BOOLEAN /\ MaxNumber \in Nat
        /\ next[h] \in 0..MaxNumber
    BY MetabufAssumption DEF TypeInv, TypeOK, PushedHolds
  <1>2. [c \in Channels |-> <<StreamOf(c), next[h]>>] \in [Channels -> Samples]
    BY <1>1, OneStream DEF Samples
  <1>3. sets' \in Seq([Channels -> Samples])
    <2>1. sets' = sets \/ sets' = Append(sets, [c \in Channels |-> <<StreamOf(c), next[h]>>])
      BY DEF Arrives, SetLeaves, NoSetLeaves
    <2> QED  BY <1>1, <1>2, <2>1
  <1>4. freed' \subseteq Samples
    <2> SUFFICES ASSUME NEW x \in freed', x \notin freed PROVE x \in Samples
      BY <1>1
    <2>1. PICK c \in Channels, m \in Int :
            x = <<StreamOf(c), m>> /\ PushedLow(h, c) <= m /\ m < next[h]
      BY DEF Arrives, SetLeaves, NoSetLeaves
    <2>2. m \in 0..MaxNumber
      BY <1>1, <2>1, WindowMoves
    <2> QED  BY <2>1, <2>2, OneStream DEF Samples
  <1>5. evicted' \subseteq Samples
    <2>1. Low(MetaChannel(h)) \in 0..MaxNumber
      <3>1. MetaChannel(h) \in Channels /\ StreamOf(MetaChannel(h)) = h
        BY OneStream
      <3>2. Low(MetaChannel(h)) \in Nat /\ Low(MetaChannel(h)) <= next[h]
        BY <3>1, LowType
      <3> QED  BY <1>1, <3>2
    <2>2. Forgets(h) \subseteq Samples
      BY <2>1 DEF Forgets, Samples
    <2> QED  BY <1>1, <2>2 DEF Arrives
  <1>6. TypeOK'
    <2>1. start' = start /\ corrupt' = corrupt /\ next' \in [Streams -> 0..(MaxNumber + 1)]
      BY DEF Arrives, PushedHolds
    <2>2. sampleBuf' \in [Channels -> Buffer]
      BY DEF WindowsStay
    <2>3. start \in [Streams -> 0..MaxStart]
      BY DEF TypeInv, TypeOK
    <2> QED  BY <1>1, <1>3, <1>4, <1>5, <2>1, <2>2, <2>3 DEF TypeOK
  <1>7. ASSUME NEW c \in Channels PROVE start[StreamOf(c)] <= Low(c)'
    <2>1. CASE SetLeaves(h)
      <3>1. Low(c)' = next[h] + 1 /\ PushedLow(h, c) <= next[h]
        BY <2>1 DEF SetLeaves, InEveryWindow
      <3> QED  BY <3>1, WindowMoves
    <2>2. CASE NoSetLeaves(h)
      <3>1. Low(c)' = PushedLow(h, c)
        BY <2>2 DEF NoSetLeaves
      <3> QED  BY <3>1, WindowMoves
    <2> QED  BY <2>1, <2>2 DEF Arrives
  <1>8. ArraysHoldWindows'
    <2>1. ArraysHoldWindows' <=>
            \A c \in Channels : /\ Window(sampleBuf'[c], StreamOf(c), next'[StreamOf(c)])
                                /\ start'[StreamOf(c)] <= Low(c)'
      BY DEF ArraysHoldWindows, Window, StreamOf
    <2> QED  BY <1>7, <2>1 DEF WindowsStay, Arrives
  <1> QED  BY <1>6, <1>8 DEF TypeInv

LEMMA TypeStep ==
  ASSUME TypeInv, [Next]_vars
  PROVE  TypeInv'
  <1>1. ASSUME UNCHANGED <<sampleBuf, start, next, sets, freed, evicted>>, corrupt' \in BOOLEAN
        PROVE  TypeInv'
    BY <1>1 DEF TypeInv, TypeOK, ArraysHoldWindows, Window, Low, StreamOf
  <1>2. ASSUME NEW h \in Streams, BuferizeSample(h) PROVE TypeInv'
    <2>1. CASE corrupt'
      <3>1. corrupt' \in BOOLEAN
        BY <1>2 DEF BuferizeSample, TypeInv, TypeOK
      <3> QED  BY <1>1, <1>2, <2>1, <3>1, StepOverruns
    <2>2. CASE ~corrupt'
      BY <1>2, <2>2, StepArrives, StepTypes
    <2> QED  BY <2>1, <2>2
  <1>3. CASE UNCHANGED vars
    BY <1>1, <1>3 DEF vars, TypeInv, TypeOK
  <1> QED  BY <1>2, <1>3 DEF Next

(* Theorem: the arrays, their counts, the sets and the histories keep to    *)
(* their types.                                                            *)
THEOREM TypeCorrect == Spec => []TypeOK
  <1>1. TypeInv => TypeOK  BY DEF TypeInv
  <1> QED  BY TypeInit, TypeStep, <1>1, PTL DEF Spec

-----------------------------------------------------------------------------
(* The sets.                                                               *)

SetNumbers == {Number(sets[k][0]) : k \in DOMAIN sets}

(* The sets that left are older than all an array holds: the next to leave  *)
(* comes behind them.                                                      *)
SetsInOrder ==
  /\ \A k \in DOMAIN sets :
       /\ \E n \in 0..MaxNumber : sets[k] = [c \in Channels |-> <<StreamOf(c), n>>]
       /\ k > 1 => Number(sets[k - 1][0]) < Number(sets[k][0])
  /\ \A m \in SetNumbers, c \in Channels : m < Low(c)

(* No number lies in every window at rest, and a number that is behind one  *)
(* of them has left in a set or was forgotten, or was never in a stream.    *)
NoneWaits ==
  \A m \in Nat : \E c \in Channels : m < Low(c) \/ next[StreamOf(c)] <= m
NoneSkipped ==
  \A m \in Nat :
    (\A h \in Streams : start[h] <= m) =>
      \/ m \in SetNumbers
      \/ \E h \in Streams : <<h, m>> \in evicted
      \/ \A c \in Channels : Low(c) <= m

(* What was freed is behind the window of its channel, and was in no set.   *)
FreedBehind ==
  \A x \in freed :
    \E c \in Channels, m \in Int :
      x = <<StreamOf(c), m>> /\ m < Low(c) /\ m \notin SetNumbers

SetsInv == TypeInv /\ SetsInOrder /\ NoneWaits /\ NoneSkipped /\ FreedBehind

LEMMA SetsInit == Init => SetsInv
  <1> SUFFICES ASSUME Init PROVE SetsInv  OBVIOUS
  <1>1. TypeInv  BY TypeInit
  <1>2. DOMAIN sets = {} /\ SetNumbers = {} /\ freed = {}
    BY DEF Init, SetNumbers
  <1>3. \A c \in Channels : Low(c) = start[StreamOf(c)] /\ next[StreamOf(c)] = start[StreamOf(c)]
                            /\ start[StreamOf(c)] \in Int /\ StreamOf(c) \in Streams
    <2> SUFFICES ASSUME NEW c \in Channels
                 PROVE  Low(c) = start[StreamOf(c)] /\ next[StreamOf(c)] = start[StreamOf(c)]
                        /\ start[StreamOf(c)] \in Int /\ StreamOf(c) \in Streams
      OBVIOUS
    <2>1. sampleBuf[c].count = 0
      BY DEF Init
    <2> QED  BY <1>1, <2>1, LowType DEF Init, Low
  <1>4. NoneWaits
    <2>1. 0 \in Channels  BY DEF Channels
    <2> QED  BY <1>3, <2>1 DEF NoneWaits
  <1>5. NoneSkipped
    BY <1>3 DEF NoneSkipped
  <1> QED  BY <1>1, <1>2, <1>4, <1>5 DEF SetsInv, SetsInOrder, FreedBehind

LEMMA SetNumbersType ==
  ASSUME TypeInv
  PROVE  SetNumbers \subseteq 0..MaxNumber
  <1> SUFFICES ASSUME NEW k \in DOMAIN sets PROVE Number(sets[k][0]) \in 0..MaxNumber
    BY DEF SetNumbers
  <1>1. sets \in Seq([Channels -> Samples]) /\ 0 \in Channels
    BY DEF TypeInv, TypeOK, Channels
  <1>2. sets[k] \in [Channels -> Samples]
    BY <1>1
  <1> QED  BY <1>1, <1>2 DEF Number, Samples

(* A set more: the others stay.                                            *)
LEMMA SetsGrow ==
  ASSUME TypeInv, NEW n,
         sets' = Append(sets, [c \in Channels |-> <<StreamOf(c), n>>])
  PROVE  /\ Len(sets) \in Nat /\ DOMAIN sets = 1..Len(sets)
         /\ DOMAIN sets' = 1..(Len(sets) + 1)
         /\ \A k \in 1..Len(sets) : sets'[k] = sets[k]
         /\ sets'[Len(sets) + 1] = [c \in Channels |-> <<StreamOf(c), n>>]
         /\ Number(sets'[Len(sets) + 1][0]) = n
         /\ SetNumbers' = SetNumbers \cup {n}
  <1> DEFINE S == [c \in Channels |-> <<StreamOf(c), n>>]
  <1>1. S[0] = <<StreamOf(0), n>>
    BY DEF Channels
  <1>2. Number(S[0]) = n
    BY <1>1 DEF Number
  <1>3. sets' = Append(sets, S) /\ sets \in Seq([Channels -> Samples])
    BY DEF TypeInv, TypeOK
  <1> HIDE DEF S
  <1>4. /\ Len(sets) \in Nat /\ DOMAIN sets = 1..Len(sets)
        /\ DOMAIN sets' = 1..(Len(sets) + 1)
        /\ \A k \in 1..Len(sets) : sets'[k] = sets[k]
        /\ sets'[Len(sets) + 1] = S
    BY <1>3
  <1>5. SetNumbers' = {Number(sets'[k][0]) : k \in DOMAIN sets'}
    BY DEF SetNumbers, Number
  <1>6. SetNumbers' = SetNumbers \cup {n}
    <2>1. \A k \in 1..(Len(sets) + 1) : k \in 1..Len(sets) \/ k = Len(sets) + 1
      BY <1>4
    <2>2. \A k \in 1..Len(sets) : k \in 1..(Len(sets) + 1)
      BY <1>4
    <2>3. Len(sets) + 1 \in 1..(Len(sets) + 1)
      BY <1>4
    <2> QED  BY <1>2, <1>4, <1>5, <2>1, <2>2, <2>3 DEF SetNumbers
  <1> QED  BY <1>2, <1>4, <1>6 DEF S

LEMMA SetsStay ==
  ASSUME sets' = sets
  PROVE  SetNumbers' = SetNumbers
  BY DEF SetNumbers, Number

(* A set leaves.                                                           *)
LEMMA SetLeavesStep ==
  ASSUME SetsInv, NEW h \in Streams, PushedHolds(h), Arrives(h), SetLeaves(h)
  PROVE  SetsInOrder' /\ NoneWaits' /\ NoneSkipped' /\ FreedBehind'
  <1>0. PICK n : n = next[h]  OBVIOUS
  <1>1. /\ TypeInv /\ n \in 0..MaxNumber /\ n \in Nat
        /\ SetNumbers \subseteq Int
    BY <1>0, SetNumbersType, MetabufAssumption DEF SetsInv, PushedHolds
  <1>2. /\ sets' = Append(sets, [c \in Channels |-> <<StreamOf(c), n>>])
        /\ \A c \in Channels : /\ Low(c)' = n + 1
                               /\ PushedLow(h, c) <= n /\ n < After(h)[StreamOf(c)]
        /\ start' = start /\ next' = After(h)
        /\ evicted' = evicted \cup Forgets(h)
    BY <1>0 DEF SetLeaves, InEveryWindow, Arrives
  <1>3. /\ Len(sets) \in Nat /\ DOMAIN sets = 1..Len(sets)
        /\ DOMAIN sets' = 1..(Len(sets) + 1)
        /\ \A k \in 1..Len(sets) : sets'[k] = sets[k]
        /\ sets'[Len(sets) + 1] = [c \in Channels |-> <<StreamOf(c), n>>]
        /\ Number(sets'[Len(sets) + 1][0]) = n
        /\ SetNumbers' = SetNumbers \cup {n}
    BY <1>1, <1>2, SetsGrow
  <1>4. \A c \in Channels :
          /\ Low(c) \in Nat /\ PushedLow(h, c) \in Nat /\ Low(c) <= PushedLow(h, c)
          /\ PushedLow(h, c) # Low(c) =>
               PushedLow(h, c) = Low(c) + 1 /\ Forgets(h) = {<<h, Low(c)>>}
          /\ next[StreamOf(c)] \in Nat /\ StreamOf(c) \in Streams
          /\ After(h)[StreamOf(c)] = IF StreamOf(c) = h THEN n + 1 ELSE next[StreamOf(c)]
    BY <1>0, <1>1, WindowMoves
  <1>5. \A m \in SetNumbers : m < n
    <2>1. 0 \in Channels  BY DEF Channels
    <2>2. \A m \in SetNumbers : m < Low(0)
      BY <2>1 DEF SetsInv, SetsInOrder
    <2> QED  BY <1>1, <1>2, <1>4, <2>1, <2>2
  <1>6. SetsInOrder'
    <2>1. ASSUME NEW k \in DOMAIN sets'
          PROVE  /\ \E m \in 0..MaxNumber : sets'[k] = [c \in Channels |-> <<StreamOf(c), m>>]
                 /\ k > 1 => Number(sets'[k - 1][0]) < Number(sets'[k][0])
      <3>1. CASE k \in 1..Len(sets)
        <4>1. sets'[k] = sets[k] /\ k \in DOMAIN sets
          BY <1>3, <3>1
        <4>2. k > 1 => sets'[k - 1] = sets[k - 1]
          BY <1>3, <3>1
        <4> QED  BY <4>1, <4>2 DEF SetsInv, SetsInOrder
      <3>2. CASE k = Len(sets) + 1
        <4>1. k > 1 => Number(sets'[k - 1][0]) \in SetNumbers
          <5> SUFFICES ASSUME k > 1 PROVE Number(sets'[k - 1][0]) \in SetNumbers
            OBVIOUS
          <5>1. k - 1 \in 1..Len(sets)  BY <1>3, <3>2
          <5> QED  BY <1>3, <5>1 DEF SetNumbers
        <4> QED  BY <1>1, <1>3, <1>5, <3>2, <4>1
      <3> QED  BY <1>3, <3>1, <3>2
    <2>2. \A m \in SetNumbers', c \in Channels : m < Low(c)'
      BY <1>1, <1>2, <1>3, <1>5
    <2> QED  BY <2>1, <2>2 DEF SetsInOrder, StreamOf, Number
  <1>7. NoneWaits'
    <2>1. MetaChannel(h) \in Channels /\ StreamOf(MetaChannel(h)) = h
      BY OneStream
    <2>2. Low(MetaChannel(h))' = n + 1 /\ next'[StreamOf(MetaChannel(h))] = n + 1
      BY <1>2, <1>4, <2>1
    <2>3. \A m \in Nat : m < n + 1 \/ n + 1 <= m
      BY <1>1
    <2>4. \A m \in Nat : \E c \in Channels : m < Low(c)' \/ next'[StreamOf(c)] <= m
      BY <2>1, <2>2, <2>3
    <2> QED  BY <2>4 DEF NoneWaits, StreamOf
  <1>8. NoneSkipped'
    <2> SUFFICES ASSUME NEW m \in Nat, \A g \in Streams : start[g] <= m
                 PROVE  \/ m \in SetNumbers'
                        \/ \E g \in Streams : <<g, m>> \in evicted'
                        \/ \A c \in Channels : Low(c)' <= m
      BY <1>2 DEF NoneSkipped
    <2>1. CASE m \in SetNumbers \/ \E g \in Streams : <<g, m>> \in evicted
      BY <1>2, <1>3, <2>1
    <2>2. CASE m >= n
      BY <1>1, <1>2, <1>3, <2>2
    <2>3. CASE /\ m < n /\ m \notin SetNumbers
               /\ ~ \E g \in Streams : <<g, m>> \in evicted
      <3>1. \A c \in Channels : Low(c) <= m
        BY <2>3 DEF SetsInv, NoneSkipped
      <3>2. PICK c \in Channels : m < Low(c) \/ next[StreamOf(c)] <= m
        BY DEF SetsInv, NoneWaits
      <3>3. next[StreamOf(c)] <= m
        BY <1>4, <3>1, <3>2
      <3>4. StreamOf(c) = h => next[StreamOf(c)] = n
        BY <1>0
      <3> QED  BY <1>1, <1>2, <1>4, <2>3, <3>3, <3>4
    <2> QED  BY <1>1, <2>1, <2>2, <2>3
  <1>9. FreedBehind'
    <2> SUFFICES ASSUME NEW x \in freed'
                 PROVE  \E c \in Channels, m \in Int :
                          x = <<StreamOf(c), m>> /\ m < Low(c)' /\ m \notin SetNumbers'
      BY DEF FreedBehind, StreamOf
    <2>1. CASE x \in freed
      <3>1. PICK c \in Channels, m \in Int :
              x = <<StreamOf(c), m>> /\ m < Low(c) /\ m \notin SetNumbers
        BY <2>1 DEF SetsInv, FreedBehind
      <3>2. m < n  BY <1>1, <1>2, <1>4, <3>1
      <3> QED  BY <1>1, <1>2, <1>3, <3>1, <3>2
    <2>2. CASE x \notin freed
      <3>1. PICK c \in Channels, m \in Int :
              x = <<StreamOf(c), m>> /\ PushedLow(h, c) <= m /\ m < n
        BY <1>0, <2>2 DEF SetLeaves
      <3>2. m \notin SetNumbers
        <4>1. \A j \in SetNumbers : j < Low(c)
          BY DEF SetsInv, SetsInOrder
        <4> QED  BY <1>1, <1>4, <3>1, <4>1
      <3> QED  BY <1>1, <1>2, <1>3, <3>1, <3>2
    <2> QED  BY <2>1, <2>2
  <1> QED  BY <1>6, <1>7, <1>8, <1>9

(* No set leaves.                                                          *)
LEMMA NoSetLeavesStep ==
  ASSUME SetsInv, NEW h \in Streams, PushedHolds(h), Arrives(h), NoSetLeaves(h)
  PROVE  SetsInOrder' /\ NoneWaits' /\ NoneSkipped' /\ FreedBehind'
  <1>0. PICK n : n = next[h]  OBVIOUS
  <1>1. /\ TypeInv /\ n \in 0..MaxNumber /\ n \in Nat
        /\ SetNumbers \subseteq Int
    BY <1>0, SetNumbersType, MetabufAssumption DEF SetsInv, PushedHolds
  <1>2. /\ sets' = sets /\ freed' = freed /\ SetNumbers' = SetNumbers
        /\ \A c \in Channels : Low(c)' = PushedLow(h, c)
        /\ start' = start /\ next' = After(h)
        /\ evicted' = evicted \cup Forgets(h)
    BY SetsStay DEF NoSetLeaves, Arrives
  <1>3. \A c \in Channels :
          /\ Low(c) \in Nat /\ PushedLow(h, c) \in Nat /\ Low(c) <= PushedLow(h, c)
          /\ PushedLow(h, c) # Low(c) =>
               PushedLow(h, c) = Low(c) + 1 /\ Forgets(h) = {<<h, Low(c)>>}
          /\ next[StreamOf(c)] \in Nat /\ StreamOf(c) \in Streams
          /\ After(h)[StreamOf(c)] = IF StreamOf(c) = h THEN n + 1 ELSE next[StreamOf(c)]
    BY <1>0, <1>1, WindowMoves
  <1>4. SetsInOrder'
    <2>1. \A m \in SetNumbers', c \in Channels : m < Low(c)'
      <3> SUFFICES ASSUME NEW m \in SetNumbers, NEW c \in Channels
                   PROVE  m < PushedLow(h, c)
        BY <1>2
      <3>1. m < Low(c)  BY DEF SetsInv, SetsInOrder
      <3> QED  BY <1>1, <1>3, <3>1
    <2> QED  BY <1>2, <2>1 DEF SetsInv, SetsInOrder, StreamOf, Number
  <1>5. NoneWaits'
    <2> SUFFICES ASSUME NEW m \in Nat
                 PROVE  \E c \in Channels : m < Low(c)' \/ next'[StreamOf(c)] <= m
      BY DEF NoneWaits, StreamOf
    <2>1. CASE m = n
      <3>1. PICK c \in Channels : ~(PushedLow(h, c) <= n /\ n < After(h)[StreamOf(c)])
        BY <1>0 DEF NoSetLeaves, InEveryWindow
      <3> QED  BY <1>1, <1>2, <1>3, <2>1, <3>1
    <2>2. CASE m # n
      <3>1. PICK c \in Channels : m < Low(c) \/ next[StreamOf(c)] <= m
        BY DEF SetsInv, NoneWaits
      <3>2. StreamOf(c) = h => next[StreamOf(c)] = n
        BY <1>0
      <3> QED  BY <1>1, <1>2, <1>3, <2>2, <3>1, <3>2
    <2> QED  BY <2>1, <2>2
  <1>6. NoneSkipped'
    <2> SUFFICES ASSUME NEW m \in Nat, \A g \in Streams : start[g] <= m
                 PROVE  \/ m \in SetNumbers
                        \/ \E g \in Streams : <<g, m>> \in evicted'
                        \/ \A c \in Channels : PushedLow(h, c) <= m
      BY <1>2 DEF NoneSkipped
    <2>1. CASE m \in SetNumbers \/ \E g \in Streams : <<g, m>> \in evicted
      BY <1>2, <2>1
    <2>2. CASE ~(m \in SetNumbers \/ \E g \in Streams : <<g, m>> \in evicted)
      <3>1. \A c \in Channels : Low(c) <= m
        BY <2>2 DEF SetsInv, NoneSkipped
      <3>2. ASSUME NEW c \in Channels, ~(PushedLow(h, c) <= m)
            PROVE  <<h, m>> \in evicted'
        <4>1. PushedLow(h, c) # Low(c) /\ Low(c) = m
          BY <1>3, <3>1, <3>2
        <4> QED  BY <1>2, <1>3, <4>1
      <3> QED  BY <3>2
    <2> QED  BY <2>1, <2>2
  <1>7. FreedBehind'
    <2> SUFFICES ASSUME NEW x \in freed
                 PROVE  \E c \in Channels, m \in Int :
                          x = <<StreamOf(c), m>> /\ m < PushedLow(h, c) /\ m \notin SetNumbers
      BY <1>2 DEF FreedBehind, StreamOf
    <2>1. PICK c \in Channels, m \in Int :
            x = <<StreamOf(c), m>> /\ m < Low(c) /\ m \notin SetNumbers
      BY DEF SetsInv, FreedBehind
    <2>2. m < PushedLow(h, c)
      BY <1>3, <2>1
    <2> QED  BY <2>1, <2>2
  <1> QED  BY <1>4, <1>5, <1>6, <1>7

LEMMA SetsStep ==
  ASSUME SetsInv, [Next]_vars
  PROVE  SetsInv'
  <1>1. TypeInv'
    BY TypeStep DEF SetsInv
  <1>2. ASSUME UNCHANGED <<sampleBuf, start, next, sets, freed, evicted>>
        PROVE  SetsInv'
    <2>1. SetNumbers' = SetNumbers
      BY <1>2, SetsStay
    <2>2. \A c \in Channels : Low(c)' = Low(c)
      BY <1>2 DEF Low, StreamOf
    <2>3. SetsInOrder'
      BY <1>2, <2>1, <2>2 DEF SetsInv, SetsInOrder, Number, StreamOf
    <2>4. NoneWaits'
      BY <1>2, <2>2 DEF SetsInv, NoneWaits, StreamOf
    <2>5. NoneSkipped'
      BY <1>2, <2>1, <2>2 DEF SetsInv, NoneSkipped
    <2>6. FreedBehind'
      BY <1>2, <2>1, <2>2 DEF SetsInv, FreedBehind, StreamOf
    <2> QED  BY <1>1, <2>3, <2>4, <2>5, <2>6 DEF SetsInv
  <1>3. ASSUME NEW h \in Streams, BuferizeSample(h) PROVE SetsInv'
    <2>1. CASE corrupt'
      BY <1>2, <1>3, <2>1, StepOverruns DEF SetsInv
    <2>2. CASE ~corrupt'
      <3>1. PushedHolds(h) /\ Arrives(h)
        BY <1>3, <2>2, StepArrives DEF SetsInv
      <3>2. SetLeaves(h) \/ NoSetLeaves(h)
        BY <3>1 DEF Arrives
      <3> QED  BY <1>1, <3>1, <3>2, SetLeavesStep, NoSetLeavesStep DEF SetsInv
    <2> QED  BY <2>1, <2>2
  <1>4. CASE UNCHANGED vars
    BY <1>2, <1>4 DEF vars
  <1> QED  BY <1>3, <1>4 DEF Next

LEMMA SetsHold == Spec => []SetsInv
  BY SetsInit, SetsStep, PTL DEF Spec

(* Theorem: a set has one sample of each stream, all of one number, in its  *)
(* slot, and the sets leave in the order of their numbers.                 *)
THEOREM Aligned == Spec => []SetsAreAligned
  <1>1. SetsInv => SetsAreAligned
    <2> SUFFICES ASSUME SetsInv, NEW k \in DOMAIN sets
                 PROVE  \E n \in 0..MaxNumber :
                          /\ sets[k][0] = <<<<"ffted", 1>>, n>>
                          /\ sets[k][1] = <<<<"ffted", 2>>, n>>
                          /\ sets[k][2] = <<<<"sequential", 1>>, n>>
                          /\ sets[k][3] = <<<<"sequential", 2>>, n>>
                          /\ k > 1 => Number(sets[k - 1][0]) < n
      BY DEF SetsAreAligned
    <2>1. PICK n \in 0..MaxNumber : sets[k] = [c \in Channels |-> <<StreamOf(c), n>>]
      BY DEF SetsInv, SetsInOrder
    <2>2. \A c \in {0, 1, 2, 3} : sets[k][c] = <<StreamOf(c), n>>
      BY <2>1, FourStreams
    <2>3. Number(sets[k][0]) = n
      BY <2>2 DEF Number
    <2>4. k > 1 => Number(sets[k - 1][0]) < Number(sets[k][0])
      BY DEF SetsInv, SetsInOrder
    <2> QED  BY <2>2, <2>3, <2>4, OneStream
  <1> QED  BY SetsHold, <1>1, PTL

(* Theorem: a number that has arrived on every stream has left in a set,    *)
(* unless a full channel forgot it before the last of the four came.        *)
THEOREM NothingSkipped == Spec => []NoSetSkipped
  <1>1. SetsInv => NoSetSkipped
    <2> SUFFICES ASSUME SetsInv, NEW n \in 0..MaxNumber,
                        \A h \in Streams : start[h] <= n /\ n < next[h]
                 PROVE  \/ \E k \in DOMAIN sets : Number(sets[k][0]) = n
                        \/ \E h \in Streams : <<h, n>> \in evicted
      BY DEF NoSetSkipped
    <2>1. n \in Nat
      BY MetabufAssumption
    <2>2. PICK c \in Channels : n < Low(c) \/ next[StreamOf(c)] <= n
      BY <2>1 DEF SetsInv, NoneWaits
    <2>3. /\ Low(c) \in Nat /\ next[StreamOf(c)] \in Int /\ n < next[StreamOf(c)]
      BY LowType, OneStream DEF SetsInv
    <2>4. ~(Low(c) <= n)
      BY <2>1, <2>2, <2>3
    <2>5. n \in SetNumbers \/ \E h \in Streams : <<h, n>> \in evicted
      BY <2>1, <2>4 DEF SetsInv, NoneSkipped
    <2> QED  BY <2>5 DEF SetNumbers
  <1> QED  BY SetsHold, <1>1, PTL

(* Theorem: what is still buffered, or belongs to a set handed to the ui    *)
(* thread, has not been freed.                                             *)
THEOREM FreedIsDead == Spec => []NoFreedInUse
  <1>1. SetsInv => NoFreedInUse
    <2> SUFFICES ASSUME SetsInv, NEW x \in freed
                 PROVE  x \notin Emitted /\ \A d \in Channels : x \notin Held(d)
      BY DEF NoFreedInUse
    <2>1. PICK c \in Channels, m \in Int :
            x = <<StreamOf(c), m>> /\ m < Low(c) /\ m \notin SetNumbers
      BY DEF SetsInv, FreedBehind
    <2>2. ASSUME NEW k \in DOMAIN sets, NEW d \in Channels PROVE x # sets[k][d]
      <3>1. PICK n \in 0..MaxNumber : sets[k] = [e \in Channels |-> <<StreamOf(e), n>>]
        BY DEF SetsInv, SetsInOrder
      <3>2. sets[k][d] = <<StreamOf(d), n>> /\ sets[k][0] = <<StreamOf(0), n>>
        BY <3>1 DEF Channels
      <3>3. n \in SetNumbers
        BY <3>2 DEF SetNumbers, Number
      <3> QED  BY <2>1, <3>2, <3>3
    <2>3. ASSUME NEW d \in Channels, x \in Held(d) PROVE FALSE
      <3>1. PICK i \in 0..(sampleBuf[d].count - 1) : x = sampleBuf[d].ptr[i]
        BY <2>3 DEF Held
      <3>2. x = <<StreamOf(d), Low(d) + i>>
        BY <3>1 DEF SetsInv, TypeInv, ArraysHoldWindows, Window, Low
      <3>3. StreamOf(d) = StreamOf(c) /\ m = Low(d) + i
        BY <2>1, <3>2
      <3>4. d = c
        BY <3>3, OneStream
      <3>5. Low(c) \in Nat /\ i \in Nat
        BY LowType DEF SetsInv
      <3> QED  BY <2>1, <3>3, <3>4, <3>5
    <2> QED  BY <2>2, <2>3 DEF Emitted
  <1> QED  BY SetsHold, <1>1, PTL

-----------------------------------------------------------------------------
(* The promise of Assembler.                                               *)

(* The state of Assembler as Metabuf has it.                               *)
HeldNumbers == [c \in Channels |-> {Number(x) : x \in Held(c)}]
LastNumbers == [c \in Channels |-> next[StreamOf(c)] - 1]

(* The numbers held are those of the window.                               *)
LEMMA HeldIsWindow ==
  ASSUME TypeInv, NEW c \in Channels
  PROVE  HeldNumbers[c] = Low(c)..(next[StreamOf(c)] - 1)
  <1>1. PICK k, low, e : k = sampleBuf[c].count /\ low = Low(c) /\ e = next[StreamOf(c)]
    OBVIOUS
  <1>2. k \in Nat /\ low \in Nat /\ e \in Nat /\ e - k = low
    BY <1>1, LowType DEF Low
  <1>3. \A i \in 0..(k - 1) : Number(sampleBuf[c].ptr[i]) = low + i
    <2>1. \A i \in 0..(k - 1) : sampleBuf[c].ptr[i] = <<StreamOf(c), e - k + i>>
      BY <1>1 DEF TypeInv, ArraysHoldWindows, Window
    <2> QED  BY <1>2, <2>1 DEF Number
  <1>4. HeldNumbers[c] = {Number(x) : x \in Held(c)}
    BY DEF HeldNumbers
  <1>5. HeldNumbers[c] = {Number(sampleBuf[c].ptr[i]) : i \in 0..(k - 1)}
    BY <1>1, <1>4 DEF Held
  <1>6. \A m \in low..(e - 1) : m - low \in 0..(k - 1) /\ low + (m - low) = m
    BY <1>2
  <1>7. \A i \in 0..(k - 1) : low + i \in low..(e - 1)
    BY <1>2
  <1> QED  BY <1>1, <1>3, <1>5, <1>6, <1>7

LEMMA HeldAreWindows ==
  TypeInv => \A c \in Channels : HeldNumbers[c] = Low(c)..(next[StreamOf(c)] - 1)
  BY HeldIsWindow

LEMMA AbstractCardinality ==
  ASSUME NEW S
  PROVE  Abstract!Cardinality(S) = Cardinality(S)
  BY Zenon DEF Cardinality, Abstract!Cardinality, Abstract!IsFiniteSet, IsFiniteSet

LEMMA OldestOfWindow ==
  ASSUME NEW low \in Int, NEW e \in Int, low < e
  PROVE  Abstract!Oldest(low..(e - 1)) = low
  <1>1. low \in low..(e - 1) /\ \A k \in low..(e - 1) : low <= k
    OBVIOUS
  <1>2. \A m \in low..(e - 1) : (\A k \in low..(e - 1) : m <= k) => m = low
    BY <1>1
  <1> QED  BY <1>1, <1>2 DEF Abstract!Oldest

(* A sample arrives at the windows as it arrives at the channels.           *)
LEMMA ReceivedIsWindow ==
  ASSUME TypeInv, NEW h \in Streams, PushedHolds(h)
  PROVE  Abstract!Received(MetaChannel(h), next[h])
           = [c \in Channels |-> PushedLow(h, c)..(After(h)[StreamOf(c)] - 1)]
  <1>1. PICK d, n : d = MetaChannel(h) /\ n = next[h]
    OBVIOUS
  <1>2. d \in Channels /\ StreamOf(d) = h
    BY <1>1, OneStream
  <1>3. HeldNumbers = [c \in Channels |-> Low(c)..(next[StreamOf(c)] - 1)]
    <2>1. HeldNumbers = [c \in Channels |-> HeldNumbers[c]]
      BY DEF HeldNumbers
    <2> QED  BY <2>1, HeldIsWindow
  <1>4. Abstract!Received(d, n)
          = [HeldNumbers EXCEPT ![d] =
               (IF Cardinality(HeldNumbers[d]) = Cap
                THEN HeldNumbers[d] \ {Abstract!Oldest(HeldNumbers[d])}
                ELSE HeldNumbers[d]) \cup {n}]
    BY AbstractCardinality, Zenon DEF Abstract!Received, HeldNumbers
  <1>5. PICK low, k : low = Low(d) /\ k = sampleBuf[d].count
    OBVIOUS
  <1>6. /\ low \in Nat /\ n \in Nat /\ k \in Nat /\ low = n - k /\ Cap \in Nat \ {0}
        /\ HeldNumbers[d] = low..(n - 1)
        /\ PushedLow(h, d) = IF k = Cap THEN low + 1 ELSE low
    BY <1>1, <1>2, <1>5, LowType, HeldIsWindow, MetabufAssumption DEF Low, PushedLow
  <1>7. Cardinality(low..(n - 1)) = k
    BY <1>6, FS_Interval
  <1>8. (IF Cardinality(low..(n - 1)) = Cap
         THEN (low..(n - 1)) \ {Abstract!Oldest(low..(n - 1))}
         ELSE low..(n - 1)) \cup {n} = PushedLow(h, d)..n
    <2>1. CASE k = Cap
      <3>1. Abstract!Oldest(low..(n - 1)) = low
        BY <1>6, <2>1, OldestOfWindow
      <3>2. ((low..(n - 1)) \ {low}) \cup {n} = (low + 1)..n
        BY <1>6, <2>1
      <3> QED  BY <1>6, <1>7, <2>1, <3>1, <3>2
    <2>2. CASE k # Cap
      <3>1. (low..(n - 1)) \cup {n} = low..n
        BY <1>6
      <3> QED  BY <1>6, <1>7, <2>2, <3>1
    <2> QED  BY <2>1, <2>2
  <1>9. Abstract!Received(d, n) = [HeldNumbers EXCEPT ![d] = PushedLow(h, d)..n]
    BY <1>4, <1>6, <1>8
  <1>10. ASSUME NEW c \in Channels
         PROVE  [HeldNumbers EXCEPT ![d] = PushedLow(h, d)..n][c]
                  = PushedLow(h, c)..(After(h)[StreamOf(c)] - 1)
    <2>1. CASE c = d
      <3>1. After(h)[StreamOf(c)] = n + 1
        BY <1>1, <1>2, <2>1, WindowMoves
      <3>2. (n + 1) - 1 = n  BY <1>6
      <3> QED  BY <1>3, <2>1, <3>1, <3>2
    <2>2. CASE c # d
      <3>1. StreamOf(c) # h
        BY <1>1, <2>2, OneStream
      <3>2. After(h)[StreamOf(c)] = next[StreamOf(c)] /\ PushedLow(h, c) = Low(c)
        BY <1>1, <2>2, <3>1, WindowMoves DEF PushedLow
      <3> QED  BY <1>3, <2>2, <3>2
    <2> QED  BY <2>1, <2>2
  <1>11. [HeldNumbers EXCEPT ![d] = PushedLow(h, d)..n]
           = [c \in Channels |-> PushedLow(h, c)..(After(h)[StreamOf(c)] - 1)]
    BY <1>3, <1>10
  <1> QED  BY <1>1, <1>9, <1>11

LEMMA AfterLast ==
  ASSUME TypeInv, NEW h \in Streams, PushedHolds(h), next' = After(h)
  PROVE  /\ LastNumbers' = [LastNumbers EXCEPT ![MetaChannel(h)] = next[h]]
         /\ next[h] > LastNumbers[MetaChannel(h)]
  <1>1. LastNumbers' = [c \in Channels |-> After(h)[StreamOf(c)] - 1]
    BY DEF LastNumbers, StreamOf
  <1>2. ASSUME NEW c \in Channels
        PROVE  After(h)[StreamOf(c)] - 1 = IF c = MetaChannel(h) THEN next[h]
                                           ELSE next[StreamOf(c)] - 1
    <2>1. StreamOf(c) = h <=> c = MetaChannel(h)
      BY OneStream
    <2> QED  BY <2>1, WindowMoves
  <1>3. MetaChannel(h) \in Channels /\ StreamOf(MetaChannel(h)) = h /\ next[h] \in Int
    BY OneStream, WindowMoves
  <1>4. [c \in Channels |-> After(h)[StreamOf(c)] - 1]
          = [c \in Channels |-> IF c = MetaChannel(h) THEN next[h] ELSE next[StreamOf(c)] - 1]
    BY <1>2
  <1>5. next[h] > LastNumbers[MetaChannel(h)]
    BY <1>3 DEF LastNumbers
  <1> QED  BY <1>1, <1>3, <1>4, <1>5 DEF LastNumbers

(* A sample that arrives is received as Assembler says.                     *)
LEMMA ArrivalIsReceive ==
  ASSUME SetsInv, TypeInv', NEW h \in Streams, PushedHolds(h), Arrives(h)
  PROVE  Abstract!Receive(MetaChannel(h), next[h])
  <1>0. TypeInv  BY DEF SetsInv
  <1>1. PICK d, n : d = MetaChannel(h) /\ n = next[h]
    OBVIOUS
  <1>2. PICK r : r = [c \in Channels |-> PushedLow(h, c)..(After(h)[StreamOf(c)] - 1)]
    OBVIOUS
  <1>3. /\ d \in Channels /\ n \in Nat /\ Abstract!Received(d, n) = r
        /\ LastNumbers' = [LastNumbers EXCEPT ![d] = n] /\ n > LastNumbers[d]
        /\ next' = After(h)
    <2>1. d \in Channels /\ n \in Nat /\ next' = After(h)
      BY <1>1, OneStream, MetabufAssumption DEF Arrives, PushedHolds
    <2>2. Abstract!Received(MetaChannel(h), next[h]) = r
      BY <1>0, <1>2, ReceivedIsWindow
    <2>3. /\ LastNumbers' = [LastNumbers EXCEPT ![MetaChannel(h)] = next[h]]
          /\ next[h] > LastNumbers[MetaChannel(h)]
      BY <1>0, <2>1, AfterLast
    <2> QED  BY <1>1, <2>1, <2>2, <2>3
  <1>4. \A c \in Channels : /\ PushedLow(h, c) \in Nat /\ After(h)[StreamOf(c)] \in Nat
                            /\ After(h)[StreamOf(c)] \in Int
    BY <1>0, <1>1, <1>3, WindowMoves
  <1>5. HeldNumbers' = [c \in Channels |-> Low(c)'..(After(h)[StreamOf(c)] - 1)]
    <2>1. \A c \in Channels : HeldNumbers'[c] = Low(c)'..(next'[StreamOf(c)] - 1)
      <3>1. (\A c \in Channels : HeldNumbers[c] = Low(c)..(next[StreamOf(c)] - 1))'
        BY HeldAreWindows, PTL
      <3> QED  BY <3>1 DEF StreamOf
    <2>2. HeldNumbers' = [c \in Channels |-> HeldNumbers'[c]]
      BY DEF HeldNumbers
    <2> QED  BY <1>3, <2>1, <2>2
  <1>6. (\A c \in Channels : n \in r[c]) <=> InEveryWindow(h)
    <2> SUFFICES ASSUME NEW c \in Channels
                 PROVE  n \in r[c] <=> PushedLow(h, c) <= n /\ n < After(h)[StreamOf(c)]
      BY <1>1 DEF InEveryWindow
    <2>1. r[c] = PushedLow(h, c)..(After(h)[StreamOf(c)] - 1)
      BY <1>2
    <2> QED  BY <1>3, <1>4, <2>1
  <1>7. /\ HeldNumbers' = IF \A c \in Channels : n \in r[c]
                          THEN [c \in Channels |-> {m \in r[c] : m > n}] ELSE r
        /\ SetNumbers' = IF \A c \in Channels : n \in r[c]
                         THEN SetNumbers \cup {n} ELSE SetNumbers
    <2>1. CASE SetLeaves(h)
      <3>1. \A c \in Channels : n \in r[c]
        BY <1>6, <2>1 DEF SetLeaves
      <3>2. SetNumbers' = SetNumbers \cup {n}
        BY <1>0, <1>1, <2>1, SetsGrow DEF SetLeaves
      <3>3. ASSUME NEW c \in Channels
            PROVE  Low(c)'..(After(h)[StreamOf(c)] - 1) = {m \in r[c] : m > n}
        <4>1. /\ Low(c)' = n + 1 /\ PushedLow(h, c) <= n
              /\ r[c] = PushedLow(h, c)..(After(h)[StreamOf(c)] - 1)
          BY <1>1, <1>2, <2>1 DEF SetLeaves, InEveryWindow
        <4>2. PICK low \in Nat, e \in Nat : low = PushedLow(h, c) /\ e = After(h)[StreamOf(c)]
          BY <1>4
        <4>3. (n + 1)..(e - 1) = {m \in low..(e - 1) : m > n}
          BY <1>3, <4>1, <4>2
        <4> QED  BY <4>1, <4>2, <4>3
      <3>4. HeldNumbers' = [c \in Channels |-> {m \in r[c] : m > n}]
        BY <1>5, <3>3
      <3> QED  BY <3>1, <3>2, <3>4
    <2>2. CASE NoSetLeaves(h)
      <3>1. ~(\A c \in Channels : n \in r[c])
        BY <1>6, <2>2 DEF NoSetLeaves
      <3>2. SetNumbers' = SetNumbers
        BY <2>2, SetsStay DEF NoSetLeaves
      <3>3. HeldNumbers' = r
        BY <1>2, <1>5, <2>2 DEF NoSetLeaves
      <3> QED  BY <3>1, <3>2, <3>3
    <2> QED  BY <2>1, <2>2 DEF Arrives
  <1>8. Abstract!Receive(d, n)
    BY <1>3, <1>7, Zenon DEF Abstract!Receive, HeldNumbers, LastNumbers, SetNumbers
  <1> QED  BY <1>1, <1>8

LEMMA AbstractInit == Init => Abstract!Init
  <1> SUFFICES ASSUME Init PROVE Abstract!Init  OBVIOUS
  <1>1. SetsInv  BY SetsInit
  <1>2. HeldNumbers = [c \in Channels |-> {}]
    <2>1. \A c \in Channels : HeldNumbers[c] = {}
      <3> SUFFICES ASSUME NEW c \in Channels PROVE HeldNumbers[c] = {}
        OBVIOUS
      <3>1. sampleBuf[c].count = 0
        BY DEF Init
      <3>2. Held(c) = {}
        BY <3>1 DEF Held
      <3> QED  BY <3>2 DEF HeldNumbers
    <2> QED  BY <2>1 DEF HeldNumbers
  <1>3. LastNumbers \in [Channels -> Int]
    <2>1. \A c \in Channels : next[StreamOf(c)] \in Int
      BY <1>1, LowType DEF SetsInv
    <2> QED  BY <2>1 DEF LastNumbers
  <1>4. SetNumbers = {}
    BY DEF Init, SetNumbers
  <1> QED
    BY <1>2, <1>3, <1>4, Zenon DEF Abstract!Init, HeldNumbers, LastNumbers, SetNumbers

LEMMA AbstractStep ==
  ASSUME SetsInv, [Next]_vars
  PROVE  [corrupt' \/ Abstract!Next]_(Abstract!vars)
  <1>1. ASSUME NEW h \in Streams, BuferizeSample(h), ~corrupt'
        PROVE  Abstract!Next
    <2>1. PushedHolds(h) /\ Arrives(h) /\ TypeInv'
      BY <1>1, StepArrives, TypeStep DEF SetsInv, Next
    <2>2. Abstract!Receive(MetaChannel(h), next[h])
      BY <2>1, ArrivalIsReceive
    <2>3. MetaChannel(h) \in Channels /\ next[h] \in 0..MaxNumber
      BY <2>1, OneStream DEF PushedHolds
    <2> QED  BY <2>2, <2>3, Zenon DEF Abstract!Next
  <1>2. ASSUME UNCHANGED vars PROVE UNCHANGED Abstract!vars
    BY <1>2 DEF vars, Abstract!vars, Held, StreamOf, Number
  <1> QED  BY <1>1, <1>2 DEF Next

(* Theorem: the arrays, counts and indices keep the promise of Assembler,   *)
(* every step but one that writes behind an array.                         *)
THEOREM ImplementsAssembler == Spec => Implements
  BY AbstractInit, AbstractStep, SetsHold, PTL DEF Spec, Implements

-----------------------------------------------------------------------------
(* When shift writes behind an array.                                      *)

(* The index count - s lies behind the array only when the array is full    *)
(* and its first entry is wanted.                                          *)
LEMMA OverrunsFirst ==
  ASSUME TypeInv, NEW h \in Streams, PushedHolds(h), InEveryWindow(h), NEW c \in Channels
  PROVE  ShiftOverruns(Pushed(h)[c], Having(h)[c])
           <=> LET held == PushedLow(h, c)..(After(h)[StreamOf(c)] - 1)
               IN  Cardinality(held) = Cap /\ next[h] = Abstract!Oldest(held)
  <1>1. PICK b, e, n, low, s, k :
          /\ b = Pushed(h)[c] /\ e = After(h)[StreamOf(c)] /\ n = next[h]
          /\ low = PushedLow(h, c) /\ s = Having(h)[c] /\ k = b.count
    OBVIOUS
  <1>2. /\ e \in Int /\ n \in Int /\ low \in Nat /\ k \in 0..Cap /\ Cap \in Nat
        /\ e - k = low
    BY <1>1, PushedChannel, CountType
  <1>3. s = n - low /\ low <= n /\ n < e
    BY <1>1, Finds DEF InEveryWindow
  <1>4. Cardinality(low..(e - 1)) = k /\ Abstract!Oldest(low..(e - 1)) = low
    <2>1. Cardinality(low..(e - 1)) = k
      BY <1>2, FS_Interval
    <2>2. Abstract!Oldest(low..(e - 1)) = low
      BY <1>2, <1>3, OldestOfWindow
    <2> QED  BY <2>1, <2>2
  <1>5. k - s >= Cap <=> k = Cap /\ n = low
    BY <1>2, <1>3
  <1>6. ShiftOverruns(b, s) <=> k - s >= Cap
    BY <1>1 DEF ShiftOverruns
  <1> QED  BY <1>1, <1>4, <1>5, <1>6

LEMMA OverrunsWhen ==
  ASSUME TypeInv, NEW h \in Streams, BuferizeSample(h)
  PROVE  corrupt' <=> OldestOfFull(h)
  <1> DEFINE held(c) == PushedLow(h, c)..(After(h)[StreamOf(c)] - 1)
             haveSet == \A c \in Channels : Having(h)[c] # -1
             overruns == \E c \in Channels : ShiftOverruns(Pushed(h)[c], Having(h)[c])
  <1>1. next[h] <= MaxNumber /\ (corrupt' <=> haveSet /\ overruns)
    BY DEF BuferizeSample, Having, Pushed
  <1>2. PushedHolds(h)
    BY <1>1, PushStep
  <1>3. ASSUME NEW c \in Channels
        PROVE  /\ Having(h)[c] # -1 <=> next[h] \in held(c)
               /\ next[h] \in held(c)
                    <=> PushedLow(h, c) <= next[h] /\ next[h] < After(h)[StreamOf(c)]
    <2>1. /\ PushedLow(h, c) \in Nat /\ next[h] \in Int /\ After(h)[StreamOf(c)] \in Int
      BY <1>2, PushedChannel
    <2>2. Having(h)[c] = IF PushedLow(h, c) <= next[h] /\ next[h] < After(h)[StreamOf(c)]
                         THEN next[h] - PushedLow(h, c) ELSE -1
      BY <1>2, Finds
    <2> QED  BY <2>1, <2>2
  <1>4. Abstract!Received(MetaChannel(h), next[h]) = [c \in Channels |-> held(c)]
    BY <1>2, ReceivedIsWindow
  <1>5. OldestOfFull(h) <=>
          /\ \A c \in Channels : next[h] \in held(c)
          /\ \E c \in Channels : Cardinality(held(c)) = Cap /\ next[h] = Abstract!Oldest(held(c))
    <2> HIDE DEF held
    <2>1. PICK r : r = Abstract!Received(MetaChannel(h), next[h])
      OBVIOUS
    <2>2. OldestOfFull(h) <=>
            /\ \A c \in Channels : next[h] \in r[c]
            /\ \E c \in Channels : Cardinality(r[c]) = Cap /\ next[h] = Abstract!Oldest(r[c])
      BY <2>1, Zenon DEF OldestOfFull
    <2>3. \A c \in Channels : r[c] = held(c)
      BY <1>4, <2>1
    <2> QED  BY <2>2, <2>3
  <1>6. haveSet <=> \A c \in Channels : next[h] \in held(c)
    BY <1>3
  <1>7. ASSUME haveSet
        PROVE  overruns <=> \E c \in Channels : /\ Cardinality(held(c)) = Cap
                                                /\ next[h] = Abstract!Oldest(held(c))
    <2>1. InEveryWindow(h)
      BY <1>3, <1>6, <1>7 DEF InEveryWindow
    <2>2. \A c \in Channels :
            ShiftOverruns(Pushed(h)[c], Having(h)[c])
              <=> Cardinality(held(c)) = Cap /\ next[h] = Abstract!Oldest(held(c))
      BY <1>2, <2>1, OverrunsFirst
    <2> QED  BY <2>2
  <1> HIDE DEF haveSet, overruns, held
  <1> QED  BY <1>1, <1>5, <1>6, <1>7

(* Theorem: shift writes behind an array when, and only when, the sample    *)
(* completes a set whose number is the oldest of a channel that is full.    *)
THEOREM WritesBehindAtOldest == Spec => OverrunsAtOldest
  <1>1. ASSUME TypeInv, [Next]_vars
        PROVE  [/\ corrupt' # corrupt => \E h \in Streams : OldestOfFull(h)
                /\ \A h \in Streams : next'[h] # next[h] => ~OldestOfFull(h)]_vars
    <2>1. ASSUME NEW g \in Streams, BuferizeSample(g)
          PROVE  /\ corrupt' # corrupt => \E h \in Streams : OldestOfFull(h)
                 /\ \A h \in Streams : next'[h] # next[h] => ~OldestOfFull(h)
      <3>1. corrupt' <=> OldestOfFull(g)
        BY <1>1, <2>1, OverrunsWhen
      <3>2. corrupt = FALSE /\ corrupt' \in BOOLEAN
        BY <1>1, <2>1 DEF BuferizeSample, TypeInv, TypeOK
      <3>3. ASSUME NEW h \in Streams, next'[h] # next[h] PROVE h = g /\ ~corrupt'
        <4>1. ~corrupt'
          BY <1>1, <2>1, <3>3, StepOverruns
        <4>2. next' = After(g)
          BY <1>1, <2>1, <4>1, StepArrives DEF Arrives
        <4>3. next \in [Streams -> 0..(MaxNumber + 1)]
          BY <1>1 DEF TypeInv, TypeOK
        <4> QED  BY <3>3, <4>1, <4>2, <4>3 DEF After
      <3> QED  BY <3>1, <3>2, <3>3
    <2> QED  BY <1>1, <2>1 DEF Next
  <1>2. Spec => []TypeInv
    BY TypeInit, TypeStep, PTL DEF Spec
  <1> QED  BY <1>1, <1>2, PTL DEF Spec, OverrunsAtOldest
=============================================================================
