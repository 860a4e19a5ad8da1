------------------------------- MODULE Metabuf -------------------------------
(***************************************************************************)
(* The reordering buffer of the display (display/metabuf.c): four streams  *)
(* of samples, left and right, as samples and as spectra, arrive at their  *)
(* own pace through one pipe; buferize_sample keeps each in an array and   *)
(* returns a set of four when it has the same number on every channel.     *)
(* The arrays, their counts and the index arithmetic of shift() are the    *)
(* code's; a sample is its stream and its number.                          *)
(***************************************************************************)
EXTENDS Integers, Sequences, FiniteSets

CONSTANTS
  Cap,         (* MAX_BUFFERED                                              *)
  MaxNumber,   (* bound: the highest sample number                          *)
  MaxStart     (* bound: the highest number a stream starts with            *)

ASSUME MetabufAssumption ==
  /\ Cap \in Nat \ {0}
  /\ MaxNumber \in Nat
  /\ MaxStart \in 0..MaxNumber

ChannelsCount == 2                            (* CHANNELS_COUNT             *)
Channels == 0..3                              (* BUFFER_CHANNELS            *)
Streams == {"ffted", "sequential"} \X {1, 2}  (* buf_type, channel_no       *)
Samples == Streams \X (0..MaxNumber)

(* What the arrays hold beside samples: NULL, or what lies behind the array. *)
NoSample == <<<<"none", 0>>, -1>>
Number(x) == x[2]

VARIABLES
  sampleBuf,  (* sample_buf[]: [ptr, count] of each channel                 *)
  corrupt,    (* shift() has written past an array: nothing is said of the  *)
              (* program after that                                         *)
  start,      (* the number each stream starts with: its connection's first *)
  next,       (* the number each stream brings next                         *)
  sets,       (* the sets returned, in order: [Channels -> Samples]         *)
  freed,      (* history: the samples given to buf_free                     *)
  evicted     (* history: the samples a full channel has forgotten          *)

vars == <<sampleBuf, corrupt, start, next, sets, freed, evicted>>

Buffer == [ptr : [0..(Cap - 1) -> Samples \cup {NoSample}], count : 0..Cap]

TypeOK ==
  /\ sampleBuf \in [Channels -> Buffer]
  /\ corrupt \in BOOLEAN
  /\ start \in [Streams -> 0..MaxStart]
  /\ next \in [Streams -> 0..(MaxNumber + 1)]
  /\ sets \in Seq([Channels -> Samples])
  /\ freed \subseteq Samples
  /\ evicted \subseteq Samples

Init ==
  /\ sampleBuf = [c \in Channels |-> [ptr |-> [i \in 0..(Cap - 1) |-> NoSample],
                                      count |-> 0]]
  /\ corrupt = FALSE
  /\ start \in [Streams -> 0..MaxStart]
  /\ next = start
  /\ sets = <<>>
  /\ freed = {} /\ evicted = {}

-----------------------------------------------------------------------------

(* meta_channel: left_fft, right_fft, left, right, as SMETABUFER has them.  *)
MetaChannel_SamplesFirst(h) ==                        (* mutant of MetaChannel *)
  (IF h[2] - 1 >= ChannelsCount THEN ChannelsCount - 1 ELSE h[2] - 1)
    + (IF h[1] = "ffted" THEN ChannelsCount ELSE 0)
MetaChannel(h) ==
  (IF h[2] - 1 >= ChannelsCount THEN ChannelsCount - 1 ELSE h[2] - 1)
    + (IF h[1] = "sequential" THEN ChannelsCount ELSE 0)

(* have_sample: the first index below count that holds number n, or -1.     *)
Holding(b, n) == {i \in 0..(b.count - 1) : Number(b.ptr[i]) = n}
HaveSample(b, n) ==
  IF Holding(b, n) = {} THEN -1
  ELSE CHOOSE i \in Holding(b, n) : \A j \in Holding(b, n) : i <= j

(* push_buffered: a full channel moves down by one and forgets its oldest.  *)
PushBuffered_Stuck(b, x) ==                          (* mutant of PushBuffered *)
  IF b.count >= Cap
  THEN [b EXCEPT !.ptr[Cap - 1] = x]
  ELSE [ptr |-> [b.ptr EXCEPT ![b.count] = x], count |-> b.count + 1]
PushBuffered(b, x) ==
  IF b.count >= Cap
  THEN [b EXCEPT !.ptr = [i \in 0..(Cap - 1) |->
                            IF i = Cap - 1 THEN x ELSE b.ptr[i + 1]]]
  ELSE [ptr |-> [b.ptr EXCEPT ![b.count] = x], count |-> b.count + 1]

(* shift(b, s): entries 0..s go, the rest moves down.  The loop also copies *)
(* up to two entries from behind the array, above the new count.           *)
Shift_KeepsOne(b, s) ==                                     (* mutant of Shift *)
  [ptr |-> [i \in 0..(Cap - 1) |->
              IF i > b.count - s THEN b.ptr[i]
              ELSE IF i + s < Cap THEN b.ptr[i + s] ELSE NoSample],
   count |-> b.count - s]
Shift_CountsTwo(b, s) ==                                    (* mutant of Shift *)
  [ptr |-> [i \in 0..(Cap - 1) |->
              IF i > b.count - s THEN b.ptr[i]
              ELSE IF i + 1 + s < Cap THEN b.ptr[i + 1 + s] ELSE NoSample],
   count |-> b.count - (s + 2)]
Shift(b, s) ==
  [ptr |-> [i \in 0..(Cap - 1) |->
              IF i > b.count - s THEN b.ptr[i]
              ELSE IF i + 1 + s < Cap THEN b.ptr[i + 1 + s] ELSE NoSample],
   count |-> b.count - (s + 1)]

(* The loop runs to index count - s, which a full channel whose oldest      *)
(* entry is wanted does not have: it is the count itself.                  *)
ShiftOverruns_Full(b, s) == b.count >= Cap           (* mutant of ShiftOverruns *)
ShiftOverruns(b, s) == b.count - s >= Cap

(* It frees what it drops, except the last of them.                        *)
ShiftFrees_All(b, s) == {b.ptr[i] : i \in 0..s}         (* mutant of ShiftFrees *)
ShiftFrees(b, s) == {b.ptr[i] : i \in {j \in 0..(s - 2) : j <= b.count - s}}

(* buferize_sample for the next sample of stream h.                        *)
BuferizeSample(h) ==
  LET x == <<h, next[h]>>
      thisCh == MetaChannel(h)
      old == sampleBuf[thisCh]
      pushed == [sampleBuf EXCEPT ![thisCh] = PushBuffered(old, x)]
      having == [c \in Channels |-> HaveSample(pushed[c], next[h])]
      haveSet == \A c \in Channels : having[c] # -1
      overruns == haveSet /\ \E c \in Channels : ShiftOverruns(pushed[c], having[c])
  IN  /\ ~corrupt
      /\ next[h] <= MaxNumber
      /\ IF overruns
         THEN /\ corrupt' = TRUE
              /\ UNCHANGED <<sampleBuf, start, next, sets, freed, evicted>>
         ELSE /\ next' = [next EXCEPT ![h] = @ + 1]
              /\ evicted' = evicted \cup (IF old.count = Cap THEN {old.ptr[0]} ELSE {})
              /\ IF haveSet
                 THEN /\ sampleBuf' = [c \in Channels |-> Shift(pushed[c], having[c])]
                      /\ sets' = Append(sets, [c \in Channels |-> pushed[c].ptr[having[c]]])
                      /\ freed' = freed \cup UNION {ShiftFrees(pushed[c], having[c]) :
                                                      c \in Channels}
                 ELSE sampleBuf' = pushed /\ UNCHANGED <<sets, freed>>
              /\ UNCHANGED <<corrupt, start>>

Next == \E h \in Streams : BuferizeSample(h)

Spec == Init /\ [][Next]_vars

-----------------------------------------------------------------------------

Held(c) == {sampleBuf[c].ptr[i] : i \in 0..(sampleBuf[c].count - 1)}
Emitted == {sets[k][c] : k \in DOMAIN sets, c \in Channels}

(* A set has one sample of each stream, all of one number, each in the slot *)
(* SMETABUFER has for it; the sets leave in the order of their numbers.     *)
SetsAreAligned ==
  \A k \in DOMAIN sets :
    /\ \E n \in 0..MaxNumber :
         /\ sets[k][0] = <<<<"ffted", 1>>, n>> /\ sets[k][1] = <<<<"ffted", 2>>, n>>
         /\ sets[k][2] = <<<<"sequential", 1>>, n>>
         /\ sets[k][3] = <<<<"sequential", 2>>, n>>
         /\ k > 1 => Number(sets[k - 1][0]) < n

(* A number that has arrived on every stream has left in a set, unless a    *)
(* full channel forgot it before the last of the four came.                 *)
NoSetSkipped ==
  \A n \in 0..MaxNumber :
    (\A h \in Streams : start[h] <= n /\ n < next[h]) =>
      \/ \E k \in DOMAIN sets : Number(sets[k][0]) = n
      \/ \E h \in Streams : <<h, n>> \in evicted

(* Nothing that is still buffered, or belongs to a set handed to the ui     *)
(* thread, has been freed.                                                 *)
NoFreedInUse == freed \cap (Emitted \cup UNION {Held(c) : c \in Channels}) = {}

(* The arrays, counts and indices keep the promise of Assembler, as long as *)
(* shift writes inside them: every step but the one that does not is a step *)
(* of Assembler, or leaves its state alone.                                *)
StreamOf(c) == CHOOSE h \in Streams : MetaChannel(h) = c
Abstract == INSTANCE Assembler
  WITH Numbers <- 0..MaxNumber,
       held <- [c \in Channels |-> {Number(x) : x \in Held(c)}],
       last <- [c \in Channels |-> next[StreamOf(c)] - 1],
       left <- {Number(sets[k][0]) : k \in DOMAIN sets}
Implements == Abstract!Init /\ [][corrupt' \/ Abstract!Next]_(Abstract!vars)

(* shift writes behind an array just when the sample completes a set whose  *)
(* number is the oldest of a channel that is full: what Display takes for   *)
(* the end of what it can say of the program.                              *)
OldestOfFull(h) ==
  LET received == Abstract!Received(MetaChannel(h), next[h])
  IN  /\ \A c \in Channels : next[h] \in received[c]
      /\ \E c \in Channels :
           Cardinality(received[c]) = Cap /\ next[h] = Abstract!Oldest(received[c])
OverrunsAtOldest ==
  [][/\ corrupt' # corrupt => \E h \in Streams : OldestOfFull(h)
     /\ \A h \in Streams : next'[h] # next[h] => ~OldestOfFull(h)]_vars

(* metabuf.c, "pop complete set and return it": a set is returned and the   *)
(* arrays are left as they should be, whatever the channels hold.          *)
PopStaysInside == ~corrupt
=============================================================================
