------------------------------ MODULE Display ------------------------------
(***************************************************************************)
(* The threads of display: the receiver (display.c), the reorderer          *)
(* (reorderer.c) and the updater (ui_spawn.c), with the two non-blocking    *)
(* pipes of pointers between them, and the end of the program.  Buffering  *)
(* is that of Assembler, which Metabuf implements; a sample is its channel *)
(* and its number, a set is its number.                                    *)
(***************************************************************************)
EXTENDS Integers, Sequences, FiniteSets, SequencesExt

CONSTANTS
  Channels,     (* the inputs: left_fft, right_fft, left, right            *)
  Cap,          (* MAX_BUFFERED                                            *)
  PipeCap,      (* pointers a pipe holds                                   *)
  MaxNumber,    (* bound: the highest sample number                        *)
  MaxStart,     (* bound: the highest number a stream starts with          *)
  MessageEnd    (* MESSAGE_END                                             *)

Numbers == 0..MaxNumber
Samples == Channels \X Numbers

ASSUME DisplayAssumption ==
  /\ IsFiniteSet(Channels) /\ Channels # {}
  /\ Cap \in Nat \ {0} /\ PipeCap \in Nat \ {0}
  /\ MaxNumber \in Nat /\ MaxStart \in Numbers
  /\ MessageEnd \notin Samples

VARIABLES
  main,       (* "run", then "join" (pthread_join on the reorderer)        *)
  proc,       (* "up", "exit", "died" (handle_error), or "undefined" once  *)
              (* shift has written behind an array                         *)
  start,      (* the number each stream starts with                        *)
  next,       (* the number each stream brings next                        *)
  closed,     (* the streams whose sender has closed                       *)
  reordPipe,  (* from receiver to reorderer: samples                       *)
  held,       (* sample_buf: the numbers held, by channel (Assembler)      *)
  last,       (* the last number buffered, by channel (Assembler)          *)
  left,       (* the numbers of the sets that have left (Assembler)        *)
  evicted,    (* history: the samples a full channel has forgotten         *)
  uiPipe,     (* from reorderer to updater: sets                           *)
  drawn       (* the sets drawn, in order                                  *)

inputVars == <<start, next, closed>>
bufferVars == <<held, last, left, evicted>>
vars == <<main, proc, inputVars, reordPipe, bufferVars, uiPipe, drawn>>

Buffering == INSTANCE Assembler

TypeOK ==
  /\ main \in {"run", "join"}
  /\ proc \in {"up", "exit", "died", "undefined"}
  /\ start \in [Channels -> 0..MaxStart]
  /\ next \in [Channels -> 0..(MaxNumber + 1)]
  /\ closed \subseteq Channels
  /\ reordPipe \in Seq(Samples \cup {MessageEnd}) /\ Len(reordPipe) <= PipeCap
  /\ held \in [Channels -> SUBSET Numbers]
  /\ \A c \in Channels : Cardinality(held[c]) <= Cap
  /\ last \in [Channels -> Numbers \cup {-1}]
  /\ left \subseteq Numbers
  /\ evicted \subseteq Samples
  /\ uiPipe \in Seq(Numbers) /\ Len(uiPipe) <= PipeCap
  /\ drawn \in Seq(Numbers)

Init ==
  /\ main = "run" /\ proc = "up"
  /\ start \in [Channels -> 0..MaxStart] /\ next = start /\ closed = {}
  /\ reordPipe = <<>> /\ uiPipe = <<>> /\ drawn = <<>>
  /\ held = [c \in Channels |-> {}]
  /\ last = [c \in Channels |-> start[c] - 1]
  /\ left = {} /\ evicted = {}

Up == proc = "up"

(* write() of a pointer to a non-blocking pipe; -1 ends the process.        *)
Fits_Always(pipe) == TRUE                                    (* mutant of Fits *)
Fits(pipe) == Len(pipe) < PipeCap

-----------------------------------------------------------------------------
(* The senders, and the receiver: main's loop.                             *)

SenderCloses(c) ==
  /\ Up /\ c \notin closed
  /\ closed' = closed \cup {c}
  /\ UNCHANGED <<main, proc, start, next, reordPipe, bufferVars, uiPipe, drawn>>

(* A sample of channel c is complete.                                      *)
Receive_Drops(c) ==                                       (* mutant of Receive *)
  /\ Up /\ main = "run"
  /\ c \notin closed /\ next[c] <= MaxNumber
  /\ reordPipe' = IF Fits(reordPipe) THEN Append(reordPipe, <<c, next[c]>>) ELSE reordPipe
  /\ next' = [next EXCEPT ![c] = @ + 1]
  /\ UNCHANGED <<proc, main, start, closed, bufferVars, uiPipe, drawn>>
Receive(c) ==
  /\ Up /\ main = "run"
  /\ c \notin closed /\ next[c] <= MaxNumber
  /\ IF Fits(reordPipe)
     THEN /\ reordPipe' = Append(reordPipe, <<c, next[c]>>)
          /\ next' = [next EXCEPT ![c] = @ + 1]
          /\ UNCHANGED proc
     ELSE proc' = "died" /\ UNCHANGED <<reordPipe, next>>
  /\ UNCHANGED <<main, start, closed, bufferVars, uiPipe, drawn>>

(* Writing to reordfd[0], the read end, fails with EBADF and is ignored.    *)
WriteToReadEnd == reordPipe
(* One input closed: the loop ends, MESSAGE_END is sent, main joins.        *)
InputClosed ==
  /\ Up /\ main = "run" /\ closed # {}
  /\ main' = "join"
  /\ reordPipe' = WriteToReadEnd
  /\ UNCHANGED <<proc, inputVars, bufferVars, uiPipe, drawn>>

-----------------------------------------------------------------------------
(* The reorderer.                                                          *)

Forgotten(c) ==
  IF Cardinality(held[c]) = Cap THEN {<<c, Buffering!Oldest(held[c])>>} ELSE {}

(* A full channel whose oldest sample completes a set: see PopStaysInside.  *)
Overruns(c, n) ==
  LET h == Buffering!Received(c, n)
  IN  /\ \A d \in Channels : n \in h[d]
      /\ \E d \in Channels : Cardinality(h[d]) = Cap /\ n = Buffering!Oldest(h[d])

Buferize_NoWrite(c, n) ==                                (* mutant of Buferize *)
  /\ Buffering!Receive(c, n)
  /\ evicted' = evicted \cup Forgotten(c)
  /\ UNCHANGED <<proc, uiPipe>>
Buferize_Newest(c, n) ==                                 (* mutant of Buferize *)
  /\ Buffering!Receive(c, n)
  /\ evicted' = evicted \cup Forgotten(c)
  /\ uiPipe' = IF left' # left THEN <<n>> \o uiPipe ELSE uiPipe
  /\ UNCHANGED proc
Buferize_Drops(c, n) ==                                  (* mutant of Buferize *)
  /\ Buffering!Receive(c, n)
  /\ evicted' = evicted \cup Forgotten(c)
  /\ uiPipe' = IF left' # left /\ Fits(uiPipe) THEN Append(uiPipe, n) ELSE uiPipe
  /\ UNCHANGED proc
Buferize(c, n) ==
  IF Overruns(c, n)
  THEN proc' = "undefined" /\ UNCHANGED <<bufferVars, uiPipe>>
  ELSE /\ Buffering!Receive(c, n)
       /\ evicted' = evicted \cup Forgotten(c)
       /\ IF left' = left THEN UNCHANGED <<proc, uiPipe>>
          ELSE IF Fits(uiPipe) THEN uiPipe' = Append(uiPipe, n) /\ UNCHANGED proc
          ELSE proc' = "died" /\ UNCHANGED uiPipe

(* One pointer a pass.  MESSAGE_END would end the thread, main's join and   *)
(* with it the program.                                                    *)
Reorder ==
  /\ Up /\ reordPipe # <<>>
  /\ reordPipe' = Tail(reordPipe)
  /\ LET x == Head(reordPipe)
     IN  IF x = MessageEnd
         THEN proc' = "exit" /\ UNCHANGED <<bufferVars, uiPipe>>
         ELSE Buferize(x[1], x[2])
  /\ UNCHANGED <<main, inputVars, drawn>>

-----------------------------------------------------------------------------
(* The updater: the set is copied to the graphs (Window) and freed.         *)

Update ==
  /\ Up /\ uiPipe # <<>>
  /\ drawn' = Append(drawn, Head(uiPipe))
  /\ uiPipe' = Tail(uiPipe)
  /\ UNCHANGED <<main, proc, inputVars, reordPipe, bufferVars>>

-----------------------------------------------------------------------------

Receiver == InputClosed \/ \E c \in Channels : Receive(c)
Senders == \E c \in Channels : SenderCloses(c)
Next == Receiver \/ Reorder \/ Update \/ Senders

(* Three threads, each scheduled; none of the inputs need bring anything.   *)
Spec ==
  /\ Init /\ [][Next]_vars
  /\ WF_vars(InputClosed) /\ WF_vars(Reorder) /\ WF_vars(Update)

-----------------------------------------------------------------------------

(* What is drawn, followed by what waits in the pipe, are exactly the sets   *)
(* the buffer has completed, in the order of their numbers, each received   *)
(* on every channel; a set is lost only with the process.                  *)
DrawnIsCompleted ==
  LET out == drawn \o uiPipe
  IN  /\ \A i \in 2..Len(out) : out[i - 1] < out[i]
      /\ ToSet(out) \subseteq left
      /\ Up => left = ToSet(out)
      /\ \A n \in left, c \in Channels : start[c] <= n /\ n < next[c]

(* What waits for the reorderer is what was received and not yet buffered,   *)
(* none missing, and each channel's samples in the order they came: between *)
(* pin_read_sample and buferize_sample nothing is lost, and the buffer never *)
(* has to take an older sample than its last.                              *)
PipeContinuesBuffer ==
  proc # "undefined" =>
    \A c \in Channels :
      /\ \A n \in Numbers :
           <<c, n>> \in ToSet(reordPipe) <=> last[c] < n /\ n < next[c]
      /\ \A m, n \in Numbers, i, j \in DOMAIN reordPipe :
           reordPipe[i] = <<c, m>> /\ reordPipe[j] = <<c, n>> /\ i < j => m < n

(* A number buffered on every channel and forgotten on none has been handed *)
(* to the updater: no set waits in the buffer for a sample that will not    *)
(* come.                                                                   *)
CompleteIsHandedOn ==
  Up => \A n \in Numbers :
          (\A c \in Channels : start[c] <= n /\ n <= last[c]) =>
            \/ n \in ToSet(drawn \o uiPipe)
            \/ \E c \in Channels : <<c, n>> \in evicted

(* A number received on every channel is drawn, even when an input closes   *)
(* in the meantime, unless a full channel forgets it or the process ends.   *)
ReceivedOn(c, n) == start[c] <= n /\ n < next[c]
CompleteIsDrawn ==
  \A n \in Numbers :
    (\A c \in Channels : ReceivedOn(c, n)) ~>
      (n \in ToSet(drawn) \/ ~Up \/ \E c \in Channels : <<c, n>> \in evicted)

(* display.c, "one of inputs closed. exit.": the program ends.              *)
ClosedInputEnds == closed # {} ~> ~Up
=============================================================================
