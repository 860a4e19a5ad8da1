------------------------------- MODULE Source -------------------------------
(***************************************************************************)
(* source/source.c: a capture thread that records samples and passes       *)
(* pointers to them through a non-blocking pipe, and a main loop over the   *)
(* pin list that fans them out to the clients.  Unlike split and fft, each *)
(* pass delivers first and reads afterwards.  Input is pipe_pin.           *)
(***************************************************************************)
EXTENDS PinList, SequencesExt

CONSTANT PipeCap   (* pointers the pipe holds                              *)
ASSUME SourceAssumption == PipeCap \in Nat \ {0}

VARIABLES
  pc,         (* main: "wait", "deliver", "read", "pipe" (emptying the pipe); *)
              (* terminal: "exit" by handle_error, "killed" by SIGPIPE,      *)
              (* "undefined" once freed memory or memory past a list is used *)
  failed,     (* history: a send() has failed                              *)
  cap,        (* the capture thread: "record", "have" a sample, "stopped"  *)
  captured,   (* sample_header.number: samples recorded                    *)
  pipe,       (* the numbers of the samples whose pointers are in the pipe *)
  heap,       (* the HBUFs allocated and not freed, by number              *)
  fanned      (* samples taken from the pipe and queued for the clients    *)

captureVars == <<cap, captured, heap>>
sourceVars == <<captureVars, pipe, fanned>>
vars == <<pinVars, pc, failed, sourceVars>>

Terminal == {"exit", "killed", "undefined"}
Running == pc \notin Terminal

TypeOK ==
  /\ PinTypeOK
  /\ pc \in {"wait", "deliver", "read", "pipe"} \cup Terminal
  /\ failed \in BOOLEAN
  /\ cap \in {"record", "have", "stopped"}
  /\ captured \in 0..MaxSamples
  /\ pipe \in Seq(Numbers) /\ Len(pipe) <= PipeCap
  /\ heap \subseteq 0..MaxSamples
  /\ fanned \in 0..MaxSamples

Init ==
  /\ PinInit
  /\ pc = "wait" /\ failed = FALSE
  /\ cap = "record" /\ captured = 0 /\ heap = {}
  /\ pipe = <<>> /\ fanned = 0

-----------------------------------------------------------------------------
(* The capture thread.                                                     *)

(* pa_simple_read has filled a new buffer.  MaxSamples bounds the model.    *)
Record ==
  /\ Running /\ cap = "record"
  /\ captured < MaxSamples
  /\ heap' = heap \cup {captured}
  /\ captured' = captured + 1
  /\ cap' = "have"
  /\ UNCHANGED <<pinVars, pc, failed, pipe, fanned>>

(* It fails: the thread ends, and the main loop goes on without it.         *)
RecordFails ==
  /\ Running /\ cap = "record"
  /\ heap' = heap \cup {captured}
  /\ cap' = "stopped"
  /\ UNCHANGED <<pinVars, pc, failed, captured, pipe, fanned>>

HandOver_Frees ==                                       (* mutant of HandOver *)
  /\ Running /\ cap = "have"
  /\ Len(pipe) < PipeCap
  /\ pipe' = Append(pipe, captured - 1)
  /\ cap' = "record"
  /\ heap' = heap \ {captured - 1}
  /\ UNCHANGED <<pinVars, pc, failed, captured, fanned>>
HandOver_Unbounded ==                                   (* mutant of HandOver *)
  /\ Running /\ cap = "have"
  /\ pipe' = Append(pipe, captured - 1)
  /\ cap' = "record"
  /\ UNCHANGED <<pinVars, pc, failed, captured, heap, fanned>>
HandOver ==
  /\ Running /\ cap = "have"
  /\ Len(pipe) < PipeCap
  /\ pipe' = Append(pipe, captured - 1)
  /\ cap' = "record"
  /\ UNCHANGED <<pinVars, pc, failed, captured, heap, fanned>>

(* write() = -1: handle_error ends the process, before the branch that      *)
(* drops the sample.                                                       *)
Overrun ==
  /\ Running /\ cap = "have"
  /\ Len(pipe) = PipeCap
  /\ pc' = "exit"
  /\ UNCHANGED <<pinVars, failed, sourceVars>>

-----------------------------------------------------------------------------
(* The main loop.                                                          *)

Wait ==
  /\ pc = "wait"
  /\ \E S \in SUBSET pins, A \in SUBSET backlog, in \in BOOLEAN :
       /\ Reported(S, A, in, pipe # <<>>)
       /\ WaitStep(S, A, in, fanned)
  /\ pc' = IF ListsFit' THEN "deliver" ELSE "undefined"
  /\ UNCHANGED <<failed, sourceVars>>

Serve(c) ==
  /\ pc = "deliver"
  /\ DeliverPop(c) \/ DeliverSend(c) \/ DeliverAgain(c) \/ DeliverDone(c)
  /\ UNCHANGED <<pc, failed, sourceVars>>

(* main does not look at what pin_list_deliver returns.                    *)
ServeFails(c) ==
  /\ pc = "deliver"
  /\ DeliverFail(c)
  /\ failed' = TRUE
  /\ pc' = "read"
  /\ UNCHANGED sourceVars

Killed(c) ==   (* send() without MSG_NOSIGNAL *)
  /\ pc = "deliver"
  /\ cur = c /\ queue[c] # <<>> /\ Closed(c)
  /\ pc' = "killed"
  /\ UNCHANGED <<pinVars, failed, sourceVars>>

Delivered_One ==                                       (* mutant of Delivered *)
  /\ pc = "deliver" /\ cur = Input
  /\ pc' = "read"
  /\ UNCHANGED <<pinVars, failed, sourceVars>>
Delivered ==
  /\ pc = "deliver" /\ cur = Input
  /\ writeList = {}
  /\ pc' = "read"
  /\ UNCHANGED <<pinVars, failed, sourceVars>>

ReadPipe ==
  /\ pc = "read" /\ Input \in readList
  /\ TakeRead(Input)
  /\ pc' = "pipe"
  /\ UNCHANGED <<pins, flags, queue, refs, live, mode, writeList, cur, kernelVars,
                 first, failed, sourceVars>>

(* A pointer from the pipe: its sample is queued for every client and freed. *)
FanOut_TakesAll ==                                        (* mutant of FanOut *)
  /\ pc = "pipe" /\ pipe # <<>>
  /\ WriteSamples(Head(pipe))
  /\ pipe' = <<>>
  /\ heap' = heap \ {Head(pipe)}
  /\ fanned' = fanned + 1
  /\ UNCHANGED <<pins, flags, readList, writeList, cur, peer, port, backlog, wire,
                 drained, first, pc, failed, cap, captured>>
FanOut ==
  /\ pc = "pipe" /\ pipe # <<>>
  /\ WriteSamples(Head(pipe))
  /\ pipe' = Tail(pipe)
  /\ heap' = heap \ {Head(pipe)}
  /\ fanned' = fanned + 1
  /\ UNCHANGED <<pins, flags, readList, writeList, cur, peer, port, backlog, wire,
                 drained, first, pc, failed, cap, captured>>

PipeEmpty ==
  /\ pc = "pipe" /\ pipe = <<>>
  /\ pc' = "read"
  /\ UNCHANGED <<pinVars, failed, sourceVars>>

ReadClient(c) ==   (* readable because the client closed *)
  /\ pc = "read" /\ c \in readList \cap pins
  /\ TakeRead(c)
  /\ Disconnect(c)
  /\ UNCHANGED <<flags, mode, writeList, cur, kernelVars, first, pc, failed,
                 sourceVars>>

ReadDone ==
  /\ pc = "read" /\ readList = {}
  /\ pc' = "wait"
  /\ UNCHANGED <<pinVars, failed, sourceVars>>

(* The list being emptied names a pin that pin_disconnect has freed.        *)
UseFreedPin ==
  LET list == CASE pc = "read" -> readList
                [] pc = "deliver" /\ cur = Input -> writeList
                [] OTHER -> {}
  IN  /\ ~(list \subseteq pins \cup {Input})
      /\ pc' = "undefined"
      /\ UNCHANGED <<pinVars, failed, sourceVars>>

-----------------------------------------------------------------------------

Main == \/ Wait \/ Delivered \/ ReadPipe \/ FanOut \/ PipeEmpty \/ ReadDone \/ UseFreedPin
        \/ \E c \in Conns : Serve(c) \/ ServeFails(c) \/ Killed(c) \/ ReadClient(c)
Capture == Record \/ RecordFails \/ HandOver \/ Overrun
Client(c) == Connect(c) \/ Drain(c) \/ Close(c)
Clients == \E c \in Conns : Client(c) /\ UNCHANGED <<pc, failed, sourceVars>>

Next == Main \/ Capture \/ Clients

(* Both threads are scheduled.  What the sound server brings, and when, is  *)
(* its own business: only a sample already recorded must be handed over.    *)
Spec == Init /\ [][Next]_vars /\ WF_vars(Main) /\ WF_vars(HandOver)
DrainSpec ==
  Spec /\ \A c \in Conns : WF_vars(Drain(c) /\ UNCHANGED <<pc, failed, sourceVars>>)

-----------------------------------------------------------------------------

(* Every sample recorded has one owner: the capture thread's hand, the pipe, *)
(* or nobody once the main loop has queued copies of it and freed it.  The  *)
(* pipe's pointers are live, in order and without a gap.  The buffer of a   *)
(* failed recording (number captured) is the only one that is ever lost.    *)
OneOwner ==
  LET hand == IF cap = "have" THEN {captured - 1} ELSE {}
      lost == IF cap = "stopped" THEN {captured} ELSE {}
  IN  /\ heap = ToSet(pipe) \cup hand \cup lost
      /\ fanned + Len(pipe) + Cardinality(hand) = captured
      /\ \A i \in DOMAIN pipe : pipe[i] = fanned + i - 1

(* As QueueContinues says, with the newest sample taken from the pipe.      *)
QueueContinuesWire == QueueContinues(fanned)

(* Delivering before reading keeps both event lists free of freed pins, and *)
(* the pins they hold within their size, until the first send() fails; in   *)
(* the other order (Stage) no failure is needed for a stale write list.     *)
ListsLiveUntilFailure ==
  failed \/ (readList \cup writeList \cup {cur} \subseteq pins \cup {Input} /\ ListsFit)

(* What has been recorded reaches the clients' queues, in spite of the      *)
(* recorder's failure or the clients' departures, unless the process ends.  *)
RecordedIsFanned ==
  \A n \in Numbers : captured > n ~> (fanned > n \/ ~Running)

(* With no client leaving, everything queued is sent, though a sample is    *)
(* queued only after the pass's deliver.                                   *)
DeliversIfAllStay ==
  (\A c \in Conns : [](~Closed(c))) =>
    \A c \in Conns : queue[c] # <<>> ~> (queue[c] = <<>> \/ ~Running)
=============================================================================
