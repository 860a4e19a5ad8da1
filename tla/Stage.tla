-------------------------------- MODULE Stage --------------------------------
(***************************************************************************)
(* A processing stage: the main loop of split/split.c and of fft/fft.c.    *)
(* Each pass waits on the pin list, reads every pin that has input (a      *)
(* complete sample is processed and queued for the clients, a closed       *)
(* client is disconnected, a closed input ends the loop), and delivers.    *)
(* The loop is one thread; it interleaves with the sender of the input,    *)
(* the clients and the kernel.  split is Ports = {1, 2}, fft Ports = {0}.  *)
(***************************************************************************)
EXTENDS PinList

VARIABLES
  pc,         (* "wait", "read", "deliver"; terminal: "exit", "killed" by    *)
              (* SIGPIPE, "undefined" once freed memory or memory past a    *)
              (* list is used: nothing is said of the program after that    *)
  active,     (* main's flag: the input is not known to be closed           *)
  part,       (* input_sample->size: units of a sample not yet complete     *)
  produced,   (* samples read from the input and queued for the clients     *)
  avail,      (* units in the input socket                                  *)
  eof         (* the sender has closed                                      *)

inputVars == <<part, produced, avail, eof>>
vars == <<pinVars, pc, active, inputVars>>

Terminal == {"exit", "killed", "undefined"}

TypeOK ==
  /\ PinTypeOK
  /\ pc \in {"wait", "read", "deliver"} \cup Terminal
  /\ active \in BOOLEAN
  /\ part \in Offsets
  /\ produced \in 0..MaxSamples
  /\ avail \in Nat
  /\ eof \in BOOLEAN

Init ==
  /\ PinInit
  /\ pc = "wait"
  /\ active \in BOOLEAN   (* FALSE: pin_connect has failed *)
  /\ part = 0 /\ produced = 0 /\ avail = 0
  /\ eof = FALSE

-----------------------------------------------------------------------------
(* The sender of the samples: outside this program.                        *)

Arrive ==
  /\ ~eof
  /\ produced * SampleUnits + part + avail < MaxSamples * SampleUnits
  /\ avail' = avail + 1
  /\ UNCHANGED <<pinVars, pc, active, part, produced, eof>>

SenderCloses ==
  /\ ~eof
  /\ eof' = TRUE
  /\ UNCHANGED <<pinVars, pc, active, part, produced, avail>>

-----------------------------------------------------------------------------
(* The loop.                                                               *)

(* pin_list_wait: more pins than the lists have room for are written past   *)
(* their end.                                                              *)
Wait ==
  /\ pc = "wait" /\ active
  /\ \E S \in SUBSET pins, A \in SUBSET backlog, in \in BOOLEAN :
       /\ Reported(S, A, in, avail > 0 \/ eof)
       /\ WaitStep(S, A, in, produced)
  /\ pc' = IF ListsFit' THEN "read" ELSE "undefined"
  /\ UNCHANGED <<active, inputVars>>

(* pin_read_sample on the input takes what is there, to the end of the      *)
(* sample at most; main then does as its status says.                      *)
ReadSample_AsksForAll ==                              (* mutant of ReadSample *)
  /\ part + avail >= SampleUnits
  /\ avail' = avail - SampleUnits
  /\ part' = 0
  /\ produced' = produced + 1
  /\ WriteSamples(produced)
  /\ UNCHANGED <<pins, active, eof>>
ReadSample ==   (* PIN_STATUS_READY *)
  /\ part + avail >= SampleUnits
  /\ avail' = avail - (SampleUnits - part)
  /\ part' = 0
  /\ produced' = produced + 1
  /\ WriteSamples(produced)
  /\ UNCHANGED <<pins, active, eof>>

ReadPart_KeepsWaiting ==                                (* mutant of ReadPart *)
  /\ part + avail < SampleUnits
  /\ part' = part + avail
  /\ avail' = 0
  /\ active' = (active /\ ~(eof /\ part' = 0))
  /\ UNCHANGED <<pins, queue, refs, live, mode, edge, produced, eof>>
ReadPart ==     (* PIN_STATUS_NO_DATA, or PIN_STATUS_CLOSED at end of file *)
  /\ part + avail < SampleUnits
  /\ part' = part + avail
  /\ avail' = 0
  /\ active' = (active /\ ~eof)
  /\ UNCHANGED <<pins, queue, refs, live, mode, edge, produced, eof>>

ReadInput ==
  /\ pc = "read"
  /\ Input \in readList
  /\ TakeRead(Input)
  /\ ReadSample \/ ReadPart
  /\ UNCHANGED <<flags, writeList, cur, peer, port, backlog, wire, drained, first, pc>>

(* A client's pin is readable because the client closed.                   *)
ReadClient(c) ==
  /\ pc = "read"
  /\ c \in readList \cap pins
  /\ TakeRead(c)
  /\ Disconnect(c)
  /\ UNCHANGED <<flags, mode, writeList, cur, kernelVars, first, pc, active, inputVars>>

ReadDone ==
  /\ pc = "read"
  /\ readList = {}
  /\ pc' = "deliver"
  /\ UNCHANGED <<pinVars, active, inputVars>>

Serve(c) ==
  /\ pc = "deliver"
  /\ DeliverPop(c) \/ DeliverSend(c) \/ DeliverAgain(c) \/ DeliverDone(c)
  /\ UNCHANGED <<pc, active, inputVars>>

ServeFails(c) ==
  /\ pc = "deliver"
  /\ DeliverFail(c)
  /\ pc' = "wait"
  /\ UNCHANGED <<active, inputVars>>

(* send() without MSG_NOSIGNAL on a connection reset by its client.        *)
Killed(c) ==
  /\ pc = "deliver"
  /\ cur = c /\ queue[c] # <<>> /\ Closed(c)
  /\ pc' = "killed"
  /\ UNCHANGED <<pinVars, active, inputVars>>

(* The event list being emptied holds a pin that pin_disconnect has freed. *)
UseFreedPin ==
  LET list == CASE pc = "read" -> readList
                [] pc = "deliver" /\ cur = Input -> writeList
                [] OTHER -> {}
  IN  /\ ~(list \subseteq pins \cup {Input})
      /\ pc' = "undefined"
      /\ UNCHANGED <<pinVars, active, inputVars>>

Delivered ==
  /\ pc = "deliver"
  /\ cur = Input /\ writeList = {}
  /\ pc' = "wait"
  /\ UNCHANGED <<pinVars, active, inputVars>>

(* pin_list_destroy discards what is queued.                               *)
Exit ==
  /\ pc = "wait" /\ ~active
  /\ DestroyPins(pins)
  /\ pc' = "exit"
  /\ UNCHANGED <<flags, mode, readList, writeList, cur, kernelVars, first, active,
                 inputVars>>

-----------------------------------------------------------------------------

Loop == \/ Wait \/ ReadInput \/ ReadDone \/ UseFreedPin \/ Delivered \/ Exit
        \/ \E c \in Conns : ReadClient(c) \/ Serve(c) \/ ServeFails(c) \/ Killed(c)
Sender == Arrive \/ SenderCloses
Client(c) == Connect(c) \/ Drain(c) \/ Close(c)
Clients == \E c \in Conns : Client(c) /\ UNCHANGED <<pc, active, inputVars>>

Next == Loop \/ Sender \/ Clients

(* The loop is a process that the operating system keeps running.          *)
Spec == Init /\ [][Next]_vars /\ WF_vars(Loop)

(* As above, and clients that keep reading while they are connected.       *)
DrainSpec ==
  Spec /\ \A c \in Conns : WF_vars(Drain(c) /\ UNCHANGED <<pc, active, inputVars>>)

-----------------------------------------------------------------------------
(* Safety; WireIsStream, RefExact, PendingDataWakes and ClosedClientWakes   *)
(* are those of PinList.                                                   *)

(* As QueueContinues says, with the newest sample read from the input.      *)
QueueContinuesWire == QueueContinues(produced)

(* The read loop never takes a freed pin, and pin_list_deliver serves none  *)
(* it has taken while alive: in this loop's order (read, then deliver) only *)
(* the write list can go stale.                                            *)
ServedPinsLive == readList \cup {cur} \subseteq pins \cup {Input}

(* An event list is written past its end only when pin_list_deliver has     *)
(* returned early and left pins on it: within one pass epoll_wait reports   *)
(* no more pins than the lists hold, however many clients there are.        *)
OverflowsOnlyAfterFailure ==
  [][pc = "wait" /\ pc' = "undefined" => writeList # {}]_vars

-----------------------------------------------------------------------------
(* Liveness.                                                               *)

(* When the sender closes, the loop ends, whatever the clients do and       *)
(* however much is queued for them.                                        *)
ShutdownCompletes == eof ~> pc \in Terminal

(* A client that closes is disconnected and its buffers are released.       *)
ClosedClientIsDropped ==
  \A c \in Conns : (c \in pins /\ Closed(c)) ~> (c \notin pins \/ pc \in Terminal)

(* If no client leaves, what is queued for a client that keeps reading is   *)
(* sent: no wakeup is lost between short writes, EAGAIN and new samples.    *)
DeliversIfAllStay ==
  (\A c \in Conns : [](~Closed(c))) =>
    \A c \in Conns : queue[c] # <<>> ~> (queue[c] = <<>> \/ pc \in Terminal)

-----------------------------------------------------------------------------
(* What pin.h says of the program and the code does not do.                *)

(* pin.h, "array of pointers to available for write" (write_list): pins     *)
(* that exist.                                                             *)
WriteListLive == writeList \subseteq pins

(* pin.h, "write all delayed buffers" (pin_list_deliver): what is queued    *)
(* for a client that keeps reading gets written.                           *)
DeliverWritesAll ==
  \A c \in Conns : queue[c] # <<>> ~> (queue[c] = <<>> \/ pc \in Terminal)
=============================================================================
