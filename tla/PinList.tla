------------------------------- MODULE PinList -------------------------------
(***************************************************************************)
(* The pin list of shared/pin.c: the single-threaded event loop that       *)
(* source, split, fft and display share.  A "pin" is a file descriptor     *)
(* registered with epoll.  This module holds the output side (the accepted *)
(* clients, their queues of reference-counted buffers, the epoll interest  *)
(* of each, the read and write event lists) and one operator per operation *)
(* of the list.  A program's main loop composes them; Stage.tla is that of *)
(* split and fft.                                                          *)
(*                                                                         *)
(* A sample is SampleUnits units long; a unit stands for a run of bytes,   *)
(* so that send() can accept part of a sample.  A connection is made once, *)
(* and the pin that accept() allocates for it carries its name.            *)
(***************************************************************************)
EXTENDS Integers, Sequences, FiniteSets

CONSTANTS
  Conns,        (* the client connections that may ever be made             *)
  Input,        (* the pin the samples come from (input_pin)                *)
  Ports,        (* user_flags of the listeners: {1, 2} in split, {0} in fft *)
  EventsCount,  (* pin_list_create(events_count): room in each event list   *)
  SampleUnits,  (* units of a sample                                        *)
  SockCap,      (* units the send buffer of a socket holds                  *)
  MaxSamples,   (* bound: samples that reach the program                    *)
  RefMod        (* 2^8: the reference count of a buffer is one byte         *)

(* split calls pin_list_write_sample once per port with a non-zero          *)
(* restrict_pin, fft and source once with 0.                               *)
ASSUME PinListAssumption ==
  /\ Input \notin Conns
  /\ IsFiniteSet(Conns)
  /\ IsFiniteSet(Ports) /\ Ports \subseteq Nat
  /\ Ports = {0} \/ 0 \notin Ports
  /\ EventsCount \in Nat \ {0}
  /\ SampleUnits \in Nat \ {0}
  /\ SockCap \in Nat \ {0}
  /\ MaxSamples \in Nat
  /\ RefMod \in Nat \ {0}

VARIABLES
  pins,       (* the output pins in the list                                *)
  flags,      (* pin->user_flags                                            *)
  queue,      (* pin->buf_list_head ...: the entries still to be sent       *)
  refs,       (* buffer[0]: the reference count in front of the payload     *)
  live,       (* the buffers malloc'ed and not yet freed                    *)
  mode,       (* epoll interest: "in" (level), "inET", "inoutET" (edge)     *)
  readList,   (* pin_list->read_list, as the set of its members             *)
  writeList,  (* pin_list->write_list, as the set of its members            *)
  cur         (* pin_list_deliver: the pin being served, Input for none     *)

VARIABLES     (* the kernel and the clients: outside src/                   *)
  peer,       (* the client's end: "idle", "open" or "closed"               *)
  port,       (* the listener it connects to                                *)
  backlog,    (* the connections that wait for accept()                     *)
  edge,       (* an event of the connection is on epoll's ready list        *)
  wire,       (* every unit send() has accepted for the connection          *)
  drained     (* how many of them the client has taken                      *)

VARIABLE
  first       (* history: the number of the first sample after the accept   *)

listVars == <<pins, flags, queue, refs, live, mode, readList, writeList, cur>>
kernelVars == <<peer, port, backlog, edge, wire, drained>>
pinVars == <<listVars, kernelVars, first>>

Numbers == 0..(MaxSamples - 1)
Offsets == 0..(SampleUnits - 1)
Buffers == Numbers \X Ports
Entries == [num : Numbers, ch : Ports, written : Offsets]
Units == [num : Numbers, ch : Ports, off : Offsets]

PinTypeOK ==
  /\ pins \subseteq Conns
  /\ flags \in [Conns -> Ports \cup {0}]
  /\ queue \in [Conns -> Seq(Entries)]
  /\ refs \in [Buffers -> 0..(RefMod - 1)]
  /\ live \subseteq Buffers
  /\ mode \in [Conns -> {"in", "inET", "inoutET"}]
  /\ readList \subseteq Conns \cup {Input}
  /\ writeList \subseteq Conns
  /\ cur \in Conns \cup {Input}
  /\ peer \in [Conns -> {"idle", "open", "closed"}]
  /\ port \in [Conns -> Ports]
  /\ backlog \subseteq Conns
  /\ edge \in [Conns -> BOOLEAN]
  /\ wire \in [Conns -> Seq(Units)]
  /\ drained \in [Conns -> Nat]
  /\ first \in [Conns -> 0..MaxSamples]

PinInit ==
  /\ pins = {} /\ backlog = {} /\ live = {}
  /\ readList = {} /\ writeList = {} /\ cur = Input
  /\ flags = [c \in Conns |-> 0]
  /\ queue = [c \in Conns |-> <<>>]
  /\ refs = [b \in Buffers |-> 0]
  /\ mode = [c \in Conns |-> "in"]
  /\ peer = [c \in Conns |-> "idle"]
  /\ port \in [Conns -> Ports]
  /\ edge = [c \in Conns |-> FALSE]
  /\ wire = [c \in Conns |-> <<>>]
  /\ drained = [c \in Conns |-> 0]
  /\ first = [c \in Conns |-> 0]

-----------------------------------------------------------------------------
(* The kernel: sockets and epoll, as src/ uses them.                       *)

Free(c) == SockCap - (Len(wire[c]) - drained[c])
Closed(c) == peer[c] = "closed"
Writable(c) == Free(c) > 0 \/ Closed(c)

(* Clients send nothing: a client's pin is readable at end of file only.   *)
InReady(c) == Closed(c)
OutReady(c) == mode[c] = "inoutET" /\ Writable(c)

(* Level-triggered while the pin is as accepted, edge-triggered afterwards. *)
ConnReady(c) ==
  /\ c \in pins
  /\ mode[c] = "in" \/ edge[c]
  /\ InReady(c) \/ OutReady(c)

(* EPOLL_CTL_MOD of the pins in P to m: epoll polls each one anew and puts  *)
(* it on the ready list when an event it now asks for is there.            *)
EpollMod(P, m) ==
  /\ mode' = [c \in Conns |-> IF c \in P THEN m ELSE mode[c]]
  /\ edge' = [c \in Conns |->
                edge[c] \/ (c \in P /\ (InReady(c) \/ (m = "inoutET" /\ Writable(c))))]

-----------------------------------------------------------------------------
(* The clients.                                                            *)

Connect(c) ==
  /\ peer[c] = "idle"
  /\ peer' = [peer EXCEPT ![c] = "open"]
  /\ backlog' = backlog \cup {c}
  /\ UNCHANGED <<listVars, port, edge, wire, drained, first>>

(* The client takes one unit; room in a full send buffer is an edge.       *)
Drain(c) ==
  /\ peer[c] = "open"
  /\ drained[c] < Len(wire[c])
  /\ drained' = [drained EXCEPT ![c] = @ + 1]
  /\ edge' = [edge EXCEPT ![c] = @ \/ Free(c) = 0]
  /\ UNCHANGED <<listVars, peer, port, backlog, wire, first>>

Close(c) ==
  /\ peer[c] = "open"
  /\ peer' = [peer EXCEPT ![c] = "closed"]
  /\ edge' = [edge EXCEPT ![c] = TRUE]
  /\ UNCHANGED <<listVars, port, backlog, wire, drained, first>>

-----------------------------------------------------------------------------
(* pin_list_wait and pin_list_get_next_event.                              *)

(* epoll_wait is told the size of the events array.                        *)
Returned_Unbounded(total) == total                       (* mutant of Returned *)
Returned(total) == IF total <= EventsCount THEN total ELSE EventsCount

(* What epoll_wait can return: client pins S, one waiting connection of     *)
(* each listener that is reported (A), and the input pin (in).  No more     *)
(* than EventsCount, and all that are ready when there is room.            *)
Waiting == {p \in Ports : \E c \in backlog : port[c] = p}
Reported(S, A, in, inputReady) ==
  LET ready == {c \in pins : ConnReady(c)}
      total == Cardinality(ready) + Cardinality(Waiting) + (IF inputReady THEN 1 ELSE 0)
      taken == Cardinality(S) + Cardinality(A) + (IF in THEN 1 ELSE 0)
  IN  /\ S \subseteq ready
      /\ A \subseteq backlog
      /\ \A c, d \in A : port[c] = port[d] => c = d
      /\ in => inputReady
      /\ taken > 0
      /\ taken = Returned(total)

(* An event may be both EPOLLIN and EPOLLOUT.                              *)
ForRead_ElseIf(S) == {c \in S : InReady(c) /\ ~OutReady(c)}   (* of ForRead *)
ForRead(S) == {c \in S : InReady(c)}

(* Each reported listener accepts a connection; split's callback hands the *)
(* listener's user_flags down.  n is the number of the next sample.  Each   *)
(* reported pin is put once on the lists its events ask for.                *)
WaitStep(S, A, in, n) ==
  /\ backlog' = backlog \ A
  /\ pins' = pins \cup A
  /\ flags' = [c \in Conns |-> IF c \in A THEN port[c] ELSE flags[c]]
  /\ mode' = [c \in Conns |-> IF c \in A THEN "in" ELSE mode[c]]
  /\ first' = [c \in Conns |-> IF c \in A THEN n ELSE first[c]]
  /\ readList' = readList \cup ForRead(S) \cup (IF in THEN {Input} ELSE {})
  /\ writeList' = writeList \cup {c \in S : OutReady(c)}
  /\ edge' = [c \in Conns |-> edge[c] /\ c \notin S]
  /\ UNCHANGED <<queue, refs, live, cur, peer, port, wire, drained>>

(* The lists have room for EventsCount pins, which nothing checks.          *)
ListsFit == Cardinality(readList) <= EventsCount /\ Cardinality(writeList) <= EventsCount

TakeRead(p) == readList' = readList \ {p}

-----------------------------------------------------------------------------
(* pin_list_write_sample, pin_disconnect and pin_list_destroy.             *)

(* restrict_pin = 0 reaches every output pin, another value the pins whose *)
(* user_flags equal it.                                                    *)
Matches(c, r) == r = 0 \/ flags[c] = r
Targets(r) == {c \in pins : Matches(c, r)}

(* *buf_list_tail is where the new entry goes.                             *)
Enqueue_AtHead(c, e) == <<e>>                            (* mutant of Enqueue *)
Enqueue(c, e) == Append(queue[c], e)

(* Sample n is written once for each restrict_pin in Ports.  All targets    *)
(* share one copy, counted in its first byte, and epoll is asked for       *)
(* EPOLLOUT on each.                                                       *)
WriteSamples(n) ==
  LET reached == UNION {Targets(r) : r \in Ports}
      Entry(r) == [num |-> n, ch |-> r, written |-> 0]
  IN  /\ queue' = [c \in Conns |->
                     IF c \in reached
                     THEN Enqueue(c, Entry(CHOOSE r \in Ports : Matches(c, r)))
                     ELSE queue[c]]
      /\ refs' = [b \in Buffers |->
                    IF b[1] = n THEN Cardinality(Targets(b[2])) % RefMod ELSE refs[b]]
      /\ live' = live \cup {b \in Buffers : b[1] = n /\ Targets(b[2]) # {}}
      /\ EpollMod(reached, "inoutET")

BufferOf(e) == <<e.num, e.ch>>
Queued(c) == {BufferOf(queue[c][i]) : i \in DOMAIN queue[c]}

(* The pins in P leave the list, are closed, and drop a reference for each *)
(* entry; the count frees the buffer whenever it passes 0.                 *)
Drops_None(b, P) == 0                                      (* mutant of Drops *)
Drops(b, P) == Cardinality({c \in P : b \in Queued(c)})
DestroyPins(P) ==
  /\ pins' = pins \ P
  /\ queue' = [c \in Conns |-> IF c \in P THEN <<>> ELSE queue[c]]
  /\ refs' = [b \in Buffers |-> (refs[b] - Drops(b, P)) % RefMod]
  /\ live' = {b \in live : \A k \in 1..Drops(b, P) : (refs[b] - k) % RefMod # 0}

(* pin_disconnect: the event lists keep whatever they hold.                *)
Disconnect(c) == DestroyPins({c})

-----------------------------------------------------------------------------
(* pin_list_deliver, one send() a step.                                    *)

DeliverPop(c) ==
  /\ cur = Input
  /\ c \in writeList \cap pins
  /\ writeList' = writeList \ {c}
  /\ cur' = c
  /\ UNCHANGED <<pins, flags, queue, refs, live, mode, readList, kernelVars, first>>

(* The head entry is sent: its buffer is released, the next one is tried.  *)
SendWhole(c) ==
  LET b == BufferOf(Head(queue[c]))
  IN  /\ queue' = [queue EXCEPT ![c] = Tail(@)]
      /\ refs' = [refs EXCEPT ![b] = (@ - 1) % RefMod]
      /\ live' = IF refs'[b] = 0 THEN live \ {b} ELSE live
      /\ UNCHANGED cur

(* A short write: the pin waits for the next EPOLLOUT.                      *)
SendPart_Restarts(c, n) ==                              (* mutant of SendPart *)
  /\ cur' = Input
  /\ UNCHANGED <<queue, refs, live>>
SendPart(c, n) ==
  /\ queue' = [queue EXCEPT ![c][1].written = @ + n]
  /\ cur' = Input
  /\ UNCHANGED <<refs, live>>

(* send() takes what fits of the head entry.                               *)
DeliverSend(c) ==
  LET head == Head(queue[c])
      rest == SampleUnits - head.written
      n == IF rest <= Free(c) THEN rest ELSE Free(c)
      sent == [j \in 1..n |-> [num |-> head.num, ch |-> head.ch,
                               off |-> head.written + j - 1]]
  IN  /\ cur = c
      /\ queue[c] # <<>>
      /\ Free(c) > 0
      /\ wire' = [wire EXCEPT ![c] = @ \o sent]
      /\ IF n = rest THEN SendWhole(c) ELSE SendPart(c, n)
      /\ UNCHANGED <<pins, flags, mode, readList, writeList, peer, port, backlog,
                     edge, drained, first>>

(* EAGAIN: the send buffer is full.                                        *)
DeliverAgain_Disarms(c) ==                          (* mutant of DeliverAgain *)
  /\ cur = c
  /\ queue[c] # <<>>
  /\ Free(c) = 0
  /\ EpollMod({c}, "inET")
  /\ cur' = Input
  /\ UNCHANGED <<pins, flags, queue, refs, live, readList, writeList, peer, port,
                 backlog, wire, drained, first>>
DeliverAgain(c) ==
  /\ cur = c
  /\ queue[c] # <<>>
  /\ Free(c) = 0
  /\ cur' = Input
  /\ UNCHANGED <<pins, flags, queue, refs, live, mode, readList, writeList,
                 kernelVars, first>>

(* The queue is empty: stop asking for EPOLLOUT.                           *)
DeliverDone(c) ==
  /\ cur = c
  /\ queue[c] = <<>>
  /\ EpollMod({c}, "inET")
  /\ cur' = Input
  /\ UNCHANGED <<pins, flags, queue, refs, live, readList, writeList, peer, port,
                 backlog, wire, drained, first>>

(* send() fails (ECONNRESET): the pin is destroyed and pin_list_deliver     *)
(* returns at once, with the rest of the write list unserved.              *)
DeliverFail_GoesOn(c) ==                             (* mutant of DeliverFail *)
  /\ cur = c
  /\ queue[c] # <<>>
  /\ Closed(c)
  /\ Disconnect(c)
  /\ UNCHANGED <<flags, mode, readList, writeList, cur, kernelVars, first>>
DeliverFail(c) ==
  /\ cur = c
  /\ queue[c] # <<>>
  /\ Closed(c)
  /\ Disconnect(c)
  /\ cur' = Input
  /\ UNCHANGED <<flags, mode, readList, writeList, kernelVars, first>>

-----------------------------------------------------------------------------
(* What every main loop over the list keeps.                               *)

(* What a client has been sent is the stream of its own port's samples,     *)
(* unit after unit, from the first sample completed after its accept():    *)
(* partial sends, EAGAIN and other clients' failures lose, repeat and      *)
(* interleave nothing (pin_list_write_sample, pin_list_deliver).            *)
WireIsStream ==
  \A c \in Conns : \A i \in DOMAIN wire[c] :
    LET u == wire[c][i]
    IN  /\ u.ch = port[c]
        /\ u.num * SampleUnits + u.off = first[c] * SampleUnits + i - 1

(* The queue of a connected pin goes on where the wire stops, and ends with *)
(* the newest of the n samples written so far: the entries are consecutive, *)
(* only the head is partly written, and its "written" is what the wire has  *)
(* of it (pin_list_write_sample, pin_list_deliver).                        *)
HeadWritten(c) == IF queue[c] = <<>> THEN 0 ELSE queue[c][1].written
QueueContinues(n) ==
  \A c \in pins :
    /\ (n - Len(queue[c])) * SampleUnits + HeadWritten(c)
         = first[c] * SampleUnits + Len(wire[c])
    /\ \A i \in DOMAIN queue[c] :
         /\ queue[c][i].num = n - Len(queue[c]) + i - 1
         /\ queue[c][i].ch = port[c]
         /\ i > 1 => queue[c][i].written = 0

(* The byte in front of a shared buffer counts the pins that still queue    *)
(* it, and a buffer is allocated exactly as long as one does: no delivery, *)
(* disconnect or failed send leaks a buffer or frees one in use.           *)
Holders(b) == {c \in pins : b \in Queued(c)}
RefExact ==
  \A b \in Buffers :
    /\ refs[b] = Cardinality(Holders(b)) % RefMod
    /\ b \in live <=> Holders(b) # {}

(* With edge-triggered epoll an event is reported once.  As long as a pin   *)
(* has data queued, epoll is asked for EPOLLOUT and either the pin is on    *)
(* the write list or being served, or an event of it is pending, or its    *)
(* send buffer is full, so that the client's next read makes one.          *)
PendingDataWakes ==
  \A c \in pins :
    queue[c] # <<>> =>
      /\ mode[c] = "inoutET"
      /\ c \in writeList \/ cur = c \/ edge[c] \/ ~Writable(c)

(* The end of file of a connected client is never forgotten: the pin is on  *)
(* the read list, or epoll_wait will report it.                            *)
ClosedClientWakes ==
  \A c \in pins : Closed(c) => c \in readList \/ ConnReady(c)
=============================================================================
