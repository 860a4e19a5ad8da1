----------------------------- MODULE SampleRead -----------------------------
(***************************************************************************)
(* How a program cuts the byte stream of an input into samples:             *)
(* pin_read_sample (shared/pin.c) over a buffer of shared/buffer.c, with    *)
(* sample_size_callback (shared/audio_sample.c).  The buffer first has room *)
(* for a header; the header read, it grows to the whole sample.  split and *)
(* fft then use it again with size = 0; display hands it to a thread and   *)
(* takes a new one.                                                        *)
(*                                                                         *)
(* One recv() is one step: bytes may arrive between two of a call.  A byte *)
(* is its position in the stream.                                          *)
(***************************************************************************)
EXTENDS Headers, Sequences

CONSTANTS
  SampleCounts,   (* the buffer_length a source may have been built with   *)
  MaxMessages     (* bound: samples that arrive                            *)

ASSUME SampleReadAssumption ==
  /\ SampleCounts \subseteq Nat \ {0}
  /\ MaxMessages \in Nat

(* Who reads what: source feeds split, and may feed fft; split feeds fft    *)
(* and display; fft feeds display.                                         *)
Hops ==
  [kind : {"interleaved", "sequential"}, mode : {"reuse"}, samples : SampleCounts]
    \cup [kind : {"sequential", "ffted"}, mode : {"fresh"}, samples : SampleCounts]

(* The header a stream carries, and the bytes its sender sends for each.    *)
StreamHeader(hop) ==
  LET s == SourceHeader(hop.samples)
  IN  CASE hop.kind = "interleaved" -> s
        [] hop.kind = "sequential" -> SplitHeader(s, 1)
        [] hop.kind = "ffted" -> FftHeader(SplitHeader(s, 1))
StreamSize(hop) ==
  LET s == SourceHeader(hop.samples)
  IN  CASE hop.kind = "interleaved" -> SourceSize(hop.samples)
        [] hop.kind = "sequential" -> SplitSize(s)
        [] hop.kind = "ffted" -> FftSize(SplitHeader(s, 1))

VARIABLES
  hop,        (* the connection looked at                                  *)
  sent,       (* bytes the peer has sent                                   *)
  taken,      (* bytes recv() has returned                                 *)
  peer,       (* "open", "closed", or "reset": recv() fails                *)
  pc,         (* "wait", "loop" (in pin_read_sample), "back" (its caller); *)
              (* "ended" once the stream is known to be closed             *)
  data,       (* buf->buf                                                  *)
  size,       (* buf->size                                                 *)
  fullSize,   (* buf->full_size                                            *)
  alloced,    (* buf->alloced_size                                         *)
  headerRead, (* BUFFER_FLAG_HEADER_READED                                 *)
  readLen,    (* read_len                                                  *)
  delivered   (* the buffers returned as PIN_STATUS_READY                  *)

buf == <<data, size, fullSize, alloced, headerRead>>
vars == <<hop, sent, taken, peer, pc, buf, readLen, delivered>>

Sent == MaxMessages * StreamSize(hop)

TypeOK ==
  /\ hop \in Hops
  /\ sent \in 0..Sent /\ taken \in 0..sent
  /\ peer \in {"open", "closed", "reset"}
  /\ pc \in {"wait", "loop", "back", "ended"}
  /\ data \in Seq(0..(Sent - 1))
  /\ size \in Nat /\ fullSize \in Nat /\ alloced \in Nat /\ readLen \in Nat
  /\ headerRead \in BOOLEAN
  /\ delivered \in Seq(Seq(0..(Sent - 1)))

(* buf_alloc(sample_size_callback).                                        *)
Alloc ==
  /\ data' = <<>> /\ size' = 0
  /\ fullSize' = HeaderSize /\ alloced' = HeaderSize
  /\ headerRead' = FALSE

Init ==
  /\ hop \in Hops
  /\ sent = 0 /\ taken = 0 /\ peer = "open"
  /\ pc = "wait"
  /\ data = <<>> /\ size = 0 /\ headerRead = FALSE
  /\ fullSize = HeaderSize /\ alloced = HeaderSize
  /\ readLen = 0
  /\ delivered = <<>>

-----------------------------------------------------------------------------
(* The peer.                                                               *)

Arrive ==
  /\ peer = "open" /\ sent < Sent
  /\ sent' = sent + 1
  /\ UNCHANGED <<hop, taken, peer, pc, buf, readLen, delivered>>

PeerLeaves ==
  /\ peer = "open"
  /\ peer' \in {"closed", "reset"}
  /\ UNCHANGED <<hop, sent, taken, pc, buf, readLen, delivered>>

-----------------------------------------------------------------------------
(* pin_read_sample.                                                        *)

(* epoll reports an input pin as long as there is something to read.        *)
Readable == sent > taken \/ peer # "open"

Room == IF alloced > fullSize THEN fullSize - size ELSE alloced - size

Call ==
  /\ pc = "wait" /\ Readable
  /\ readLen' = Room
  /\ pc' = "loop"
  /\ UNCHANGED <<hop, sent, taken, peer, buf, delivered>>

(* What sample_size_callback finds in the buffer: a header when its bytes   *)
(* are those of one; it must not be anything else (see Framed).            *)
HeaderInBuffer(d) ==
  \E k \in 0..(MaxMessages - 1) :
    \A i \in 1..HeaderSize : d[i] = k * StreamSize(hop) + i - 1
SizeCallback_DataOnly(d) ==                          (* mutant of SizeCallback *)
  IF HeaderInBuffer(d) THEN BufSize(StreamHeader(hop)) ELSE HeaderSize
SizeCallback(d) == IF HeaderInBuffer(d) THEN MessageSize(StreamHeader(hop)) ELSE HeaderSize

(* buf_resize to n.                                                        *)
Resize_Never(n, s) == size' = s /\ UNCHANGED alloced         (* mutant of Resize *)
Resize(n, s) ==
  /\ size' = IF alloced # n /\ s > n THEN n ELSE s
  /\ alloced' = n

(* The buffer is full for the first time: this was the header.             *)
HeaderComplete(d, s) ==
  LET full == SizeCallback(d)
  IN  /\ s = fullSize /\ ~headerRead
      /\ Resize(full, s)
      /\ fullSize' = full
      /\ readLen' = full - size'
      /\ headerRead' = TRUE
      /\ UNCHANGED pc

SampleComplete(s, left) ==
  /\ s = fullSize /\ headerRead
  /\ size' = s /\ readLen' = left
  /\ pc' = "back"
  /\ UNCHANGED <<fullSize, alloced, headerRead>>

Incomplete(s, left) ==
  /\ s # fullSize
  /\ size' = s /\ readLen' = left
  /\ UNCHANGED <<pc, fullSize, alloced, headerRead>>

(* recv() returns what there is, up to what was asked for.                  *)
RecvCount_All == readLen                                (* mutant of RecvCount *)
RecvCount == IF readLen <= sent - taken THEN readLen ELSE sent - taken

Recv ==
  LET n == RecvCount
      d == SubSeq(data, 1, size) \o [i \in 1..n |-> taken + i - 1]
  IN  /\ pc = "loop" /\ n > 0 /\ peer # "reset"
      /\ taken' = taken + n
      /\ data' = d
      /\ \/ HeaderComplete(d, size + n)
         \/ SampleComplete(size + n, readLen - n)
         \/ Incomplete(size + n, readLen - n)
      /\ UNCHANGED <<hop, sent, peer, delivered>>

(* EAGAIN, or nothing left to ask for.                                     *)
NoMore ==
  /\ pc = "loop"
  /\ readLen = 0 \/ (sent = taken /\ peer = "open")
  /\ pc' = "back"
  /\ UNCHANGED <<hop, sent, taken, peer, buf, readLen, delivered>>

(* PIN_STATUS_CLOSED: recv() returns 0, or fails.                           *)
EndOfStream_OnHangup ==                               (* mutant of EndOfStream *)
  /\ pc = "loop" /\ readLen > 0
  /\ peer # "open"
  /\ pc' = "ended"
  /\ UNCHANGED <<hop, sent, taken, peer, buf, readLen, delivered>>
EndOfStream ==
  /\ pc = "loop" /\ readLen > 0
  /\ peer = "reset" \/ (peer = "closed" /\ sent = taken)
  /\ pc' = "ended"
  /\ UNCHANGED <<hop, sent, taken, peer, buf, readLen, delivered>>

-----------------------------------------------------------------------------
(* The caller.                                                             *)

(* split and fft: sample->size = 0 keeps full_size and the flag.            *)
Reuse == size' = 0 /\ UNCHANGED <<data, fullSize, alloced, headerRead>>

Ready_Keeps ==                                              (* mutant of Ready *)
  /\ pc = "back" /\ size = fullSize /\ headerRead
  /\ delivered' = Append(delivered, data)
  /\ pc' = "wait"
  /\ UNCHANGED <<hop, sent, taken, peer, buf, readLen>>
Ready ==      (* PIN_STATUS_READY *)
  /\ pc = "back" /\ size = fullSize /\ headerRead
  /\ delivered' = Append(delivered, data)
  /\ IF hop.mode = "reuse" THEN Reuse ELSE Alloc
  /\ pc' = "wait"
  /\ UNCHANGED <<hop, sent, taken, peer, readLen>>

NotReady ==   (* PIN_STATUS_NO_DATA *)
  /\ pc = "back" /\ ~(size = fullSize /\ headerRead)
  /\ pc' = "wait"
  /\ UNCHANGED <<hop, sent, taken, peer, buf, readLen, delivered>>

Read == Call \/ Recv \/ NoMore \/ EndOfStream \/ Ready \/ NotReady
Next == Read \/ Arrive \/ PeerLeaves

Spec == Init /\ [][Next]_vars /\ WF_vars(Read)

-----------------------------------------------------------------------------

Message(k) == [i \in 1..StreamSize(hop) |-> k * StreamSize(hop) + i - 1]

(* recv() is never given room the buffer does not have, whether the buffer  *)
(* still holds a header or is used again for its next sample.              *)
StaysInside == pc = "loop" => size + readLen <= alloced

(* The k-th buffer that leaves is the k-th sample, from its header to its   *)
(* last byte, whatever runs the bytes came in: reusing a buffer with its    *)
(* old full_size, and a fresh one for each sample, find the same boundaries. *)
Framed == \A k \in DOMAIN delivered : delivered[k] = Message(k - 1)

(* The sender's own arithmetic (source's buffer_size, split's data_size,    *)
(* fft's plane_size times channels) agrees with BUF_SIZE of the header it   *)
(* sends; and split's copy ends inside its output for every stream of this  *)
(* chain that is not already sequential.                                   *)
HeaderTellsSize ==
  LET h == StreamHeader(hop)
  IN  /\ StreamSize(hop) = MessageSize(h)
      /\ h.channels > 1 => SplitEnd(h) <= SplitSize(h)

(* The buffer implements Framing: a call of any number of recv()s is a      *)
(* sequence of runs.                                                       *)
Complete == headerRead /\ size = fullSize
Abstract == INSTANCE Framing
  WITH bytes <- StreamSize(hop),
       avail <- sent - taken,
       part <- IF Complete THEN 0 ELSE size,
       produced <- Len(delivered) + (IF Complete THEN 1 ELSE 0)
Implements == Abstract!Spec

(* A sample that has arrived completely is delivered, also when the sender  *)
(* closes right after it or in the middle of the next; unless it resets.    *)
ArrivedIsDelivered ==
  \A k \in 1..MaxMessages :
    sent >= k * StreamSize(hop) ~> (Len(delivered) >= k \/ peer = "reset")
=============================================================================
