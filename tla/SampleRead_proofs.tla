-------------------------- MODULE SampleRead_proofs --------------------------
(* Theorems about reading samples, for headers and samples of every size,   *)
(* any number of them, and any way the bytes arrive.                       *)
EXTENDS SampleRead, TLAPS, SequenceTheorems

-----------------------------------------------------------------------------
(* Sizes.                                                                  *)

LEMMA ProductPositive ==
  ASSUME NEW a \in Nat \ {0}, NEW b \in Nat \ {0}
  PROVE  a * b \in Nat \ {0}
  OBVIOUS

(* A sample is longer than its header.                                     *)
LEMMA SizeBound ==
  ASSUME NEW h \in Hops
  PROVE  StreamSize(h) \in Nat /\ StreamSize(h) > HeaderSize
  <1> USE HeadersAssumption, SampleReadAssumption
  <1>1. h.samples \in Nat \ {0} /\ h.kind \in {"interleaved", "sequential", "ffted"}
    BY DEF Hops
  <1> DEFINE s == h.samples
  <1>2. s * FloatSize \in Nat \ {0} /\ FloatSize * s \in Nat \ {0}
    BY <1>1, ProductPositive
  <1>3. CASE h.kind = "interleaved"
    <2>1. StreamSize(h) = HeaderSize + 2 * s * FloatSize
      BY <1>3 DEF StreamSize, SourceSize
    <2>2. 2 * s * FloatSize \in Nat \ {0}
      BY <1>1, ProductPositive
    <2> QED BY <2>1, <2>2
  <1>4. CASE h.kind = "sequential"
    <2>1. StreamSize(h) = HeaderSize + FloatSize * s
      BY <1>4 DEF StreamSize, SplitSize, SourceHeader
    <2> QED BY <1>2, <2>1
  <1>5. CASE h.kind = "ffted"
    <2> DEFINE p == ComplexSize * (s \div 2 + 1)
    <2>1. StreamSize(h) = HeaderSize + 1 * p
      BY <1>5 DEF StreamSize, FftSize, PlaneSize, SplitHeader, SourceHeader
    <2>2. s \div 2 + 1 \in Nat \ {0} /\ ComplexSize \in Nat \ {0}
      BY <1>1
    <2>3. p \in Nat \ {0}
      BY <2>2, ProductPositive
    <2> QED BY <2>1, <2>3
  <1> QED BY <1>1, <1>3, <1>4, <1>5

LEMMA AgreeOnSize == ASSUME hop \in Hops PROVE HeaderTellsSize
  <1> USE HeadersAssumption, SampleReadAssumption
  <1>1. hop.samples \in Nat \ {0} /\ hop.kind \in {"interleaved", "sequential", "ffted"}
    BY DEF Hops
  <1> DEFINE s == hop.samples
  <1>2. CASE hop.kind = "interleaved"
    <2>1. StreamHeader(hop) = SourceHeader(s) /\ StreamSize(hop) = HeaderSize + 2 * s * FloatSize
      BY <1>2 DEF StreamHeader, StreamSize, SourceSize
    <2>2. MessageSize(SourceHeader(s)) = HeaderSize + 2 * FloatSize * s
      BY DEF MessageSize, BufSize, SourceHeader
    <2>3. SplitEnd(SourceHeader(s)) = SplitSize(SourceHeader(s))
      BY DEF SplitEnd, SplitSize, SourceHeader
    <2>4. SplitSize(SourceHeader(s)) = HeaderSize + FloatSize * s /\ FloatSize * s \in Int
      BY <1>1 DEF SplitSize, SourceHeader
    <2>5. 2 * s * FloatSize = 2 * FloatSize * s
      BY <1>1
    <2> QED BY <2>1, <2>2, <2>3, <2>4, <2>5 DEF HeaderTellsSize
  <1>3. CASE hop.kind = "sequential"
    <2>1. /\ StreamHeader(hop) = SplitHeader(SourceHeader(s), 1)
          /\ StreamSize(hop) = HeaderSize + FloatSize * s
      BY <1>3 DEF StreamHeader, StreamSize, SplitSize, SourceHeader
    <2>2. /\ StreamHeader(hop).channels = 1 /\ StreamHeader(hop).sample_size = FloatSize
          /\ StreamHeader(hop).samples = s
      BY <2>1 DEF SplitHeader, SourceHeader
    <2>3. MessageSize(StreamHeader(hop)) = HeaderSize + 1 * FloatSize * s
      BY <2>2 DEF MessageSize, BufSize
    <2> QED BY <1>1, <2>1, <2>2, <2>3 DEF HeaderTellsSize
  <1>4. CASE hop.kind = "ffted"
    <2> DEFINE m == s \div 2 + 1
    <2>1. /\ StreamHeader(hop) = FftHeader(SplitHeader(SourceHeader(s), 1))
          /\ StreamSize(hop) = HeaderSize + 1 * (ComplexSize * m)
      BY <1>4 DEF StreamHeader, StreamSize, FftSize, PlaneSize, SplitHeader, SourceHeader
    <2>2. /\ StreamHeader(hop).channels = 1 /\ StreamHeader(hop).sample_size = ComplexSize
          /\ StreamHeader(hop).samples = m
      BY <2>1 DEF FftHeader, SplitHeader, SourceHeader
    <2>3. MessageSize(StreamHeader(hop)) = HeaderSize + 1 * ComplexSize * m
      BY <2>2 DEF MessageSize, BufSize
    <2>4. m \in Int /\ ComplexSize \in Int
      BY <1>1
    <2> HIDE DEF m
    <2> QED BY <2>1, <2>2, <2>3, <2>4 DEF HeaderTellsSize
  <1> QED BY <1>1, <1>2, <1>3, <1>4

LEMMA TimesSucc == ASSUME NEW a \in Int, NEW s \in Int PROVE (a + 1) * s = a * s + s
  OBVIOUS

LEMMA TimesLess ==
  ASSUME NEW a \in Nat, NEW m \in Nat, NEW s \in Nat, a * s < m * s
  PROVE  a < m
  OBVIOUS

-----------------------------------------------------------------------------
(* The inductive invariant.  What recv() has returned is the samples that   *)
(* have left and, behind them, what the buffer holds; its full size is     *)
(* that of a header until the first header is complete, and afterwards      *)
(* that of the stream's samples.                                           *)

S == StreamSize(hop)
Places == 0..(Sent - 1)

Types ==
  /\ hop \in Hops
  /\ sent \in 0..Sent /\ taken \in 0..sent
  /\ peer \in {"open", "closed", "reset"}
  /\ pc \in {"wait", "loop", "back", "ended"}
  /\ data \in Seq(Places)
  /\ size \in Nat /\ readLen \in Nat
  /\ headerRead \in BOOLEAN
  /\ delivered \in Seq(Seq(Places))

Buffer ==
  /\ fullSize = IF headerRead THEN S ELSE HeaderSize
  /\ alloced = fullSize
  /\ size <= fullSize
  /\ pc = "loop" => readLen = fullSize - size

Contents ==
  /\ size <= Len(data) /\ (size > 0 => size = Len(data))
  /\ taken = Len(delivered) * S + size
  /\ \A i \in 1..size : data[i] = Len(delivered) * S + i - 1

ReadInv == Types /\ Buffer /\ Contents /\ Framed

LEMMA Sizes ==
  ASSUME Types
  PROVE  /\ S \in Nat /\ HeaderSize \in Nat \ {0} /\ S > HeaderSize
         /\ Sent \in Nat /\ Sent = MaxMessages * S /\ Len(delivered) \in Nat
         /\ Len(delivered) * S \in Nat
  <1>1. S \in Nat /\ S > HeaderSize
    BY SizeBound DEF Types, S
  <1>2. Len(delivered) \in Nat
    BY DEF Types
  <1> QED BY <1>1, <1>2, HeadersAssumption, SampleReadAssumption DEF Sent, S

LEMMA InitRead == Init => ReadInv
  <1> SUFFICES ASSUME Init PROVE ReadInv
    OBVIOUS
  <1>1. S \in Nat /\ Sent \in Nat /\ HeaderSize \in Nat
    BY SizeBound, HeadersAssumption, SampleReadAssumption DEF Init, Sent, S
  <1>2. Types
    <2>1. data \in Seq(Places) /\ delivered \in Seq(Seq(Places))
      BY DEF Init
    <2>2. headerRead \in BOOLEAN
      BY DEF Init
    <2>3. /\ hop \in Hops /\ sent \in 0..Sent /\ taken \in 0..sent
          /\ size \in Nat /\ readLen \in Nat
      BY <1>1 DEF Init
    <2>4. peer = "open" /\ pc = "wait"
      BY DEF Init
    <2> QED BY <2>1, <2>2, <2>3, <2>4 DEF Types
  <1>3. Buffer
    BY <1>1 DEF Init, Buffer
  <1>4. Contents
    BY <1>1 DEF Init, Contents
  <1>5. Framed
    BY DEF Init, Framed
  <1> QED BY <1>2, <1>3, <1>4, <1>5 DEF ReadInv

(* Message depends on the connection only.                                 *)
LEMMA SameHop ==
  ASSUME hop' = hop
  PROVE  S' = S /\ Sent' = Sent /\ Places' = Places /\ (\A k : Message(k)' = Message(k))
  BY DEF S, Sent, Places, Message

-----------------------------------------------------------------------------
(* What one recv() brings.                                                 *)

LEMMA Received ==
  ASSUME ReadInv, pc = "loop", NEW n \in Nat \ {0}, n <= readLen, n <= sent - taken,
         NEW d, d = SubSeq(data, 1, size) \o [i \in 1..n |-> taken + i - 1]
  PROVE  /\ d \in Seq(Places) /\ Len(d) = size + n
         /\ \A i \in 1..(size + n) : d[i] = Len(delivered) * S + i - 1
         /\ taken + n \in 0..sent /\ taken + n = Len(delivered) * S + (size + n)
         /\ size + n \in Nat /\ size + n <= fullSize
  <1> USE DEF ReadInv
  <1>1. /\ Len(delivered) * S \in Nat /\ Sent \in Nat /\ size \in Nat /\ taken \in Nat
        /\ sent \in Nat /\ sent <= Sent /\ taken <= sent /\ S \in Nat /\ HeaderSize \in Nat
    BY Sizes DEF Types
  <1>2. fullSize \in Nat /\ readLen = fullSize - size
    BY <1>1 DEF Buffer
  <1> DEFINE old == SubSeq(data, 1, size)
             new == [i \in 1..n |-> taken + i - 1]
  <1>3. old \in Seq(Places) /\ Len(old) = size /\ \A i \in 1..size : old[i] = data[i]
    BY <1>1 DEF Types, Contents
  <1>4. new \in Seq(Places) /\ Len(new) = n /\ \A i \in 1..n : new[i] = taken + i - 1
    <2>1. ASSUME NEW i \in 1..n PROVE taken + i - 1 \in Places
      BY <1>1 DEF Places
    <2> QED BY <2>1
  <1> HIDE DEF old, new
  <1>5. d = old \o new
    BY DEF old, new
  <1>6. d \in Seq(Places) /\ Len(d) = size + n
    BY <1>3, <1>4, <1>5, ConcatProperties
  <1>7. ASSUME NEW i \in 1..(size + n) PROVE d[i] = Len(delivered) * S + i - 1
    <2>1. CASE i <= size
      BY <1>1, <1>3, <1>4, <1>5, <2>1 DEF Contents
    <2>2. CASE i > size
      <3>1. d[i] = new[i - size] /\ i - size \in 1..n
        BY <1>1, <1>3, <1>4, <1>5, <2>2, ConcatProperties
      <3> QED BY <1>1, <1>4, <3>1 DEF Contents
    <2> QED BY <1>1, <2>1, <2>2
  <1>8. /\ taken + n \in 0..sent /\ taken + n = Len(delivered) * S + (size + n)
        /\ size + n \in Nat /\ size + n <= fullSize
    BY <1>1, <1>2 DEF Contents
  <1> QED BY <1>6, <1>7, <1>8

(* A full buffer whose header has not been read holds a header, so the      *)
(* callback returns the size of the stream's samples.                      *)
LEMMA CallbackFindsHeader ==
  ASSUME ReadInv, ~headerRead, NEW d, NEW t,
         t = Len(delivered) * S + HeaderSize, t <= sent,
         \A i \in 1..HeaderSize : d[i] = Len(delivered) * S + i - 1
  PROVE  SizeCallback(d) = S
  <1> USE DEF ReadInv
  <1>1. /\ Len(delivered) \in Nat /\ S \in Nat /\ HeaderSize \in Nat \ {0}
        /\ Sent = MaxMessages * S /\ MaxMessages \in Nat
        /\ Len(delivered) * S \in Nat /\ Sent \in Nat /\ sent \in Nat /\ sent <= Sent
    BY Sizes, SampleReadAssumption DEF Types
  <1>2. Len(delivered) * S < MaxMessages * S
    BY <1>1
  <1>3. Len(delivered) \in 0..(MaxMessages - 1)
    <2>1. Len(delivered) \in Nat /\ MaxMessages \in Nat /\ S \in Nat
      BY <1>1
    <2>2. Len(delivered) < MaxMessages
      BY ONLY <1>2, <2>1, TimesLess
    <2> QED BY <2>1, <2>2
  <1>4. HeaderInBuffer(d)
    BY <1>3 DEF HeaderInBuffer, S
  <1>5. HeaderTellsSize
    BY AgreeOnSize DEF Types
  <1> QED BY <1>4, <1>5 DEF SizeCallback, HeaderTellsSize, S

-----------------------------------------------------------------------------
(* The steps.                                                              *)

LEMMA RecvStep == ASSUME ReadInv, Recv PROVE ReadInv'
  <1> USE DEF ReadInv
  <1> DEFINE n == RecvCount
             d == SubSeq(data, 1, size) \o [i \in 1..n |-> taken + i - 1]
             z == size + n
  <1>1. /\ pc = "loop" /\ n > 0 /\ taken' = taken + n /\ data' = d
        /\ \/ HeaderComplete(d, z)
           \/ SampleComplete(z, readLen - n)
           \/ Incomplete(z, readLen - n)
        /\ UNCHANGED <<hop, sent, peer, delivered>>
    BY DEF Recv
  <1>2. /\ n \in Nat \ {0} /\ n <= readLen /\ n <= sent - taken
        /\ size \in Nat /\ readLen \in Nat /\ sent \in Nat /\ taken \in Nat
    BY <1>1, Sizes DEF RecvCount, Types
  <1> HIDE DEF n
  <1>3. /\ d \in Seq(Places) /\ Len(d) = z
        /\ \A i \in 1..z : d[i] = Len(delivered) * S + i - 1
        /\ taken + n \in 0..sent /\ taken + n = Len(delivered) * S + z
        /\ z \in Nat /\ z <= fullSize
    BY <1>1, <1>2, Received
  <1> HIDE DEF d, z
  <1>4. S' = S /\ Sent' = Sent /\ Places' = Places /\ \A k : Message(k)' = Message(k)
    BY <1>1, SameHop
  <1>5. Framed'
    BY <1>1, <1>4 DEF Framed
  <1>6. /\ S \in Nat /\ HeaderSize \in Nat \ {0} /\ S > HeaderSize
        /\ Len(delivered) * S \in Nat /\ sent <= Sent /\ Sent \in Nat
    BY Sizes DEF Types
  <1>7. ASSUME size' = z PROVE Contents'
    <2>1. /\ Len(delivered') = Len(delivered) /\ taken' = Len(delivered) * S + z
          /\ Len(data') = z
          /\ \A i \in 1..z : data'[i] = Len(delivered) * S + i - 1
      BY <1>1, <1>3
    <2> QED BY <1>3, <1>4, <1>7, <2>1 DEF Contents
  <1>8. ASSUME size' \in Nat, readLen' \in Nat, headerRead' \in BOOLEAN,
               pc' \in {"wait", "loop", "back", "ended"}
        PROVE  Types'
    <2>1. /\ hop' \in Hops /\ sent' \in 0..Sent' /\ peer' \in {"open", "closed", "reset"}
          /\ delivered' \in Seq(Seq(Places'))
      BY <1>1, <1>4 DEF Types
    <2>2. data' \in Seq(Places') /\ taken' \in 0..sent'
      BY <1>1, <1>3, <1>4
    <2> QED BY <1>8, <2>1, <2>2 DEF Types
  <1>9. headerRead \in BOOLEAN
    BY DEF Types
  <1>10. CASE HeaderComplete(d, z)
    <2>1. z = fullSize /\ ~headerRead /\ headerRead' = TRUE /\ UNCHANGED pc
      BY <1>10 DEF HeaderComplete
    <2>2. z = HeaderSize
      BY <2>1 DEF Buffer
    <2>3. SizeCallback(d) = S
      <3>1. taken + n <= sent
        BY <1>2, <1>3
      <3> QED BY <1>3, <2>1, <2>2, <3>1, CallbackFindsHeader
    <2>4. /\ size' = (IF alloced # S /\ z > S THEN S ELSE z) /\ alloced' = S
          /\ fullSize' = S /\ readLen' = S - size'
      BY <1>10, <2>3 DEF HeaderComplete, Resize
    <2>5. size' = z
      BY <1>6, <2>2, <2>4
    <2>6. Types'
      BY <1>1, <1>3, <1>6, <1>8, <2>1, <2>2, <2>4, <2>5
    <2>7. Buffer'
      BY <1>4, <1>6, <2>1, <2>2, <2>4, <2>5 DEF Buffer
    <2> QED BY <1>5, <1>7, <2>5, <2>6, <2>7
  <1>11. CASE SampleComplete(z, readLen - n)
    <2>1. size' = z /\ readLen' = readLen - n /\ pc' = "back"
          /\ UNCHANGED <<fullSize, alloced, headerRead>>
      BY <1>11 DEF SampleComplete
    <2>2. Types'
      BY <1>2, <1>3, <1>8, <1>9, <2>1
    <2>3. Buffer'
      BY <1>3, <1>4, <2>1 DEF Buffer
    <2> QED BY <1>5, <1>7, <2>1, <2>2, <2>3
  <1>12. CASE Incomplete(z, readLen - n)
    <2>1. size' = z /\ readLen' = readLen - n /\ UNCHANGED <<pc, fullSize, alloced, headerRead>>
      BY <1>12 DEF Incomplete
    <2>2. Types'
      BY <1>1, <1>2, <1>3, <1>8, <1>9, <2>1
    <2>3. readLen = fullSize - size /\ fullSize \in Nat
      BY <1>1, <1>6 DEF Buffer
    <2>4. readLen' = fullSize' - size'
      BY <1>2, <2>1, <2>3 DEF z
    <2>5. Buffer'
      BY <1>3, <1>4, <2>1, <2>4 DEF Buffer
    <2> QED BY <1>5, <1>7, <2>1, <2>2, <2>5
  <1> QED BY <1>1, <1>10, <1>11, <1>12

LEMMA ReadyStep == ASSUME ReadInv, Ready PROVE ReadInv'
  <1> USE DEF ReadInv
  <1>1. /\ pc' = "wait" /\ size = fullSize /\ headerRead
        /\ delivered' = Append(delivered, data)
        /\ UNCHANGED <<hop, sent, taken, peer, readLen>>
        /\ Reuse \/ Alloc
    BY DEF Ready
  <1>2. S' = S /\ Sent' = Sent /\ Places' = Places /\ \A k : Message(k)' = Message(k)
    BY <1>1, SameHop
  <1>3. /\ S \in Nat /\ HeaderSize \in Nat \ {0} /\ S > HeaderSize
        /\ Len(delivered) \in Nat /\ Len(delivered) * S \in Nat
    BY Sizes
  <1>4. size = S
    BY <1>1 DEF Buffer
  <1>5. /\ data \in Seq(Places) /\ Len(data) = S
        /\ \A i \in 1..S : data[i] = Len(delivered) * S + i - 1
    BY <1>3, <1>4 DEF Types, Contents
  <1>6. data = Message(Len(delivered))
    <2>1. data = [i \in 1..S |-> data[i]]
      BY <1>5
    <2> QED BY <1>5, <2>1 DEF Message, S
  <1>7. /\ delivered' \in Seq(Seq(Places)) /\ Len(delivered') = Len(delivered) + 1
        /\ DOMAIN delivered = 1..Len(delivered) /\ DOMAIN delivered' = 1..(Len(delivered) + 1)
        /\ \A i \in 1..Len(delivered) : delivered'[i] = delivered[i]
        /\ delivered'[Len(delivered) + 1] = data
    BY <1>1, <1>5 DEF Types
  <1>8. Framed'
    <2>1. ASSUME NEW k \in DOMAIN delivered' PROVE delivered'[k] = Message(k - 1)
      <3>1. CASE k \in 1..Len(delivered)
        BY <1>7, <3>1 DEF Framed
      <3>2. CASE k = Len(delivered) + 1
        BY <1>3, <1>6, <1>7, <3>2
      <3> QED BY <1>3, <1>7, <3>1, <3>2
    <2> QED BY <1>2, <2>1 DEF Framed
  <1>9. taken' = Len(delivered') * S
    BY <1>1, <1>3, <1>4, <1>7, TimesSucc DEF Contents
  <1>10. CASE Reuse
    <2>1. size' = 0 /\ UNCHANGED <<data, fullSize, alloced, headerRead>>
      BY <1>10 DEF Reuse
    <2>2. Types'
      BY <1>1, <1>2, <1>7, <2>1 DEF Types
    <2>3. Buffer'
      BY <1>1, <1>2, <1>3, <2>1 DEF Buffer
    <2>4. Contents'
      BY <1>2, <1>3, <1>5, <1>7, <1>9, <2>1 DEF Contents
    <2> QED BY <1>8, <2>2, <2>3, <2>4
  <1>11. CASE Alloc
    <2>1. /\ data' = <<>> /\ size' = 0 /\ fullSize' = HeaderSize /\ alloced' = HeaderSize
          /\ headerRead' = FALSE
      BY <1>11 DEF Alloc
    <2>2. Types'
      <3>1. headerRead' \in BOOLEAN
        BY <2>1
      <3>2. data' \in Seq(Places)
        BY <2>1
      <3> QED BY <1>1, <1>2, <1>3, <1>7, <2>1, <3>1, <3>2 DEF Types
    <2>3. Buffer'
      BY <1>1, <1>2, <1>3, <2>1 DEF Buffer
    <2>4. Contents'
      BY <1>2, <1>3, <1>7, <1>9, <2>1 DEF Contents
    <2> QED BY <1>8, <2>2, <2>3, <2>4
  <1> QED BY <1>1, <1>10, <1>11

LEMMA ReadStep == ReadInv /\ [Next]_vars => ReadInv'
  <1> SUFFICES ASSUME ReadInv, [Next]_vars PROVE ReadInv'
    OBVIOUS
  <1> USE DEF ReadInv
  <1>s. /\ S \in Nat /\ HeaderSize \in Nat \ {0} /\ S > HeaderSize
        /\ sent \in Nat /\ taken \in Nat /\ taken <= sent /\ Sent \in Nat
    BY Sizes DEF Types
  (* Steps that leave the buffer and what has been read alone.             *)
  <1>1. ASSUME UNCHANGED <<hop, taken, buf, delivered>>,
               sent' \in 0..Sent, taken <= sent',
               peer' \in {"open", "closed", "reset"},
               pc' \in {"wait", "loop", "back", "ended"}, readLen' \in Nat,
               pc' = "loop" => readLen' = fullSize - size
        PROVE  ReadInv'
    <2>1. S' = S /\ Sent' = Sent /\ Places' = Places /\ \A k : Message(k)' = Message(k)
      BY <1>1, SameHop
    <2>2. Types'
      BY <1>s, <1>1, <2>1 DEF Types, buf
    <2>3. Buffer'
      BY <1>1, <2>1 DEF Buffer, buf
    <2>4. Contents'
      BY <1>1, <2>1 DEF Contents, buf
    <2>5. Framed'
      BY <1>1, <2>1 DEF Framed
    <2> QED BY <2>2, <2>3, <2>4, <2>5
  <1>2. CASE Arrive
    BY <1>s, <1>1, <1>2 DEF Arrive, Types, Buffer
  <1>3. CASE PeerLeaves
    BY <1>s, <1>1, <1>3 DEF PeerLeaves, Types, Buffer
  <1>4. CASE Call
    <2>1. Room = fullSize - size
      BY <1>s DEF Room, Buffer
    <2>2. fullSize - size \in Nat
      BY <1>s DEF Buffer, Types
    <2> QED BY <1>s, <1>1, <1>4, <2>1, <2>2 DEF Call, Types
  <1>5. CASE NoMore \/ EndOfStream \/ NotReady
    BY <1>s, <1>1, <1>5 DEF NoMore, EndOfStream, NotReady, Types
  <1>6. CASE UNCHANGED vars
    BY <1>s, <1>1, <1>6 DEF vars, Types, Buffer
  <1> QED BY <1>2, <1>3, <1>4, <1>5, <1>6, RecvStep, ReadyStep DEF Next, Read

LEMMA ReadInvariant == Spec => []ReadInv
  BY InitRead, ReadStep, PTL DEF Spec

-----------------------------------------------------------------------------

(* Every field of the buffer keeps its type, data of a place in the stream. *)
THEOREM TypeCorrect == Spec => []TypeOK
  <1>1. ReadInv => TypeOK
    <2> SUFFICES ASSUME ReadInv PROVE TypeOK
      OBVIOUS
    <2>1. fullSize \in Nat /\ alloced \in Nat
      BY Sizes DEF ReadInv, Buffer
    <2> QED BY <2>1 DEF ReadInv, Types, Places, TypeOK
  <1> QED BY <1>1, ReadInvariant, PTL

(* recv() in pin_read_sample is never given more room than the buffer has,  *)
(* whether it still waits for a header, has just grown or is used again.   *)
THEOREM NeverOutside == Spec => []StaysInside
  <1>1. ReadInv => StaysInside
    <2> SUFFICES ASSUME ReadInv, pc = "loop" PROVE size + readLen <= alloced
      BY DEF StaysInside
    <2>1. fullSize \in Nat /\ size \in Nat
      BY Sizes DEF ReadInv, Buffer, Types
    <2> QED BY <2>1 DEF ReadInv, Buffer
  <1> QED BY <1>1, ReadInvariant, PTL

(* What pin_read_sample returns as ready are the samples as they were sent, *)
(* whole and in order, however the bytes arrive.                           *)
THEOREM BoundariesAreKept == Spec => []Framed
  BY ReadInvariant, PTL DEF ReadInv

(* The three programs' size arithmetic agrees with the header they send,    *)
(* for every number of samples and size of a float.                        *)
THEOREM SizesAgree == Spec => []HeaderTellsSize
  <1>1. ReadInv => HeaderTellsSize
    BY AgreeOnSize DEF ReadInv, Types
  <1> QED BY <1>1, ReadInvariant, PTL

-----------------------------------------------------------------------------
(* The refinement.  part and produced are Abstract's variables; a sample    *)
(* that is complete counts as produced as soon as its last byte is in.     *)

Part == IF Complete THEN 0 ELSE size
Produced == Len(delivered) + (IF Complete THEN 1 ELSE 0)

LEMMA AbstractInit == Init => Abstract!Init
  <1> SUFFICES ASSUME Init PROVE Abstract!Init
    OBVIOUS
  <1>1. S \in Nat /\ S > HeaderSize /\ HeaderSize \in Nat \ {0}
    BY SizeBound, HeadersAssumption DEF Init, S
  <1>2. ~Complete
    BY DEF Complete, Init
  <1>3. /\ StreamSize(hop) \in Nat \ {0} /\ sent - taken = 0
        /\ Len(delivered) = 0 /\ size = 0
    BY <1>1 DEF Init, S
  <1> QED BY <1>2, <1>3 DEF Abstract!Init

(* A recv() takes its bytes, and ends a sample when it takes the last.      *)
LEMMA RecvTakes ==
  ASSUME ReadInv, Recv
  PROVE  \E n \in 1..StreamSize(hop) : Abstract!Take(n)
  <1> USE DEF ReadInv
  <1> DEFINE n == RecvCount
             d == SubSeq(data, 1, size) \o [i \in 1..n |-> taken + i - 1]
  <1>1. /\ pc = "loop" /\ n > 0 /\ taken' = taken + n
        /\ \/ HeaderComplete(d, size + n)
           \/ SampleComplete(size + n, readLen - n)
           \/ Incomplete(size + n, readLen - n)
        /\ UNCHANGED <<hop, sent, delivered>>
    BY DEF Recv
  <1> HIDE DEF d
  <1>2. /\ n \in Nat \ {0} /\ n <= readLen /\ n <= sent - taken
        /\ size \in Nat /\ sent \in Nat /\ taken \in Nat
    BY <1>1, Sizes DEF RecvCount, Types
  <1> HIDE DEF n
  <1>3. /\ S \in Nat /\ HeaderSize \in Nat \ {0} /\ S > HeaderSize
        /\ fullSize = (IF headerRead THEN S ELSE HeaderSize)
        /\ readLen = fullSize - size /\ Len(delivered) \in Nat
    BY <1>1, Sizes DEF Buffer
  <1>4. n \in 1..StreamSize(hop)
    BY <1>2, <1>3 DEF S
  <1>5. ~Complete
    BY <1>2, <1>3 DEF Complete
  <1>6. n <= sent - taken /\ sent' - taken' = (sent - taken) - n /\ StreamSize(hop)' = StreamSize(hop)
    BY <1>1, <1>2
  <1>7. size + n <= S /\ (size + n = S <=> size + n = fullSize /\ headerRead)
    BY <1>2, <1>3
  <1>8. Buffer'
    BY RecvStep
  <1>9. IF size + n = S THEN Part' = 0 /\ Produced' = Len(delivered) + 1
                        ELSE Part' = size + n /\ Produced' = Len(delivered)
    <2>1. CASE HeaderComplete(d, size + n)
      <3>1. size + n = fullSize /\ ~headerRead /\ headerRead'
        BY <2>1 DEF HeaderComplete
      <3>2. size' = size + n
        <4>1. /\ size + n = HeaderSize
              /\ size' = (IF alloced # fullSize' /\ size + n > fullSize' THEN fullSize' ELSE size + n)
          BY <1>3, <2>1, <3>1 DEF HeaderComplete, Resize
        <4>2. fullSize' = S
          BY <1>1, <1>8, <3>1 DEF Buffer, S
        <4> QED BY <1>3, <4>1, <4>2
      <3>3. ~Complete' /\ size + n # S
        BY <1>1, <1>3, <1>7, <1>8, <3>1, <3>2 DEF Complete, Buffer, S
      <3> QED BY <1>1, <1>3, <3>2, <3>3 DEF Part, Produced
    <2>2. CASE SampleComplete(size + n, readLen - n)
      <3>1. Complete' /\ size + n = S
        BY <1>7, <2>2 DEF SampleComplete, Complete
      <3> QED BY <1>1, <3>1 DEF Part, Produced
    <2>3. CASE Incomplete(size + n, readLen - n)
      <3>1. ~Complete' /\ size' = size + n /\ size + n # S
        BY <1>7, <2>3 DEF Incomplete, Complete
      <3> QED BY <1>1, <1>3, <3>1 DEF Part, Produced
    <2> QED BY <1>1, <2>1, <2>2, <2>3
  <1>10. Part = size /\ Produced = Len(delivered)
    BY <1>3, <1>5 DEF Part, Produced
  <1>11. Abstract!Take(n)
    BY <1>6, <1>7, <1>9, <1>10 DEF Abstract!Take, Part, Produced, S
  <1> QED BY <1>4, <1>11

LEMMA AbstractStep ==
  ReadInv /\ [Next]_vars => [Abstract!Next]_(Abstract!vars)
  <1> SUFFICES ASSUME ReadInv, [Next]_vars
               PROVE  Abstract!Next \/ UNCHANGED (Abstract!vars)
    BY DEF Abstract!vars
  <1> USE DEF ReadInv
  <1>s. sent \in Nat /\ taken \in Nat /\ S \in Nat /\ S > HeaderSize /\ HeaderSize \in Nat \ {0}
        /\ Len(delivered) \in Nat
    BY Sizes DEF Types
  <1>1. CASE Arrive
    <2>1. /\ UNCHANGED <<hop, taken, buf, delivered>> /\ sent' = sent + 1
      BY <1>1 DEF Arrive
    <2>2. UNCHANGED <<StreamSize(hop), Part, Produced>> /\ sent' - taken' = (sent - taken) + 1
      BY <1>s, <2>1 DEF Part, Produced, Complete, buf
    <2> QED BY <2>2 DEF Abstract!Next, Abstract!Arrive, Part, Produced
  <1>2. CASE Recv
    BY <1>2, RecvTakes DEF Abstract!Next
  <1>3. CASE Ready
    <2>1. /\ UNCHANGED <<hop, sent, taken>> /\ delivered' = Append(delivered, data)
          /\ headerRead /\ size = fullSize /\ size' = 0 /\ fullSize' > 0
      <3>1. /\ UNCHANGED <<hop, sent, taken>> /\ delivered' = Append(delivered, data)
            /\ headerRead
            /\ size = fullSize
            /\ Reuse \/ Alloc
        BY <1>3 DEF Ready
      <3>2. fullSize = S
        BY <3>1 DEF Buffer
      <3>3. CASE Reuse
        BY <1>s, <3>1, <3>2, <3>3 DEF Reuse
      <3>4. CASE Alloc
        BY <1>s, <3>1, <3>4 DEF Alloc
      <3> QED BY <3>1, <3>3, <3>4
    <2>2. Part = 0 /\ Produced = Len(delivered) + 1
      BY <2>1 DEF Part, Produced, Complete
    <2>3. Part' = 0 /\ Produced' = Len(delivered')
      <3>1. ~Complete'
        BY <2>1 DEF Complete
      <3>2. Len(delivered') \in Nat
        BY ReadyStep, <1>3 DEF Types
      <3> QED BY <2>1, <3>1, <3>2 DEF Part, Produced
    <2>4. Len(delivered') = Len(delivered) + 1
      BY <2>1 DEF Types
    <2>5. UNCHANGED <<StreamSize(hop), sent - taken, Part, Produced>>
      BY <2>1, <2>2, <2>3, <2>4
    <2> QED BY <2>5 DEF Abstract!vars, Part, Produced
  <1>4. CASE PeerLeaves \/ Call \/ NoMore \/ EndOfStream \/ NotReady \/ UNCHANGED vars
    <2>1. UNCHANGED <<hop, sent, taken, buf, delivered>>
      BY <1>4 DEF PeerLeaves, Call, NoMore, EndOfStream, NotReady, vars
    <2>2. UNCHANGED <<StreamSize(hop), sent - taken, Part, Produced>>
      BY <2>1 DEF Part, Produced, Complete, buf
    <2> QED BY <2>2 DEF Abstract!vars, Part, Produced
  <1> QED BY <1>1, <1>2, <1>3, <1>4 DEF Next, Read

(* pin_read_sample over its buffer does what Framing promises: the steps of *)
(* header, resize and reuse are invisible in the samples that come out.    *)
THEOREM ReadingImplementsFraming == Spec => Implements
  <1>1. Spec => Init /\ []ReadInv /\ [][Next]_vars
    BY ReadInvariant, PTL DEF Spec
  <1> QED BY <1>1, AbstractInit, AbstractStep, PTL DEF Implements, Abstract!Spec
=============================================================================
