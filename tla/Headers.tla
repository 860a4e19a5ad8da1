------------------------------- MODULE Headers -------------------------------
(***************************************************************************)
(* The header in front of every sample (SSAMPLEHEADER) and what the         *)
(* programs make of it: source writes one, split and fft derive theirs     *)
(* from the one they received, and the receiver of a sample takes its size *)
(* from it.  Sizes are in bytes.  The numbers a sample carries play no part. *)
(***************************************************************************)
EXTENDS Integers

CONSTANTS
  HeaderSize,   (* HEADER_SIZE                                             *)
  FloatSize,    (* pa_sample_size of PA_SAMPLE_FLOAT32LE                   *)
  ComplexSize   (* sizeof(fftwf_complex): two floats                       *)

ASSUME HeadersAssumption ==
  /\ HeaderSize \in Nat \ {0}
  /\ FloatSize \in Nat \ {0}
  /\ ComplexSize = 2 * FloatSize

(* BUF_SIZE, and sample_size_callback with BUFFER_SIZE_TYPE_MESSAGE.        *)
BufSize(h) == h.channels * h.sample_size * h.samples
MessageSize(h) == HeaderSize + BufSize(h)

(* source.c: stereo floats, n of each channel.                             *)
SourceHeader(n) ==
  [channels |-> 2, sample_size |-> FloatSize, buf_type |-> "interleaved",
   channel_no |-> 0, samples |-> n]
SourceSize(n) == HeaderSize + 2 * n * FloatSize

(* split/process_data.c, for channel ch counted from 0.                    *)
SplitHeader_AllChannels(h, ch) ==                     (* mutant of SplitHeader *)
  [h EXCEPT !.buf_type = "sequential",
            !.channel_no = 1 + (IF ch >= h.channels THEN h.channels - 1 ELSE ch)]
SplitHeader(h, ch) ==
  [h EXCEPT !.buf_type = "sequential", !.channels = 1,
            !.channel_no = 1 + (IF ch >= h.channels THEN h.channels - 1 ELSE ch)]
SplitSize(h) == HeaderSize + h.sample_size * h.samples

(* Where it stops writing: a sample that is already sequential is copied    *)
(* with in_sample->size, header included, behind the new header.           *)
SplitEnd(h) ==
  IF h.buf_type = "sequential" \/ h.channels = 1
  THEN HeaderSize + MessageSize(h)
  ELSE HeaderSize + h.sample_size * h.samples

(* fft/process_data.c: the real transform of each channel.                 *)
FftHeader_KeepsCount(h) ==                              (* mutant of FftHeader *)
  [h EXCEPT !.buf_type = "ffted", !.sample_size = ComplexSize]
FftHeader(h) ==
  [h EXCEPT !.buf_type = "ffted", !.sample_size = ComplexSize,
            !.samples = h.samples \div 2 + 1]
PlaneSize(h) == ComplexSize * (h.samples \div 2 + 1)
FftSize(h) == HeaderSize + h.channels * PlaneSize(h)
=============================================================================
