----------------------------- MODULE MCTpEncoder -----------------------------
(***************************************************************************)
(* Model-checks TpEncoder on the records a decode accepts, and composes it *)
(* with the decoder: the record is encoded and the bytes are decoded       *)
(* again.  The decoder is the reference SpecDecode of TpDecodeSpec, which  *)
(* the code's decoder is shown to implement by the run of MCTpDecoder.     *)
(***************************************************************************)
EXTENDS TpEncoder, TpTokens

CONSTANT MaxParams

Dec == INSTANCE TpDecodeSpec
         WITH TPBuf <- <<>>, IsServerTP <- FALSE, result <- "none",
              StrictVarIntLength <- FALSE

\* Every record a decode of a token buffer accepts, with the role of the
\* peer that sent it.  Each buffer is decoded once; the record without
\* VersionInfo that a failed copy leaves is among them from other buffers.
DecodedRecords ==
  { [tp |-> d.r.tp, server |-> d.s] :
      d \in { e \in { [r |-> Dec!SpecDecode(b, s), s |-> s] :
                        b \in TokenBuffers(MaxParams), s \in BOOLEAN } :
              e.r.ok } }

\* Records built locally for the own transport parameters, restricted to
\* those meeting the encoder's min_ack_delay assertion.
LocalRecords ==
  { [tp |-> [TpDefaults EXCEPT !.flags = {"MIN_ACK_DELAY", "MAX_ACK_DELAY"},
                               !.val.MinAckDelay = N(min),
                               !.val.MaxAckDelay = N(max)],
     server |-> s] :
      min \in {1000, 1500, 25999}, max \in {1, 25}, s \in BOOLEAN }

MCLocalRecords == { r \in LocalRecords : MinAckDelayAsserted(r.tp) }

MCTestParams == { NoTestParam, [Type |-> N(27), Buffer |-> <<7, 7>>] }

(* Every record the decoder accepts, once encoded and decoded again by the *)
(* same role, comes back unchanged: pass 2's byte layout of each parameter *)
(* (varint sizes, the CIBIR pair, the timestamp bits, the uint16 length    *)
(* casts) is what the decoder's switch arms read.                          *)
EncodeRoundTrip ==
  status = "returned" =>
    Dec!SpecDecode(TPBuf, IsServerTP) = [ok |-> TRUE, tp |-> TransportParams]

(* Pass 2 writes "without checking any more lengths": at no point has it   *)
(* written more bytes than pass 1 sized the allocation for.                *)
WritesWithinAllocation ==
  status \in {"write", "returned", "mismatch"} => Len(TPBuf) <= RequiredTPLen

(* A record the decoder accepted is always encodable: no FRE_ASSERT stops  *)
(* the process and the passes agree, so the call returns the buffer or    *)
(* NULL (a failed allocation; the UINT16_MAX limit needs larger records).  *)
DecodedRecordsEncode ==
  Done => status \in {"returned", "null"}
=============================================================================
