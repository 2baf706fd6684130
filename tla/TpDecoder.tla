------------------------------ MODULE TpDecoder ------------------------------
(***************************************************************************)
(* QuicCryptoTlsDecodeTransportParameters (src/unnamed/part_001, lines     *)
(* 1004-1328), one loop iteration per step.                                *)
(*                                                                         *)
(* The input TPBuf is an untrusted byte sequence chosen from Inputs.  The  *)
(* variables are the function's locals (Offset, ParamsPresent), the        *)
(* record it fills (TransportParams), and where it is: "start" before the  *)
(* preparation, "loop" inside the while loop, "accepted" or "rejected"     *)
(* once it has returned TRUE or FALSE.  The ghost variable consumed        *)
(* records the byte span of every parameter the loop has stepped over.     *)
(***************************************************************************)
EXTENDS QuicTransportParams, FiniteSets

CONSTANT Inputs        \* the byte sequences the peer may send

ASSUME Inputs \subseteq Seq(Byte)

VARIABLES
  TPBuf,               \* the extension payload being decoded
  IsServerTP,          \* whether the peer that sent it is the server
  Offset,              \* uint16_t Offset
  ParamsPresent,       \* uint64_t ParamsPresent, as the set of its set bits
  TransportParams,     \* the record being filled
  status,              \* "start", "loop", "accepted" or "rejected"
  consumed             \* ghost: spans <<from, to>> of the parameters read

vars == <<TPBuf, IsServerTP, Offset, ParamsPresent, TransportParams, status, consumed>>

TPLen == Len(TPBuf)

-----------------------------------------------------------------------------
(* The parameter header at Offset (lines 1034-1055).                       *)

IdRead == QuicVarIntDecode(TPLen, TPBuf, Offset)

Id == IdRead.value

\* Fault variant of Tracked: 'Id <= 64', a shift by 64.
TrackedLe == ULe(Id, N(64))

\* 'Id < 8 * sizeof(uint64_t)': only these ids are duplicate-checked.
Tracked == ULt(Id, N(64))

\* Fault variant of IsDuplicate: no duplicate detection.
IsDuplicateNever == FALSE

IsDuplicate == Tracked /\ Id[2] \in ParamsPresent

LengthRead == QuicVarIntDecode(TPLen, TPBuf, IdRead.next)

\* The Offset after the length varint, where the payload starts.
PayloadStart == LengthRead.next

\* Fault variant of Overruns: 'ParamLength + Offset > TPLen + 1'.
OverrunsByTwo == ULt(N(TPLen - PayloadStart + 1), LengthRead.value)

\* 'ParamLength + Offset > TPLen', in 64-bit arithmetic.
Overruns == ULt(N(TPLen - PayloadStart), LengthRead.value)

\* 'uint16_t Length = (uint16_t)ParamLength'.
Length == LengthRead.value[2] % 2^16

\* The Length bytes at TPBuf + Offset.  Past the end of the buffer the code
\* would read whatever memory follows it; the model reads zero bytes there.
Payload ==
  SubSeq(TPBuf \o [k \in 1 .. Length |-> 0], PayloadStart + 1, PayloadStart + Length)

\* TRY_READ_VAR_INT: a varint read from the payload, bounded by Length.
TryReadVarInt(off) == QuicVarIntDecode(Length, Payload, off)

-----------------------------------------------------------------------------
(* The switch arms' tables.                                                *)

\* Integer-valued parameters: their field, flag and accepted range
\* (the checks after each TRY_READ_VAR_INT).
VarIntParam ==
  LET P(f, g, lo, hi) == [field |-> f, flag |-> g, min |-> lo, max |-> hi]
  IN  [ id \in { TpId.IDLE_TIMEOUT, TpId.MAX_UDP_PAYLOAD_SIZE,
                 TpId.INITIAL_MAX_DATA, TpId.INITIAL_MAX_STREAM_DATA_BIDI_LOCAL,
                 TpId.INITIAL_MAX_STREAM_DATA_BIDI_REMOTE,
                 TpId.INITIAL_MAX_STREAM_DATA_UNI, TpId.INITIAL_MAX_STREAMS_BIDI,
                 TpId.INITIAL_MAX_STREAMS_UNI, TpId.ACK_DELAY_EXPONENT,
                 TpId.MAX_ACK_DELAY, TpId.ACTIVE_CONNECTION_ID_LIMIT,
                 TpId.MAX_DATAGRAM_FRAME_SIZE, TpId.MIN_ACK_DELAY } |->
        CASE id = TpId.IDLE_TIMEOUT -> P("IdleTimeout", "IDLE_TIMEOUT", N(0), VarIntMax)
          [] id = TpId.MAX_UDP_PAYLOAD_SIZE ->
               P("MaxUdpPayloadSize", "MAX_UDP_PAYLOAD_SIZE",
                 QUIC_TP_MAX_UDP_PAYLOAD_SIZE_MIN, QUIC_TP_MAX_UDP_PAYLOAD_SIZE_MAX)
          [] id = TpId.INITIAL_MAX_DATA ->
               P("InitialMaxData", "INITIAL_MAX_DATA", N(0), VarIntMax)
          [] id = TpId.INITIAL_MAX_STREAM_DATA_BIDI_LOCAL ->
               P("InitialMaxStreamDataBidiLocal", "INITIAL_MAX_STRM_DATA_BIDI_LOCAL", N(0), VarIntMax)
          [] id = TpId.INITIAL_MAX_STREAM_DATA_BIDI_REMOTE ->
               P("InitialMaxStreamDataBidiRemote", "INITIAL_MAX_STRM_DATA_BIDI_REMOTE", N(0), VarIntMax)
          [] id = TpId.INITIAL_MAX_STREAM_DATA_UNI ->
               P("InitialMaxStreamDataUni", "INITIAL_MAX_STRM_DATA_UNI", N(0), VarIntMax)
          [] id = TpId.INITIAL_MAX_STREAMS_BIDI ->
               P("InitialMaxBidiStreams", "INITIAL_MAX_STRMS_BIDI", N(0), QUIC_TP_MAX_STREAMS_MAX)
          [] id = TpId.INITIAL_MAX_STREAMS_UNI ->
               P("InitialMaxUniStreams", "INITIAL_MAX_STRMS_UNI", N(0), QUIC_TP_MAX_STREAMS_MAX)
          [] id = TpId.ACK_DELAY_EXPONENT ->
               P("AckDelayExponent", "ACK_DELAY_EXPONENT", N(0), QUIC_TP_ACK_DELAY_EXPONENT_MAX)
          [] id = TpId.MAX_ACK_DELAY ->
               P("MaxAckDelay", "MAX_ACK_DELAY", N(0), QUIC_TP_MAX_ACK_DELAY_MAX)
          [] id = TpId.ACTIVE_CONNECTION_ID_LIMIT ->
               P("ActiveConnectionIdLimit", "ACTIVE_CONNECTION_ID_LIMIT",
                 QUIC_TP_ACTIVE_CONNECTION_ID_LIMIT_MIN, VarIntMax)
          [] id = TpId.MAX_DATAGRAM_FRAME_SIZE ->
               P("MaxDatagramFrameSize", "MAX_DATAGRAM_FRAME_SIZE", N(0), VarIntMax)
          [] id = TpId.MIN_ACK_DELAY ->
               P("MinAckDelay", "MIN_ACK_DELAY", N(0), QUIC_TP_MIN_ACK_DELAY_MAX) ]

\* Connection-id parameters: field, flag, and whether only a server may send it.
ConnectionIdParam ==
  [ id \in { TpId.ORIGINAL_DESTINATION_CONNECTION_ID,
             TpId.INITIAL_SOURCE_CONNECTION_ID, TpId.RETRY_SOURCE_CONNECTION_ID } |->
      CASE id = TpId.ORIGINAL_DESTINATION_CONNECTION_ID ->
             [field |-> "OriginalDestinationConnectionID",
              flag |-> "ORIGINAL_DESTINATION_CONNECTION_ID", serverOnly |-> TRUE]
        [] id = TpId.INITIAL_SOURCE_CONNECTION_ID ->
             [field |-> "InitialSourceConnectionID",
              flag |-> "INITIAL_SOURCE_CONNECTION_ID", serverOnly |-> FALSE]
        [] id = TpId.RETRY_SOURCE_CONNECTION_ID ->
             [field |-> "RetrySourceConnectionID",
              flag |-> "RETRY_SOURCE_CONNECTION_ID", serverOnly |-> TRUE] ]

\* Zero-length flag parameters and their flags.
EmptyParam ==
  [ id \in { TpId.DISABLE_ACTIVE_MIGRATION, TpId.DISABLE_1RTT_ENCRYPTION,
             TpId.GREASE_QUIC_BIT, TpId.RELIABLE_RESET_ENABLED } |->
      CASE id = TpId.DISABLE_ACTIVE_MIGRATION -> "DISABLE_ACTIVE_MIGRATION"
        [] id = TpId.DISABLE_1RTT_ENCRYPTION  -> "DISABLE_1RTT_ENCRYPTION"
        [] id = TpId.GREASE_QUIC_BIT          -> "GREASE_QUIC_BIT"
        [] id = TpId.RELIABLE_RESET_ENABLED   -> "RELIABLE_RESET_ENABLED" ]

-----------------------------------------------------------------------------
(* How one loop iteration ends: 'break' then 'Offset += Length', or        *)
(* 'goto Exit' with Result still FALSE.                                    *)

\* Fault variant of Continue: Offset advanced by Length from the id, not
\* from the payload.
ContinueFromId(tp) ==
  /\ TransportParams' = tp
  /\ ParamsPresent' = IF Tracked THEN ParamsPresent \cup {Id[2]} ELSE ParamsPresent
  /\ Offset' = (Offset + Length) % 2^16
  /\ consumed' = Append(consumed, <<Offset, Offset + Length>>)
  /\ UNCHANGED <<TPBuf, IsServerTP, status>>

Continue(tp) ==
  /\ TransportParams' = tp
  /\ ParamsPresent' = IF Tracked THEN ParamsPresent \cup {Id[2]} ELSE ParamsPresent
  /\ Offset' = (PayloadStart + Length) % 2^16
  /\ consumed' = Append(consumed, <<Offset, PayloadStart + Length>>)
  /\ UNCHANGED <<TPBuf, IsServerTP, status>>

Exit(tp) ==
  /\ TransportParams' = tp
  /\ status' = "rejected"
  /\ UNCHANGED <<TPBuf, IsServerTP, Offset, ParamsPresent, consumed>>

SetFlag(tp, flag) == [tp EXCEPT !.flags = @ \cup {flag}]

-----------------------------------------------------------------------------
Init ==
  /\ TPBuf \in Inputs
  /\ IsServerTP \in BOOLEAN
  /\ Offset = 0
  /\ ParamsPresent = {}
  /\ TransportParams = TpZero
  /\ status = "start"
  /\ consumed = <<>>

(* Release VersionInfo, zero the record and install the defaults.          *)
Prepare ==
  /\ status = "start"
  /\ TransportParams' = TpDefaults
  /\ status' = "loop"
  /\ UNCHANGED <<TPBuf, IsServerTP, Offset, ParamsPresent, consumed>>

\* A loop iteration is under way: 'while (Offset < TPLen)'.
InLoop == status = "loop" /\ Offset < TPLen

\* The header was read and passed its checks; the switch runs.
InSwitch ==
  /\ InLoop
  /\ IdRead.ok /\ ~IsDuplicate /\ LengthRead.ok /\ ~Overruns

(* The id varint is truncated.                                             *)
IdTruncated ==
  /\ InLoop
  /\ ~IdRead.ok
  /\ Exit(TransportParams)

(* An id below 64 seen before.                                             *)
DuplicateId ==
  /\ InLoop
  /\ IdRead.ok /\ IsDuplicate
  /\ Exit(TransportParams)

(* The length varint is truncated or the payload runs past TPLen.          *)
BadLength ==
  /\ InLoop
  /\ IdRead.ok /\ ~IsDuplicate
  /\ ~LengthRead.ok \/ Overruns
  /\ Exit(TransportParams)

(* Original destination, initial source and retry source connection ids.  *)
ConnectionId ==
  /\ InSwitch
  /\ Id \in DOMAIN ConnectionIdParam
  /\ LET p == ConnectionIdParam[Id]
     IN  IF Length > QUIC_MAX_CONNECTION_ID_LENGTH_V1 \/ (p.serverOnly /\ ~IsServerTP)
         THEN Exit(TransportParams)
         ELSE Continue([SetFlag(TransportParams, p.flag) EXCEPT !.bytes[p.field] = Payload])

(* The stateless reset token: exactly 16 bytes, from a server only.        *)
StatelessResetToken ==
  /\ InSwitch
  /\ Id = TpId.STATELESS_RESET_TOKEN
  /\ IF Length /= QUIC_STATELESS_RESET_TOKEN_LENGTH \/ ~IsServerTP
     THEN Exit(TransportParams)
     ELSE Continue([SetFlag(TransportParams, "STATELESS_RESET_TOKEN")
                      EXCEPT !.bytes.StatelessResetToken = Payload])

(* An integer parameter: TRY_READ_VAR_INT into the field, then its range   *)
(* check.  The field is written before the range check.                    *)
IntegerParam ==
  /\ InSwitch
  /\ Id \in DOMAIN VarIntParam
  /\ LET p  == VarIntParam[Id]
         r  == TryReadVarInt(0)
         tp == [TransportParams EXCEPT !.val[p.field] = r.value]
     IN  CASE ~r.ok -> Exit(TransportParams)
           [] ULt(r.value, p.min) \/ ULt(p.max, r.value) -> Exit(tp)
           [] OTHER -> Continue(SetFlag(tp, p.flag))

(* A zero-length flag parameter.                                           *)
FlagParam ==
  /\ InSwitch
  /\ Id \in DOMAIN EmptyParam
  /\ IF Length /= 0
     THEN Exit(TransportParams)
     ELSE Continue(SetFlag(TransportParams, EmptyParam[Id]))

(* The preferred address: refused from a client, otherwise skipped.       *)
PreferredAddress ==
  /\ InSwitch
  /\ Id = TpId.PREFERRED_ADDRESS
  /\ IF ~IsServerTP THEN Exit(TransportParams) ELSE Continue(TransportParams)

(* CIBIR encoding: two varints read one after the other from the payload,  *)
(* each checked as soon as it is read.                                     *)
CibirEncoding ==
  /\ InSwitch
  /\ Id = TpId.CIBIR_ENCODING
  /\ LET r1  == TryReadVarInt(0)
         r2  == TryReadVarInt(r1.next)
         tp1 == [TransportParams EXCEPT !.val.CibirLength = r1.value]
         tp2 == [tp1 EXCEPT !.val.CibirOffset = r2.value]
         max == N(QUIC_MAX_CONNECTION_ID_LENGTH_INVARIANT)
     IN  CASE ~r1.ok -> Exit(TransportParams)
           [] ULt(r1.value, N(1)) \/ ULt(max, r1.value) -> Exit(tp1)
           [] ~r2.ok -> Exit(tp1)
           [] ULt(max, r2.value) \/ r1.value[2] + r2.value[2] > max[2] -> Exit(tp2)
           [] OTHER -> Continue(SetFlag(tp2, "CIBIR_ENCODING"))

(* The version information blob, copied into a new allocation.  When the   *)
(* allocation fails the arm breaks out without setting the flag.           *)
VersionNegotiation ==
  /\ InSwitch
  /\ Id = TpId.VERSION_NEGOTIATION_EXT
  /\ \/ /\ Length > 0
        /\ Continue(TransportParams)                     \* allocation failed
     \/ Continue([SetFlag(TransportParams, "VERSION_NEGOTIATION")
                    EXCEPT !.bytes.VersionInfo = Payload])

(* Enable timestamp: a value 0..3 ORed into the flags.                     *)
EnableTimestamp ==
  /\ InSwitch
  /\ Id = TpId.ENABLE_TIMESTAMP
  /\ LET r == TryReadVarInt(0)
     IN  IF ~r.ok \/ ULt(N(3), r.value)
         THEN Exit(TransportParams)
         ELSE Continue([TransportParams EXCEPT !.flags = @ \cup TimestampFlags(r.value[2])])

(* Any other id, reserved or not, is skipped.                              *)
UnknownParam ==
  /\ InSwitch
  /\ Id \notin KnownIds
  /\ Continue(TransportParams)

(* After the loop: min_ack_delay (us) may not exceed max_ack_delay (ms).   *)
Finish ==
  /\ status = "loop"
  /\ Offset >= TPLen
  /\ status' =
       IF /\ "MIN_ACK_DELAY" \in TransportParams.flags
          /\ ULt(N(TransportParams.val.MaxAckDelay[2] * 1000), TransportParams.val.MinAckDelay)
       THEN "rejected" ELSE "accepted"
  /\ UNCHANGED <<TPBuf, IsServerTP, Offset, ParamsPresent, TransportParams, consumed>>

Done == status \in {"accepted", "rejected"}

\* The call has returned; nothing more happens.
Returned == Done /\ UNCHANGED vars

Next ==
  \/ Prepare
  \/ IdTruncated \/ DuplicateId \/ BadLength
  \/ ConnectionId \/ StatelessResetToken \/ IntegerParam \/ FlagParam
  \/ PreferredAddress \/ CibirEncoding \/ VersionNegotiation
  \/ EnableTimestamp \/ UnknownParam
  \/ Finish
  \/ Returned

\* The call runs to completion: nothing else runs on its thread meanwhile.
Spec == Init /\ [][Next]_vars

-----------------------------------------------------------------------------
(* Every call returns.  Each iteration of the 'while (Offset < TPLen)'     *)
(* loop that does not leave it moves Offset strictly forward, even on ids, *)
(* lengths and payload sizes the code does not expect; with Offset bounded *)
(* by TPLen and a step always possible (deadlock is checked), the loop     *)
(* ends.                                                                   *)
LoopMakesProgress ==
  [][status = "loop" /\ status' = "loop" => Offset < Offset' /\ Offset' <= TPLen]_vars

TypeOK ==
  /\ TPBuf \in Seq(Byte)
  /\ IsServerTP \in BOOLEAN
  /\ Offset \in 0 .. 2^16 - 1
  /\ ParamsPresent \subseteq 0 .. 63
  /\ TransportParams \in TpRecord
  /\ status \in {"start", "loop", "accepted", "rejected"}
  /\ consumed \in Seq((0 .. 2^16 - 1) \X (0 .. 2^16 - 1))

(* The cursor discipline of the ingest path (spec 4.2): the parameters the *)
(* loop has stepped over tile the buffer from its start, without gap or    *)
(* overlap, up to Offset, and never past TPLen; so every byte copied out   *)
(* of a payload was inside the buffer.                                     *)
CursorWithinBuffer ==
  /\ Offset <= TPLen
  /\ \A i \in 1 .. Len(consumed) :
        /\ consumed[i][1] = (IF i = 1 THEN 0 ELSE consumed[i - 1][2])
        /\ consumed[i][1] < consumed[i][2]
  /\ Offset = (IF consumed = <<>> THEN 0 ELSE consumed[Len(consumed)][2])

(* Spec 7: the codec "never partially mutates caller state: on decode     *)
(* failure the TransportParams record is left in a valid (possibly         *)
(* default-populated) state".  An integer field and the CIBIR pair are     *)
(* written before their range checks; in a valid record every field whose *)
(* flag is set holds a value inside its parameter's range.                 *)
FlaggedValuesInRange ==
  /\ \A id \in DOMAIN VarIntParam :
       LET p == VarIntParam[id]
       IN  p.flag \in TransportParams.flags =>
             ULe(p.min, TransportParams.val[p.field]) /\ ULe(TransportParams.val[p.field], p.max)
  /\ "CIBIR_ENCODING" \in TransportParams.flags =>
       LET l == TransportParams.val.CibirLength
           o == TransportParams.val.CibirOffset
       IN  /\ ULe(N(1), l)
           /\ l[2] + o[2] <= QUIC_MAX_CONNECTION_ID_LENGTH_INVARIANT /\ l[1] = 0 /\ o[1] = 0
=============================================================================
