------------------------------ MODULE TpEncoder ------------------------------
(***************************************************************************)
(* QuicCryptoTlsEncodeTransportParameters (src/unnamed/part_001, lines     *)
(* 597-1002): the record is encoded in two passes over the same fixed     *)
(* parameter order.  Pass 1 sums TlsTransportParamLength of every present  *)
(* parameter into RequiredTPLen; the buffer is allocated at exactly that   *)
(* size; pass 2 writes the parameters "without checking any more lengths"; *)
(* the bytes written are compared with RequiredTPLen at the end.           *)
(*                                                                         *)
(* One step per parameter of each pass.  TPBuf holds the bytes written     *)
(* after the CxPlatTlsTPHeaderSize header, which is left out.  A failed    *)
(* CXPLAT_FRE_ASSERT stops the process (status "asserted"); the            *)
(* CXPLAT_DBG_ASSERTs are compiled out of release builds and change        *)
(* nothing here.                                                           *)
(***************************************************************************)
EXTENDS QuicTransportParams

CONSTANTS
  Records,     \* the [tp, server] pairs the encoder may be called with
  TestParams   \* the private test parameters, NoTestParam among them

CONSTANT NoTestParam

VARIABLES
  TransportParams, \* the record being encoded (read only)
  IsServerTP,
  TestParam,       \* QUIC_PRIVATE_TRANSPORT_PARAMETER [Type, Buffer] or NoTestParam
  RequiredTPLen,   \* pass 1's running total
  TPBuf,           \* the bytes pass 2 has written
  i,               \* the parameter of the current pass
  status

vars == <<TransportParams, IsServerTP, TestParam, RequiredTPLen, TPBuf, i, status>>

-----------------------------------------------------------------------------
(* The parameters in the order both passes visit them.                     *)

E(k, f, id, fld) == [kind |-> k, flag |-> f, id |-> id, field |-> fld]

EncodeOrder ==
  << E("cid", "ORIGINAL_DESTINATION_CONNECTION_ID", TpId.ORIGINAL_DESTINATION_CONNECTION_ID,
       "OriginalDestinationConnectionID"),
     E("int", "IDLE_TIMEOUT", TpId.IDLE_TIMEOUT, "IdleTimeout"),
     E("token", "STATELESS_RESET_TOKEN", TpId.STATELESS_RESET_TOKEN, "StatelessResetToken"),
     E("int", "MAX_UDP_PAYLOAD_SIZE", TpId.MAX_UDP_PAYLOAD_SIZE, "MaxUdpPayloadSize"),
     E("int", "INITIAL_MAX_DATA", TpId.INITIAL_MAX_DATA, "InitialMaxData"),
     E("int", "INITIAL_MAX_STRM_DATA_BIDI_LOCAL", TpId.INITIAL_MAX_STREAM_DATA_BIDI_LOCAL,
       "InitialMaxStreamDataBidiLocal"),
     E("int", "INITIAL_MAX_STRM_DATA_BIDI_REMOTE", TpId.INITIAL_MAX_STREAM_DATA_BIDI_REMOTE,
       "InitialMaxStreamDataBidiRemote"),
     E("int", "INITIAL_MAX_STRM_DATA_UNI", TpId.INITIAL_MAX_STREAM_DATA_UNI,
       "InitialMaxStreamDataUni"),
     E("int", "INITIAL_MAX_STRMS_BIDI", TpId.INITIAL_MAX_STREAMS_BIDI, "InitialMaxBidiStreams"),
     E("int", "INITIAL_MAX_STRMS_UNI", TpId.INITIAL_MAX_STREAMS_UNI, "InitialMaxUniStreams"),
     E("int", "ACK_DELAY_EXPONENT", TpId.ACK_DELAY_EXPONENT, "AckDelayExponent"),
     E("int", "MAX_ACK_DELAY", TpId.MAX_ACK_DELAY, "MaxAckDelay"),
     E("empty", "DISABLE_ACTIVE_MIGRATION", TpId.DISABLE_ACTIVE_MIGRATION, "none"),
     E("preferred", "PREFERRED_ADDRESS", TpId.PREFERRED_ADDRESS, "none"),
     E("int", "ACTIVE_CONNECTION_ID_LIMIT", TpId.ACTIVE_CONNECTION_ID_LIMIT,
       "ActiveConnectionIdLimit"),
     E("cid", "INITIAL_SOURCE_CONNECTION_ID", TpId.INITIAL_SOURCE_CONNECTION_ID,
       "InitialSourceConnectionID"),
     E("cid", "RETRY_SOURCE_CONNECTION_ID", TpId.RETRY_SOURCE_CONNECTION_ID,
       "RetrySourceConnectionID"),
     E("int", "MAX_DATAGRAM_FRAME_SIZE", TpId.MAX_DATAGRAM_FRAME_SIZE, "MaxDatagramFrameSize"),
     E("empty", "DISABLE_1RTT_ENCRYPTION", TpId.DISABLE_1RTT_ENCRYPTION, "none"),
     E("blob", "VERSION_NEGOTIATION", TpId.VERSION_NEGOTIATION_EXT, "VersionInfo"),
     E("int", "MIN_ACK_DELAY", TpId.MIN_ACK_DELAY, "MinAckDelay"),
     E("cibir", "CIBIR_ENCODING", TpId.CIBIR_ENCODING, "none"),
     E("empty", "GREASE_QUIC_BIT", TpId.GREASE_QUIC_BIT, "none"),
     E("empty", "RELIABLE_RESET_ENABLED", TpId.RELIABLE_RESET_ENABLED, "none"),
     E("timestamp", "TIMESTAMP_SEND_ENABLED", TpId.ENABLE_TIMESTAMP, "none") >>

\* 'Flags & QUIC_TP_FLAG_x'; the timestamp entry tests both timestamp flags.
Present(tp, e) ==
  IF e.kind = "timestamp"
  THEN tp.flags \cap {"TIMESTAMP_SEND_ENABLED", "TIMESTAMP_RECV_ENABLED"} /= {}
  ELSE e.flag \in tp.flags

\* Fault variant of TimestampValue: the two bits swapped.
TimestampValueSwapped(tp) ==
  (IF "TIMESTAMP_SEND_ENABLED" \in tp.flags THEN 2 ELSE 0)
  + (IF "TIMESTAMP_RECV_ENABLED" \in tp.flags THEN 1 ELSE 0)

\* '(Flags & (SEND | RECV)) >> QUIC_TP_FLAG_TIMESTAMP_SHIFT'.
TimestampValue(tp) ==
  (IF "TIMESTAMP_SEND_ENABLED" \in tp.flags THEN 1 ELSE 0)
  + (IF "TIMESTAMP_RECV_ENABLED" \in tp.flags THEN 2 ELSE 0)

\* Size of the CIBIR payload: its two varints.
CibirPayloadSize(tp) ==
  QuicVarIntSize(tp.val.CibirLength) + QuicVarIntSize(tp.val.CibirOffset)

\* TlsTransportParamLength(Id, Length).
TlsTransportParamLength(id, len) ==
  QuicVarIntSize(id) + QuicVarIntSize(N(len)) + len

\* Fault variant of PayloadLength: the CIBIR payload sized as one varint.
PayloadLengthOneCibirVarInt(tp, e) ==
  CASE e.kind \in {"cid", "blob"} -> Len(tp.bytes[e.field])
    [] e.kind = "token"     -> QUIC_STATELESS_RESET_TOKEN_LENGTH
    [] e.kind = "int"       -> QuicVarIntSize(tp.val[e.field])
    [] e.kind = "empty"     -> 0
    [] e.kind = "cibir"     -> QuicVarIntSize(tp.val.CibirLength)
    [] e.kind = "timestamp" -> QuicVarIntSize(N(TimestampValue(tp)))

\* The payload length pass 1 charges for a present parameter.
PayloadLength(tp, e) ==
  CASE e.kind \in {"cid", "blob"} -> Len(tp.bytes[e.field])
    [] e.kind = "token"     -> QUIC_STATELESS_RESET_TOKEN_LENGTH
    [] e.kind = "int"       -> QuicVarIntSize(tp.val[e.field])
    [] e.kind = "empty"     -> 0
    [] e.kind = "cibir"     -> CibirPayloadSize(tp)
    [] e.kind = "timestamp" -> QuicVarIntSize(N(TimestampValue(tp)))

\* Fault variant of FreAssertFails: '<' for '<=' on the id length.
FreAssertFailsAtLimit(tp, e) ==
  \/ e.kind = "cid" /\ Len(tp.bytes[e.field]) >= QUIC_MAX_CONNECTION_ID_LENGTH_V1
  \/ e.kind = "preferred"

\* The CXPLAT_FRE_ASSERTs of pass 1: a connection id longer than
\* QUIC_MAX_CONNECTION_ID_LENGTH_V1, and a preferred address (not implemented).
FreAssertFails(tp, e) ==
  \/ e.kind = "cid" /\ Len(tp.bytes[e.field]) > QUIC_MAX_CONNECTION_ID_LENGTH_V1
  \/ e.kind = "preferred"

\* TlsWriteTransportParam(Id, Length, Param): the (uint16_t) length, then
\* the bytes, copied only 'if (Param)'.
TlsWriteTransportParam(id, len, param) ==
  QuicVarIntEncode(id) \o QuicVarIntEncode(N(len % 2^16)) \o param

\* TlsWriteTransportParamVarInt(Id, Value).
TlsWriteTransportParamVarInt(id, v) ==
  QuicVarIntEncode(id) \o QuicVarIntEncode(N(QuicVarIntSize(v))) \o QuicVarIntEncode(v)

\* The bytes pass 2 writes for a present parameter.
WriteParam(tp, e) ==
  CASE e.kind \in {"cid", "blob"} ->
         TlsWriteTransportParam(e.id, Len(tp.bytes[e.field]), tp.bytes[e.field])
    [] e.kind = "token" ->
         TlsWriteTransportParam(e.id, QUIC_STATELESS_RESET_TOKEN_LENGTH, tp.bytes[e.field])
    [] e.kind = "int"   -> TlsWriteTransportParamVarInt(e.id, tp.val[e.field])
    [] e.kind = "empty" -> TlsWriteTransportParam(e.id, 0, <<>>)
    [] e.kind = "cibir" ->
         QuicVarIntEncode(e.id) \o QuicVarIntEncode(N(CibirPayloadSize(tp)))
           \o QuicVarIntEncode(tp.val.CibirLength) \o QuicVarIntEncode(tp.val.CibirOffset)
    [] e.kind = "timestamp" -> TlsWriteTransportParamVarInt(e.id, N(TimestampValue(tp)))

\* US_TO_MS: microseconds to milliseconds, truncating.
US_TO_MS(v) == v[2] \div 1000

\* The CXPLAT_DBG_ASSERT on min_ack_delay before it is sized: the encoder's
\* stated precondition on the records it is given (for values below 2^31).
MinAckDelayAsserted(tp) ==
  \/ "MIN_ACK_DELAY" \in tp.flags /\ US_TO_MS(tp.val.MinAckDelay) <= tp.val.MaxAckDelay[2]
  \/ "MIN_ACK_DELAY" \notin tp.flags /\ US_TO_MS(tp.val.MinAckDelay) <= 25

-----------------------------------------------------------------------------
Init ==
  /\ \E r \in Records : TransportParams = r.tp /\ IsServerTP = r.server
  /\ TestParam \in TestParams
  /\ RequiredTPLen = 0
  /\ TPBuf = <<>>
  /\ i = 1
  /\ status = "size"

(* Pass 1, one parameter: its TlsTransportParamLength is added when its    *)
(* flag is set, after the parameter's CXPLAT_FRE_ASSERT.                   *)
SizeParam ==
  /\ status = "size"
  /\ i <= Len(EncodeOrder)
  /\ LET e == EncodeOrder[i]
     IN  IF Present(TransportParams, e) /\ FreAssertFails(TransportParams, e)
         THEN /\ status' = "asserted"
              /\ UNCHANGED <<RequiredTPLen, i>>
         ELSE /\ RequiredTPLen' =
                   RequiredTPLen
                   + IF Present(TransportParams, e)
                     THEN TlsTransportParamLength(e.id, PayloadLength(TransportParams, e))
                     ELSE 0
              /\ i' = i + 1
              /\ UNCHANGED status
  /\ UNCHANGED <<TransportParams, IsServerTP, TestParam, TPBuf>>

(* End of pass 1: the test parameter is added, then 'RequiredTPLen >       *)
(* UINT16_MAX' returns NULL.                                               *)
SizeTestParamAndCheck ==
  /\ status = "size"
  /\ i > Len(EncodeOrder)
  /\ LET total == RequiredTPLen
                  + IF TestParam = NoTestParam THEN 0
                    ELSE TlsTransportParamLength(TestParam.Type, Len(TestParam.Buffer))
     IN  /\ RequiredTPLen' = total
         /\ status' = IF total > 2^16 - 1 THEN "null" ELSE "alloc"
  /\ i' = 1
  /\ UNCHANGED <<TransportParams, IsServerTP, TestParam, TPBuf>>

(* CXPLAT_ALLOC_NONPAGED of header + RequiredTPLen, which may fail.        *)
Allocate ==
  /\ status = "alloc"
  /\ status' \in {"write", "null"}
  /\ UNCHANGED <<TransportParams, IsServerTP, TestParam, RequiredTPLen, TPBuf, i>>

(* Pass 2, one parameter: written when its flag is set.                    *)
WriteParamStep ==
  /\ status = "write"
  /\ i <= Len(EncodeOrder)
  /\ TPBuf' = TPBuf \o (IF Present(TransportParams, EncodeOrder[i])
                          THEN WriteParam(TransportParams, EncodeOrder[i]) ELSE <<>>)
  /\ i' = i + 1
  /\ UNCHANGED <<TransportParams, IsServerTP, TestParam, RequiredTPLen, status>>

(* End of pass 2: the test parameter is written, then 'FinalTPLength !=    *)
(* RequiredTPLen' frees the buffer and returns NULL.                       *)
WriteTestParamAndCheck ==
  /\ status = "write"
  /\ i > Len(EncodeOrder)
  /\ LET final == TPBuf \o (IF TestParam = NoTestParam THEN <<>>
                            ELSE TlsWriteTransportParam(TestParam.Type, Len(TestParam.Buffer),
                                                        TestParam.Buffer))
     IN  /\ TPBuf' = final
         /\ status' = IF Len(final) /= RequiredTPLen THEN "mismatch" ELSE "returned"
  /\ UNCHANGED <<TransportParams, IsServerTP, TestParam, RequiredTPLen, i>>

Done == status \in {"returned", "null", "mismatch", "asserted"}

\* The call has returned (or the process has stopped); nothing more happens.
Returned == Done /\ UNCHANGED vars

Next ==
  \/ SizeParam \/ SizeTestParamAndCheck \/ Allocate
  \/ WriteParamStep \/ WriteTestParamAndCheck
  \/ Returned

Spec == Init /\ [][Next]_vars

-----------------------------------------------------------------------------
TypeOK ==
  /\ TransportParams \in TpRecord
  /\ IsServerTP \in BOOLEAN
  /\ RequiredTPLen \in Nat
  /\ TPBuf \in Seq(Byte)
  /\ i \in 1 .. Len(EncodeOrder) + 1
  /\ status \in {"size", "alloc", "write", "returned", "null", "mismatch", "asserted"}
=============================================================================
