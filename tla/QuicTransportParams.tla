------------------------- MODULE QuicTransportParams -------------------------
(***************************************************************************)
(* The QUIC_TRANSPORT_PARAMETERS record and the transport-parameter id     *)
(* registry of src/unnamed/part_001 (lines 37-81), shared by the decoder   *)
(* and the encoder models.                                                 *)
(*                                                                         *)
(* A record is [flags, val, bytes]: flags is the set of QUIC_TP_FLAG_*     *)
(* names that are set, val maps each integer field to its 62-bit value     *)
(* (QuicVarInt pairs) and bytes maps each byte-array field, VersionInfo    *)
(* included, to its contents (its length is the field's *Length).  The     *)
(* limits and defaults come from the stack's headers, which are not under  *)
(* src/; their values are those of the spec's table (section 4.5).         *)
(***************************************************************************)
EXTENDS QuicVarInt

\* Transport parameter ids (lines 40-68).
TpId ==
  [ ORIGINAL_DESTINATION_CONNECTION_ID |-> N(0),
    IDLE_TIMEOUT                       |-> N(1),
    STATELESS_RESET_TOKEN              |-> N(2),
    MAX_UDP_PAYLOAD_SIZE               |-> N(3),
    INITIAL_MAX_DATA                   |-> N(4),
    INITIAL_MAX_STREAM_DATA_BIDI_LOCAL  |-> N(5),
    INITIAL_MAX_STREAM_DATA_BIDI_REMOTE |-> N(6),
    INITIAL_MAX_STREAM_DATA_UNI        |-> N(7),
    INITIAL_MAX_STREAMS_BIDI           |-> N(8),
    INITIAL_MAX_STREAMS_UNI            |-> N(9),
    ACK_DELAY_EXPONENT                 |-> N(10),
    MAX_ACK_DELAY                      |-> N(11),
    DISABLE_ACTIVE_MIGRATION           |-> N(12),
    PREFERRED_ADDRESS                  |-> N(13),
    ACTIVE_CONNECTION_ID_LIMIT         |-> N(14),
    INITIAL_SOURCE_CONNECTION_ID       |-> N(15),
    RETRY_SOURCE_CONNECTION_ID         |-> N(16),
    MAX_DATAGRAM_FRAME_SIZE            |-> N(32),
    DISABLE_1RTT_ENCRYPTION            |-> N(47789),                  \* 0xBAAD
    VERSION_NEGOTIATION_EXT            |-> N(17),                     \* 0x11
    MIN_ACK_DELAY                      |-> <<1, 2131025435>>,         \* 0xFF04DE1B
    CIBIR_ENCODING                     |-> N(4096),                   \* 0x1000
    GREASE_QUIC_BIT                    |-> N(10930),                  \* 0x2AB2
    RELIABLE_RESET_ENABLED             |-> <<3141296, 1831646576>>,   \* 0x17f7586d2cb570
    ENABLE_TIMESTAMP                   |-> N(29016) ]                 \* 0x7158

KnownIds == { TpId[p] : p \in DOMAIN TpId }

(* QuicTpIdIsReserved: ids of the form 31 * N + 27 are reserved (GREASE).  *)
QuicTpIdIsReserved(id) == UMod31(id) = 27

\* Header limits (spec table, section 4.5).
QUIC_MAX_CONNECTION_ID_LENGTH_V1        == 20
QUIC_MAX_CONNECTION_ID_LENGTH_INVARIANT == 20
QUIC_STATELESS_RESET_TOKEN_LENGTH       == 16
QUIC_TP_MAX_UDP_PAYLOAD_SIZE_MIN        == N(1200)
QUIC_TP_MAX_UDP_PAYLOAD_SIZE_MAX        == N(65527)
QUIC_TP_MAX_STREAMS_MAX                 == <<2^29, 0>>                \* 2^60
QUIC_TP_ACK_DELAY_EXPONENT_MAX          == N(20)
QUIC_TP_MAX_ACK_DELAY_MAX               == N(2^14 - 1)
QUIC_TP_MIN_ACK_DELAY_MAX               == N(2^24 - 1)
QUIC_TP_ACTIVE_CONNECTION_ID_LIMIT_MIN  == N(2)

\* The QUIC_TP_FLAG_* names; the two timestamp bits are the 2-bit field
\* at QUIC_TP_FLAG_TIMESTAMP_SHIFT (send = 1, recv = 2).
Flags ==
  { "ORIGINAL_DESTINATION_CONNECTION_ID", "IDLE_TIMEOUT",
    "STATELESS_RESET_TOKEN", "MAX_UDP_PAYLOAD_SIZE", "INITIAL_MAX_DATA",
    "INITIAL_MAX_STRM_DATA_BIDI_LOCAL", "INITIAL_MAX_STRM_DATA_BIDI_REMOTE",
    "INITIAL_MAX_STRM_DATA_UNI", "INITIAL_MAX_STRMS_BIDI",
    "INITIAL_MAX_STRMS_UNI", "ACK_DELAY_EXPONENT", "MAX_ACK_DELAY",
    "DISABLE_ACTIVE_MIGRATION", "PREFERRED_ADDRESS",
    "ACTIVE_CONNECTION_ID_LIMIT", "INITIAL_SOURCE_CONNECTION_ID",
    "RETRY_SOURCE_CONNECTION_ID", "MAX_DATAGRAM_FRAME_SIZE",
    "DISABLE_1RTT_ENCRYPTION", "VERSION_NEGOTIATION", "MIN_ACK_DELAY",
    "CIBIR_ENCODING", "GREASE_QUIC_BIT", "RELIABLE_RESET_ENABLED",
    "TIMESTAMP_SEND_ENABLED", "TIMESTAMP_RECV_ENABLED" }

\* The flags a 2-bit timestamp value stands for.
TimestampFlags(v) ==
  (IF v % 2 = 1 THEN {"TIMESTAMP_SEND_ENABLED"} ELSE {})
  \cup (IF v \div 2 = 1 THEN {"TIMESTAMP_RECV_ENABLED"} ELSE {})

IntFields ==
  { "IdleTimeout", "MaxUdpPayloadSize", "InitialMaxData",
    "InitialMaxStreamDataBidiLocal", "InitialMaxStreamDataBidiRemote",
    "InitialMaxStreamDataUni", "InitialMaxBidiStreams", "InitialMaxUniStreams",
    "AckDelayExponent", "MaxAckDelay", "ActiveConnectionIdLimit",
    "MaxDatagramFrameSize", "MinAckDelay", "CibirLength", "CibirOffset" }

ByteFields ==
  { "OriginalDestinationConnectionID", "InitialSourceConnectionID",
    "RetrySourceConnectionID", "StatelessResetToken", "VersionInfo" }

\* CxPlatZeroMemory of the record.
TpZero ==
  [ flags |-> {},
    val   |-> [f \in IntFields |-> N(0)],
    bytes |-> [f \in ByteFields |-> <<>>] ]

\* The defaults a decode installs before reading (lines 1025-1029).
TpDefaults ==
  [ TpZero EXCEPT !.val.MaxUdpPayloadSize       = N(65527),
                  !.val.AckDelayExponent        = N(3),
                  !.val.MaxAckDelay             = N(25),
                  !.val.ActiveConnectionIdLimit = N(2) ]

TpRecord ==
  [ flags : SUBSET Flags,
    val   : [IntFields -> (0 .. LimbMax) \X (0 .. LimbMax)],
    bytes : [ByteFields -> Seq(Byte)] ]
=============================================================================
