------------------------------ MODULE TpTokens ------------------------------
(***************************************************************************)
(* Encoded transport parameters at the edges of each decoding rule: every  *)
(* id class, each range bound and the value just past it, non-minimal and  *)
(* padded varint payloads, truncated headers and lengths that overrun or   *)
(* wrap uint16.  The buffers the models feed the decoder are built from    *)
(* them.                                                                   *)
(***************************************************************************)
EXTENDS QuicVarInt

MinAckDelayId  == <<192, 0, 0, 0, 255, 4, 222, 27>>      \* 0xFF04DE1B
ReliableResetId == <<192, 23, 247, 88, 109, 44, 181, 112>> \* 0x17f7586d2cb570
TimestampId    == <<128, 0, 113, 88>>                    \* 0x7158
Disable1RttId  == <<128, 0, 186, 173>>                   \* 0xBAAD
CibirId        == <<80, 0>>                              \* 0x1000

Zeros(n) == [i \in 1 .. n |-> 0]

Tokens ==
  { \* idle_timeout: plain, padded, 2-byte form, empty, truncated varint
    <<1, 1, 5>>, <<1, 2, 5, 0>>, <<1, 2, 64, 5>>, <<1, 0>>, <<1, 1, 64>>,
    \* max_udp_payload_size: 1200, 1199, 65527, 65528
    <<3, 2, 68, 176>>, <<3, 2, 68, 175>>, <<3, 4, 128, 0, 255, 247>>, <<3, 4, 128, 0, 255, 248>>,
    \* initial_max_data = 1048576, initial_max_stream_data_uni
    <<4, 4, 128, 16, 0, 0>>, <<7, 1, 9>>,
    \* initial_max_streams_bidi = 2^60 and 2^60 + 1; _uni
    <<8, 8, 208, 0, 0, 0, 0, 0, 0, 0>>, <<8, 8, 208, 0, 0, 0, 0, 0, 0, 1>>, <<9, 1, 3>>,
    \* ack_delay_exponent 20, 21
    <<10, 1, 20>>, <<10, 1, 21>>,
    \* max_ack_delay 25, 0, 16383, 16384
    <<11, 1, 25>>, <<11, 1, 0>>, <<11, 2, 127, 255>>, <<11, 4, 128, 0, 64, 0>>,
    \* min_ack_delay 100, 1000, 25001, 2^24 microseconds
    MinAckDelayId \o <<2, 67, 232>>, MinAckDelayId \o <<2, 64, 100>>,
    MinAckDelayId \o <<4, 128, 0, 97, 169>>, MinAckDelayId \o <<4, 129, 0, 0, 0>>,
    \* disable_active_migration, with a stray byte
    <<12, 0>>, <<12, 1, 0>>,
    \* preferred_address, active_connection_id_limit 2 and 1
    <<13, 1, 0>>, <<14, 1, 2>>, <<14, 1, 1>>,
    \* connection ids: original destination, initial source, retry source (0 and 20 bytes), 21 bytes
    <<0, 1, 170>>, <<15, 2, 202, 254>>, <<16, 0>>, <<16, 20>> \o Zeros(20), <<15, 21>> \o Zeros(21),
    \* stateless reset token of 16 and 15 bytes
    <<2, 16>> \o Zeros(16), <<2, 15>> \o Zeros(15),
    \* max_datagram_frame_size, disable_1rtt_encryption, grease_quic_bit, reliable_reset
    <<32, 1, 10>>, Disable1RttId \o <<0>>, <<106, 178, 0>>, ReliableResetId \o <<0>>,
    \* version information: two bytes, empty
    <<17, 2, 171, 205>>, <<17, 0>>,
    \* cibir: (1, 0), length 0, length + offset 21, padded, offset missing
    CibirId \o <<2, 1, 0>>, CibirId \o <<2, 0, 0>>, CibirId \o <<2, 20, 1>>,
    CibirId \o <<3, 1, 0, 9>>, CibirId \o <<1, 1>>,
    \* enable_timestamp 3, 1, 0, 4
    TimestampId \o <<1, 3>>, TimestampId \o <<1, 1>>, TimestampId \o <<1, 0>>, TimestampId \o <<1, 4>>,
    \* reserved 27 and 89, unknown 64
    <<27, 1, 255>>, <<64, 89, 0>>, <<64, 64, 0>>,
    \* truncated id, missing length, overrun, overrun by one, length 65537 (1 as uint16)
    <<64>>, <<1>>, <<1, 5, 0>>, <<1, 2, 5>>, <<1, 128, 1, 0, 1, 5>> }

\* Every concatenation of at most n tokens.
TokenBuffers(n) ==
  { FoldLeft(\o, <<>>, ts) : ts \in BoundedSeq(Tokens, n) }
=============================================================================
