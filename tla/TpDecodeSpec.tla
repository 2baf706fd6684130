----------------------------- MODULE TpDecodeSpec -----------------------------
(***************************************************************************)
(* What decode_transport_parameters promises, from the spec's decoder      *)
(* contract (section 4.5): one step that maps the received bytes to        *)
(* accept-with-record or reject.  SpecDecode is the reference decoder,     *)
(* written from the spec's rules rather than from the code.                *)
(*                                                                         *)
(* StrictVarIntLength selects the spec's rule that the varint inside an    *)
(* integer-valued parameter occupies exactly the parameter's length.       *)
(* When the version-information allocation fails the decode may still      *)
(* succeed without that parameter: the abstract result allows it.          *)
(***************************************************************************)
EXTENDS QuicTransportParams

CONSTANT StrictVarIntLength

VARIABLES TPBuf, IsServerTP, result

\* The spec's table of integer-valued parameters and their ranges.
SpecIntegers ==
  { [id |-> TpId.IDLE_TIMEOUT, field |-> "IdleTimeout", flag |-> "IDLE_TIMEOUT",
     lo |-> N(0), hi |-> VarIntMax],
    [id |-> TpId.MAX_UDP_PAYLOAD_SIZE, field |-> "MaxUdpPayloadSize",
     flag |-> "MAX_UDP_PAYLOAD_SIZE", lo |-> N(1200), hi |-> N(65527)],
    [id |-> TpId.INITIAL_MAX_DATA, field |-> "InitialMaxData",
     flag |-> "INITIAL_MAX_DATA", lo |-> N(0), hi |-> VarIntMax],
    [id |-> TpId.INITIAL_MAX_STREAM_DATA_BIDI_LOCAL, field |-> "InitialMaxStreamDataBidiLocal",
     flag |-> "INITIAL_MAX_STRM_DATA_BIDI_LOCAL", lo |-> N(0), hi |-> VarIntMax],
    [id |-> TpId.INITIAL_MAX_STREAM_DATA_BIDI_REMOTE, field |-> "InitialMaxStreamDataBidiRemote",
     flag |-> "INITIAL_MAX_STRM_DATA_BIDI_REMOTE", lo |-> N(0), hi |-> VarIntMax],
    [id |-> TpId.INITIAL_MAX_STREAM_DATA_UNI, field |-> "InitialMaxStreamDataUni",
     flag |-> "INITIAL_MAX_STRM_DATA_UNI", lo |-> N(0), hi |-> VarIntMax],
    [id |-> TpId.INITIAL_MAX_STREAMS_BIDI, field |-> "InitialMaxBidiStreams",
     flag |-> "INITIAL_MAX_STRMS_BIDI", lo |-> N(0), hi |-> <<2^29, 0>>],
    [id |-> TpId.INITIAL_MAX_STREAMS_UNI, field |-> "InitialMaxUniStreams",
     flag |-> "INITIAL_MAX_STRMS_UNI", lo |-> N(0), hi |-> <<2^29, 0>>],
    [id |-> TpId.ACK_DELAY_EXPONENT, field |-> "AckDelayExponent",
     flag |-> "ACK_DELAY_EXPONENT", lo |-> N(0), hi |-> N(20)],
    [id |-> TpId.MAX_ACK_DELAY, field |-> "MaxAckDelay",
     flag |-> "MAX_ACK_DELAY", lo |-> N(0), hi |-> N(2^14 - 1)],
    [id |-> TpId.ACTIVE_CONNECTION_ID_LIMIT, field |-> "ActiveConnectionIdLimit",
     flag |-> "ACTIVE_CONNECTION_ID_LIMIT", lo |-> N(2), hi |-> VarIntMax],
    [id |-> TpId.MAX_DATAGRAM_FRAME_SIZE, field |-> "MaxDatagramFrameSize",
     flag |-> "MAX_DATAGRAM_FRAME_SIZE", lo |-> N(0), hi |-> VarIntMax],
    [id |-> TpId.MIN_ACK_DELAY, field |-> "MinAckDelay",
     flag |-> "MIN_ACK_DELAY", lo |-> N(0), hi |-> N(2^24 - 1)] }

\* Opaque parameters: field, flag, least and greatest length, server-only.
SpecOpaques ==
  { [id |-> TpId.ORIGINAL_DESTINATION_CONNECTION_ID, field |-> "OriginalDestinationConnectionID",
     flag |-> "ORIGINAL_DESTINATION_CONNECTION_ID", minlen |-> 0, maxlen |-> 20, server |-> TRUE],
    [id |-> TpId.INITIAL_SOURCE_CONNECTION_ID, field |-> "InitialSourceConnectionID",
     flag |-> "INITIAL_SOURCE_CONNECTION_ID", minlen |-> 0, maxlen |-> 20, server |-> FALSE],
    [id |-> TpId.RETRY_SOURCE_CONNECTION_ID, field |-> "RetrySourceConnectionID",
     flag |-> "RETRY_SOURCE_CONNECTION_ID", minlen |-> 0, maxlen |-> 20, server |-> TRUE],
    [id |-> TpId.STATELESS_RESET_TOKEN, field |-> "StatelessResetToken",
     flag |-> "STATELESS_RESET_TOKEN", minlen |-> 16, maxlen |-> 16, server |-> TRUE],
    [id |-> TpId.VERSION_NEGOTIATION_EXT, field |-> "VersionInfo",
     flag |-> "VERSION_NEGOTIATION", minlen |-> 0, maxlen |-> 2^16 - 1, server |-> FALSE] }

\* Zero-length parameters and their flags.
SpecEmpties ==
  { [id |-> TpId.DISABLE_ACTIVE_MIGRATION, flag |-> "DISABLE_ACTIVE_MIGRATION"],
    [id |-> TpId.DISABLE_1RTT_ENCRYPTION, flag |-> "DISABLE_1RTT_ENCRYPTION"],
    [id |-> TpId.GREASE_QUIC_BIT, flag |-> "GREASE_QUIC_BIT"],
    [id |-> TpId.RELIABLE_RESET_ENABLED, flag |-> "RELIABLE_RESET_ENABLED"] }

Fail == [ok |-> FALSE, tp |-> TpZero]

\* A single varint filling the payload p (exactly, when strict).
OneVarInt(p) ==
  LET r == QuicVarIntDecode(Len(p), p, 0)
  IN  [ok |-> r.ok /\ (StrictVarIntLength => r.next = Len(p)), value |-> r.value]

(* The effect of one parameter with id and payload p on the record tp.     *)
SpecParam(id, p, server, tp) ==
  LET ints == { r \in SpecIntegers : r.id = id }
      opqs == { r \in SpecOpaques : r.id = id }
      emps == { r \in SpecEmpties : r.id = id }
  IN
  CASE ints /= {} ->
         LET r == CHOOSE x \in ints : TRUE
             v == OneVarInt(p)
         IN  IF v.ok /\ ULe(r.lo, v.value) /\ ULe(v.value, r.hi)
             THEN [ok |-> TRUE, tp |-> [tp EXCEPT !.flags = @ \cup {r.flag},
                                                  !.val[r.field] = v.value]]
             ELSE Fail
    [] opqs /= {} ->
         LET r == CHOOSE x \in opqs : TRUE
         IN  IF r.minlen <= Len(p) /\ Len(p) <= r.maxlen /\ (r.server => server)
             THEN [ok |-> TRUE, tp |-> [tp EXCEPT !.flags = @ \cup {r.flag},
                                                  !.bytes[r.field] = p]]
             ELSE Fail
    [] emps /= {} ->
         IF p = <<>>
         THEN [ok |-> TRUE, tp |-> [tp EXCEPT !.flags = @ \cup {(CHOOSE x \in emps : TRUE).flag}]]
         ELSE Fail
    [] id = TpId.CIBIR_ENCODING ->
         LET l == QuicVarIntDecode(Len(p), p, 0)
             o == QuicVarIntDecode(Len(p), p, l.next)
         IN  IF /\ l.ok /\ o.ok
                /\ StrictVarIntLength => o.next = Len(p)
                /\ ULe(N(1), l.value) /\ ULe(l.value, N(20)) /\ ULe(o.value, N(20))
                /\ l.value[2] + o.value[2] <= 20
             THEN [ok |-> TRUE, tp |-> [tp EXCEPT !.flags = @ \cup {"CIBIR_ENCODING"},
                                                  !.val.CibirLength = l.value,
                                                  !.val.CibirOffset = o.value]]
             ELSE Fail
    [] id = TpId.ENABLE_TIMESTAMP ->
         LET v == OneVarInt(p)
         IN  IF v.ok /\ ULe(v.value, N(3))
             THEN [ok |-> TRUE, tp |-> [tp EXCEPT !.flags = @ \cup TimestampFlags(v.value[2])]]
             ELSE Fail
    [] id = TpId.PREFERRED_ADDRESS ->
         IF server THEN [ok |-> TRUE, tp |-> tp] ELSE Fail
    [] OTHER -> [ok |-> TRUE, tp |-> tp]

(* The decoder contract's loop over <id, length, payload> triples from     *)
(* offset off; seen holds the ids below 64 met so far.                     *)
RECURSIVE SpecLoop(_, _, _, _, _)
SpecLoop(buf, server, off, seen, tp) ==
  IF off >= Len(buf) THEN [ok |-> TRUE, tp |-> tp]
  ELSE
  LET i == QuicVarIntDecode(Len(buf), buf, off)
      l == QuicVarIntDecode(Len(buf), buf, i.next)
      small == ULt(i.value, N(64))
  IN  IF \/ ~i.ok
         \/ small /\ i.value[2] \in seen
         \/ ~l.ok
         \/ ULt(N(Len(buf) - l.next), l.value)
      THEN Fail
      ELSE LET p == SubSeq(buf, l.next + 1, l.next + l.value[2])
               s == SpecParam(i.value, p, server, tp)
           IN  IF s.ok
               THEN SpecLoop(buf, server, l.next + l.value[2],
                             IF small THEN seen \cup {i.value[2]} ELSE seen, s.tp)
               ELSE Fail

(* decode(bytes): defaults first, then the loop, then the cross-check      *)
(* min_ack_delay (us) <= max_ack_delay (ms) * 1000.                        *)
SpecDecode(buf, server) ==
  LET defaults == [ TpZero EXCEPT !.val.MaxUdpPayloadSize = N(65527),
                                  !.val.AckDelayExponent = N(3),
                                  !.val.MaxAckDelay = N(25),
                                  !.val.ActiveConnectionIdLimit = N(2) ]
      r == SpecLoop(buf, server, 0, {}, defaults)
  IN  IF /\ r.ok
         /\ "MIN_ACK_DELAY" \in r.tp.flags
         /\ ULt(N(r.tp.val.MaxAckDelay[2] * 1000), r.tp.val.MinAckDelay)
      THEN Fail ELSE r

\* The three results: not returned yet, accepted with a record, rejected.
Pending == [state |-> "pending", tp |-> TpZero]

Accepted(tp) == [state |-> "accepted", tp |-> tp]

Rejected == [state |-> "rejected", tp |-> TpZero]

\* The results a decode of buf may return.
Outcomes(buf, server) ==
  LET r == SpecDecode(buf, server)
      dropped == [ r.tp EXCEPT !.flags = @ \ {"VERSION_NEGOTIATION"},
                               !.bytes.VersionInfo = <<>> ]
  IN  IF ~r.ok THEN {Rejected}
      ELSE {Accepted(r.tp)}
           \cup (IF r.tp.bytes.VersionInfo /= <<>>
                 THEN {Accepted(dropped)} ELSE {})

Init ==
  /\ TPBuf \in Seq(Byte)
  /\ IsServerTP \in BOOLEAN
  /\ result = Pending

Decide ==
  /\ result = Pending
  /\ result' \in Outcomes(TPBuf, IsServerTP)
  /\ UNCHANGED <<TPBuf, IsServerTP>>

SafetySpec == Init /\ [][Decide]_<<TPBuf, IsServerTP, result>>

\* A decode always returns.
Spec == SafetySpec /\ WF_<<TPBuf, IsServerTP, result>>(Decide)
=============================================================================
