-------------------------- MODULE ClientHelloReader --------------------------
(***************************************************************************)
(* QuicCryptoTlsReadInitial (src/unnamed/part_001, lines 528-575) over the *)
(* bytes of the CRYPTO stream, one step per handshake message and one per  *)
(* extension, with the functions it calls:                                 *)
(*   - QuicCryptoTlsReadClientHello (403-504), a pure operator;            *)
(*   - QuicCryptoTlsReadExtensions (292-401), one step per iteration;      *)
(*   - QuicCryptoTlsReadSniExtension (153-226) and                         *)
(*     QuicCryptoTlsReadAlpnExtension (228-280), RECURSIVE walkers;        *)
(*   - QuicCryptoTlsDecodeTransportParameters, as the reference decoder    *)
(*     TpDecodeSpec that the decoder model is shown to implement.          *)
(* Positions are 0-based offsets, as the code's pointers.  Every read goes *)
(* through U8, TlsReadUint16 or TlsReadUint24, which return OOB when the   *)
(* read leaves the region the function was given; the call then ends in   *)
(* "oob", after which the code's behaviour is undefined.                   *)
(***************************************************************************)
EXTENDS Integers, Sequences

CONSTANT Inputs        \* the CRYPTO bytes the peer may have delivered

VARIABLES
  Buf,                 \* Buffer as passed to ReadInitial
  IsDraft29,           \* Connection->Stats.QuicVersion == QUIC_VERSION_DRAFT_29
  Pos,                 \* ReadInitial's Buffer, as an offset into Buf
  Remaining,           \* ReadInitial's BufferLength
  ExtBase,             \* offset in Buf of the extension block of the message
  ExtOff,              \* ReadExtensions' Buffer, as an offset into the block
  ExtRemaining,        \* ReadExtensions' BufferLength
  ExtLength,           \* the block's length, as passed to ReadExtensions
  MsgLen,              \* MessageLength of the message being read
  FoundSNI, FoundALPN, FoundTransportParameters,
  ServerName,          \* Info->ServerName: NoSlice or <<offset, length>>
  ClientAlpnList,      \* Info->ClientAlpnList: NoSlice or <<offset, length>>
  PeerTransportParams, \* the last decode into it: "none", "accepted", "rejected"
  status,              \* "message", "extensions", or the returned status
  ClientRandom,        \* TlsSecrets->ClientRandom once IsSet: NoSlice or <<offset, 32>>
  FirstRandom          \* ghost: where ReadClientHello met the first message's Random

vars == <<Buf, IsDraft29, Pos, Remaining, ExtBase, ExtOff, ExtRemaining, ExtLength,
          MsgLen, FoundSNI, FoundALPN, FoundTransportParameters, ServerName,
          ClientAlpnList, PeerTransportParams, status, ClientRandom, FirstRandom>>

TP == INSTANCE TpDecodeSpec
        WITH TPBuf <- <<>>, IsServerTP <- FALSE, result <- "none",
             StrictVarIntLength <- FALSE

TLS1_PROTOCOL_VERSION == 769            \* 0x0301
TLS_MESSAGE_HEADER_LENGTH == 4
TLS_RANDOM_LENGTH == 32
TLS_SESSION_ID_LENGTH == 32
TlsHandshake_ClientHello == 1
TlsExt_ServerName == 0
TlsExt_AppProtocolNegotiation == 16
TlsExt_Sni_NameType_HostName == 0
\* The extension codes of the QUIC transport parameters (RFC 9000 and draft-29).
TLS_EXTENSION_TYPE_QUIC_TRANSPORT_PARAMETERS == 57
TLS_EXTENSION_TYPE_QUIC_TRANSPORT_PARAMETERS_DRAFT == 65445

NoSlice == <<>>
OOB == -1

-----------------------------------------------------------------------------
(* Reads at offset i of region s.                                          *)

U8(s, i) == IF i < Len(s) THEN s[i + 1] ELSE OOB

TlsReadUint16(s, i) == IF i + 2 <= Len(s) THEN s[i + 1] * 256 + s[i + 2] ELSE OOB

TlsReadUint24(s, i) ==
  IF i + 3 <= Len(s) THEN (s[i + 1] * 256 + s[i + 2]) * 256 + s[i + 3] ELSE OOB

\* Whether the n bytes at offset i lie inside s.
Fits(s, i, n) == i + n <= Len(s)

\* The n bytes at offset i of s, as passed on as a (Buffer, Length) region;
\* the callers test Fits first.
Region(s, i, n) == IF Fits(s, i, n) THEN SubSeq(s, i + 1, i + n) ELSE <<>>

Result(st) == [status |-> st]

-----------------------------------------------------------------------------
\* Fault variant of SniWalk: the name length not checked against what remains.
RECURSIVE SniWalkNoNameCheck(_, _, _, _)
SniWalkNoNameCheck(s, off, bl, name) ==
  IF bl = 0 THEN [status |-> "ok", name |-> name]
  ELSE LET type == U8(s, off)
           len  == TlsReadUint16(s, off + 1)
       IN  CASE type = OOB      -> [status |-> "oob", name |-> name]
             [] bl - 1 < 2      -> [status |-> "invalid", name |-> name]
             [] len = OOB       -> [status |-> "oob", name |-> name]
             [] OTHER ->
                  SniWalkNoNameCheck(s, off + 3 + len, (bl - 3 - len) % 2^16,
                          IF type = TlsExt_Sni_NameType_HostName /\ name = NoSlice
                          THEN <<off + 3, len>> ELSE name)

\* Fault variant of SniWalk: the length field read without checking it is there.
RECURSIVE SniWalkNoLengthCheck(_, _, _, _)
SniWalkNoLengthCheck(s, off, bl, name) ==
  IF bl = 0 THEN [status |-> "ok", name |-> name]
  ELSE LET type == U8(s, off)
           len  == TlsReadUint16(s, off + 1)
       IN  CASE type = OOB      -> [status |-> "oob", name |-> name]
             [] len = OOB       -> [status |-> "oob", name |-> name]
             [] bl - 3 < len    -> [status |-> "invalid", name |-> name]
             [] OTHER ->
                  SniWalkNoLengthCheck(s, off + 3 + len, (bl - 3 - len) % 2^16,
                          IF type = TlsExt_Sni_NameType_HostName /\ name = NoSlice
                          THEN <<off + 3, len>> ELSE name)

(* The SNI walker: the loop of ReadSniExtension from offset off with       *)
(* BufferLength bl, keeping the first host_name entry it meets.            *)
RECURSIVE SniWalk(_, _, _, _)
SniWalk(s, off, bl, name) ==
  IF bl = 0 THEN [status |-> "ok", name |-> name]
  ELSE LET type == U8(s, off)
           len  == TlsReadUint16(s, off + 1)
       IN  CASE type = OOB      -> [status |-> "oob", name |-> name]
             [] bl - 1 < 2      -> [status |-> "invalid", name |-> name]
             [] len = OOB       -> [status |-> "oob", name |-> name]
             [] bl - 3 < len    -> [status |-> "invalid", name |-> name]
             [] OTHER ->
                  SniWalk(s, off + 3 + len, (bl - 3 - len) % 2^16,
                          IF type = TlsExt_Sni_NameType_HostName /\ name = NoSlice
                          THEN <<off + 3, len>> ELSE name)

ReadSniExtension(s) ==
  CASE Len(s) < 2                 -> [status |-> "invalid", name |-> NoSlice]
    [] TlsReadUint16(s, 0) < 3    -> [status |-> "invalid", name |-> NoSlice]
    [] OTHER                      -> SniWalk(s, 2, Len(s) - 2, NoSlice)

(* The ALPN walker: each entry is a length byte and that many bytes.       *)
RECURSIVE AlpnWalk(_, _, _)
AlpnWalk(s, off, bl) ==
  IF bl = 0 THEN "ok"
  ELSE LET len == U8(s, off)
       IN  CASE len = OOB                  -> "oob"
             [] bl - 1 < 1 \/ bl - 1 < len -> "invalid"
             [] OTHER -> AlpnWalk(s, off + 1 + len, (bl - 1 - len) % 2^16)

\* The list is handed out (list) once the outer length matches, before the
\* entries are walked.
ReadAlpnExtension(s) ==
  IF Len(s) < 4 \/ Len(s) /= TlsReadUint16(s, 0) + 2
  THEN [status |-> "invalid", list |-> NoSlice]
  ELSE [status |-> AlpnWalk(s, 2, Len(s) - 2), list |-> <<2, Len(s) - 2>>]

-----------------------------------------------------------------------------
(* ReadClientHello on the message body b, up to the call of                *)
(* ReadExtensions: "invalid", "noext" (no extension block, success), or    *)
(* "extensions" with the block's offset and length in b.                   *)
ReadClientHello(b) ==
  LET sid == U8(b, 34)
      o3  == 35 + sid
      cs  == TlsReadUint16(b, o3)
      o4  == o3 + 2 + cs
      cm  == U8(b, o4)
      o5  == o4 + 1 + cm
      ext == TlsReadUint16(b, o5)
  IN  CASE Len(b) < 2 \/ TlsReadUint16(b, 0) < TLS1_PROTOCOL_VERSION -> Result("invalid")
        [] Len(b) - 2 < TLS_RANDOM_LENGTH                             -> Result("invalid")
        [] Len(b) - 34 < 1                                           -> Result("invalid")
        [] sid = OOB                                                 -> Result("oob")
        [] sid > TLS_SESSION_ID_LENGTH \/ Len(b) - 34 < 1 + sid      -> Result("invalid")
        [] Len(b) - o3 < 2                                           -> Result("invalid")
        [] cs = OOB                                                  -> Result("oob")
        [] cs % 2 = 1 \/ Len(b) - o3 < 2 + cs                         -> Result("invalid")
        [] Len(b) - o4 < 1                                           -> Result("invalid")
        [] cm = OOB                                                  -> Result("oob")
        [] cm < 1 \/ Len(b) - o4 < 1 + cm                             -> Result("invalid")
        [] Len(b) - o5 < 2                                           -> Result("noext")
        [] ext = OOB                                                 -> Result("oob")
        [] Len(b) - o5 < 2 + ext                                     -> Result("invalid")
        [] OTHER -> [status |-> "extensions", off |-> o5 + 2, len |-> ext]

(* QuicCryptoTlsGetCompleteTlsMessagesLength: the length of the complete   *)
(* handshake messages at the start of b.                                   *)
RECURSIVE CompleteLength(_, _, _)
CompleteLength(b, off, bl) ==
  IF bl < TLS_MESSAGE_HEADER_LENGTH THEN 0
  ELSE LET ml == TLS_MESSAGE_HEADER_LENGTH + TlsReadUint24(b, off + 1)
       IN  IF bl < ml THEN 0 ELSE ml + CompleteLength(b, off + ml, bl - ml)

QuicCryptoTlsGetCompleteTlsMessagesLength(b) == CompleteLength(b, 0, Len(b))

-----------------------------------------------------------------------------
\* The Info the caller passes has neither a server name nor an ALPN list.
Init ==
  /\ Buf \in Inputs
  /\ IsDraft29 \in BOOLEAN
  /\ Pos = 0
  /\ Remaining = Len(Buf)
  /\ ExtBase = 0 /\ ExtOff = 0 /\ ExtRemaining = 0 /\ ExtLength = 0 /\ MsgLen = 0
  /\ FoundSNI = FALSE /\ FoundALPN = FALSE /\ FoundTransportParameters = FALSE
  /\ ServerName = NoSlice
  /\ ClientAlpnList = NoSlice
  /\ PeerTransportParams = "none"
  /\ status = "message"
  /\ ClientRandom = NoSlice
  /\ FirstRandom = NoSlice

UNCHANGED_Extensions ==
  UNCHANGED <<ExtBase, ExtOff, ExtRemaining, ExtLength, FoundSNI, FoundALPN,
              FoundTransportParameters>>

\* MessageLength of the message at Pos.
MessageLength == TlsReadUint24(Buf, Pos + 1)

\* Fault variant of MessageIncomplete: '<=' for '<'.
MessageIncompleteLe == Remaining <= TLS_MESSAGE_HEADER_LENGTH + MessageLength

\* 'BufferLength < TLS_MESSAGE_HEADER_LENGTH + MessageLength'.
MessageIncomplete == Remaining < TLS_MESSAGE_HEADER_LENGTH + MessageLength

\* The body of the message at Pos, as passed to ReadClientHello.
Body == Region(Buf, Pos + TLS_MESSAGE_HEADER_LENGTH, MessageLength)

(* ReadClientHello returned success for the message of length len at    *)
(* Pos: step over it; the do-while loop goes on while bytes remain, and   *)
(* then requires an ALPN list (a missing server name is allowed).         *)
MessageDone(len) ==
  LET rem == Remaining - (len + TLS_MESSAGE_HEADER_LENGTH)
  IN  /\ Remaining' = rem
      /\ Pos' = Pos + len + TLS_MESSAGE_HEADER_LENGTH
      /\ status' = CASE rem > 0                 -> "message"
                     [] ClientAlpnList = NoSlice -> "invalid"
                     [] OTHER                    -> "success"

(* Fewer than 4 bytes, or fewer than the header's length: PENDING.         *)
MessagePending ==
  /\ status = "message"
  /\ \/ Remaining < TLS_MESSAGE_HEADER_LENGTH
     \/ /\ Remaining >= TLS_MESSAGE_HEADER_LENGTH
        /\ U8(Buf, Pos) = TlsHandshake_ClientHello
        /\ MessageIncomplete
  /\ status' = "pending"
  /\ UNCHANGED <<Buf, IsDraft29, Pos, Remaining, MsgLen, ServerName, ClientAlpnList,
                 PeerTransportParams>>
  /\ UNCHANGED_Extensions
  /\ UNCHANGED <<ClientRandom, FirstRandom>>

(* A handshake message other than a ClientHello: INVALID_PARAMETER.        *)
NotClientHello ==
  /\ status = "message"
  /\ Remaining >= TLS_MESSAGE_HEADER_LENGTH
  /\ U8(Buf, Pos) /= TlsHandshake_ClientHello
  /\ status' = "invalid"
  /\ UNCHANGED <<Buf, IsDraft29, Pos, Remaining, MsgLen, ServerName, ClientAlpnList,
                 PeerTransportParams>>
  /\ UNCHANGED_Extensions
  /\ UNCHANGED <<ClientRandom, FirstRandom>>

\* The version, then the Random that ReadClientHello steps over.
RandomField == <<Pos + TLS_MESSAGE_HEADER_LENGTH + 2, TLS_RANDOM_LENGTH>>

\* Ghost: the Random of the first ClientHello that ReadClientHello got past.
RecordRandom ==
  /\ FirstRandom' = IF FirstRandom = NoSlice THEN RandomField ELSE FirstRandom
  /\ UNCHANGED ClientRandom

\* A complete ClientHello is at Pos: ReadClientHello reads its body.
HelloComplete ==
  /\ status = "message"
  /\ Remaining >= TLS_MESSAGE_HEADER_LENGTH
  /\ U8(Buf, Pos) = TlsHandshake_ClientHello
  /\ ~MessageIncomplete

(* ReadClientHello fails before the extensions (or reads out of bounds).   *)
HelloInvalid ==
  /\ HelloComplete
  /\ ReadClientHello(Body).status \in {"invalid", "oob"}
  /\ status' = ReadClientHello(Body).status
  /\ UNCHANGED <<Buf, IsDraft29, Pos, Remaining, MsgLen, ServerName, ClientAlpnList,
                 PeerTransportParams>>
  /\ UNCHANGED_Extensions
  /\ UNCHANGED <<ClientRandom, FirstRandom>>

(* A ClientHello without an extension block is a success of its own.      *)
HelloNoExtensions ==
  /\ HelloComplete
  /\ ReadClientHello(Body).status = "noext"
  /\ MsgLen' = MessageLength
  /\ MessageDone(MessageLength)
  /\ UNCHANGED <<Buf, IsDraft29, ServerName, ClientAlpnList, PeerTransportParams>>
  /\ UNCHANGED_Extensions
  /\ RecordRandom

(* ReadExtensions is called on the block: the seen-once flags start clear. *)
(* A block that does not lie inside the body would be read out of bounds. *)
HelloExtensions ==
  /\ HelloComplete
  /\ LET ch == ReadClientHello(Body)
     IN  /\ ch.status = "extensions"
         /\ ExtBase' = Pos + TLS_MESSAGE_HEADER_LENGTH + ch.off
         /\ ExtLength' = ch.len
         /\ ExtRemaining' = ch.len
         /\ status' = IF ~Fits(Body, ch.off, ch.len) THEN "oob" ELSE "extensions"
  /\ MsgLen' = MessageLength
  /\ ExtOff' = 0
  /\ FoundSNI' = FALSE /\ FoundALPN' = FALSE /\ FoundTransportParameters' = FALSE
  /\ UNCHANGED <<Buf, IsDraft29, Pos, Remaining, ServerName, ClientAlpnList,
                 PeerTransportParams>>
  /\ RecordRandom

-----------------------------------------------------------------------------
(* One iteration of the ReadExtensions loop, on the extension at ExtOff.   *)

Block == Region(Buf, ExtBase, ExtLength)

ExtType == TlsReadUint16(Block, ExtOff)
ExtLen == TlsReadUint16(Block, ExtOff + 2)
ExtPayload == Region(Block, ExtOff + 4, ExtLen)

\* 'while (BufferLength)'.
InExtensions == status = "extensions" /\ ExtRemaining /= 0

\* The 4-byte header was read and the payload fits.
HeaderOk ==
  /\ ExtRemaining >= 2 * 2
  /\ ExtType /= OOB /\ ExtLen /= OOB
  /\ ExtRemaining - 2 * 2 >= ExtLen
  /\ Fits(Block, ExtOff + 2 * 2, ExtLen)

\* Fault variant of TransportParametersType: the two codes swapped.
TransportParametersTypeSwapped ==
  IF IsDraft29 THEN TLS_EXTENSION_TYPE_QUIC_TRANSPORT_PARAMETERS
  ELSE TLS_EXTENSION_TYPE_QUIC_TRANSPORT_PARAMETERS_DRAFT

\* The type code of the transport parameters for the connection's version.
TransportParametersType ==
  IF IsDraft29 THEN TLS_EXTENSION_TYPE_QUIC_TRANSPORT_PARAMETERS_DRAFT
  ELSE TLS_EXTENSION_TYPE_QUIC_TRANSPORT_PARAMETERS

\* A slice <<offset, length>> of the payload, as an offset into Buf.
InBuf(slice) == <<ExtBase + ExtOff + 4 + slice[1], slice[2]>>

\* Fault variant of Advance: the 4 header bytes not stepped over.
AdvancePayloadOnly ==
  /\ ExtOff' = ExtOff + ExtLen
  /\ ExtRemaining' = ExtRemaining - ExtLen

\* 'BufferLength -= ExtLen; Buffer += ExtLen' after the header.
Advance ==
  /\ ExtOff' = ExtOff + 2 * 2 + ExtLen
  /\ ExtRemaining' = ExtRemaining - 2 * 2 - ExtLen

\* The extension was parsed: the loop goes on, or the call fails with st.
Parsed(st) ==
  IF st = "ok" THEN status' = "extensions" /\ Advance
  ELSE status' = st /\ UNCHANGED <<ExtOff, ExtRemaining>>

UNCHANGED_Message == UNCHANGED <<Buf, IsDraft29, Pos, Remaining, MsgLen, ExtBase, ExtLength>>

(* Fewer than 4 bytes for the header, or a length past the block.          *)
ExtensionTruncated ==
  /\ InExtensions
  /\ ~HeaderOk
  /\ status' = IF ExtRemaining < 2 * 2 \/ (ExtLen /= OOB /\ ExtRemaining - 2 * 2 < ExtLen)
               THEN "invalid" ELSE "oob"
  /\ UNCHANGED <<ExtOff, ExtRemaining, FoundSNI, FoundALPN, FoundTransportParameters,
                 ServerName, ClientAlpnList, PeerTransportParams>>
  /\ UNCHANGED_Message
  /\ UNCHANGED <<ClientRandom, FirstRandom>>

(* server_name: at most once; the walker sets Info->ServerName as soon as *)
(* it meets the first host_name, even if a later entry is malformed.      *)
SniExtension ==
  /\ InExtensions /\ HeaderOk
  /\ ExtType = TlsExt_ServerName
  /\ IF FoundSNI
     THEN status' = "invalid" /\ UNCHANGED <<ExtOff, ExtRemaining, ServerName>>
     ELSE LET r == ReadSniExtension(ExtPayload)
          IN  /\ ServerName' = IF r.name = NoSlice THEN ServerName ELSE InBuf(r.name)
              /\ Parsed(r.status)
  /\ FoundSNI' = TRUE
  /\ UNCHANGED <<FoundALPN, FoundTransportParameters, ClientAlpnList, PeerTransportParams>>
  /\ UNCHANGED_Message
  /\ UNCHANGED <<ClientRandom, FirstRandom>>

(* application_layer_protocol_negotiation: at most once; the list is      *)
(* handed out before its entries are checked.                             *)
AlpnExtension ==
  /\ InExtensions /\ HeaderOk
  /\ ExtType = TlsExt_AppProtocolNegotiation
  /\ IF FoundALPN
     THEN status' = "invalid" /\ UNCHANGED <<ExtOff, ExtRemaining, ClientAlpnList>>
     ELSE LET r == ReadAlpnExtension(ExtPayload)
          IN  /\ ClientAlpnList' =
                   IF r.list = NoSlice THEN ClientAlpnList ELSE InBuf(r.list)
              /\ Parsed(r.status)
  /\ FoundALPN' = TRUE
  /\ UNCHANGED <<FoundSNI, FoundTransportParameters, ServerName, PeerTransportParams>>
  /\ UNCHANGED_Message
  /\ UNCHANGED <<ClientRandom, FirstRandom>>

(* quic_transport_parameters of the connection's version: at most once,   *)
(* decoded into Connection->PeerTransportParams, which the decode changes *)
(* whether it is accepted or not.                                          *)
TransportParametersExtension ==
  /\ InExtensions /\ HeaderOk
  /\ ExtType \notin {TlsExt_ServerName, TlsExt_AppProtocolNegotiation}
  /\ ExtType = TransportParametersType
  /\ IF FoundTransportParameters
     THEN status' = "invalid" /\ UNCHANGED <<ExtOff, ExtRemaining, PeerTransportParams>>
     ELSE LET ok == TP!SpecDecode(ExtPayload, FALSE).ok
          IN  /\ PeerTransportParams' = IF ok THEN "accepted" ELSE "rejected"
              /\ Parsed(IF ok THEN "ok" ELSE "invalid")
  /\ FoundTransportParameters' = TRUE
  /\ UNCHANGED <<FoundSNI, FoundALPN, ServerName, ClientAlpnList>>
  /\ UNCHANGED_Message
  /\ UNCHANGED <<ClientRandom, FirstRandom>>

(* Any other extension, the other version's transport parameters among   *)
(* them, is skipped.                                                       *)
OtherExtension ==
  /\ InExtensions /\ HeaderOk
  /\ ExtType \notin {TlsExt_ServerName, TlsExt_AppProtocolNegotiation,
                     TransportParametersType}
  /\ status' = "extensions"
  /\ Advance
  /\ UNCHANGED <<FoundSNI, FoundALPN, FoundTransportParameters, ServerName,
                 ClientAlpnList, PeerTransportParams>>
  /\ UNCHANGED_Message
  /\ UNCHANGED <<ClientRandom, FirstRandom>>

\* Fault variant of MissingTransportParameters: the final check dropped.
MissingTransportParametersNever == FALSE

\* '!FoundTransportParameters' after the loop.
MissingTransportParameters == ~FoundTransportParameters

(* The end of the block: the transport parameters must have been seen;    *)
(* then ReadClientHello returns success for the message.                  *)
ExtensionsEnd ==
  /\ status = "extensions"
  /\ ExtRemaining = 0
  /\ IF MissingTransportParameters
     THEN status' = "invalid" /\ UNCHANGED <<Pos, Remaining>>
     ELSE MessageDone(MsgLen)
  /\ UNCHANGED <<Buf, IsDraft29, MsgLen, ServerName, ClientAlpnList, PeerTransportParams>>
  /\ UNCHANGED_Extensions
  /\ UNCHANGED <<ClientRandom, FirstRandom>>

\* Fault variant of ReadClientRandom: the header skipped, the version not.
ReadClientRandomNoVersion ==
  /\ status = "success" /\ ClientRandom = NoSlice
  /\ ClientRandom' = <<TLS_MESSAGE_HEADER_LENGTH, TLS_RANDOM_LENGTH>>
  /\ UNCHANGED <<Buf, IsDraft29, Pos, Remaining, MsgLen, ServerName, ClientAlpnList,
                 PeerTransportParams, status, FirstRandom>>
  /\ UNCHANGED_Extensions

(* QuicCryptoTlsReadClientRandom, which the caller runs on the same buffer *)
(* once ReadInitial has returned SUCCESS: the 32 bytes after the message   *)
(* header and the 2-byte version, guarded only by a debug assertion on     *)
(* BufferLength; IsSet.ClientRandom is set.                                *)
ReadClientRandom ==
  /\ status = "success" /\ ClientRandom = NoSlice
  /\ ClientRandom' = <<TLS_MESSAGE_HEADER_LENGTH + 2, TLS_RANDOM_LENGTH>>
  /\ UNCHANGED <<Buf, IsDraft29, Pos, Remaining, MsgLen, ServerName, ClientAlpnList,
                 PeerTransportParams, status, FirstRandom>>
  /\ UNCHANGED_Extensions

Done == status \in {"success", "pending", "invalid", "oob"}

\* ReadInitial has returned; nothing more happens.
Returned == Done /\ UNCHANGED vars

Next ==
  \/ MessagePending \/ NotClientHello
  \/ HelloInvalid \/ HelloNoExtensions \/ HelloExtensions
  \/ ExtensionTruncated \/ SniExtension \/ AlpnExtension
  \/ TransportParametersExtension \/ OtherExtension \/ ExtensionsEnd
  \/ ReadClientRandom
  \/ Returned

\* ReadInitial runs to completion on the caller's thread.
Spec == Init /\ [][Next]_vars

\* The call is never descheduled for good: a step that can happen does.
FairSpec == Spec /\ WF_vars(Next)

-----------------------------------------------------------------------------
NoSliceOrIn(slice) == slice = NoSlice \/ slice[1] + slice[2] <= Len(Buf)

(* The check-then-read discipline of the ingest path (spec 4.2): no read   *)
(* of ReadInitial, ReadClientHello, ReadExtensions or the SNI and ALPN     *)
(* walkers leaves the region its function was given.                      *)
NoReadPastBuffer == status /= "oob"

(* The server name and ALPN list handed to the caller are borrowed slices *)
(* of the input (spec 3): they never reach past the bytes delivered.      *)
BorrowedSlicesInBuffer ==
  NoSliceOrIn(ServerName) /\ NoSliceOrIn(ClientAlpnList)

(* ReadInitial and GetCompleteTlsMessagesLength agree on framing: PENDING  *)
(* is returned exactly at the first incomplete handshake message, after   *)
(* every complete one before it has been read.                            *)
PendingAtFirstIncompleteMessage ==
  status = "pending" => QuicCryptoTlsGetCompleteTlsMessagesLength(Buf) = Pos

(* SUCCESS means an ALPN list was seen and the peer's transport            *)
(* parameters were decoded and accepted, even when the last ClientHello   *)
(* in the buffer has no extension block (spec 4.3, 4.4).                   *)
SuccessMeansTransportParameters ==
  status = "success" =>
    PeerTransportParams = "accepted" /\ ClientAlpnList /= NoSlice

(* The key log gets the client random of the ClientHello that was read:  *)
(* the 32 bytes ReadClientRandom copies at its fixed offset are the Random *)
(* field that ReadClientHello stepped over in the first message (the      *)
(* first of several, whose SNI and ALPN a later one may replace), and lie  *)
(* inside the buffer, which the code only asserts in debug builds.         *)
ClientRandomOfFirstHello ==
  ClientRandom /= NoSlice =>
    /\ ClientRandom = FirstRandom
    /\ ClientRandom[1] + ClientRandom[2] <= Len(Buf)

(* The loops of ReadInitial and ReadExtensions terminate on any input:    *)
(* each iteration steps over a header and its payload, an empty one too,  *)
(* so ReadInitial eventually returns.                                      *)
ReadInitialReturns == <>Done

=============================================================================
