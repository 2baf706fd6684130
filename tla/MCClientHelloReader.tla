------------------------- MODULE MCClientHelloReader -------------------------
(***************************************************************************)
(* The CRYPTO bytes ReadInitial is checked on.  A ClientHello is built     *)
(* from its fields; its extension block is a sequence of up to three       *)
(* extensions drawn from tokens that hit every arm of the dispatcher and   *)
(* every check of the SNI and ALPN walkers.  Around them: ClientHellos     *)
(* that fail each skeleton check, every prefix of a good message, a        *)
(* message of another type, and buffers of two messages.                  *)
(***************************************************************************)
EXTENDS ClientHelloReader

U16Bytes(n) == <<n \div 256, n % 256>>
U24Bytes(n) == <<n \div 65536, (n \div 256) % 256, n % 256>>
Zeros(n) == [i \in 1 .. n |-> 0]

\* A TLS extension: type, length, payload.
Ext(type, payload) == U16Bytes(type) \o U16Bytes(Len(payload)) \o payload

\* A handshake message: type, 24-bit length, body.
Msg(type, body) == <<type>> \o U24Bytes(Len(body)) \o body

\* A ClientHello body: version, random, session id, cipher suites,
\* compression methods, then the raw bytes of the extensions part.
Hello(ver, sid, cs, cm, rest) ==
  U16Bytes(ver) \o Zeros(TLS_RANDOM_LENGTH) \o <<sid>> \o Zeros(sid)
    \o U16Bytes(cs) \o Zeros(cs) \o <<cm>> \o Zeros(cm) \o rest

\* An extension block with its length prefix.
ExtBlock(exts) == U16Bytes(Len(exts)) \o exts

SniOk == Ext(0, <<0, 5, 0, 0, 2, 97, 98>>)
SniTwo == Ext(0, <<0, 8, 9, 0, 1, 120, 0, 0, 1, 97>>)
SniEmpty == Ext(0, <<0, 5>>)                 \* outer length, no entries
SniNoLength == Ext(0, <<0, 3, 0>>)           \* name type, no length field
SniTruncated == Ext(0, <<0, 5, 0, 0, 9, 97>>) \* name longer than the list
AlpnOk == Ext(16, <<0, 3, 2, 104, 50>>)
AlpnZero == Ext(16, <<0, 3, 0, 1, 104>>)     \* a zero-length entry first
AlpnLastZero == Ext(16, <<0, 4, 2, 104, 50, 0>>)
AlpnMismatch == Ext(16, <<0, 9, 2, 104, 50>>)
AlpnTruncated == Ext(16, <<0, 3, 5, 104, 50>>)
TpOk == Ext(TLS_EXTENSION_TYPE_QUIC_TRANSPORT_PARAMETERS, <<1, 1, 5>>)
TpBad == Ext(TLS_EXTENSION_TYPE_QUIC_TRANSPORT_PARAMETERS, <<1, 2, 5>>)
TpDraft == Ext(TLS_EXTENSION_TYPE_QUIC_TRANSPORT_PARAMETERS_DRAFT, <<1, 1, 5>>)
Unknown == Ext(35, <<>>)

Extensions ==
  {SniOk, SniTwo, SniEmpty, SniNoLength, SniTruncated, AlpnOk, AlpnZero,
   AlpnLastZero, AlpnMismatch, AlpnTruncated, TpOk, TpBad, TpDraft, Unknown}

\* Blocks of up to three extensions, then blocks whose last extension is
\* cut short in its header or overruns the block.
BlocksUpTo(n) ==
  LET seqs == UNION { [1 .. k -> Extensions] : k \in 0 .. n }
      cat(f) == IF f = <<>> THEN <<>> ELSE f[1] \o (IF Len(f) > 1 THEN f[2] ELSE <<>>)
                  \o (IF Len(f) > 2 THEN f[3] ELSE <<>>)
  IN  { cat(f) : f \in seqs }
      \cup { AlpnOk \o TpOk \o <<0>>, AlpnOk \o TpOk \o <<0, 35, 0, 9>> }


\* The ClientHello the other inputs are built around.
Good == Msg(TlsHandshake_ClientHello, Hello(TLS1_PROTOCOL_VERSION, 0, 2, 1,
                                             ExtBlock(AlpnOk \o TpOk \o SniOk)))
GoodBody == Hello(TLS1_PROTOCOL_VERSION, 0, 2, 1, ExtBlock(AlpnOk \o TpOk \o SniOk))

\* ClientHellos failing one check of the skeleton, without extensions,
\* with trailing bytes after the block, or with a block past the body.
Skeletons ==
  { Hello(768, 0, 2, 1, <<>>), Hello(TLS1_PROTOCOL_VERSION, 33, 2, 1, <<>>),
    Hello(TLS1_PROTOCOL_VERSION, 0, 3, 1, <<>>), Hello(TLS1_PROTOCOL_VERSION, 0, 2, 0, <<>>),
    Hello(TLS1_PROTOCOL_VERSION, 0, 2, 1, <<>>),
    Hello(TLS1_PROTOCOL_VERSION, 0, 2, 1, <<0>>),
    Hello(TLS1_PROTOCOL_VERSION, 0, 2, 1, ExtBlock(AlpnOk \o TpOk) \o <<7>>),
    Hello(TLS1_PROTOCOL_VERSION, 0, 2, 1, U16Bytes(20) \o AlpnOk) }
  \cup { SubSeq(GoodBody, 1, k) : k \in {1, 20, 34, 35, 37, 38} }

\* Every buffer, with the ClientHellos' blocks drawn from blocks.
InputsWith(blocks) ==
  { Msg(TlsHandshake_ClientHello, Hello(TLS1_PROTOCOL_VERSION, 0, 2, 1, ExtBlock(b))) :
      b \in blocks }
  \cup { Msg(TlsHandshake_ClientHello, b) : b \in Skeletons }
  \cup { SubSeq(Good, 1, k) : k \in 0 .. Len(Good) - 1 }
  \cup { Msg(2, GoodBody) }
  \cup { Good \o m : m \in { Good, Msg(TlsHandshake_ClientHello, Hello(TLS1_PROTOCOL_VERSION, 0, 2, 1, <<>>)),
                             Msg(TlsHandshake_ClientHello, Hello(768, 0, 2, 1, <<>>)),
                             Msg(TlsHandshake_ClientHello,
                                 Hello(TLS1_PROTOCOL_VERSION, 0, 2, 1, ExtBlock(AlpnOk \o TpDraft))),
                             SubSeq(Good, 1, 5),
                             Msg(TlsHandshake_ClientHello,
                                 Hello(TLS1_PROTOCOL_VERSION, 0, 2, 1, ExtBlock(AlpnOk \o TpBad))) } }

MCInputs == InputsWith(BlocksUpTo(3))

\* For the liveness run: blocks of at most one extension.
MCInputsSmall == InputsWith(BlocksUpTo(1))

(* The refinement mapping: the call is Running while the reader walks the  *)
(* buffer; once it returns, the outcome is its status with, on success,    *)
(* the Info it filled in.                                                   *)
ReadInitialResult ==
  [status |-> IF status \in {"message", "extensions"} THEN "running" ELSE status,
   sni    |-> IF status = "success" THEN ServerName ELSE NoSlice,
   alpn   |-> IF status = "success" THEN ClientAlpnList ELSE NoSlice]

Contract == INSTANCE ClientHelloSpec
              WITH result <- ReadInitialResult, StrictSubParsers <- FALSE

(* ReadInitial implements its contract with the sub-grammars the code      *)
(* enforces: every buffer ends pending, invalid or a success exactly as    *)
(* spec 4.3 and 4.4 decide over the whole buffer, and a success hands out  *)
(* the server name and ALPN list of the last ClientHello that carried them.*)
ReadInitialRefinesSpec == Contract!Spec

StrictContract == INSTANCE ClientHelloSpec
                    WITH result <- ReadInitialResult, StrictSubParsers <- TRUE

(* Spec 4.4: the SNI sub-parser rejects a list whose outer length is not   *)
(* the list's ("empty list or any truncation => reject"), and the ALPN     *)
(* sub-parser rejects zero-length entries; with these grammars, ReadInitial *)
(* implements the same whole-buffer contract.                              *)
ReadInitialRefinesStrictSpec == StrictContract!Spec
=============================================================================
