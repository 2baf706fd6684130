--------------------------- MODULE ClientHelloSpec ---------------------------
(***************************************************************************)
(* What ReadInitial promises (spec 4.3 and 4.4), stated over the whole     *)
(* buffer at once rather than as the code's walk over it.  The buffer is a *)
(* run of handshake messages; the call is pending when the run stops       *)
(* inside a message, invalid when a message breaks a rule, and a success   *)
(* when every message is a valid ClientHello and an ALPN list was seen.    *)
(* A success carries the Info the caller reads: the first host name of     *)
(* the server_name list and the ALPN list, each the slice of Buf (offset,  *)
(* length) of the last ClientHello that had one.  One step, Decide, takes  *)
(* the call from Running to its outcome.                                   *)
(*                                                                         *)
(* StrictSubParsers selects the server_name and ALPN grammars: TRUE, those *)
(* of spec 4.4 (the outer SNI length is the list's, ALPN entries are       *)
(* 1..255 bytes); FALSE, the looser ones the code enforces (the outer SNI  *)
(* length is only at least 3, a zero-length ALPN entry passes when a byte  *)
(* follows it).  The transport parameters are the reference decoder's.     *)
(***************************************************************************)
EXTENDS Integers, Sequences, FiniteSets

CONSTANTS
  Inputs,              \* the CRYPTO bytes the peer may have delivered
  StrictSubParsers     \* TRUE: the sub-grammars of spec 4.4

VARIABLES
  Buf,                 \* the bytes ReadInitial is called on
  IsDraft29,           \* the connection runs QUIC draft-29
  result               \* Running, then the outcome

vars == <<Buf, IsDraft29, result>>

TP == INSTANCE TpDecodeSpec
        WITH TPBuf <- <<>>, IsServerTP <- FALSE, result <- "none",
             StrictVarIntLength <- FALSE

NoSlice == <<>>
Outcome(st, sni, alpn) == [status |-> st, sni |-> sni, alpn |-> alpn]
Running == Outcome("running", NoSlice, NoSlice)
Failed(st) == Outcome(st, NoSlice, NoSlice)

\* Big-endian fields at 0-based offset i of s, and the n bytes there.
At(s, i) == s[i + 1]
U16At(s, i) == At(s, i) * 256 + At(s, i + 1)
U24At(s, i) == At(s, i) * 65536 + U16At(s, i + 1)
Part(s, i, n) == SubSeq(s, i + 1, i + n)

-----------------------------------------------------------------------------
(* server_name: a u16 list length, then (type, u16 length, name) entries   *)
(* tiling the rest of the payload.                                          *)
RECURSIVE SniEntries(_, _)
SniEntries(s, off) ==
  \/ off = Len(s)
  \/ /\ off + 3 <= Len(s)
     /\ off + 3 + U16At(s, off + 1) <= Len(s)
     /\ SniEntries(s, off + 3 + U16At(s, off + 1))

SniValid(s) ==
  /\ Len(s) >= 2
  /\ U16At(s, 0) >= 3
  /\ StrictSubParsers => U16At(s, 0) = Len(s) - 2
  /\ SniEntries(s, 2)

\* The first host_name (type 0) entry of a valid list, as (offset, length).
RECURSIVE FirstHostName(_, _)
FirstHostName(s, off) ==
  IF off = Len(s) THEN NoSlice
  ELSE IF At(s, off) = 0 THEN <<off + 3, U16At(s, off + 1)>>
  ELSE FirstHostName(s, off + 3 + U16At(s, off + 1))

(* ALPN: a u16 length equal to the rest, then (length, bytes) entries.     *)
RECURSIVE AlpnEntries(_, _)
AlpnEntries(s, off) ==
  \/ off = Len(s)
  \/ LET len == At(s, off)
     IN  /\ StrictSubParsers => len >= 1
         /\ off + 2 <= Len(s) /\ off + 1 + len <= Len(s)
         /\ AlpnEntries(s, off + 1 + len)

AlpnValid(s) ==
  /\ Len(s) >= 4
  /\ U16At(s, 0) = Len(s) - 2
  /\ AlpnEntries(s, 2)

-----------------------------------------------------------------------------
(* The extension block: (u16 type, u16 length, payload) triples tiling it. *)
RECURSIVE Tiles(_, _)
Tiles(blk, off) ==
  \/ off = Len(blk)
  \/ /\ off + 4 <= Len(blk)
     /\ off + 4 + U16At(blk, off + 2) <= Len(blk)
     /\ Tiles(blk, off + 4 + U16At(blk, off + 2))

\* The offsets of the triples of a block that Tiles.
RECURSIVE Triples(_, _)
Triples(blk, off) ==
  IF off = Len(blk) THEN {}
  ELSE {off} \cup Triples(blk, off + 4 + U16At(blk, off + 2))

Payload(blk, o) == Part(blk, o + 4, U16At(blk, o + 2))

\* The type code of the transport parameters for the connection's version.
TransportParametersCode == IF IsDraft29 THEN 65445 ELSE 57

\* The triples of one type; server_name is 0, ALPN 16.
OfType(blk, t) == {o \in Triples(blk, 0) : U16At(blk, o) = t}

ExtensionsValid(blk) ==
  /\ Tiles(blk, 0)
  /\ \A t \in {0, 16, TransportParametersCode} : Cardinality(OfType(blk, t)) <= 1
  /\ OfType(blk, TransportParametersCode) /= {}
  /\ \A o \in OfType(blk, 0) : SniValid(Payload(blk, o))
  /\ \A o \in OfType(blk, 16) : AlpnValid(Payload(blk, o))
  /\ \A o \in OfType(blk, TransportParametersCode) : TP!SpecDecode(Payload(blk, o), FALSE).ok

-----------------------------------------------------------------------------
(* A ClientHello body b: version, random, session id, cipher suites,       *)
(* compression methods, and an optional extension block at ExtStart(b).   *)
CipherSuitesAt(b) == 35 + At(b, 34)
MethodsAt(b) == CipherSuitesAt(b) + 2 + U16At(b, CipherSuitesAt(b))
ExtStart(b) == MethodsAt(b) + 1 + At(b, MethodsAt(b))
HasBlock(b) == Len(b) - ExtStart(b) >= 2
Block(b) == Part(b, ExtStart(b) + 2, U16At(b, ExtStart(b)))

HelloValid(b) ==
  /\ Len(b) >= 35 /\ U16At(b, 0) >= 769
  /\ At(b, 34) <= 32
  /\ Len(b) >= CipherSuitesAt(b) + 2 /\ U16At(b, CipherSuitesAt(b)) % 2 = 0
  /\ Len(b) >= MethodsAt(b) + 1 /\ At(b, MethodsAt(b)) >= 1
  /\ Len(b) >= ExtStart(b)
  /\ HasBlock(b) => /\ Len(b) >= ExtStart(b) + 2 + U16At(b, ExtStart(b))
                    /\ ExtensionsValid(Block(b))

\* The slices of Buf a valid block at Buf offset base hands out.
HostNames(blk, base) ==
  LET named == {o \in OfType(blk, 0) : FirstHostName(Payload(blk, o), 2) /= NoSlice}
  IN  { <<base + o + 4 + FirstHostName(Payload(blk, o), 2)[1],
          FirstHostName(Payload(blk, o), 2)[2]>> : o \in named }
AlpnLists(blk, base) == { <<base + o + 4 + 2, U16At(blk, o + 2) - 2>> : o \in OfType(blk, 16) }

\* A field of Info keeps its value unless the message sets it.
Latest(old, new) == IF new = {} THEN old ELSE CHOOSE x \in new : TRUE

\* The Info after a valid ClientHello whose body starts at base in Buf.
Carried(info, base, b) ==
  IF ~HasBlock(b) THEN info
  ELSE LET at == base + ExtStart(b) + 2
       IN  [info EXCEPT !.sni = Latest(@, HostNames(Block(b), at)),
                        !.alpn = Latest(@, AlpnLists(Block(b), at))]

-----------------------------------------------------------------------------
(* The messages from off on.  A message needs a 4-byte header and, when it *)
(* is a ClientHello, its whole body; a message of another type is refused  *)
(* as soon as its header is there.                                          *)
BodyLength(off) == U24At(Buf, off + 1)
MessagePending(off) ==
  \/ Len(Buf) - off < 4
  \/ At(Buf, off) = 1 /\ Len(Buf) - off < 4 + BodyLength(off)

RECURSIVE Ingest(_, _)
Ingest(off, info) ==
  LET body == Part(Buf, off + 4, BodyLength(off))
      next == off + 4 + BodyLength(off)
      info2 == Carried(info, off + 4, body)
  IN  IF MessagePending(off) THEN Failed("pending")
      ELSE IF At(Buf, off) /= 1 \/ ~HelloValid(body) THEN Failed("invalid")
      ELSE IF next < Len(Buf) THEN Ingest(next, info2)
      ELSE IF info2.alpn = NoSlice THEN Failed("invalid")
      ELSE [info2 EXCEPT !.status = "success"]

ReadInitialOutcome == Ingest(0, Running)

Init ==
  /\ Buf \in Inputs
  /\ IsDraft29 \in BOOLEAN
  /\ result = Running

Decide ==
  /\ result = Running
  /\ result' = ReadInitialOutcome
  /\ UNCHANGED <<Buf, IsDraft29>>

Spec == Init /\ [][Decide]_vars
=============================================================================
