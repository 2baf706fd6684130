----------------------------- MODULE QuicVarInt -----------------------------
(***************************************************************************)
(* QUIC variable-length integers (RFC 9000 section 16): the helpers        *)
(* QuicVarIntSize, QuicVarIntEncode and QuicVarIntDecode that the TLS      *)
(* transport-parameter codec of src/unnamed/part_001 calls.  Their code is *)
(* not under src/ (it lives in quicdef.h of the surrounding stack), so     *)
(* they are modelled from spec section 4.1.                                *)
(*                                                                         *)
(* A varint carries 62 bits and TLC's integers carry 31, so a value is the *)
(* pair <<hi, lo>> standing for hi * 2^31 + lo, with 0 <= hi, lo < 2^31.   *)
(* Bytes are the naturals 0..255 and buffers are sequences of bytes.       *)
(***************************************************************************)
EXTENDS Naturals, Sequences, SequencesExt

\* 2^31 - 1, the largest limb (2^31 itself is beyond TLC).
LimbMax == 2^30 + (2^30 - 1)

Byte == 0 .. 255

\* The value n < 2^31 as a 62-bit pair.
N(n) == <<0, n>>

\* The largest value a varint carries, 2^62 - 1.
VarIntMax == <<LimbMax, LimbMax>>

ULt(a, b) == a[1] < b[1] \/ (a[1] = b[1] /\ a[2] < b[2])

ULe(a, b) == ~ULt(b, a)

\* v * 256 + b, keeping both limbs below 2^31 (valid while v < 2^54).
ShiftIn(v, b) == <<v[1] * 256 + v[2] \div 2^23, (v[2] % 2^23) * 256 + b>>

\* v mod 31, using 2^31 = 2 (mod 31).
UMod31(v) == ((v[1] % 31) * 2 + (v[2] % 31)) % 31

\* Fault variant of ByteAt: the bytes of the high limb left unmasked.
ByteAtNoMask(v, k) ==
  CASE k < 3  -> (v[2] \div 2^(8 * k)) % 256
    [] k = 3  -> v[2] \div 2^24 + (v[1] % 2) * 128
    [] OTHER  -> v[1] \div 2^(8 * (k - 4) + 1)

\* Byte k of v, k = 0 being the least significant.
ByteAt(v, k) ==
  CASE k < 3  -> (v[2] \div 2^(8 * k)) % 256
    [] k = 3  -> v[2] \div 2^24 + (v[1] % 2) * 128
    [] OTHER  -> (v[1] \div 2^(8 * (k - 4) + 1)) % 256

(* QuicVarIntSize: the smallest of the 1/2/4/8-byte forms that holds v.    *)
QuicVarIntSize(v) ==
  CASE ULt(v, N(2^6))  -> 1
    [] ULt(v, N(2^14)) -> 2
    [] ULt(v, N(2^30)) -> 4
    [] OTHER           -> 8

\* The two-bit length prefix of each form.
SizeCode == [n \in {1, 2, 4, 8} |-> CASE n = 1 -> 0 [] n = 2 -> 1
                                      [] n = 4 -> 2 [] n = 8 -> 3]

(* QuicVarIntEncode: the bytes written, big-endian, prefix in the top two  *)
(* bits of the first byte.                                                 *)
QuicVarIntEncode(v) ==
  LET n == QuicVarIntSize(v)
  IN  [i \in 1 .. n |-> ByteAt(v, n - i) + (IF i = 1 THEN 64 * SizeCode[n] ELSE 0)]

\* The length of the varint whose first byte is b.
VarIntLength(b) == 2^(b \div 64)

(* QuicVarIntDecode(len, s, off): read one varint from s at the 0-based    *)
(* offset off, reading nothing at or past len.  On success the offset      *)
(* moves past it; on truncation it fails and the offset stays.             *)
QuicVarIntDecode(len, s, off) ==
  IF len < off + 1
  THEN [ok |-> FALSE, value |-> N(0), next |-> off]
  ELSE LET n == VarIntLength(s[off + 1])
       IN  IF len < off + n
           THEN [ok |-> FALSE, value |-> N(0), next |-> off]
           ELSE [ok    |-> TRUE,
                 value |-> FoldLeft(ShiftIn, N(s[off + 1] % 64),
                                    SubSeq(s, off + 2, off + n)),
                 next  |-> off + n]
=============================================================================
