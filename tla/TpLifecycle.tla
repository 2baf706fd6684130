----------------------------- MODULE TpLifecycle -----------------------------
(***************************************************************************)
(* Ownership of the one heap buffer a QUIC_TRANSPORT_PARAMETERS record may *)
(* own, VersionInfo, across the operations that touch it:                  *)
(*   - QuicCryptoTlsDecodeTransportParameters: its preparation (release    *)
(*     the old buffer, zero the record) and its VERSION_NEGOTIATION_EXT    *)
(*     arm (allocate, copy, set the flag and the length);                  *)
(*   - QuicCryptoTlsCopyTransportParameters;                               *)
(*   - QuicCryptoTlsCleanupTransportParameters.                            *)
(* The rest of a record is left out: no operation here reads it.  The      *)
(* allocator is a function from buffer to "free" or "live"; an allocation  *)
(* may fail, whatever its size (CXPLAT_ALLOC_NONPAGED of 0 bytes may       *)
(* return NULL).                                                           *)
(***************************************************************************)
EXTENDS Integers

CONSTANTS
  Records,     \* the QUIC_TRANSPORT_PARAMETERS records of the caller
  Buffers,     \* the addresses the allocator may return
  NULL,        \* the null pointer
  Lengths      \* VersionInfo lengths a decoded blob may have

ASSUME NULL \notin Buffers /\ Lengths \subseteq Nat

\* A decode whose input has no version information parameter.
Absent == -1

VARIABLES
  VersionNegotiation,  \* QUIC_TP_FLAG_VERSION_NEGOTIATION of each record
  VersionInfo,         \* the VersionInfo pointer of each record
  VersionInfoLength,   \* the VersionInfoLength of each record
  heap                 \* the allocator: each buffer is "free" or "live"

vars == <<VersionNegotiation, VersionInfo, VersionInfoLength, heap>>

\* CXPLAT_ALLOC_NONPAGED: NULL, or a buffer that was free and is now live.
Allocations == {NULL} \cup {b \in Buffers : heap[b] = "free"}

Acquire(b) == IF b = NULL THEN heap ELSE [heap EXCEPT ![b] = "live"]

\* CXPLAT_FREE of a pointer the code has tested non-NULL.
Release(h, p) == IF p = NULL THEN h ELSE [h EXCEPT ![p] = "free"]

Init ==
  /\ VersionNegotiation = [r \in Records |-> FALSE]
  /\ VersionInfo = [r \in Records |-> NULL]
  /\ VersionInfoLength = [r \in Records |-> 0]
  /\ heap = [b \in Buffers |-> "free"]

-----------------------------------------------------------------------------
(* QuicCryptoTlsDecodeTransportParameters into r, from an input whose      *)
(* version information parameter has length len, or is Absent.  The       *)
(* preparation frees a non-NULL VersionInfo whatever the flags say and     *)
(* zeroes the record.  The arm allocates Length bytes; when that fails it  *)
(* breaks with VersionInfo NULL and neither flag nor length set; an empty  *)
(* blob sets the flag with a NULL pointer.  Whether the decode is accepted *)
(* or rejected later does not change what the arm left in the record.     *)
Decode(r, len) ==
  LET h == Release(heap, VersionInfo[r])
  IN  IF len = Absent \/ len = 0
      THEN /\ VersionNegotiation' = [VersionNegotiation EXCEPT ![r] = len = 0]
           /\ VersionInfo' = [VersionInfo EXCEPT ![r] = NULL]
           /\ VersionInfoLength' = [VersionInfoLength EXCEPT ![r] = 0]
           /\ heap' = h
      ELSE \E b \in {NULL} \cup {x \in Buffers : h[x] = "free"} :
             /\ VersionInfo' = [VersionInfo EXCEPT ![r] = b]
             /\ VersionNegotiation' = [VersionNegotiation EXCEPT ![r] = b /= NULL]
             /\ VersionInfoLength' =
                  [VersionInfoLength EXCEPT ![r] = IF b = NULL THEN 0 ELSE len]
             /\ heap' = IF b = NULL THEN h ELSE [h EXCEPT ![b] = "live"]

\* Fault variant of Copy: the shallow copy only, the buffer not duplicated.
CopyShallow(s, d) ==
  /\ s /= d
  /\ VersionNegotiation' = [VersionNegotiation EXCEPT ![d] = VersionNegotiation[s]]
  /\ VersionInfo' = [VersionInfo EXCEPT ![d] = VersionInfo[s]]
  /\ VersionInfoLength' = [VersionInfoLength EXCEPT ![d] = VersionInfoLength[s]]
  /\ UNCHANGED heap

(* QuicCryptoTlsCopyTransportParameters(s, d): '*Destination = *Source',   *)
(* then, when the flag is set, a new buffer of Source's length for         *)
(* Destination.  On OUT_OF_MEMORY Destination keeps Source's flag and      *)
(* length with a NULL VersionInfo.  Destination's own buffer is not freed. *)
Copy(s, d) ==
  /\ s /= d
  /\ VersionNegotiation' = [VersionNegotiation EXCEPT ![d] = VersionNegotiation[s]]
  /\ VersionInfoLength' = [VersionInfoLength EXCEPT ![d] = VersionInfoLength[s]]
  /\ IF VersionNegotiation[s]
     THEN \E b \in Allocations :
            /\ VersionInfo' = [VersionInfo EXCEPT ![d] = b]
            /\ heap' = Acquire(b)
     ELSE /\ VersionInfo' = [VersionInfo EXCEPT ![d] = VersionInfo[s]]
          /\ UNCHANGED heap

\* Fault variant of Cleanup: the buffer freed but the pointer kept.
CleanupNoReset(r) ==
  /\ VersionNegotiation[r]
  /\ heap' = Release(heap, VersionInfo[r])
  /\ VersionInfoLength' = [VersionInfoLength EXCEPT ![r] = 0]
  /\ VersionNegotiation' = [VersionNegotiation EXCEPT ![r] = FALSE]
  /\ UNCHANGED VersionInfo

(* QuicCryptoTlsCleanupTransportParameters(r): only when the flag is set,  *)
(* free a non-NULL VersionInfo and clear pointer, length and flag; without *)
(* the flag the call changes nothing (a stuttering step).                  *)
Cleanup(r) ==
  /\ VersionNegotiation[r]
  /\ heap' = Release(heap, VersionInfo[r])
  /\ VersionInfo' = [VersionInfo EXCEPT ![r] = NULL]
  /\ VersionInfoLength' = [VersionInfoLength EXCEPT ![r] = 0]
  /\ VersionNegotiation' = [VersionNegotiation EXCEPT ![r] = FALSE]

Next ==
  \E r, d \in Records :
    \/ \E len \in Lengths \cup {Absent} : Decode(r, len)
    \/ Copy(r, d)
    \/ Cleanup(r)

Spec == Init /\ [][Next]_vars

-----------------------------------------------------------------------------
TypeOK ==
  /\ VersionNegotiation \in [Records -> BOOLEAN]
  /\ VersionInfo \in [Records -> Buffers \cup {NULL}]
  /\ VersionInfoLength \in [Records -> Lengths \cup {0}]
  /\ heap \in [Buffers -> {"free", "live"}]

(* No VersionInfo pointer dangles: every non-NULL pointer a record holds   *)
(* is a live allocation, so the free in a later decode or cleanup never    *)
(* releases a buffer twice and no copy reads freed memory.                 *)
EveryPointerLive ==
  \A r \in Records : VersionInfo[r] /= NULL => heap[VersionInfo[r]] = "live"

(* The spec's ownership rule: each record exclusively owns its VersionInfo *)
(* buffer.  Copy shares a pointer only if the source holds one without the *)
(* flag, which decode and cleanup must never leave behind.                 *)
ExclusiveOwnership ==
  \A p, q \in Records :
    p /= q /\ VersionInfo[p] /= NULL => VersionInfo[p] /= VersionInfo[q]

(* The spec's data-model invariant (flag set => field initialized) and its *)
(* rule that an error path never partially mutates the caller's record: a  *)
(* record flagged with a non-empty VersionInfo owns a buffer for it.       *)
VersionInfoOwnedWhenFlagged ==
  \A r \in Records :
    VersionNegotiation[r] /\ VersionInfoLength[r] > 0 => VersionInfo[r] /= NULL

(* The spec: "on overwrite or teardown it is released exactly once": every *)
(* live buffer is the VersionInfo of some record, so none is leaked.       *)
NoLeak ==
  \A b \in Buffers : heap[b] = "live" => \E r \in Records : VersionInfo[r] = b
=============================================================================
