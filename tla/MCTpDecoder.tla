---------------------------- MODULE MCTpDecoder ----------------------------
(***************************************************************************)
(* Model-checks TpDecoder on every concatenation of at most MaxParams      *)
(* parameters drawn from Tokens (module TpTokens), for a client and a      *)
(* server peer.  Tokens are encoded parameters at the edges of each rule:  *)
(* every id class, each range bound and the value just past it,           *)
(* non-minimal and padded varint payloads, truncated headers and lengths   *)
(* that overrun or wrap uint16.                                            *)
(***************************************************************************)
EXTENDS TpDecoder, TpTokens

CONSTANT MaxParams

MCInputs == TokenBuffers(MaxParams)

\* The refinement mapping: the decoder's answer once it has returned.
DecodeResult ==
  CASE status \in {"start", "loop"} -> [state |-> "pending", tp |-> TpZero]
    [] status = "accepted" -> [state |-> "accepted", tp |-> TransportParams]
    [] OTHER -> [state |-> "rejected", tp |-> TpZero]

Abs == INSTANCE TpDecodeSpec WITH result <- DecodeResult, StrictVarIntLength <- FALSE

Strict == INSTANCE TpDecodeSpec WITH result <- DecodeResult, StrictVarIntLength <- TRUE

(* The decoder implements the spec's decode contract: it accepts exactly  *)
(* the blobs the contract accepts (each id below 64 at most once, lengths  *)
(* inside the buffer, every per-id shape, range and server-only rule,      *)
(* min_ack_delay <= max_ack_delay) and fills the record the contract       *)
(* describes, defaults included; varint payloads longer than their varint  *)
(* are allowed (see DecodeRefinesStrictSpec).                              *)
DecodeRefinesSpec == Abs!SafetySpec

(* The spec's stricter reading: an integer-valued parameter's varint fills *)
(* its length exactly (spec 4.5, "helper enforces that the decoded         *)
(* varint's size equals length").                                          *)
DecodeRefinesStrictSpec == Strict!SafetySpec
=============================================================================
