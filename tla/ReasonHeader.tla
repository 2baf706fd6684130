---------------------------- MODULE ReasonHeader ----------------------------
(***************************************************************************)
(* src/src/core/reason.h as fix.sh's scanner sees it: the tokens of        *)
(* FixScript, a '(' ')' ';' or the name QuicTraceEvent each a token, every *)
(* other run of characters one Other token.  The header is no input the    *)
(* compiled code branches on (its enums are data, its macros expand to     *)
(* nothing); what matters for the model is that its stub                   *)
(* "#define QuicTraceEvent(Name, Fmt, ...)" is a call to the scanner, so   *)
(* stripping the header would remove the definition the sources need.    *)
(***************************************************************************)
EXTENDS FixScript

\* Lines 1-12: the licence comment, "(c)" in it, and #pragma once.
ReasonPreamble == <<Other, Open, Other, Close>>

\* Lines 14-76: four typedef enum declarations; a ';' after each, no parenthesis.
ReasonEnums == <<Other, Semi, Other, Semi, Other, Semi, Other, Semi>>

\* Lines 78-92: the QUIC_TRACE_RUNDOWN_CALLBACK typedef and its extern.
ReasonRundown ==
  <<Other, Open, Other, Close, Other, Open, Other, Close,
    Other, Open, Other, Close, Open, Other, Close, Semi, Other, Semi>>

\* Lines 94-125: the stubs.  QuicTraceEventEnabled(Name) FALSE;
\* #define QuicTraceEvent(Name, Fmt, ...) do { } while (0); five
\* QuicTraceLog*Enabled() FALSE; four QuicTraceLog*(Name, Fmt, ...) and
\* eight QuicTraceLogConn*/Stream*(Name, X, Fmt, ...) no-op loops; the two
\* CASTED_CLOG_BYTEARRAY macros.
ReasonStubs ==
  LET times(s, n) == FlattenSeq([k \in 1 .. n |-> s])
  IN  <<Other, QTE, Other, Open, Other, Close, Other>>
      \o <<QTE, Open, Other, Close, Other, Open, Other, Close>>
      \o times(<<Other, Open, Close>>, 5)
      \o times(<<Other, Open, Other, Close, Other, Open, Other, Close>>, 4)
      \o times(<<Other, Open, Other, Close, Other, Open, Other, Close, Semi,
                 Other, Open, Other, Close>>, 8)
      \o times(<<Other, Open, Other, Close, Other, Open, Other, Close,
                 Open, Other, Close, Other, Open, Other, Close, Open, Other, Close>>, 2)
      \o <<Other>>

ReasonH == ReasonPreamble \o ReasonEnums \o ReasonRundown \o ReasonStubs
=============================================================================
