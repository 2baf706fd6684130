----------------------------- MODULE MCFixScript -----------------------------
(***************************************************************************)
(* fix.sh run on a directory holding a C file, a C++ file, a C file whose  *)
(* name has a quote in it (the name is pasted into the python3 -c program, *)
(* which then fails to parse), and src/src/core/reason.h, whose text is    *)
(* given as the scanner would see it.  The C file holds every text of up   *)
(* to four tokens and a few longer ones: nested parentheses, a call that   *)
(* never closes, QuicTraceEventEnabled(...), a name glued to a call.      *)
(***************************************************************************)
EXTENDS ReasonHeader, TLC

MCFiles == {"conn.c", "api.cpp", "log'.c", "reason.h"}
MCExt == ("conn.c" :> "c") @@ ("api.cpp" :> "cpp") @@ ("log'.c" :> "c") @@ ("reason.h" :> "h")
MCPyFails == {"log'.c"}
MCArgs == {"missing", "notdir", "dir"}

ConnTexts ==
  SeqOf(Token, 4)
  \cup { <<Other, QTE, Open, Other, Open, Other, Close, Close, Semi, Other>>,
         <<QTE, Other, Open, Other, Close, Semi, Other>>,
         <<QTE, Open, Other, Semi, Other, Open>>,
         <<Other, QTE, QTE, Open, Close, Semi, QTE, Open, Close>> }

ApiTexts == { <<QTE, Open, Other, Close, Semi, Other>> }

\* The file python3 cannot run on: with a call, or with no mention at all.
LogTexts == { <<QTE, Open, Close, Semi>>, <<Other>> }

MCDisks ==
  { ("conn.c" :> c) @@ ("api.cpp" :> a) @@ ("log'.c" :> l)
      @@ ("reason.h" :> ReasonH) : c \in ConnTexts, a \in ApiTexts, l \in LogTexts }
=============================================================================
