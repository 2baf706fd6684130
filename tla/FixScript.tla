------------------------------ MODULE FixScript ------------------------------
(***************************************************************************)
(* src/fix.sh: the script that strips QuicTraceEvent calls from the C and  *)
(* C++ sources of a directory, so that they build against the no-op trace  *)
(* stubs of src/src/core/reason.h.  The argument checks (lines 4-14), the  *)
(* loop over what find lists (16-48), and, for each file grep selects, the *)
(* embedded Python scanner (19-44), one step per iteration of its loops.   *)
(*                                                                         *)
(* A file's text is a sequence of tokens.  The scanner only tells apart    *)
(* '(', ')', ';' and the 14 characters QuicTraceEvent, so these are tokens *)
(* of their own; any other run of characters is one Other token.  The      *)
(* Python test content[i:i+15] == 'QuicTraceEvent(' is then "a QTE token   *)
(* followed by a '(' token".  The replacement '(void)0;' is written as its *)
(* tokens.  Positions are 0-based, as the Python's i.                      *)
(***************************************************************************)
EXTENDS Integers, Sequences, SequencesExt, FiniteSets

CONSTANTS
  Files,               \* the regular files under DIR
  Ext,                 \* Ext[f]: the file name's extension
  Disks,               \* the texts the files may hold: functions on Files
  PyFails,             \* files on which python3 -c exits with an error
  Args                 \* the arguments the script may be run with

VARIABLES
  arg,                 \* "$1": "missing", "notdir" or "dir"
  files,               \* the text of every file on disk
  pending,             \* the files find has listed and the loop not read
  cur,                 \* the loop's $file
  content, i, depth,   \* the Python scanner's variables
  result,
  pc,                  \* where the script is
  orig                 \* ghost: the files as they were before the script

vars == <<arg, files, pending, cur, content, i, depth, result, pc, orig>>

QTE == "QuicTraceEvent"
Open == "("
Close == ")"
Semi == ";"
Other == "other"
Token == {QTE, Open, Close, Semi, Other}

\* '(void)0;' as tokens.
VoidStmt == <<Open, Other, Close, Other, Semi>>

\* The token at 0-based position n of s.
At(s, n) == s[n + 1]

-----------------------------------------------------------------------------
\* set -e: a failing command in the loop ends the script.
ErrExit == TRUE

\* Fault variant of IsSource: the headers listed as well.
IsSourceOrHeader(f) == Ext[f] \in {"c", "cpp", "h"}

\* find -type f \( -name "*.c" -o -name "*.cpp" \)
IsSource(f) == Ext[f] \in {"c", "cpp"}

\* grep -q "QuicTraceEvent" "$file"
Mentions(f) == Contains(files[f], QTE)

\* Fault variant of CallAt: content[i:i+14] == 'QuicTraceEvent', the '('
\* left out of the test.
CallAtName(s, n) == n < Len(s) /\ At(s, n) = QTE

\* content[i:i+15] == 'QuicTraceEvent('
CallAt(s, n) == n + 1 < Len(s) /\ At(s, n) = QTE /\ At(s, n + 1) = Open

Init ==
  /\ arg \in Args
  /\ files \in Disks
  /\ orig = files
  /\ pending = {}
  /\ cur = CHOOSE f \in Files : TRUE
  /\ content = <<>> /\ i = 0 /\ depth = 0 /\ result = <<>>
  /\ pc = "start"

UNCHANGED_Scanner == UNCHANGED <<content, i, depth, result, orig>>

(* Lines 4-14: no argument, or one that is not a directory, is an error;  *)
(* otherwise find lists the sources, and the loop starts.                 *)
Start ==
  /\ pc = "start"
  /\ IF arg = "dir"
     THEN pc' = "loop" /\ pending' = {f \in Files : IsSource(f)}
     ELSE pc' = "exited" /\ UNCHANGED pending
  /\ UNCHANGED <<arg, files, cur>>
  /\ UNCHANGED_Scanner

(* read -r file yields the next file; grep finds no QuicTraceEvent in it. *)
Skip ==
  /\ pc = "loop"
  /\ \E f \in pending :
       /\ ~Mentions(f)
       /\ pending' = pending \ {f}
       /\ cur' = f
  /\ UNCHANGED <<arg, files, pc>>
  /\ UNCHANGED_Scanner

(* grep matches; python3 -c starts and reads the file (lines 21-25).      *)
Read ==
  /\ pc = "loop"
  /\ \E f \in pending \ PyFails :
       /\ Mentions(f)
       /\ pending' = pending \ {f}
       /\ cur' = f
       /\ content' = files[f]
  /\ i' = 0 /\ result' = <<>>
  /\ pc' = "scan"
  /\ UNCHANGED <<arg, files, depth, orig>>

(* python3 -c exits with an error before it writes: the file is left as   *)
(* it was, and under set -e the script ends.                               *)
PyFail ==
  /\ pc = "loop"
  /\ \E f \in pending \cap PyFails :
       /\ Mentions(f)
       /\ pending' = pending \ {f}
       /\ cur' = f
  /\ pc' = IF ErrExit THEN "exited" ELSE "loop"
  /\ UNCHANGED <<arg, files>>
  /\ UNCHANGED_Scanner

(* Lines 27-29: a call starts at i; skip the name and its '('.            *)
Match ==
  /\ pc = "scan" /\ i < Len(content)
  /\ CallAt(content, i)
  /\ i' = i + 2 /\ depth' = 1
  /\ pc' = "args"
  /\ UNCHANGED <<arg, files, pending, cur, content, result, orig>>

(* Lines 39-41: any other token is copied.                                 *)
Copy ==
  /\ pc = "scan" /\ i < Len(content)
  /\ ~CallAt(content, i)
  /\ result' = Append(result, At(content, i))
  /\ i' = i + 1
  /\ UNCHANGED <<arg, files, pending, cur, content, depth, pc, orig>>

\* Fault variant of ArgStep: i advanced only in the two parenthesis arms.
ArgStepParensOnly ==
  /\ pc = "args" /\ i < Len(content) /\ depth > 0
  /\ depth' = CASE At(content, i) = Open  -> depth + 1
                [] At(content, i) = Close -> depth - 1
                [] OTHER                  -> depth
  /\ i' = IF At(content, i) \in {Open, Close} THEN i + 1 ELSE i
  /\ UNCHANGED <<arg, files, pending, cur, content, result, pc, orig>>

(* Lines 30-35: one token of the call's arguments.                         *)
ArgStep ==
  /\ pc = "args" /\ i < Len(content) /\ depth > 0
  /\ depth' = CASE At(content, i) = Open  -> depth + 1
                [] At(content, i) = Close -> depth - 1
                [] OTHER                  -> depth
  /\ i' = i + 1
  /\ UNCHANGED <<arg, files, pending, cur, content, result, pc, orig>>

(* Lines 36-38: the call ends at its ')' or at the end of the file; a ';' *)
(* right after it is dropped, and '(void)0;' is written in its place.     *)
ArgsEnd ==
  /\ pc = "args" /\ (i >= Len(content) \/ depth = 0)
  /\ i' = IF i < Len(content) /\ At(content, i) = Semi THEN i + 1 ELSE i
  /\ result' = result \o VoidStmt
  /\ pc' = "scan"
  /\ UNCHANGED <<arg, files, pending, cur, content, depth, orig>>

(* Lines 43-46: the scan is over; the file is rewritten with the result.  *)
Write ==
  /\ pc = "scan" /\ i >= Len(content)
  /\ files' = [files EXCEPT ![cur] = result]
  /\ pc' = "loop"
  /\ UNCHANGED <<arg, pending, cur>>
  /\ UNCHANGED_Scanner

(* Line 50: find has nothing more to list.                                 *)
Finish ==
  /\ pc = "loop" /\ pending = {}
  /\ pc' = "done"
  /\ UNCHANGED <<arg, files, pending, cur>>
  /\ UNCHANGED_Scanner

\* The script has ended, after "Done." or with an error.
Ended == pc \in {"done", "exited"} /\ UNCHANGED vars

Next ==
  \/ Start \/ Skip \/ Read \/ PyFail
  \/ Match \/ Copy \/ ArgStep \/ ArgsEnd \/ Write
  \/ Finish \/ Ended

-----------------------------------------------------------------------------
(* The reference: a call is QuicTraceEvent, '(' and the shortest run of    *)
(* tokens after which the parentheses balance, or the rest of the file if  *)
(* they never do, with one ';' after it; it becomes '(void)0;', and every  *)
(* other token stays.                                                       *)
Balance(s, a, b) ==
  LET count(tok) == Cardinality({n \in a .. b - 1 : s[n + 1] = tok})
  IN  count("(") - count(")")

CallEnd(s, n) ==
  LET closes == {e \in n + 2 .. Len(s) : Balance(s, n + 1, e) = 0}
      e == IF closes = {} THEN Len(s) ELSE Min(closes)
  IN  IF e < Len(s) /\ s[e + 1] = ";" THEN e + 1 ELSE e

RECURSIVE StrippedFrom(_, _)
StrippedFrom(s, n) ==
  IF n >= Len(s) THEN <<>>
  ELSE IF n + 1 < Len(s) /\ s[n + 1] = "QuicTraceEvent" /\ s[n + 2] = "("
       THEN <<"(", "other", ")", "other", ";">> \o StrippedFrom(s, CallEnd(s, n))
       ELSE <<s[n + 1]>> \o StrippedFrom(s, n + 1)

Stripped(s) == StrippedFrom(s, 0)

\* The script is one process; whenever it can step, it does.
Spec == Init /\ [][Next]_vars /\ WF_vars(Next)

(* Every file the Python scanner rewrites gets exactly the reference       *)
(* stripping of what it held: the two nested loops of fix.sh lines 26-41  *)
(* remove each call with its arguments and one ';', and nothing else.      *)
StripMatchesReference ==
  [][pc = "scan" /\ pc' = "loop" => files'[cur] = Stripped(files[cur])]_vars

(* When the script prints "Done.", every .c and .cpp file has had its      *)
(* calls stripped and every other file, the trace stubs of reason.h among *)
(* them, is as it was: find's filter keeps the headers out, and set -e     *)
(* keeps a failed rewrite from ending in "Done.".                          *)
CleanedExactlySources ==
  pc = "done" =>
    \A f \in Files :
      files[f] = IF Ext[f] \in {"c", "cpp"} THEN Stripped(orig[f]) ELSE orig[f]

(* The script ends: both scanner loops stop at the end of the file, even  *)
(* inside a call whose parentheses never close.                            *)
ScriptTerminates == <>(pc \in {"done", "exited"})
=============================================================================
