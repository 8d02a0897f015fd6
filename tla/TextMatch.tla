----------------------------- MODULE TextMatch ------------------------------
(* parser_utils_strcmpi and reference/parser: comparing a stream with a      *)
(* string, one character at a time.  The state of a comparison is how many  *)
(* characters have matched, NEQ once one did not.  A string is written here *)
(* as its first character, which does not occur in the rest of it unless it *)
(* does in the code's, and one or two more that stand for the rest.         *)
EXTENDS Integers, Sequences

NEQ == -1

\* parser_feed: a comparison that failed, or was complete, stays failed.
Compare(string, k, b) ==
  IF k \in 0 .. Len(string) - 1 /\ string[k + 1] = b THEN k + 1 ELSE NEQ

EQ(string, k) == k = Len(string)

\* parser_reset after a mismatch: the character itself is not looked at again.
Restarted(k) == IF k = NEQ THEN 0 ELSE k

CR == 13
LF == 10
EmptyLine == <<CR, LF, CR, LF>>
=============================================================================
