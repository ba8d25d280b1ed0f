---------------------------- MODULE UpstreamRefs -----------------------------
(***************************************************************************)
(* rewriteBareUpstreamRefs (comment/sanitize.go): a bare "#NNN" becomes    *)
(* "owner/repo#NNN" when an upstream reference has that number, except     *)
(* inside markdown links, code spans and URLs.                             *)
(*                                                                         *)
(* A text is a sequence of tokens: the bytes the scan looks at, a word of  *)
(* bytes that qualify a reference, "https://", "up" for an owner/repo the  *)
(* rewrite puts in, and references, one token each.                        *)
(***************************************************************************)
EXTENDS Naturals, Sequences, FiniteSets

Symbols == {"[", "]", "(", ")", "tick", " ", "word", "https://", "up"}

\* Bytes that qualify the "#" after them; a reference ends with a digit.
Qualifying(numbers) == {"word", "up"} \cup numbers

\* The first position of a token in ts at or after i, or 0.
IndexOf(text, ts, i) ==
  LET found == {j \in i..Len(text) : text[j] \in ts}
  IN IF found = {} THEN 0 ELSE CHOOSE j \in found : \A k \in found : j =< k

\* findMarkdownLinkEnd: past the "[text](url)" at i, or i.
MarkdownLinkEnd(text, i) ==
  LET bracket == IndexOf(text, {"]"}, i + 1)
      paren == IF bracket = 0 THEN 0 ELSE IndexOf(text, {")"}, bracket + 2)
  IN IF bracket > 0 /\ bracket < Len(text) /\ text[bracket + 1] = "(" /\ paren > 0
     THEN paren + 1 ELSE i

\* The end of the run of backticks at i.
RunEnd(text, i) ==
  LET others == {j \in i..Len(text) : text[j] # "tick"}
  IN IF others = {} THEN Len(text) + 1 ELSE CHOOSE j \in others : \A k \in others : j =< k

\* findCodeSpanEnd: past the next run exactly as long as the one at i, or i.
CodeSpanEnd(text, i) ==
  LET start == RunEnd(text, i)
      runs == {j \in (start + 1)..Len(text) :
                 text[j] = "tick" /\ text[j - 1] # "tick" /\ RunEnd(text, j) - j = start - i}
  IN IF runs = {} THEN i ELSE RunEnd(text, CHOOSE j \in runs : \A k \in runs : j =< k)

\* findURLEnd: up to white space or a closing bracket.
URLEnd(text, i) ==
  LET stop == IndexOf(text, {" ", ")", "]"}, i)
  IN IF stop = 0 THEN Len(text) + 1 ELSE stop

\* The end of what is copied unread from i on, or i.
OpaqueEnd(text, i) ==
  CASE text[i] = "[" -> MarkdownLinkEnd(text, i)
    [] text[i] = "tick" -> CodeSpanEnd(text, i)
    [] text[i] = "https://" -> URLEnd(text, i)
    [] OTHER -> i

\* Mutant: what stands before the reference is not looked at.
AnyRef(text, i, numbers) == text[i] \in numbers

BareRef(text, i, numbers) ==
  text[i] \in numbers /\ (i > 1 => text[i - 1] \notin Qualifying(numbers))

\* The scan from i on.  Local hints win over upstream references.
RewriteBareUpstreamRefs(text, numbers, upstream, hints) ==
  LET out[i \in 1..(Len(text) + 1)] ==
        IF i > Len(text) THEN <<>>
        ELSE IF OpaqueEnd(text, i) > i
        THEN SubSeq(text, i, OpaqueEnd(text, i) - 1) \o out[OpaqueEnd(text, i)]
        ELSE IF BareRef(text, i, numbers) /\ text[i] \in upstream \ hints
        THEN <<"up", text[i]>> \o out[i + 1]
        ELSE <<text[i]>> \o out[i + 1]
  IN IF upstream = {} THEN text ELSE out[1]
=============================================================================
