--------------------------- MODULE JsonCandidate ---------------------------
(***************************************************************************)
(* How the JSON value is cut out of a model's answer:                      *)
(* OpenAICompatibleClient._extract_json_candidate and its balanced scan    *)
(* (backend/llm/openai_compatible.py), one character at a time.  An answer *)
(* is some prose, a JSON value and more prose; json.loads succeeds exactly *)
(* when the candidate is the value.                                        *)
(***************************************************************************)
EXTENDS Naturals, Sequences

CONSTANT MaxProse    \* bound: characters of prose before and after the value

ASSUME JsonCandidateAssumption == MaxProse \in Nat

VARIABLE scan

\* the characters the scan tells apart, { } [ ] " \ by their names; x is any other
Openers == {"lbrace", "lbracket"}
Char == Openers \cup {"rbrace", "rbracket", "quote", "backslash", "x"}
Closing(c) == IF c = "lbrace" THEN "rbrace" ELSE "rbracket"

\* values with the nestings and the strings that could mislead the scan
JsonValues == {
  <<"lbrace", "rbrace">>,
  <<"lbrace", "lbracket", "rbracket", "rbrace">>,
  <<"lbracket", "lbrace", "x", "rbrace", "rbracket">>,
  <<"lbrace", "lbrace", "x", "rbrace", "rbrace">>,
  <<"lbrace", "quote", "rbrace", "quote", "rbrace">>,
  <<"lbracket", "quote", "backslash", "quote", "rbracket", "quote", "rbracket">>,
  <<"lbrace", "quote", "backslash", "backslash", "quote", "x", "rbrace">>}

Prose == UNION {[1..n -> Char] : n \in 0..MaxProse}

\* cut: the candidate, once the scan has ended
ScanOf(before, value, after) ==
  [text |-> before \o value \o after, before |-> before, value |-> value, after |-> after,
   at |-> 1, start |-> 0, depth |-> 0, inString |-> FALSE, escape |-> FALSE,
   done |-> FALSE, cut |-> <<>>]

\* _extract_json_candidate on an answer that begins with a bracket: all of it
Wholesale(s) == IF s.text # <<>> /\ s.text[1] \in Openers
                THEN [s EXCEPT !.done = TRUE, !.cut = s.text] ELSE s

ScanInit == \E before \in Prose, value \in JsonValues, after \in Prose :
              scan = Wholesale(ScanOf(before, value, after))

AtChar(c) == scan.at <= Len(scan.text) /\ scan.text[scan.at] = c
More == ~ scan.done /\ scan.at <= Len(scan.text)
Moved == [scan EXCEPT !.at = @ + 1]

\* the first bracket of the answer decides what is counted
FindStart ==
  /\ More /\ scan.start = 0
  /\ scan' = IF scan.text[scan.at] \in Openers
             THEN [Moved EXCEPT !.start = scan.at, !.depth = 1] ELSE Moved

(* Mutant: the quote after a backslash ends the string. *)
InStringUnescaped ==
  /\ More /\ scan.start > 0 /\ scan.inString
  /\ scan' = [Moved EXCEPT !.inString = ~ AtChar("quote")]

InString ==
  /\ More /\ scan.start > 0 /\ scan.inString
  /\ scan' = IF scan.escape THEN [Moved EXCEPT !.escape = FALSE]
             ELSE [Moved EXCEPT !.escape = AtChar("backslash"), !.inString = ~ AtChar("quote")]

\* brackets of the other kind are not counted
Outside ==
  /\ More /\ scan.start > 0 /\ ~ scan.inString
  /\ LET opening == scan.text[scan.start]
     IN  scan' = IF AtChar("quote") THEN [Moved EXCEPT !.inString = TRUE]
                 ELSE IF AtChar(opening) THEN [Moved EXCEPT !.depth = @ + 1]
                 ELSE IF AtChar(Closing(opening)) /\ scan.depth = 1
                 THEN [Moved EXCEPT !.depth = 0, !.done = TRUE,
                                    !.cut = SubSeq(scan.text, scan.start, scan.at)]
                 ELSE IF AtChar(Closing(opening)) THEN [Moved EXCEPT !.depth = @ - 1]
                 ELSE Moved

\* no balanced substring: the whole answer is the candidate
ScanFails ==
  /\ ~ scan.done /\ scan.at > Len(scan.text)
  /\ scan' = [scan EXCEPT !.done = TRUE, !.cut = scan.text]

ScanNext == FindStart \/ InString \/ Outside \/ ScanFails
ScanSpec == ScanInit /\ [][ScanNext]_scan

(****************************** properties ********************************)

ScanTypeOK ==
  /\ scan.text \in Seq(Char) /\ scan.at \in 1..Len(scan.text) + 1
  /\ scan.start \in 0..Len(scan.text) /\ scan.depth \in Nat
  /\ scan.inString \in BOOLEAN /\ scan.escape \in BOOLEAN

\* A value wrapped in prose is found exactly, whatever follows it, so long as the prose
\* before it has no bracket and the answer does not begin with the value and go on after
\* it.  Of the values of JsonValues, whose nestings, quotes and backslashes are those that
\* could mislead the scan.
ValueFound ==
  scan.done /\ (\A k \in DOMAIN scan.before : scan.before[k] \notin Openers)
            /\ (scan.before # <<>> \/ scan.after = <<>>)
    => scan.cut = scan.value
=============================================================================
