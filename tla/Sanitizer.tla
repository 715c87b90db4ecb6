------------------------------- MODULE Sanitizer -------------------------------
(***************************************************************************)
(* The sanitizer of the command analysis (src/src/ai/sanitizer.py), as     *)
(* operators.  Of a line of history matter where in it one of the          *)
(* INJECTION_PATTERNS matches, if any, and what became of it:              *)
(*   visible  a pattern matches in its first MAX_LINE_LENGTH characters    *)
(*   beyond   a pattern matches only with characters after those           *)
(*   plain    none matches                                                 *)
(***************************************************************************)
EXTENDS Naturals, Sequences

CONSTANT MAX_LINES

ASSUME LimitAssumption == MAX_LINES \in Nat

Line == [text : {"plain", "visible", "beyond"}, no : Nat, cut : BOOLEAN]

CutLine(line) ==
    [line EXCEPT !.text = IF @ = "beyond" THEN "plain" ELSE @, !.cut = TRUE]

limit_length(lines) ==
    [i \in 1 .. (IF Len(lines) < MAX_LINES THEN Len(lines) ELSE MAX_LINES) |->
        CutLine(lines[i])]

(* Mutant of filter_injection_patterns: placeholders count from zero.       *)
filter_injection_patterns_FromZero(lines) ==
    [i \in 1 .. Len(lines) |->
        IF lines[i].text = "plain" THEN lines[i]
        ELSE [text |-> "filtered", no |-> i - 1, cut |-> FALSE]]

filter_injection_patterns(lines) ==
    [i \in 1 .. Len(lines) |->
        IF lines[i].text = "plain" THEN lines[i]
        ELSE [text |-> "filtered", no |-> i, cut |-> FALSE]]

format_numbered_commands(lines) ==
    [i \in 1 .. Len(lines) |-> [number |-> i, line |-> lines[i]]]

(* Both parts of what the code returns: the text of the prompt's block, and *)
(* the lines that the report keeps.                                         *)
sanitize_commands(raw) ==
    LET lines == filter_injection_patterns(limit_length(raw))
    IN  [formatted |-> format_numbered_commands(lines), lines |-> lines]

--------------------------------------------------------------------------------
(* What a model may answer: JSON from end to end, JSON between the first    *)
(* and the last brace of a longer text, or neither; and what the JSON is.   *)
Values == {"verdict", "otherkeys", "badrisk", "nolist", "notobject"}

Response == [form : {"json", "embedded", "none"}, value : Values,
             risk : {"benign", "suspicious", "malicious"}]

(* What is between two braces is an object if it is JSON at all.            *)
Plausible(r) == r.form = "embedded" => r.value # "notobject"

(* validate_llm_response: a verdict that can be used, nothing, or an        *)
(* exception (keys() of what is not an object).                             *)
validate_llm_response(r) ==
    IF r.form = "none" THEN "nothing"
    ELSE CASE r.value = "notobject" -> "raises"
           [] r.value = "verdict"   -> "verdict"
           [] OTHER                 -> "nothing"
================================================================================
