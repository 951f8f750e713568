------------------------------- MODULE FileText -------------------------------
(***************************************************************************)
(* The pure parts of forge.services.files_service: the lines of a text and *)
(* the window of them that read returns, the replacements of edit, and      *)
(* which paths a pattern of glob matches.  A text, a pattern and a path are *)
(* sequences of characters.                                                 *)
(***************************************************************************)
EXTENDS Integers, SequencesExt

------------------------------------------------------------------------------
(* Texts *)

\* The characters that a text is read and cut by, a byte that is no UTF-8, and the
\* replacement character that errors="replace" decodes it to.
LF == "LF"
CR == "CR"
NUL == "NUL"
BAD == "BAD"
MARK == "MARK"

Decoded(text) == [i \in DOMAIN text |-> IF text[i] = BAD THEN MARK ELSE text[i]]

\* The characters at the places I of a text.
Kept(text, I) == FlattenSeq([i \in DOMAIN text |-> IF i \in I THEN <<text[i]>> ELSE <<>>])

\* The universal newlines of read_text: CR LF and CR become LF.
BeforeLF(text, i) == i < Len(text) /\ text[i + 1] = LF
Translated(text) ==
    Kept([i \in DOMAIN text |-> IF text[i] = CR THEN LF ELSE text[i]],
         {i \in DOMAIN text : ~(text[i] = CR /\ BeforeLF(text, i))})

\* str.splitlines, with and without the line ends; CR LF is one of them.
EndsLine(text, i) == text[i] = LF \/ (text[i] = CR /\ ~BeforeLF(text, i))
LineOf(text, i) == Cardinality({j \in 1..(i - 1) : EndsLine(text, j)}) + 1
SplitLines(text) ==
    IF text = <<>> THEN <<>>
    ELSE [k \in 1..LineOf(text, Len(text)) |-> Kept(text, {i \in DOMAIN text : LineOf(text, i) = k})]
Bare(line) == Kept(line, {i \in DOMAIN line : line[i] \notin {LF, CR}})

\* The lines [offset, offset + limit), and whether there are more behind them.
Window(lines, offset, limit) == SubSeq(lines, offset + 1, Min({offset + limit, Len(lines)}))
TruncatedAtEnd(lines, offset, limit) == offset + limit < Len(lines) - 1
Truncated(lines, offset, limit) == offset + limit < Len(lines)

\* str.count and str.replace: where old is found from the left, each time behind the last
\* place; the empty text is found before each character and at the end.
Occurs(text, old, i) == SubSeq(text, i, i + Len(old) - 1) = old
Places(text, old) ==
    LET from[i \in 1..(Len(text) + 2)] ==
            IF i + Len(old) > Len(text) + 1 THEN {}
            ELSE IF Occurs(text, old, i) THEN {i} \cup from[i + Max({Len(old), 1})]
            ELSE from[i + 1]
    IN  from[1]
Substituted(text, places, old, new) ==
    FlattenSeq([i \in 1..(Len(text) + 1) |->
        (IF i \in places THEN new ELSE <<>>) \o
        (IF i > Len(text) \/ \E p \in places : i \in p..(p + Len(old) - 1) THEN <<>> ELSE <<text[i]>>)])
ReplacedFirst(text, old, new) == Substituted(text, {Min(Places(text, old))}, old, new)
Replaced(text, old, new) == Substituted(text, Places(text, old), old, new)

------------------------------------------------------------------------------
(* glob *)

\* str.lstrip("./")
Normalised(pattern) ==
    LET kept == {i \in DOMAIN pattern : pattern[i] \notin {".", "/"}}
    IN  IF kept = {} THEN <<>> ELSE SubSeq(pattern, Min(kept), Len(pattern))

\* The components of a pattern or a path: where its slashes cut it.
Components(s) ==
    LET cut[i \in 1..(Len(s) + 1)] ==
            IF i > Len(s) THEN << <<>> >>
            ELSE IF s[i] = "/" THEN << <<>> >> \o cut[i + 1]
            ELSE << <<s[i]>> \o Head(cut[i + 1]) >> \o Tail(cut[i + 1])
    IN  cut[1]

\* A regular expression is a sequence of items: a character, "*" for .*, and "dirs" for
\* (?:.*/)?.  fnmatch.translate makes one of a component: a run of stars is one .*
\* Its ? and [...] are left out: every character but * is itself.
FnItems(s) ==
    FlattenSeq([i \in DOMAIN s |->
        IF s[i] = "*" /\ i < Len(s) /\ s[i + 1] = "*" THEN <<>> ELSE <<s[i]>>])

TwoStars == <<"*", "*">>

\* _glob_to_regex: ** is "dirs", or .* in the last place; the other components are
\* joined by slashes.
Slash(parts, k) == IF k < Len(parts) THEN <<"/">> ELSE <<>>
PartItemsAnyDepth(parts, k) ==
    IF parts[k] = TwoStars THEN <<"*">> ELSE FnItems(parts[k]) \o Slash(parts, k)
PartItems(parts, k) ==
    IF parts[k] = TwoStars THEN (IF k < Len(parts) THEN <<"dirs">> ELSE <<"*">>)
    ELSE FnItems(parts[k]) \o Slash(parts, k)

RegexItems(pattern) ==
    LET parts == Components(pattern)
    IN  FlattenSeq([k \in DOMAIN parts |-> PartItems(parts, k)])

\* re.fullmatch: the places of a path from which an item leads to one of the places R,
\* from which all the items do, and whether they lead from its start to its end.
Before(item, path, R) ==
    CASE item = "*" -> {j \in 1..(Len(path) + 1) : \E k \in R : j <= k}
      [] item = "dirs" ->
            R \cup {j \in 1..Len(path) : \E k \in j..Len(path) : path[k] = "/" /\ k + 1 \in R}
      [] OTHER -> {j \in 1..Len(path) : path[j] = item /\ j + 1 \in R}
AllBefore(items, path, R) ==
    LET m[i \in 1..(Len(items) + 1)] ==
            IF i > Len(items) THEN R ELSE Before(items[i], path, m[i + 1])
    IN  m[1]
FullMatch(items, path) == 1 \in AllBefore(items, path, {Len(path) + 1})

HasTwoStars(s) == \E i \in 1..(Len(s) - 1) : s[i] = "*" /\ s[i + 1] = "*"

\* _glob_match: without ** the whole pattern goes to fnmatch, to which / is a character
\* like any other.
GlobMatch(path, pattern) ==
    \/ pattern \in {TwoStars, <<"*", "*", "/", "*">>}
    \/ FullMatch(IF HasTwoStars(pattern) THEN RegexItems(pattern) ELSE FnItems(pattern), path)

GlobFinds(path, pattern) == GlobMatch(path, Normalised(pattern))
==============================================================================
