------------------------------ MODULE MCFileText ------------------------------
(***************************************************************************)
(* FileText against what its functions promise, for every text, pattern and *)
(* path that can be typed within the bounds, and the pages of a text that a *)
(* client reads one after the other.                                        *)
(***************************************************************************)
EXTENDS FileText

CONSTANTS Letters,      \* the letters of names
          MaxPattern,   \* bound: the length of a pattern
          MaxPath       \* bound: the length of a path, and of a text

\* No letter is an item of a regular expression.
ASSUME LettersAssumption == Letters \cap {"*", "/", ".", "dirs"} = {}

VARIABLES pattern, path

vars == <<pattern, path>>

\* A path has no empty component, and names no dots alone.
IsPath(p) == \A k \in DOMAIN Components(p) : Components(p)[k] \notin {<<>>, <<".">>, <<".", ".">>}

Init == pattern = <<>> /\ path \in {<<c>> : c \in Letters \cup {"."}}

TypePattern(c) ==
    Len(pattern) < MaxPattern /\ pattern' = Append(pattern, c) /\ UNCHANGED path
TypePath(s) ==
    Len(path) + Len(s) <= MaxPath /\ path' = path \o s /\ IsPath(path') /\ UNCHANGED pattern

Next ==
    \/ \E c \in Letters \cup {"*", "/", "."} : TypePattern(c)
    \/ \E c \in Letters \cup {"."} : TypePath(<<c>>)
    \/ \E c \in Letters \cup {"."} : TypePath(<<"/", c>>)

Spec == Init /\ [][Next]_vars

------------------------------------------------------------------------------
\* What the docstrings of glob and _glob_to_regex promise: a ** component stands for
\* any number of whole components (in the last place for at least one), and a star
\* in the other components for any characters, as in fnmatch.

\* A star is any text, everything else is itself: how much of the text the first i
\* characters of s may take.
Fn(s, text) ==
    LET taken[i \in 0..Len(s)] ==
            IF i = 0 THEN {0}
            ELSE IF s[i] = "*" THEN {j \in 0..Len(text) : \E k \in taken[i - 1] : k <= j}
            ELSE {j \in 1..Len(text) : text[j] = s[i] /\ j - 1 \in taken[i - 1]}
    IN  Len(text) \in taken[Len(s)]

\* The patterns a pattern stands for: each ** gone with its slash, or some components.
Expansion(parts, gone) ==
    FlattenSeq([k \in DOMAIN parts |->
        IF k \in gone THEN <<>>
        ELSE (IF parts[k] = TwoStars THEN <<"*">> ELSE parts[k]) \o Slash(parts, k)])
Optional(parts) == {k \in 1..(Len(parts) - 1) : parts[k] = TwoStars}
Expansions(parts) == {Expansion(parts, gone) : gone \in SUBSET Optional(parts)}

Meant(p, text) == \E e \in Expansions(Components(p)) : Fn(e, text)

\* The regular expression that glob builds matches what its docstrings promise.
GlobAgrees ==
    GlobFinds(path, pattern) <=> Meant(Normalised(pattern), path)

\* Reading page after page, from where the last one ended until none is truncated,
\* collects the whole text, each line once.
Pages(text, limit) ==
    LET f[k \in 0..Len(text)] ==
            Window(text, k * limit, limit) \o
            (IF Truncated(text, k * limit, limit) THEN f[k + 1] ELSE <<>>)
    IN  f[0]
PagesCover == \A limit \in 1..MaxPath : Pages(path, limit) = path

------------------------------------------------------------------------------
\* files_service.py:243: "Normalise pattern to strip leading ./".  It strips every
\* leading dot and slash, also those of a name: .env becomes env.
DotNamesFound == \A c \in Letters : pattern = <<".", c>> /\ path = pattern => GlobFinds(path, pattern)
==============================================================================
