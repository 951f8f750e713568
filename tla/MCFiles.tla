------------------------------- MODULE MCFiles -------------------------------
\* An instance of FilesService for TLC: two workspaces, the calls that meet each check and
\* each race with a command, from trees with a file, a directory, a spilled log and links.
EXTENDS FilesService

MCOrigin == [c \in {"x1", "y1", "x2", "log", LF, CR, NUL, BAD, MARK} |->
    CASE c \in {"x1", "y1"} -> "ws1" [] c = "x2" -> "ws2" [] c = "log" -> ".forge" [] OTHER -> Anyone]
MCTexts == {<<"y1">>, <<"x1", NUL>>, <<"x1", BAD>>, <<"x2">>}
MCTargets == {<<"ws2">>, <<"ws2", "a">>, <<"ws1", ".forge">>, <<"ws1", "b">>}

MCText == <<"x1", "x1", "x1", CR, "x1">>
MCTree == [l \in Locs |->
    CASE l \in {<<"ws1">>, <<"ws2">>, <<"ws1", "b">>, <<"ws1", ".forge">>} -> Dir
      [] l = <<"ws1", "a">>          -> File(MCText)
      [] l = <<"ws2", "a">>          -> File(<<"x2">>)
      [] l = <<"ws1", ".forge", "a">> -> File(<<"log">>)
      [] OTHER -> None]
NoLinks == [l \in Locs |-> NoLink]

\* In the second tree the file is a link out of the workspace, and in the directory there is
\* one to the reserved directory.
MCTrees ==
    {[tree |-> MCTree, link |-> NoLinks],
     [tree |-> [MCTree EXCEPT ![<<"ws1", "a">>] = None],
      link |-> [NoLinks EXCEPT ![<<"ws1", "a">>] = <<"ws2", "a">>,
                               ![<<"ws1", "b", "a">>] = <<"ws1", ".forge">>]]}

Rel(parts) == [absolute |-> FALSE, parts |-> parts]
MCPaths == {Rel(<<"a">>), Rel(<<"b">>), Rel(<<"b", "a">>), Rel(<<"a", "b">>), Rel(<<".">>),
            Rel(<<"..", "ws2", "a">>), Rel(<<"b", "..", ".forge", "a">>),
            [absolute |-> TRUE, parts |-> <<"a">>]}

ItemOf(p) == [path |-> p, text |-> <<"y1", "x1">>, broken |-> FALSE, old |-> <<"x1", "x1">>, new |-> <<"y1">>]
Call(op, items, via) ==
    [op |-> op, ws |-> "ws1", via |-> via, offset |-> 1, limit |-> 1, all |-> TRUE, items |-> items]
A == ItemOf(Rel(<<"a">>))

\* Every operation on every path, and the transfers of two files, the second of them
\* sound, broken, under a file or the first one again.
Single == {Call(op, <<ItemOf(p)>>, "http") : op \in Ops \ {"glob", "grep"}, p \in MCPaths}
Searches == {Call(op, <<[A EXCEPT !.broken = b]>>, "local") : op \in {"glob", "grep"}, b \in BOOLEAN}
Seconds == {ItemOf(Rel(<<"b", "a">>)), [A EXCEPT !.text = <<"x1">>],
            ItemOf(Rel(<<"a", "b">>)), [ItemOf(Rel(<<"b", "b">>)) EXCEPT !.broken = TRUE]}
Pairs == {Call(op, <<A, i>>, "local") : op \in {"put", "get"}, i \in Seconds}
Variants == {[Call("edit", <<A>>, "local") EXCEPT !.all = FALSE],
             Call("edit", <<[A EXCEPT !.old = <<>>]>>, "http"),
             Call("edit", <<[A EXCEPT !.old = <<"y1">>]>>, "http"),
             [Call("read", <<A>>, "http") EXCEPT !.limit = 0],
             [Call("read", <<A>>, "http") EXCEPT !.offset = -1]}
MCRequests == Single \cup Searches \cup Pairs \cup Variants
Second == ItemOf(Rel(<<"b", "a">>))
MCBatches == {Call("put", <<A, Second>>, "local")} \cup
             {Call("put", <<A, i>>, "http") : i \in {Second, ItemOf(Rel(<<"a", "b">>))}} \cup
             {Call("get", <<i, A>>, "http") : i \in {Second, [Second EXCEPT !.path = Rel(<<"b">>)]}}
==============================================================================
