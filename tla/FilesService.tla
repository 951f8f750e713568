----------------------------- MODULE FilesService -----------------------------
(***************************************************************************)
(* forge.services.files_service over the trees of the workspaces, with the  *)
(* routes and the HTTP client in front of it, and the LangChain adapter     *)
(* that transfers several files.                                            *)
(*                                                                          *)
(* A call of the service blocks the event loop, so calls never overlap; but *)
(* commands run in the containers meanwhile, on the same trees, and put     *)
(* symbolic links into them.  A call therefore takes a step for its checks, *)
(* and others for what it does with their result, for each file.  A batch   *)
(* of the adapter is a call for each of its files, and over HTTP the calls  *)
(* of other clients come in between.  The patterns of a search are in       *)
(* module FileText: here a search finds all it walks.                       *)
(***************************************************************************)
EXTENDS FileText

CONSTANTS
    Workspaces,   \* workspace ids, the names of their directories
    Names,        \* names in a workspace
    Meta,         \* the reserved name, .forge
    Origin,       \* where each character comes from: a workspace, Meta or Anyone
    MaxRead,      \* _MAX_READ_BYTES, in characters
    ReadLimit,    \* _DEFAULT_READ_LIMIT
    Requests,     \* the calls that clients make
    Batches,      \* the transfers that the adapter makes
    Texts,        \* the texts commands write
    Targets,      \* bound: where links lead to
    InitialTrees, \* the trees and the links the workspaces may have at first
    Refusing,     \* whether the file system may refuse an operation, or break it off
    MaxCalls,     \* bound: how many calls are made
    MaxBatches,   \* bound: how many transfers the adapter makes
    MaxEdits      \* bound: how often commands write

Chars == DOMAIN Origin
Anyone == "anyone"
Dots == {".", ".."}
Ops == {"put", "get", "read", "edit", "delete", "ls", "glob", "grep"}

\* Where a file or a directory may be: in a workspace, at most two names deep.
Locs == {<<w>> : w \in Workspaces} \cup (Workspaces \X Names) \cup (Workspaces \X Names \X Names)

None == [kind |-> "none", text |-> <<>>]
Dir == [kind |-> "dir", text |-> <<>>]
File(text) == [kind |-> "file", text |-> text]
NoLink == <<>>
Nodes == {n \in [kind : {"none", "dir", "file"}, text : Seq(Chars)] : n.kind # "file" => n.text = <<>>}

\* Paths are absolute or a sequence of names and dots; an item of a request is a path with
\* what the operation needs: the text of a put (broken if it is no base64, or if the pattern
\* of a search is none), or a text to look for and its replacement.
Paths == [absolute : BOOLEAN, parts : Seq(Names \cup Workspaces \cup Dots)]
Items == [path : Paths, text : Seq(Chars), broken : BOOLEAN, old : Seq(Chars), new : Seq(Chars)]

\* Each text is from somewhere, and what a client sends is of its workspace at first.
From(text, origins) == \A i \in DOMAIN text : Origin[text[i]] \in origins \cup {Anyone}
AllRequests ==
    {q \in [op : Ops, ws : Workspaces, via : {"local", "http"}, all : BOOLEAN,
            offset : Int, limit : Nat, items : Seq(Items) \ {<<>>}] :
        \A i \in DOMAIN q.items : From(q.items[i].text, {q.ws}) /\ From(q.items[i].new, {q.ws})}
Reserved(loc) == Len(loc) > 1 /\ loc[2] = Meta
Belongs(t) == \A l \in Locs : From(t[l].text, IF Reserved(l) THEN {l[1], Meta} ELSE {l[1]})

\* No workspace is a link, and no link leads to another one.
Unchained(links) ==
    /\ \A w \in Workspaces : links[<<w>>] = NoLink
    /\ \A l \in Locs : links[l] # NoLink => links[links[l]] = NoLink

ASSUME FilesAssumption ==
    /\ Meta \in Names /\ (Names \cup Workspaces) \cap Dots = {}
    /\ {LF, CR, NUL, BAD, MARK} \subseteq Chars /\ \A c \in {LF, CR, NUL, BAD, MARK} : Origin[c] = Anyone
    /\ Requests \cup Batches \subseteq AllRequests /\ \A q \in Batches : q.op \in {"put", "get"}
    /\ Texts \subseteq Seq(Chars) /\ Targets \subseteq Locs /\ \A t \in Targets : Len(t) <= 2
    /\ \A i \in InitialTrees :
          /\ i.tree \in [Locs -> Nodes] /\ Belongs(i.tree)
          /\ i.link \in [Locs -> Targets \cup {NoLink}] /\ Unchained(i.link)
    /\ Refusing \in BOOLEAN /\ MaxRead \in Nat /\ ReadLimit \in Nat
    /\ MaxCalls \in Nat /\ MaxBatches \in Nat /\ MaxEdits \in Nat

VARIABLES
    tree,     \* what is at each location
    link,     \* where the link at a location leads to, or NoLink
    call,     \* the call in progress, or Idle
    batch,    \* the transfer of the adapter that is in progress or was the last
    answer,   \* the answer to the last call, or NoAnswer
    calls,    \* how many calls there were, but for those of a batch
    batches,  \* how many batches there were
    edits,    \* how often commands have written
    before,   \* history: the tree when the call began
    touched,  \* history: where commands have changed something since then
    swapped,  \* history: where they have put a link or taken one away
    crossed   \* history: whether a call has ever followed a link that it did not check

vars == <<tree, link, call, batch, answer, calls, batches, edits, before, touched, swapped, crossed>>
countVars == <<link, calls, batches, edits, before, touched, swapped>>

Idle == [at |-> "idle"]
NoAnswer == [res |-> "none"]
NoBatch == [at |-> "none"]

IsFile(l) == l \in Locs /\ tree[l].kind = "file"
IsDir(l) == l \in Locs /\ tree[l].kind = "dir"
Exists(l) == IsFile(l) \/ IsDir(l)
IsLink(l) == l \in Locs /\ link[l] # NoLink
Vacant(l) == ~Exists(l) /\ ~IsLink(l)
Parent(l) == Front(l)
Above(l) == {m \in Locs : IsPrefix(m, l) /\ m # l}
Children(l) == {m \in Locs : Len(m) = Len(l) + 1 /\ IsPrefix(l, m) /\ ~Vacant(m)}

------------------------------------------------------------------------------
(* Paths and links *)

\* Path.resolve() on <root>/<path>, from the directory of the workspaces on, and the checks
\* of its result.
Followed(loc) == IF IsLink(loc) THEN link[loc] ELSE loc
ResolveUnfollowed(loc, part) == CASE part = "." -> loc
                                  [] part = ".." -> IF loc = <<>> THEN loc ELSE Front(loc)
                                  [] OTHER -> Append(loc, part)
Resolve(loc, part) == CASE part = "." -> loc
                        [] part = ".." -> IF loc = <<>> THEN loc ELSE Front(loc)
                        [] OTHER -> Followed(Append(loc, part))
Resolved(w, path) ==
    LET to[i \in 0..Len(path.parts)] == IF i = 0 THEN <<w>> ELSE Resolve(to[i - 1], path.parts[i])
    IN  to[Len(path.parts)]

WithinUnchecked(w, loc) == TRUE
Within(w, loc) == IsPrefix(<<w>>, loc)

\* The refusal of a path, "" if there is none.
Refusal(w, path) ==
    IF path.absolute THEN "path_escape"
    ELSE IF ~IsDir(<<w>>) THEN "workspace_error"
    ELSE IF ~Within(w, Resolved(w, path)) \/ Reserved(Resolved(w, path)) THEN "path_escape"
    ELSE ""

\* Where the operating system gets to from a location: through the links above it, and
\* through the one that is there unless it is to be removed.  A workspace is no link.
LedAbove(l) == IF Len(l) < 3 THEN l ELSE Append(Followed(Front(l)), Last(l))
Led(l) == Followed(LedAbove(l))

------------------------------------------------------------------------------
(* Calls and their answers *)

\* app.py answers the errors of Forge with a code and everything else with a bare 500;
\* http_client turns a code back into the exception, and the rest into a ForgeError.
OverHttp(error) == IF error = "other_error" THEN "forge_error" ELSE error
SeenAs(error) == IF call.q.via = "http" THEN OverHttp(error) ELSE error

\* The adapter makes a call for each file and keeps its outcome; it catches WorkspaceError,
\* which a PathEscapeError is too, and every other exception ends the batch.
Caught == {"workspace_error", "path_escape"}
AfterFile(res, out) ==
    LET text == IF out = <<>> THEN <<>> ELSE out[1]
        outcomes == Append(batch.out, [res |-> res, text |-> text])
    IN  IF res \notin Caught \cup {"ok"} THEN [batch EXCEPT !.at = "raised", !.out = <<>>]
        ELSE [batch EXCEPT !.out = outcomes, !.next = @ + 1,
                           !.at = IF batch.next = Len(batch.q.items) THEN "returned" ELSE "on"]

Answer(res, out, value) ==
    /\ answer' = [q |-> call.q, res |-> res, out |-> out, value |-> value]
    /\ batch' = IF call.batched THEN AfterFile(res, out) ELSE batch
    /\ call' = Idle
Return(value) == Answer("ok", <<>>, value)
Raise(error) == Answer(SeenAs(error), <<>>, <<>>)

\* One of several files is done, and on to the next.  An error ends the call, and what it
\* has so far is lost.
FileDone(text) ==
    LET out == Append(call.out, text) IN
    IF call.next = Len(call.q.items) THEN Answer("ok", out, <<>>)
    ELSE /\ call' = [call EXCEPT !.next = @ + 1, !.out = out, !.at = "check"]
         /\ UNCHANGED <<batch, answer>>

Item == call.q.items[call.next]
Loc == Resolved(call.q.ws, Item.path)
At(op, stage) == call # Idle /\ call.q.op = op /\ call.at = stage
On(next) == call' = next /\ UNCHANGED <<batch, answer>>
Then(stage) == On([call EXCEPT !.at = stage])
Checked(stage) == On([call EXCEPT !.at = stage, !.target = Loc])

\* What the path leads to by now, and whether that is still what was checked.
Here == IF call.at \in {"rmdir", "unlink"} THEN LedAbove(call.target) ELSE Led(call.target)
Diverted == call.at \in {"act", "read", "list", "rmdir", "unlink"} /\ Here # call.target

Start(q, batched) ==
    /\ call = Idle
    /\ call' = [q |-> q, batched |-> batched, next |-> 1, at |-> "check", target |-> <<q.ws>>,
                out |-> <<>>, held |-> <<>>, listed |-> {}]
    /\ answer' = NoAnswer
    /\ before' = tree /\ touched' = {} /\ swapped' = {}
    /\ UNCHANGED <<tree, link, batches, edits, crossed>>

\* A local client has the loop to itself: none of its calls ever lets go of it.
Begin(q) ==
    /\ calls < MaxCalls /\ ~(batch.at = "on" /\ batch.q.via = "local")
    /\ Start(q, FALSE) /\ calls' = calls + 1 /\ UNCHANGED batch
BeginBatch(q) ==
    /\ batches < MaxBatches /\ call = Idle /\ batch.at # "on"
    /\ batch' = [q |-> q, next |-> 1, out |-> <<>>, at |-> "on"] /\ batches' = batches + 1
    /\ UNCHANGED <<tree, link, call, answer, calls, edits, before, touched, swapped, crossed>>
BeginFile ==
    /\ batch.at = "on"
    /\ Start([batch.q EXCEPT !.items = <<batch.q.items[batch.next]>>], TRUE)
    /\ UNCHANGED <<calls, batch>>

------------------------------------------------------------------------------
(* write, upload_files *)

\* The bound of the locations is one of what is written, too.
PutCheckSkipping ==
    /\ At("put", "check")
    /\ LET refusal == Refusal(call.q.ws, Item.path) IN
       \/ refusal # "" /\ Raise(refusal)
       \/ refusal = "" /\ Item.broken /\ FileDone(<<>>)
       \/ refusal = "" /\ ~Item.broken /\ Loc \in Locs /\ Checked("mkdir")
    /\ UNCHANGED <<tree, countVars>>
PutCheck ==
    /\ At("put", "check")
    /\ LET refusal == Refusal(call.q.ws, Item.path) IN
       \/ refusal # "" /\ Raise(refusal)
       \/ refusal = "" /\ Item.broken /\ Raise("workspace_error")
       \/ refusal = "" /\ ~Item.broken /\ Loc \in Locs /\ Checked("mkdir")
    /\ UNCHANGED <<tree, countVars>>

\* The missing directories above the file; mkdir makes none of a link to nothing.
MkDir ==
    /\ At("put", "mkdir")
    /\ \/ /\ (\E m \in Above(call.target) : ~IsDir(Led(m)) /\ ~Vacant(m)) \/ Refusing
          /\ Raise("other_error") /\ UNCHANGED tree
       \/ /\ \A m \in Above(call.target) : IsDir(Led(m)) \/ Vacant(m)
          /\ tree' = [m \in Locs |-> IF m \in Above(call.target) /\ Vacant(m) THEN Dir ELSE tree[m]]
          /\ Then("act")
    /\ UNCHANGED countVars

\* The file is emptied, and then written; an error in between leaves a part of it.
Writable(l) == ~IsDir(l) /\ IsDir(Parent(l))
Cut(text) == {SubSeq(text, 1, k) : k \in 0..(Len(text) - 1)}
BreaksOff(l, text) ==
    /\ \/ UNCHANGED tree /\ (Refusing \/ ~Writable(l))
       \/ Refusing /\ Writable(l) /\ \E part \in Cut(text) : tree' = [tree EXCEPT ![l] = File(part)]
    /\ Raise("other_error")

Put ==
    /\ At("put", "act")
    /\ \/ Writable(Here) /\ tree' = [tree EXCEPT ![Here] = File(Item.text)] /\ FileDone(<<>>)
       \/ BreaksOff(Here, Item.text)
    /\ UNCHANGED countVars

------------------------------------------------------------------------------
(* download_files, read *)

Check(op, fits, stage) ==
    /\ At(op, "check")
    /\ LET refusal == Refusal(call.q.ws, Item.path) IN
       IF refusal # "" THEN Raise(refusal)
       ELSE IF fits THEN Checked(stage) ELSE Raise("workspace_error")
    /\ UNCHANGED <<tree, countVars>>

GetCheck == Check("get", IsFile(Loc), "act")
Get ==
    /\ At("get", "act")
    /\ \/ IsFile(Here) /\ FileDone(tree[Here].text)
       \/ (~IsFile(Here) \/ Refusing) /\ Raise("other_error")
    /\ UNCHANGED <<tree, countVars>>

\* A directory, a missing file and one that is too long are errors.
ReadCheck == Check("read", IsFile(Loc) /\ Len(tree[Loc].text) <= MaxRead, "act")

\* The route and the local client put the default where no limit is given.
Limit == IF call.q.limit = 0 THEN ReadLimit ELSE call.q.limit
Content(text) == FlattenSeq(Window(SplitLines(Decoded(text)), call.q.offset, Limit))

Read ==
    /\ At("read", "act")
    /\ \/ (~IsFile(Here) \/ Refusing) /\ Raise("other_error")
       \/ /\ IsFile(Here)
          /\ IF Contains(tree[Here].text, NUL) \/ call.q.offset < 0 THEN Raise("workspace_error")
             ELSE Return(Content(tree[Here].text))
    /\ UNCHANGED <<tree, countVars>>

------------------------------------------------------------------------------
(* edit *)

EditCheck == Check("edit", IsFile(Loc), "read")

\* What is no UTF-8 is an error of another kind.  The old text must be in the file, and only
\* once unless all occurrences are meant.
EditRead ==
    /\ At("edit", "read")
    /\ \/ (Refusing \/ ~IsFile(Here) \/ Contains(tree[Here].text, BAD)) /\ Raise("other_error")
       \/ /\ IsFile(Here) /\ ~Contains(tree[Here].text, BAD)
          /\ LET text == Translated(tree[Here].text)
                 n == Cardinality(Places(text, Item.old))
             IN  IF n = 0 \/ (n > 1 /\ ~call.q.all) THEN Raise("workspace_error")
                 ELSE On([call EXCEPT !.at = "act", !.held = text])
    /\ UNCHANGED <<tree, countVars>>

\* The file is written as it was read, with the replacements, whatever became of it.
Edit ==
    /\ At("edit", "act")
    /\ LET text == Replaced(call.held, Item.old, Item.new) IN
       \/ /\ Writable(Here) /\ tree' = [tree EXCEPT ![Here] = File(text)]
          /\ Return(Cardinality(Places(call.held, Item.old)))
       \/ BreaksOff(Here, text)
    /\ UNCHANGED countVars

------------------------------------------------------------------------------
(* delete *)

\* What is not there is deleted already; the root never is.
DeleteCheck ==
    /\ At("delete", "check")
    /\ LET refusal == Refusal(call.q.ws, Item.path) IN
       IF refusal # "" THEN Raise(refusal)
       ELSE IF Loc = <<call.q.ws>> THEN Raise("workspace_error")
       ELSE IF ~Exists(Loc) THEN Return(<<>>)
       ELSE Checked(IF IsDir(Loc) THEN "rmdir" ELSE "unlink")
    /\ UNCHANGED <<tree, countVars>>

\* Every error of rmdir is taken for a directory that is not empty.
RemoveTree ==
    tree' = [m \in Locs |-> IF IsPrefix(Here, m) THEN None ELSE tree[m]] /\ Return(<<>>) /\ UNCHANGED link
RemoveDir ==
    \/ /\ IsDir(Here) /\ Children(Here) = {}
       /\ tree' = [tree EXCEPT ![Here] = None] /\ Return(<<>>) /\ UNCHANGED link
    \/ /\ ~IsDir(Here) \/ Children(Here) # {} \/ Refusing
       /\ Raise("workspace_error") /\ UNCHANGED <<tree, link>>

\* A link that has come in the place of the file is unlinked itself.
RemoveFile ==
    \/ /\ IsFile(Here) \/ IsLink(Here)
       /\ tree' = [tree EXCEPT ![Here] = None] /\ link' = [link EXCEPT ![Here] = NoLink]
       /\ Return(<<>>)
    \/ /\ ~(IsFile(Here) \/ IsLink(Here)) \/ Refusing
       /\ Raise("other_error") /\ UNCHANGED <<tree, link>>

Delete ==
    /\ \/ At("delete", "rmdir") /\ RemoveDir
       \/ At("delete", "unlink") /\ RemoveFile
    /\ UNCHANGED <<calls, batches, edits, before, touched, swapped>>

------------------------------------------------------------------------------
(* ls, glob, grep *)

LsCheck == Check("ls", IsDir(Loc), "list")

\* The names in the directory, as they are below the path that was checked.
List ==
    /\ At("ls", "list")
    /\ \/ /\ IsDir(Here)
          /\ On([call EXCEPT !.at = "act", !.listed =
                    {m \in Locs : /\ Len(m) = Len(call.target) + 1 /\ IsPrefix(call.target, m)
                                  /\ Append(Here, Last(m)) \in Children(Here)}])
       \/ (~IsDir(Here) \/ Refusing) /\ Raise("other_error")
    /\ UNCHANGED <<tree, countVars>>

\* Each child that was listed is looked at, through its link; one that has gone, or whose
\* link leads nowhere, raises.
Ls ==
    /\ At("ls", "act")
    /\ LET shown == {m \in call.listed : ~Reserved(m)} IN
       \/ (\A m \in shown : Exists(Led(m))) /\ Return(shown)
       \/ ((\E m \in shown : ~Exists(Led(m))) \/ Refusing) /\ Raise("other_error")
    /\ UNCHANGED <<tree, countVars>>

\* glob and grep walk the whole tree, but for the reserved directory; links are walked, not
\* followed.
Walked(w) == {m \in Locs : Len(m) > 1 /\ m[1] = w /\ ~Vacant(m) /\ ~Reserved(m)}
Walk ==
    /\ call # Idle /\ call.q.op \in {"glob", "grep"} /\ call.at = "check"
    /\ IF (call.q.op = "grep" /\ Item.broken) \/ ~IsDir(<<call.q.ws>>) THEN Raise("workspace_error")
       ELSE On([call EXCEPT !.at = "act", !.listed = Walked(call.q.ws)])
    /\ UNCHANGED <<tree, countVars>>

\* Every line of what can be read through a location, by its number.
HitsAt(m) ==
    LET text == tree[Led(m)].text
        lines == SplitLines(Decoded(text))
    IN  IF ~IsFile(Led(m)) \/ Contains(text, NUL) THEN {}
        ELSE {[path |-> m, line |-> k, text |-> Bare(lines[k])] : k \in DOMAIN lines}
Hits == UNION {HitsAt(m) : m \in call.listed}

Search ==
    /\ \/ At("glob", "act") /\ Return(call.listed)
       \/ At("grep", "act") /\ Return(Hits)
    /\ UNCHANGED <<tree, countVars>>

\* A search that reads outside the workspace, or in its reserved directory.
Outside(w, l) == ~Within(w, l) \/ Reserved(l)
Strays == At("grep", "act") /\ \E m \in call.listed : Outside(call.q.ws, Led(m))

ServiceStep ==
    /\ \/ PutCheck \/ MkDir \/ Put \/ GetCheck \/ Get \/ ReadCheck \/ Read
       \/ EditCheck \/ EditRead \/ Edit \/ DeleteCheck \/ Delete \/ LsCheck \/ List \/ Ls
       \/ Walk \/ Search
    /\ crossed' = (crossed \/ Diverted \/ Strays)

------------------------------------------------------------------------------
(* Commands in the containers *)

\* A command of a workspace writes a file of its own, makes or removes something, or puts a
\* link in the place of it.  No link is made to a link, or in the place that one leads to.
Makes(l, thing, to) == tree' = [tree EXCEPT ![l] = thing] /\ link' = [link EXCEPT ![l] = to]
Replaceable(l) == IsDir(Parent(l)) /\ (IsDir(l) => Children(l) = {})
Command(l) ==
    /\ Len(l) > 1 /\ edits < MaxEdits
    /\ \/ /\ IsDir(Parent(l)) /\ ~IsDir(l) /\ ~IsLink(l)
          /\ \E t \in Texts : From(t, {l[1]}) /\ Makes(l, File(t), NoLink)
       \/ IsDir(Parent(l)) /\ Vacant(l) /\ Makes(l, Dir, NoLink)
       \/ ~Vacant(l) /\ Children(l) = {} /\ Makes(l, None, NoLink)
       \/ /\ Replaceable(l) /\ \A m \in Locs : link[m] # l
          /\ \E t \in Targets : ~IsLink(t) /\ ~IsPrefix(l, t) /\ Makes(l, None, t)
    /\ edits' = edits + 1 /\ touched' = touched \cup {l}
    /\ swapped' = IF link' # link THEN swapped \cup {l} ELSE swapped
    /\ UNCHANGED <<call, batch, answer, calls, batches, before, crossed>>

------------------------------------------------------------------------------
Init ==
    /\ \E i \in InitialTrees : tree = i.tree /\ link = i.link /\ before = i.tree
    /\ call = Idle /\ answer = NoAnswer /\ batch = NoBatch
    /\ calls = 0 /\ batches = 0 /\ edits = 0 /\ touched = {} /\ swapped = {} /\ crossed = FALSE

Next ==
    \/ \E q \in Requests : Begin(q)
    \/ \E q \in Batches : BeginBatch(q)
    \/ BeginFile
    \/ ServiceStep
    \/ \E l \in Locs : Command(l)

Spec == Init /\ [][Next]_vars

------------------------------------------------------------------------------
(* Properties. *)

Results == {"ok", "workspace_error", "path_escape", "other_error", "forge_error"}
Stages == {"check", "mkdir", "read", "list", "act", "rmdir", "unlink"}

Calls == [q : AllRequests, batched : BOOLEAN, next : Nat, at : Stages, target : Locs,
          out : Seq(Seq(Chars)), held : Seq(Chars), listed : SUBSET Locs]
BatchStates == [q : AllRequests, next : Nat, out : Seq([res : Results, text : Seq(Chars)]),
                at : {"on", "raised", "returned"}]

TypeOK ==
    /\ tree \in [Locs -> Nodes] /\ before \in [Locs -> Nodes]
    /\ link \in [Locs -> Targets \cup {NoLink}] /\ Unchained(link)
    /\ call # Idle => call \in Calls /\ call.next \in DOMAIN call.q.items
    /\ answer # NoAnswer => answer.q \in AllRequests /\ answer.res \in Results
    /\ batch # NoBatch => batch \in BatchStates /\ (batch.at = "on" => batch.next \in DOMAIN batch.q.items)
    /\ calls \in 0..MaxCalls /\ batches \in 0..MaxBatches /\ edits \in 0..MaxEdits
    /\ touched \subseteq Locs /\ swapped \subseteq touched /\ crossed \in BOOLEAN

\* A call changes nothing but the file or directory it names, in its own workspace and
\* outside .forge, and the missing directories above it; in particular a deletion takes
\* away no more than that one entry, even when a command fills a directory meanwhile.  This
\* is so unless the path leads elsewhere by now than when it was checked.
Confined ==
    [][ServiceStep => \A l \in Locs : tree'[l] # tree[l] \/ link'[l] # link[l] =>
          \/ Diverted
          \/ /\ l[1] = call.q.ws /\ ~Reserved(l)
             /\ l = call.target \/ (tree[l] = None /\ tree'[l] = Dir /\ l \in Above(call.target))]_vars

\* A path leads elsewhere than when it was checked only through a link that a command has
\* put there since the call began: the checks see through every other one.
OnlyLateLinks ==
    [][ServiceStep /\ Diverted => \E l \in swapped : IsLink(l) /\ IsPrefix(l, call.target)]_vars

\* As long as no call has followed a link that it did not check, no character of a file of
\* another workspace, or of the reserved directory, gets into a file of a workspace, into an
\* answer or into what the adapter has collected, whatever paths, edits and transfers there are.
Isolated ==
    ~crossed =>
        /\ Belongs(tree)
        /\ answer # NoAnswer => \A i \in DOMAIN answer.out : From(answer.out[i], {answer.q.ws})
        /\ answer # NoAnswer /\ answer.q.op = "read" => From(answer.value, {answer.q.ws})
        /\ answer # NoAnswer /\ answer.q.op \in {"ls", "glob"} /\ answer.res = "ok" =>
              \A l \in answer.value : l[1] = answer.q.ws /\ ~Reserved(l)
        /\ answer # NoAnswer /\ answer.q.op = "grep" /\ answer.res = "ok" =>
              \A hit \in answer.value : From(hit.text, {answer.q.ws})
        /\ batch # NoBatch => \A i \in DOMAIN batch.out : From(batch.out[i].text, {batch.q.ws})

\* When a call that writes files ends, the files of its first n items have the text of the
\* last of them that names it, all of its items if it ends well; if not, the next one may be
\* cut.  Nothing else has changed but for new directories above them.  This is so where no
\* command has written meanwhile, and as long as none has put a link or taken one away.
Named(q, i) == Resolved(q.ws, q.items[i].path)
LastOf(q, n, l) == \E i \in 1..n : /\ Named(q, i) = l /\ tree[l] = File(q.items[i].text)
                                   /\ \A j \in (i+1)..n : Named(q, j) # l
CutAt(q, n, l) == /\ n < Len(q.items) /\ Named(q, n + 1) = l
                  /\ \E part \in Cut(q.items[n + 1].text) : tree[l] = File(part)
NewDir(q, n, l) == /\ before[l] = None /\ tree[l] = Dir
                   /\ \E i \in 1..Min({n + 1, Len(q.items)}) : l \in Above(Named(q, i))
PutAccounted ==
    answer # NoAnswer /\ answer.q.op = "put" /\ swapped = {} =>
        \E n \in 0..Len(answer.q.items) :
            /\ answer.res = "ok" => n = Len(answer.q.items)
            /\ \A l \in Locs \ touched :
                  \/ LastOf(answer.q, n, l)
                  \/ answer.res # "ok" /\ CutAt(answer.q, n, l)
                  \/ /\ \A i \in 1..n : Named(answer.q, i) # l
                     /\ tree[l] = before[l] \/ NewDir(answer.q, n, l)

\* A text cut at some places into pieces, and pieces joined.
Pieces(text, places, len) ==
    LET at == SetToSortSeq(places, <) IN
    [k \in 1..(Len(at) + 1) |-> SubSeq(text, IF k = 1 THEN 1 ELSE at[k - 1] + len,
                                             IF k > Len(at) THEN Len(text) ELSE at[k] - 1)]
Joined(pieces, text) == FlattenSeq([k \in DOMAIN pieces |-> IF k = 1 THEN pieces[k] ELSE text \o pieces[k]])

\* An edit that reports n replacements has cut the text it read at n places where the old
\* text was, none of which it left between them, and has written the pieces joined by the
\* new text; and what it read is the file's, with LF for its line ends, unless a command has
\* written it, or put a link in its way, meanwhile.
EditExact ==
    [][At("edit", "act") /\ call' = Idle /\ answer'.res = "ok" =>
          /\ call.target \notin touched /\ ~Diverted /\ swapped = {} =>
                call.held = Translated(before[call.target].text)
          /\ \E places \in SUBSET (1..(Len(call.held) + 1)) :
                LET pieces == Pieces(call.held, places, Len(Item.old)) IN
                /\ Cardinality(places) = answer'.value
                /\ Joined(pieces, Item.old) = call.held
                /\ tree'[Here].text = Joined(pieces, Item.new)
                /\ Item.old # <<>> =>
                      \A k \in DOMAIN pieces : \A i \in DOMAIN pieces[k] :
                          i + Len(Item.old) <= Len(pieces[k]) + 1 => ~Occurs(pieces[k], Item.old, i)]_vars

------------------------------------------------------------------------------
(* What comments say, and the code does not do.                                  *)

\* sandbox.py:190: "BaseSandbox expects per-file partial-success semantics".  A path that
\* names a directory, or lies below a file, is an OSError, which the adapter does not
\* catch: the outcomes of the other files are lost.
PartialSuccess == batch.at # "raised"

\* files_service.py:379: "The files service still resolves each path before reading, so even
\* a bare symlink file that points outside is caught".  grep reads what it walks unresolved.
LinksCaught == [][~Strays]_vars
==============================================================================
