------------------------------ MODULE TextTree ------------------------------
(***************************************************************************)
(* Text resources read from a directory (text-assets-kit secure_fs,        *)
(* text_tree_scan, text_directory, data_root; i18n-runtime-kit's scan of a *)
(* catalog directory) while others change what is there.                   *)
(*                                                                         *)
(* A call holds handles of directories and opens what is in them by name,  *)
(* so the tree is of nodes: a directory that was opened stays the same     *)
(* directory wherever it is moved.  A symlink leads to Outside, a          *)
(* directory whose files nobody asked for.                                 *)
(***************************************************************************)
EXTENDS Naturals, Sequences, FiniteSets, SequencesExt

CONSTANTS TreeRoot,       \* the node of the resource root
          TreeDirs,       \* the directories; one is below another only if greater
          TreeFiles,
          BytesOf,        \* the size of each file
          TreeNames,      \* names of entries, in their order
          IdentityOf,     \* the name in lower case
          Symlink,        \* a node that leads to Outside
          OutsideFile,    \* a file of the directory the symlink leads to
          ScanLimits,     \* [directories, sources, depth] of a catalog scan
          WantedPaths,    \* lists of paths for load_resource_files
          MaxFileBytes,   \* MAX_TEXT_RESOURCE_BYTES
          MaxTreeBytes,   \* MAX_TEXT_DIRECTORY_TOTAL_BYTES
          RootRequests,   \* options and environments of ensure_data_root
          MaxTreeEdits    \* bound on what others change during a call

Nothing == 0
Nodes == TreeDirs \cup TreeFiles \cup {Symlink}
Places == {"data_dir", "env", "workspace", "home"}
PlaceKinds == {"missing", "directory", "symlink", "file"}

ASSUME TextTreeAssumption ==
    /\ TreeRoot \in TreeDirs /\ TreeDirs \cup TreeFiles \subseteq Nat \ {Nothing}
    /\ TreeDirs \cap TreeFiles = {} /\ Symlink \notin TreeDirs \cup TreeFiles \cup {Nothing}
    /\ BytesOf \in [TreeFiles -> Nat] /\ OutsideFile \notin TreeFiles
    /\ ScanLimits \subseteq [directories : Nat, sources : Nat, depth : Nat]
    /\ WantedPaths \subseteq Seq(Seq(TreeNames))
    /\ MaxFileBytes \in Nat /\ MaxTreeBytes \in Nat

VARIABLES
    tree,       \* the entries of each directory
    places,     \* what is at each place a data root may be
    edits,      \* changes others have made
    startTree,  \* the tree when the call began
    call        \* the call: where it is and what it holds

treeVars == <<tree, places, edits, startTree, call>>

Entries == [TreeNames -> Nodes \cup {Nothing}]

\* A directory is in one place and below a lesser one.
IsTree(t) ==
    /\ \A d \in TreeDirs, n \in TreeNames : t[d][n] \in TreeDirs => t[d][n] > d
    /\ \A x \in TreeDirs : Cardinality({at \in TreeDirs \X TreeNames : t[at[1]][at[2]] = x}) <= 1

Idle == [pc |-> "idle", mode |-> "none", limits |-> [directories |-> 0, sources |-> 0, depth |-> 0],
         stack |-> <<>>, here |-> <<>>, names |-> <<>>, nested |-> <<>>, kind |-> "none",
         files |-> <<>>, directories |-> 0, bytes |-> 0, wanted |-> <<>>, root |-> "none",
         request |-> {}, result |-> "none"]

TextTreeInit ==
    /\ tree \in {t \in [TreeDirs -> Entries] : IsTree(t)}
    /\ places \in [Places -> PlaceKinds]
    /\ edits = 0
    /\ startTree = tree
    /\ call = Idle

-----------------------------------------------------------------------------
(* What others do. *)

\* create, remove or replace an entry; a directory is moved there from where it was
Replaced(t, d, n, x) ==
    [e \in TreeDirs |-> [m \in TreeNames |->
        IF e = d /\ m = n THEN x ELSE IF x \in TreeDirs /\ t[e][m] = x THEN Nothing ELSE t[e][m]]]

OthersEdit ==
    /\ call.pc \notin {"idle", "done"} /\ edits < MaxTreeEdits
    /\ edits' = edits + 1
    /\ \/ /\ call.mode # "ensure"
          /\ \E d \in TreeDirs, n \in TreeNames, x \in Nodes \cup {Nothing} :
                /\ x # tree[d][n] /\ (x \in TreeDirs => x > d)
                /\ tree' = Replaced(tree, d, n, x)
          /\ UNCHANGED places
       \/ /\ call.mode = "ensure"
          /\ \E k \in PlaceKinds \ {places[call.root]} :
                places' = [places EXCEPT ![call.root] = k]
          /\ UNCHANGED tree
    /\ UNCHANGED <<startTree, call>>

CallIs(c) == call' = c /\ UNCHANGED <<tree, places, edits, startTree>>
Ends(result) == CallIs([call EXCEPT !.pc = "done", !.result = result])

-----------------------------------------------------------------------------
(* The data root. *)

\* resolve_explicit_data_root_path: an absolute path, or one below the given base
Explicit(place, path, base) ==
    IF path = "absolute" \/ base THEN {place} ELSE {}

\* resolve_data_root_with: data_dir, the environment, then the scope
RootPlace(q) ==
    CASE q.dataDir # "none" -> Explicit("data_dir", q.dataDir, q.base)
      [] q.dataDir = "none" /\ q.env # "none" -> Explicit("env", q.env, q.base)
      [] q.dataDir = "none" /\ q.env = "none" /\ q.scope = "global" ->
             IF q.home = "absolute" THEN {"home"} ELSE {}
      [] OTHER -> {"workspace"}

\* workspace_root_state: only the automatic scope looks at what is there
AutoRefuses(q) ==
    /\ q.dataDir = "none" /\ q.env = "none" /\ q.scope = "auto"
    /\ places["workspace"] \in {"symlink", "file"}

EnsuresRoot(q) ==
    /\ call.pc = "idle"
    /\ LET c == [Idle EXCEPT !.mode = "ensure", !.request = {q}]
       IN CallIs(IF RootPlace(q) = {} \/ AutoRefuses(q)
                 THEN [c EXCEPT !.pc = "done", !.result = "invalid"]
                 ELSE [c EXCEPT !.pc = "validate", !.root = CHOOSE p \in RootPlace(q) : TRUE])

\* validate_existing_resource_ancestors
ValidatesRoot ==
    /\ call.pc = "validate"
    /\ IF places[call.root] = "symlink" THEN Ends("invalid")
       ELSE CallIs([call EXCEPT !.pc = "create"])

\* SecureRoot::open with MissingRootPolicy::Create, no symlink followed
CreatesRoot ==
    /\ call.pc = "create"
    /\ IF places[call.root] \in {"symlink", "file"} THEN Ends("invalid")
       ELSE /\ places' = [places EXCEPT ![call.root] = "directory"]
            /\ call' = [call EXCEPT !.pc = "done", !.result = "root"]
            /\ UNCHANGED <<tree, edits, startTree>>

-----------------------------------------------------------------------------
(* Scans. *)

Frame(dir, prefix, depth) == [dir |-> dir, prefix |-> prefix, depth |-> depth]

StartsScan(mode, limits, wanted) ==
    /\ call.pc = "idle"
    /\ startTree' = tree
    /\ call' = [Idle EXCEPT !.pc = IF mode = "listed" THEN "wanted" ELSE "pop", !.mode = mode,
                            !.limits = limits, !.wanted = wanted,
                            !.stack = <<Frame(TreeRoot, <<>>, 0)>>]
    /\ UNCHANGED <<tree, places, edits>>

\* remaining_catalog_entry_budget
Left(count, max) == IF count < max THEN max - count ELSE 0
Budget(c) == Left(c.directories, c.limits.directories) + Left(Len(c.files), c.limits.sources)

\* names come in the order of TreeNames
NamesIn(entries) == SelectSeq(SetToSortSeq(TreeNames, LAMBDA m, n : m < n),
                              LAMBDA n : entries[n] # Nothing)

\* the next directory of the stack: its names, sorted, and how many they are
ReadsNames ==
    /\ call.pc = "pop" /\ call.stack # <<>>
    /\ LET frame == Last(call.stack)
           names == NamesIn(tree[frame.dir])
       IN IF call.mode = "catalog" /\ Len(names) > Budget(call) THEN Ends("too wide")
          ELSE CallIs([call EXCEPT !.pc = "look", !.stack = Front(@), !.here = <<frame>>,
                                   !.names = names, !.nested = <<>>])

KindOf(x) ==
    CASE x \in TreeDirs -> "directory" [] x \in TreeFiles -> "file"
      [] x = Symlink -> "symlink" [] OTHER -> "gone"

At(frame, n) == tree[frame.dir][n]

\* entry_kind_at
Looks ==
    /\ call.pc = "look" /\ call.names # <<>>
    /\ LET kind == KindOf(At(call.here[1], Head(call.names)))
       IN IF kind \in {"symlink", "gone"} THEN Ends("error")
          ELSE CallIs([call EXCEPT !.pc = "open", !.kind = kind])

\* What a bug would do: refuse the deepest directories that are allowed.
EntersAbove(c, depth) == IF c.mode = "catalog" /\ depth >= c.limits.depth THEN "too deep" ELSE "ok"

\* enter_directory, before it is opened
Enters(c, depth) ==
    CASE c.mode # "catalog" -> "ok"
      [] c.mode = "catalog" /\ depth > c.limits.depth -> "too deep"
      [] c.mode = "catalog" /\ depth <= c.limits.depth
                            /\ c.directories + 1 > c.limits.directories -> "too many directories"
      [] OTHER -> "ok"

\* open_directory_component: a symlink is not followed
OpensDirectory ==
    /\ call.pc = "open" /\ call.kind = "directory"
    /\ LET frame == call.here[1]
           name == Head(call.names)
           x == At(frame, name)
           entered == Enters(call, frame.depth + 1)
       IN IF entered # "ok" THEN Ends(entered)
          ELSE IF x \notin TreeDirs THEN Ends("error")
          ELSE CallIs([call EXCEPT !.pc = "look", !.names = Tail(@),
                          !.directories = @ + 1,
                          !.nested = Append(@, Frame(x, Append(frame.prefix, name), frame.depth + 1))])

\* What a bug would do: open what the name leads to.
OpenedThrough(x) == IF x = Symlink THEN {OutsideFile} ELSE IF x \in TreeFiles THEN {x} ELSE {}

\* What is at a name when it is opened as a regular file.
Opened(x) == IF x \in TreeFiles THEN {x} ELSE {}

SizeOf(x) == IF x = OutsideFile THEN 1 ELSE BytesOf[x]

\* a file that was read: its size, that of all, and the sources of a catalog
Refuses(c, x) ==
    CASE SizeOf(x) > MaxFileBytes -> "file too large"
      [] SizeOf(x) <= MaxFileBytes /\ c.bytes + SizeOf(x) > MaxTreeBytes -> "tree too large"
      [] SizeOf(x) <= MaxFileBytes /\ c.bytes + SizeOf(x) <= MaxTreeBytes
             /\ c.mode = "catalog" /\ Len(c.files) + 1 > c.limits.sources -> "too many sources"
      [] OTHER -> "ok"

Collects(c, path, x) ==
    IF Refuses(c, x) # "ok" THEN [c EXCEPT !.pc = "done", !.result = Refuses(c, x)]
    ELSE [c EXCEPT !.files = Append(@, [path |-> path, file |-> x]), !.bytes = @ + SizeOf(x)]

\* open_regular_file_at and read_utf8_limited
OpensFile ==
    /\ call.pc = "open" /\ call.kind = "file"
    /\ LET frame == call.here[1]
           name == Head(call.names)
           found == Opened(At(frame, name))
       IN \/ found = {} /\ Ends("error")
          \/ \E x \in found :
                CallIs(Collects([call EXCEPT !.pc = "look", !.names = Tail(@)],
                                Append(frame.prefix, name), x))

Stacked(stack, nested) == stack \o Reverse(nested)

\* the names are over: the nested directories are next, the first of them first
LeavesDirectory ==
    /\ call.pc = "look" /\ call.names = <<>>
    /\ CallIs([call EXCEPT !.pc = "pop", !.here = <<>>, !.nested = <<>>,
                           !.stack = Stacked(@, call.nested)])

\* resource_identity_key, and build_entries: no two paths that differ in case only
IdentityKey(path) == [i \in DOMAIN path |-> IdentityOf[path[i]]]
HaveDuplicates(paths) ==
    \E i, j \in DOMAIN paths : i < j /\ IdentityKey(paths[i]) = IdentityKey(paths[j])
PathsOf(files) == [i \in DOMAIN files |-> files[i].path]

FinishesScan ==
    /\ call.pc = "pop" /\ call.stack = <<>>
    /\ Ends(IF call.mode = "directory" /\ HaveDuplicates(PathsOf(call.files))
            THEN "duplicate" ELSE "loaded")

\* load_resource_files: the list has no path twice, then one path after the other
TakesWanted ==
    /\ call.pc = "wanted"
    /\ IF HaveDuplicates(call.wanted) THEN Ends("duplicate")
       ELSE IF Len(call.files) = Len(call.wanted) THEN Ends("loaded")
       ELSE CallIs([call EXCEPT !.pc = "walk", !.here = <<Frame(TreeRoot, <<>>, 0)>>,
                                !.names = call.wanted[Len(call.files) + 1]])

\* open_directory_chain, one component at a time
WalksDown ==
    /\ call.pc = "walk" /\ Len(call.names) > 1
    /\ LET frame == call.here[1]
           x == At(frame, Head(call.names))
       IN IF x \notin TreeDirs THEN Ends("error")
          ELSE CallIs([call EXCEPT !.names = Tail(@),
                          !.here = <<Frame(x, Append(frame.prefix, Head(call.names)), frame.depth + 1)>>])

\* read_file_to_string: the kind first, then the file
LooksAtLeaf ==
    /\ call.pc = "walk" /\ Len(call.names) = 1
    /\ IF KindOf(At(call.here[1], Head(call.names))) # "file" THEN Ends("error")
       ELSE CallIs([call EXCEPT !.pc = "leaf"])

ReadsLeaf ==
    /\ call.pc = "leaf"
    /\ LET frame == call.here[1]
           found == Opened(At(frame, Head(call.names)))
       IN \/ found = {} /\ Ends("error")
          \/ \E x \in found :
                CallIs(Collects([call EXCEPT !.pc = "wanted"],
                                Append(frame.prefix, Head(call.names)), x))

CallsBegin ==
    /\ call.pc = "idle"
    /\ \/ \E q \in RootRequests : EnsuresRoot(q)
       \/ StartsScan("directory", Idle.limits, <<>>)
       \/ \E limits \in ScanLimits : StartsScan("catalog", limits, <<>>)
       \/ \E wanted \in WantedPaths : StartsScan("listed", Idle.limits, wanted)

TextTreeNext ==
    \/ OthersEdit
    \/ CallsBegin
    \/ ValidatesRoot \/ CreatesRoot
    \/ ReadsNames \/ Looks \/ OpensDirectory \/ OpensFile \/ LeavesDirectory \/ FinishesScan
    \/ TakesWanted \/ WalksDown \/ LooksAtLeaf \/ ReadsLeaf

-----------------------------------------------------------------------------

TextTreeTypeOK ==
    /\ IsTree(tree) /\ places \in [Places -> PlaceKinds] /\ edits \in 0..MaxTreeEdits
    /\ call.pc \in {"idle", "validate", "create", "pop", "look", "open", "wanted", "walk",
                    "leaf", "done"}

Loaded == {<<call.files[i].path, call.files[i].file>> : i \in DOMAIN call.files}

(* The tree of a call that nobody disturbs, path by path. *)

\* Paths of at most as many names as there are directories.
PathsBelow == UNION {[1..k -> TreeNames] : k \in 1..Cardinality(TreeDirs)}

NodeAt[path \in PathsBelow] ==
    IF Len(path) = 1 THEN startTree[TreeRoot][path[1]]
    ELSE LET above == NodeAt[Front(path)]
         IN IF above \in TreeDirs THEN startTree[above][Last(path)] ELSE Nothing

There(nodes) == {path \in PathsBelow : NodeAt[path] \in nodes}
BytesThere == FoldSet(LAMBDA path, sum : BytesOf[NodeAt[path]] + sum, 0, There(TreeFiles))

\* What a directory may be refused for.
Sound(mode) ==
    /\ There({Symlink}) = {}
    /\ \A path \in There(TreeFiles) : BytesOf[NodeAt[path]] <= MaxFileBytes
    /\ BytesThere <= MaxTreeBytes
    /\ mode = "directory" =>
         \A p, q \in There(TreeFiles) : p # q => IdentityKey(p) # IdentityKey(q)
    /\ mode = "catalog" =>
         /\ Cardinality(There(TreeDirs)) <= call.limits.directories
         /\ Cardinality(There(TreeFiles)) <= call.limits.sources
         /\ \A path \in There(TreeDirs) : Len(path) <= call.limits.depth

(***************************************************************************)
(* A directory that is left alone is loaded whole if it keeps the limits   *)
(* and has nothing but files and directories, and refused otherwise: no    *)
(* file is left out or taken twice, and the limit on the width of a        *)
(* directory, which counts what is still allowed, refuses none that the    *)
(* limits on directories and files allow.                                  *)
(***************************************************************************)
QuietScanIsWhole ==
    call.pc = "done" /\ call.mode \in {"directory", "catalog"} /\ edits = 0 =>
        /\ call.result = "loaded" <=> Sound(call.mode)
        /\ call.result = "loaded" =>
             /\ Loaded = {<<path, NodeAt[path]>> : path \in There(TreeFiles)}
             /\ Len(call.files) = Cardinality(Loaded)

(***************************************************************************)
(* Whatever others put in the place of an entry between the look at its    *)
(* kind and its opening, no file from behind a symlink is read; what was   *)
(* read keeps to the limits at every moment; and files of a list are found *)
(* under the names of the list.                                            *)
(***************************************************************************)
ScansStayInside ==
    /\ \A i \in DOMAIN call.files : call.files[i].file # OutsideFile
    /\ call.bytes <= MaxTreeBytes
    /\ call.mode = "catalog" => /\ call.directories <= call.limits.directories
                                /\ Len(call.files) <= call.limits.sources
                                /\ \A i \in DOMAIN call.stack : call.stack[i].depth <= call.limits.depth
    /\ call.mode = "listed" /\ call.result = "loaded" => PathsOf(call.files) = call.wanted

(***************************************************************************)
(* A data root that is returned is a directory at the place that the most  *)
(* explicit of its sources names; an override that cannot be used, and a   *)
(* workspace that is not a directory, are errors and never a reason to go  *)
(* to another place.                                                       *)
(***************************************************************************)
RootIsTheOneNamed ==
    call.mode = "ensure" /\ call.pc = "done" =>
        \A q \in call.request :
            /\ call.result = "root" =>
                 /\ q.dataDir # "none" => call.root = "data_dir"
                 /\ q.dataDir = "none" /\ q.env # "none" => call.root = "env"
                 /\ call.root = "home" => q.scope = "global"
                 /\ edits = 0 => places[call.root] = "directory"
            /\ call.result # "root" /\ edits = 0 =>
                 \/ \E given \in {q.dataDir, q.env, q.home} : given # "absolute"
                 \/ \E p \in Places : places[p] \in {"symlink", "file"}

-----------------------------------------------------------------------------
(***************************************************************************)
(* The inductive invariant of ScansStayInside and RootIsTheOneNamed.       *)
(***************************************************************************)
\* A sequence, of whatever it holds.
IsSeq(s) == s \in Seq({s[i] : i \in DOMAIN s})

\* A call goes through the steps of its mode only.
ModeFits(c) ==
    /\ c.pc \in {"pop", "look", "open"} => c.mode \in {"directory", "catalog"}
    /\ c.pc \in {"wanted", "walk", "leaf"} => c.mode = "listed"
    /\ c.pc \in {"validate", "create"} => c.mode = "ensure"

FilesFit(c) ==
    /\ IsSeq(c.files) /\ \A i \in DOMAIN c.files : c.files[i].file \in TreeFiles
    /\ c.bytes \in Nat /\ c.bytes <= MaxTreeBytes

\* Directories are counted when they are found, and are as deep as their paths.
WithinDepth(frame, limits) == frame.depth \in Nat /\ frame.depth <= limits.depth

LimitsFit(c) ==
    /\ IsSeq(c.stack) /\ IsSeq(c.nested)
    /\ c.mode = "catalog" =>
         /\ c.limits \in ScanLimits
         /\ c.directories \in Nat /\ c.directories <= c.limits.directories
         /\ Len(c.files) <= c.limits.sources
         /\ \A i \in DOMAIN c.stack : WithinDepth(c.stack[i], c.limits)
         /\ \A i \in DOMAIN c.nested : WithinDepth(c.nested[i], c.limits)
         /\ c.pc \in {"look", "open"} => WithinDepth(c.here[1], c.limits)

\* What was read so far are the first paths of the list, and the walk is on the next.
ListFits(c) ==
    c.mode = "listed" =>
        /\ c.wanted \in Seq(Seq(TreeNames)) /\ Len(c.files) <= Len(c.wanted)
        /\ \A i \in DOMAIN c.files : c.files[i].path = c.wanted[i]
        /\ c.result = "loaded" => Len(c.files) = Len(c.wanted)
        /\ c.pc \in {"walk", "leaf"} =>
             /\ Len(c.files) < Len(c.wanted)
             /\ c.here[1].prefix \in Seq(TreeNames) /\ c.names \in Seq(TreeNames)
             /\ c.here[1].prefix \o c.names = c.wanted[Len(c.files) + 1]
        /\ c.pc = "leaf" => Len(c.names) = 1

RootFits(c) ==
    c.mode = "ensure" /\ c.pc \in {"validate", "create"} =>
        c.root \in Places /\ \A q \in c.request : c.root \in RootPlace(q)

CallIsInside(c) ==
    /\ DOMAIN c = DOMAIN Idle
    /\ ModeFits(c) /\ FilesFit(c) /\ LimitsFit(c) /\ ListFits(c) /\ RootFits(c)

TreeInv == DOMAIN places = Places /\ CallIsInside(call) /\ RootIsTheOneNamed

=============================================================================
