---------------------------- MODULE StageInputs -----------------------------
(***************************************************************************)
(* mkosi/private/stage_inputs.py: the files and trees that a rule declares *)
(* are laid out in one directory.  Every mapping is added to the manifest  *)
(* and checked against the ones before it, the layout is checked as a      *)
(* whole, the output is emptied, and directories, files and links are      *)
(* written in the order of their paths.                                    *)
(*                                                                         *)
(* The order of paths is the order of strings: Before compares names by    *)
(* NameOrder and knows, from BelowSlash, the pairs of a name and the same  *)
(* name with more characters of which the first sorts before the slash.    *)
(***************************************************************************)
EXTENDS Trees

CONSTANTS
    NameOrder,    \* the names in the order of strings
    BelowSlash,   \* pairs <<"a", "a-">>: what follows "a" sorts before "/"
    Stale         \* what may be in the output directory before

VARIABLES
    layout,    \* what a rule asks for: mappings, merge and executables
    stage,     \* the phase, or how the staging ended
    added,     \* the number of mappings in the manifest
    entries,   \* path to [owner, kind, data, text]
    shared,    \* path to the owners of a merged directory
    todo,      \* the files and links that are not written yet
    output,    \* the output directory
    manifest   \* the manifest that is written beside it

stageVars == <<layout, stage, added, entries, shared, todo, output, manifest>>

Rank(name) == CHOOSE i \in DOMAIN NameOrder : NameOrder[i] = name
Before(p, q) ==
    LET i == Min({j \in 1..(Len(p) + 1) : j > Len(p) \/ j > Len(q) \/ p[j] # q[j]})
    IN IF i > Len(p) THEN Len(q) > Len(p)
       ELSE IF i > Len(q) THEN FALSE
       ELSE IF <<p[i], q[i]>> \in BelowSlash THEN i = Len(p)
       ELSE IF <<q[i], p[i]>> \in BelowSlash THEN i # Len(q)
       ELSE Rank(p[i]) < Rank(q[i])
First(S) == CHOOSE p \in S : \A q \in S \ {p} : Before(p, q)

StageFails == stage' = "failed" /\ UNCHANGED <<layout, added, entries, shared, todo, output, manifest>>

-----------------------------------------------------------------------------
\* The entries of one mapping.

Owner(m) == <<m.source.at, m.destination>>
Entry(m, kind, data, text) == [owner |-> Owner(m), kind |-> kind, data |-> data, text |-> text]
NoText == [absolute |-> FALSE, parts |-> <<>>]

\* _check_link: canonical, relative, and leading to something in its own tree.
Canonical(parts) == /\ parts # <<>>
                    /\ \A i \in DOMAIN parts : parts[i] = "." => Len(parts) = 1
                    /\ \A i \in DOMAIN parts : parts[i] = ".." =>
                           \A j \in 1..i : parts[j] = ".."
CheckLink(t, p) == /\ ~t[p].text.absolute /\ Canonical(t[p].text.parts)
                   /\ Leads(t, p).end = "found"
\* _tree_item_entry: Bazel hands over the files of a generated tree as absolute
\* links, which count as the files behind them.
ItemFits(m, p) == LET object == m.source.tree[p]
                  IN \/ object.kind \in {"dir", "file"}
                     \/ object.kind = "symlink" /\ CheckLink(m.source.tree, p)
                     \/ object.kind = "transport" /\ m.role = "generated-tree"
ItemEntry(m, p) == LET object == m.source.tree[p]
                   IN IF object.kind = "dir" THEN Entry(m, "directory", "", NoText)
                      ELSE IF object.kind = "symlink" THEN Entry(m, "symlink", "", object.text)
                      ELSE Entry(m, "file", object.data, NoText)
IsTree(m) == m.role \in {"tree", "generated-tree"}
MappingFits(m) == IF IsTree(m) THEN /\ m.source.kind = "dir"
                                    /\ \A p \in DOMAIN m.source.tree : ItemFits(m, p)
                  ELSE m.source.kind = "file" /\ m.destination # <<>>
MappingEntries(m) ==
    IF IsTree(m)
    THEN [p \in {m.destination \o q : q \in DOMAIN m.source.tree}
                    \cup ({m.destination} \ {<<>>}) |->
             IF p = m.destination THEN Entry(m, "directory", "", NoText)
             ELSE ItemEntry(m, SubSeq(p, Len(m.destination) + 1, Len(p)))]
    ELSE m.destination :> Entry(m, "file", m.source.data, NoText)

-----------------------------------------------------------------------------
\* The manifest.

\* _check_source_overlap: one source is not, and not inside, an earlier one.
SourceOverlap(m) == \E i \in 1..added :
    LET at == layout.mappings[i].source.at
    IN at = m.source.at \/ Below(at, m.source.at) \/ Below(m.source.at, at)
Merged(p, new) == /\ layout.merge /\ p \in DOMAIN entries /\ p \in DOMAIN new
                  /\ entries[p].kind = "directory" /\ new[p].kind = "directory"
ExactCollision(m, new) == \E p \in DOMAIN entries \cap DOMAIN new :
    entries[p].owner # Owner(m) /\ ~Merged(p, new)
\* _check_prefix_collisions: only the directories of a tree that is mapped to
\* the root may contain a later mapping.
PrefixCollision(m) == \E p \in DOMAIN entries :
    /\ entries[p].owner # Owner(m) /\ m.destination # <<>>
    /\ ~(Below(m.destination, p) /\ entries[p].kind = "directory" /\ entries[p].owner[2] = <<>>)
    /\ m.destination = p \/ Below(m.destination, p) \/ Below(p, m.destination)

AddMapping ==
    /\ stage = "mappings" /\ added < Len(layout.mappings)
    /\ LET m == layout.mappings[added + 1]
           new == MappingEntries(m)
           merging == {p \in DOMAIN new : Merged(p, new)}
           OwnersSoFar(p) == IF p \in DOMAIN shared THEN shared[p] ELSE {entries[p].owner}
       IN IF /\ layout.merge \/ ~SourceOverlap(m)
             /\ MappingFits(m)
             /\ ~ExactCollision(m, new)
             /\ layout.merge \/ ~PrefixCollision(m)
          THEN /\ entries' = [p \in DOMAIN new \ merging |-> new[p]] @@ entries
               /\ shared' = [p \in merging |-> OwnersSoFar(p) \cup {Owner(m)}] @@ shared
               /\ added' = added + 1
               /\ UNCHANGED <<layout, stage, todo, output, manifest>>
          ELSE StageFails

-----------------------------------------------------------------------------
\* The layout as a whole.

\* os.path.normpath of a relative path: parents are cancelled by their names.
RECURSIVE NormPath(_, _)
NormPath(done, rest) ==
    IF rest = <<>> THEN done
    ELSE IF Head(rest) = "." THEN NormPath(done, Tail(rest))
    ELSE IF Head(rest) = ".." /\ done # <<>> /\ done[Len(done)] # ".."
    THEN NormPath(Parent(done), Tail(rest))
    ELSE NormPath(Append(done, Head(rest)), Tail(rest))
\* _check_staged_symlink
LinkStays(p) ==
    LET target == NormPath(<<>>, Parent(p) \o entries[p].text.parts)
    IN /\ target \in DOMAIN entries
       /\ \/ entries[target].owner = entries[p].owner
          \/ target \in DOMAIN shared /\ entries[p].owner \in shared[target]
\* Mutant: only links are looked at.
LinkCollides(p) == /\ entries[p].kind = "symlink"
                   /\ \E q \in DOMAIN entries : Below(q, p)
\* The search for the children of a path ends at the first sorted path that is
\* not one.
Collides(p) ==
    LET later == {q \in DOMAIN entries : Before(p, q)}
    IN entries[p].kind # "directory" /\ later # {} /\ Below(First(later), p)
LayoutFits == \A p \in DOMAIN entries :
    ~Collides(p) /\ (entries[p].kind = "symlink" => LinkStays(p))
ExecutablesFit == \A p \in layout.executables : p \in DOMAIN entries /\ entries[p].kind = "file"

CheckLayout ==
    /\ stage = "mappings" /\ added = Len(layout.mappings)
    /\ IF LayoutFits /\ ExecutablesFit
       THEN stage' = "reset" /\ UNCHANGED <<layout, added, entries, shared, todo, output, manifest>>
       ELSE StageFails

-----------------------------------------------------------------------------
\* Writing the output.

\* Mutant: what an earlier staging left is not removed.
KeepOutput == /\ stage = "reset" /\ stage' = "directories"
              /\ UNCHANGED <<layout, added, entries, shared, todo, output, manifest>>
ResetOutput == /\ stage = "reset" /\ stage' = "directories"
               /\ output' = <<>>
               /\ UNCHANGED <<layout, added, entries, shared, todo, manifest>>

OfKind(kinds) == {p \in DOMAIN entries : entries[p].kind \in kinds}
MakeDirectories ==
    LET directories == OfKind({"directory"})
    IN /\ stage = "directories" /\ stage' = "files"
       /\ output' = [p \in directories \cup UNION {Ancestors(p) : p \in directories} |-> Dir] @@ output
       /\ todo' = OfKind({"file", "symlink"})
       /\ UNCHANGED <<layout, added, entries, shared, manifest>>

\* Path.mkdir(parents=True, exist_ok=True), which follows links on the way; a
\* tree without the path means that something else was in the way.
RECURSIVE MakeParents(_, _)
MakeParents(t, p) ==
    IF p = <<>> THEN t
    ELSE LET made == MakeParents(t, Parent(p))
             up == Leads(made, Parent(p))
             here == Append(up.path, p[Len(p)])
         IN IF up.end # "found" \/ Object(made, up.path) # Dir \/ here \in DOMAIN made THEN made
            ELSE (here :> Dir) @@ made
IsDirectory(t, p) == Leads(t, p).end = "found" /\ Object(t, Leads(t, p).path) = Dir

Staged(p) == IF entries[p].kind = "symlink" THEN Symlink(entries[p].text)
             ELSE [kind |-> "file", data |-> entries[p].data, executable |-> p \in layout.executables]
\* In the order of paths.  A link is not written over anything; a file is, and
\* through a link that is in its place, but not over a directory.
WriteEntry ==
    /\ stage = "files" /\ todo # {}
    /\ LET p == First(todo)
           made == MakeParents(output, Parent(p))
           here == Append(Leads(made, Parent(p)).path, p[Len(p)])
           there == IF entries[p].kind = "file" THEN Leads(made, here).path ELSE here
       IN IF /\ IsDirectory(made, Parent(p)) /\ there # <<>>
             /\ there \in DOMAIN made => entries[p].kind = "file" /\ made[there].kind = "file"
          THEN /\ output' = (there :> Staged(p)) @@ made
               /\ todo' = todo \ {p}
               /\ UNCHANGED <<layout, stage, added, entries, shared, manifest>>
          ELSE StageFails
\* What the manifest says of each path: kind, text of a link, executable.
WriteManifest ==
    /\ stage = "files" /\ todo = {} /\ stage' = "staged"
    /\ manifest' = [p \in DOMAIN entries |->
                       [kind |-> entries[p].kind, text |-> entries[p].text,
                        executable |-> p \in layout.executables]]
    /\ UNCHANGED <<layout, added, entries, shared, todo, output>>

StageInit == /\ stage = "mappings" /\ added = 0 /\ entries = <<>> /\ shared = <<>>
             /\ todo = {} /\ output \in Stale /\ manifest = <<>>
StageNext == AddMapping \/ CheckLayout \/ ResetOutput \/ MakeDirectories \/ WriteEntry \/ WriteManifest

-----------------------------------------------------------------------------
\* What staging promises.

\* Every declared object, with its data, at its place, and nothing else.
Declared(t) ==
    LET Claims(i) == MappingEntries(layout.mappings[i])
        AllPaths == UNION {DOMAIN Claims(i) : i \in DOMAIN layout.mappings}
    IN /\ \A i \in DOMAIN layout.mappings : \A p \in DOMAIN Claims(i) :
             /\ p \in DOMAIN t
             /\ Claims(i)[p].kind = "directory" => t[p] = Dir
             /\ Claims(i)[p].kind = "symlink" => t[p] = Symlink(Claims(i)[p].text)
             /\ Claims(i)[p].kind = "file" =>
                    t[p] = [kind |-> "file", data |-> Claims(i)[p].data,
                            executable |-> p \in layout.executables]
       /\ \A p \in DOMAIN t : p \in AllPaths \/ \E q \in AllPaths : p \in Ancestors(q)
\* A staged link leads to an object of its own mapping, or to a directory that
\* its mapping shares.
LinksStayHome(t) ==
    \A p \in {q \in DOMAIN t : t[q].kind = "symlink"} :
        LET end == Leads(t, p)
        IN /\ end.end = "found" /\ end.path \in DOMAIN entries
           /\ \/ entries[end.path].owner = entries[p].owner
              \/ end.path \in DOMAIN shared /\ entries[p].owner \in shared[end.path]

\* A staged directory holds every object of every mapping at its declared
\* path, unmixed: nothing of one mapping replaces or redirects something of
\* another, links stay in their own mapping, and nothing of an earlier staging
\* is left.
StagedIsDeclared == stage = "staged" => Declared(output) /\ LinksStayHome(output)

\* _manifest says that it validates the complete manifest before anything is
\* written: the output is as it was until the last check has passed, and once it
\* has been emptied no mapping is refused any more.
ValidatedBeforeWriting ==
    [][/\ stage = "mappings" => output' = output
       /\ stage' = "failed" => stage \in {"mappings", "failed"}]_stageVars

\* A layout in which something lies below a file or below a link is a collision,
\* and is refused before anything is written.
CollisionsAreRejected ==
    stage \in {"reset", "directories", "files", "staged"} =>
        \A p, q \in DOMAIN entries : Below(q, p) => entries[p].kind = "directory"
=============================================================================
