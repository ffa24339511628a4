---------------------------- MODULE ExtractTree ----------------------------
(***************************************************************************)
(* mkosi/debian/extract_tree.py: a tar archive of Debian packages becomes  *)
(* a directory tree.  The archive is authenticated, its members are        *)
(* indexed, directories and files are written, then hard links, then       *)
(* symbolic links, and the tree is completed for the namespace that runs   *)
(* its tools.  Every error ends the extraction where it stands.            *)
(*                                                                         *)
(* Paths and objects are those of Trees; a member may also be a hard link  *)
(* or of another kind.  Modes and times are left out.                      *)
(***************************************************************************)
EXTENDS Trees

CONSTANTS
    AllowedDangling,   \* _ALLOWED_DANGLING_SYMLINKS
    EmptyTargets,      \* _EMPTY_DIRECTORY_SYMLINK_TARGETS: [link, target, text]
    Certificates,      \* the certificate files that may be in the archive
    Bundle,            \* the bundle that is written for them
    RuntimeTargets,    \* files that some allowed links point to
    MountRoots,        \* directories the namespace mounts on
    ResolvConf,        \* the file that the namespace replaces
    LegacyLinks        \* _LEGACY_MERGED_USR_LINKS: path to link text

VARIABLES
    archive,   \* the archive: a sequence of [name, member]
    genuine,   \* whether it has the expected digest
    phase,     \* the phase, or how the extraction ended
    members,   \* members_by_path
    links,     \* the symbolic links that are still to be created
    tree       \* the output root: path to object

archiveInputs == <<archive, genuine>>
extractVars == <<archiveInputs, phase, members, links, tree>>

Marker == ".rules_mkosi_empty_directory"
Empty == File("empty")

ExtractFails == phase' = "failed" /\ UNCHANGED <<archiveInputs, members, links, tree>>
\* A phase that writes: it goes on to the next one, or an error ends it.
Phase(from, ok, to, result) ==
    /\ phase = from
    /\ IF ok THEN phase' = to /\ tree' = result /\ UNCHANGED <<archiveInputs, members, links>>
             ELSE ExtractFails

-----------------------------------------------------------------------------
\* Names and members.

RECURSIVE member_path(_)
member_path(name) == IF name # <<>> /\ Head(name) = "." THEN member_path(Tail(name)) ELSE name
SafeName(name) == \A i \in DOMAIN member_path(name) : member_path(name)[i] \notin {".", ".."}

Of(kind) == {p \in DOMAIN members : members[p].kind = kind}

\* _parent: the missing parents of a path are created; none may be anything
\* else than a directory.
ParentsFree(t, p) == \A q \in Ancestors(p) \cap DOMAIN t : t[q] = Dir
_parent(t, p) == t @@ [q \in Ancestors(p) |-> Dir]
CanAdd(t, p) == p \notin DOMAIN t /\ ParentsFree(t, p)
Add(t, p, object) == (p :> object) @@ _parent(t, p)
AddAll(t, new) == new @@ t @@ [q \in UNION {Ancestors(p) : p \in DOMAIN new} |-> Dir]

-----------------------------------------------------------------------------
\* Directories, files and what is generated beside them.

Authenticate ==
    /\ phase = "start"
    /\ IF genuine THEN phase' = "index" /\ UNCHANGED <<archiveInputs, members, links, tree>> ELSE ExtractFails

Index ==
    LET Named == {i \in DOMAIN archive : member_path(archive[i].name) # <<>>}
    IN /\ phase = "index"
       /\ IF /\ \A i \in DOMAIN archive : SafeName(archive[i].name)
             /\ \A i, j \in Named :
                    member_path(archive[i].name) = member_path(archive[j].name) => i = j
          THEN /\ members' = [p \in {member_path(archive[i].name) : i \in Named} |->
                                 archive[CHOOSE i \in Named :
                                             member_path(archive[i].name) = p].member]
               /\ phase' = "members"
               /\ UNCHANGED <<archiveInputs, links, tree>>
          ELSE ExtractFails

\* Shallow members first: a file is there before anything below it.
MaterializeMembers ==
    LET Files == Of("file")
        Objects == Files \cup Of("dir")
    IN Phase("members",
             Of("other") = {} /\ \A p \in Objects : Ancestors(p) \cap Files = {},
             "generated",
             AddAll(tree, [p \in Objects |-> members[p]]))

WriteCaBundle(t) ==
    IF Certificates \cap DOMAIN t # {} THEN Add(t, Bundle, File("bundle")) ELSE t
BundleFits(t) == Certificates \cap DOMAIN t # {} =>
                     ParentsFree(t, Bundle) /\ (Bundle \in DOMAIN t => t[Bundle].kind = "file")
MissingTargets(t) == RuntimeTargets \ DOMAIN t
MaterializeTargets(t) == AddAll(t, [p \in MissingTargets(t) |-> Empty])
EmptyDirectories(t) == {e.target : e \in {e \in EmptyTargets :
                            /\ e.link \in Of("symlink") /\ members[e.link].text = e.text
                            /\ e.target \in DOMAIN t /\ t[e.target] = Dir}}
MarkEmptyDirectories(t) ==
    t @@ [p \in {Append(d, Marker) : d \in EmptyDirectories(t)} |-> Empty]
Generate ==
    LET bundled == WriteCaBundle(tree)
        targets == MaterializeTargets(bundled)
    IN Phase("generated",
             /\ BundleFits(tree)
             /\ \A p \in MissingTargets(bundled) : ParentsFree(bundled, p),
             "hardlinks",
             MarkEmptyDirectories(targets))

-----------------------------------------------------------------------------
\* Hard links.  A chain of them ends at a regular member.

NoTarget == <<>>
RECURSIVE HardlinkTarget(_, _)
HardlinkTarget(p, visiting) ==
    LET target == members[p].target
    IN IF target \notin DOMAIN members \/ target \in visiting THEN NoTarget
       ELSE IF members[target].kind = "hardlink" THEN HardlinkTarget(target, visiting \cup {target})
       ELSE IF members[target].kind = "file" THEN target ELSE NoTarget

ResolveHardlinks ==
    LET Hard == Of("hardlink")
        Target(p) == HardlinkTarget(p, {p})
    IN Phase("hardlinks",
             /\ \A p \in Hard : Target(p) # NoTarget /\ CanAdd(tree, p)
             /\ \A p \in Hard : Ancestors(p) \cap Hard = {},
             "validate",
             AddAll(tree, [p \in Hard |-> tree[Target(p)]]))

-----------------------------------------------------------------------------
\* Symbolic links.  The graph is resolved on the members, before any link of
\* it exists.

\* Mutant: a relative link is resolved from the root, not from its directory.
RawFromRoot(p, text) == text.parts
RawComponents(p, text) == IF text.absolute THEN text.parts ELSE Parent(p) \o text.parts

\* _resolve_link_path: what is left of the path, where the walk is, the links
\* it has passed, and the places it left by a "..", which only the properties
\* look at.  The bound of the code on resolutions is never reached, since a
\* link is passed at most once.
RECURSIVE Walk(_, _, _, _)
Walk(components, at, seen, left) ==
    LET Ends(how, where) == [end |-> how, path |-> where, dependencies |-> seen, left |-> left]
    IN IF components = <<>> THEN Ends("found", at)
       ELSE LET name == Head(components)
                rest == Tail(components)
                here == Append(at, name)
            IN IF name = "." THEN Walk(rest, at, seen, left)
               ELSE IF name = ".."
               THEN IF at = <<>> THEN Ends("escape", at)
                    ELSE Walk(rest, Parent(at), seen, left \cup {at})
               ELSE IF here \in Of("symlink")
               THEN IF here \in seen THEN Ends("cycle", here)
                    ELSE Walk(RawComponents(here, members[here].text) \o rest, <<>>,
                              seen \cup {here}, left)
               ELSE Walk(rest, here, seen, left)
Resolved(p) == Walk(RawComponents(p, members[p].text), <<>>, {}, {})

\* No link is in the tree yet, so that a path exists exactly when it is there.
Exists(t, p) == p = <<>> \/ p \in DOMAIN t
\* A link that another one passes is resolved before it; a cycle among links
\* is a cycle of the walk from each of them.
GraphValid == \A p \in Of("symlink") :
    LET r == Resolved(p)
    IN r.end = "found" /\ (Exists(tree, r.path) \/ p \in AllowedDangling)
ValidateLinks ==
    /\ phase = "validate"
    /\ IF GraphValid
       THEN phase' = "links" /\ links' = Of("symlink") /\ UNCHANGED <<archiveInputs, members, tree>>
       ELSE ExtractFails

RECURSIVE Depth(_)
Depth(p) == Max({0} \cup {Depth(q) : q \in Resolved(p).dependencies}) + 1

\* os.path.relpath, from a directory of the tree to a path of the tree.
RelPath(target, from) ==
    LET common == Max({0} \cup {i \in 1..Min({Len(target), Len(from)}) :
                                  SubSeq(target, 1, i) = SubSeq(from, 1, i)})
        parts == [i \in 1..(Len(from) - common) |-> ".."]
                     \o SubSeq(target, common + 1, Len(target))
    IN [absolute |-> FALSE, parts |-> IF parts = <<>> THEN <<".">> ELSE parts]
LinkText(p) == IF members[p].text.absolute THEN RelPath(Resolved(p).path, Parent(p))
               ELSE members[p].text

\* Links that depend on no pending one come first, in any order among them.
CreateLink ==
    /\ phase = "links"
    /\ \E p \in links :
         /\ \A q \in links : Depth(p) <= Depth(q)
         /\ IF CanAdd(tree, p)
            THEN /\ tree' = Add(tree, p, Symlink(LinkText(p)))
                 /\ links' = links \ {p}
                 /\ UNCHANGED <<archiveInputs, phase, members>>
            ELSE ExtractFails
LinksCreated == links = {} /\ Phase("links", TRUE, "mounts", tree)

-----------------------------------------------------------------------------
\* The namespace's mount points and the merged /usr.

PrepareMountRoots ==
    LET roots == tree @@ [p \in MountRoots |-> Dir]
    IN Phase("mounts", \A p \in MountRoots : roots[p] = Dir, "legacy",
             roots @@ (ResolvConf :> Empty))

\* A link of the archive is replaced and an empty directory is removed.
LinkLegacyMergedUsr ==
    Phase("legacy",
          \A p \in DOMAIN LegacyLinks \cap DOMAIN tree :
              /\ tree[p].kind # "file"
              /\ tree[p].kind = "dir" => \A q \in DOMAIN tree : p \notin Ancestors(q),
          "tmp",
          [p \in DOMAIN LegacyLinks |-> Symlink(LegacyLinks[p])] @@ tree)

RejectPopulatedTmp ==
    Phase("tmp", \A q \in DOMAIN tree : <<"tmp">> \notin Ancestors(q), "done", tree)

ExtractInit ==
    /\ phase = "start" /\ members = <<>> /\ links = {} /\ tree = <<>>
ExtractNext ==
    \/ Authenticate \/ Index \/ MaterializeMembers \/ Generate \/ ResolveHardlinks
    \/ ValidateLinks \/ CreateLink \/ LinksCreated
    \/ PrepareMountRoots \/ LinkLegacyMergedUsr \/ RejectPopulatedTmp
=============================================================================
