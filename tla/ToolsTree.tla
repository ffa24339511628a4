----------------------------- MODULE ToolsTree -----------------------------
(***************************************************************************)
(* The Debian tools tree, from packages to files.                          *)
(* mkosi/debian/package_archive.py authenticates every package against the *)
(* manifest of the lock, lays their members over each other in the order   *)
(* of the packages and writes one archive; extract_tree.py, the module     *)
(* ExtractTree, makes a tree of it.                                        *)
(***************************************************************************)
EXTENDS ExtractTree

CONSTANTS
    PackageLists,   \* sequences of [name, digest, data], data being members by name
    Manifests       \* functions from package names to digests

VARIABLES
    packages,   \* the packages that the action was given, in order
    manifest,   \* the expected digest of every package
    build,      \* the phase of the archive, or how it ended
    opened,     \* the packages that are authenticated and held open
    objects,    \* the members so far: path to member
    work        \* the paths of the files extracted to the work directory

archiveVars == <<packages, manifest, build, opened, objects, work>>
toolsVars == <<extractVars, archiveVars>>

BuildFails == /\ build' = "failed" /\ work' = {}
              /\ UNCHANGED <<extractVars, packages, manifest, opened, objects>>

\* _authenticated_streams: all of them before the first one is parsed.
Named(list) == {list[i].name : i \in DOMAIN list}
ManifestMatches == /\ Cardinality(DOMAIN manifest) = Len(packages)
                   /\ Named(packages) = DOMAIN manifest
                   /\ \A i \in DOMAIN packages : packages[i].digest = manifest[packages[i].name]
AuthenticatePackages ==
    /\ build = "authenticate"
    /\ IF ManifestMatches
       THEN /\ build' = "collect" /\ opened' = packages
            /\ UNCHANGED <<extractVars, packages, manifest, objects, work>>
       ELSE BuildFails

\* _collect_package: a later package replaces the members of an earlier one;
\* a directory that no package has is added for its children.  Files go to one
\* work directory, where a file and a directory of one name exclude each other.
Members(data) == [p \in {member_path(n) : n \in DOMAIN data} \ {<<>>} |->
                     data[CHOOSE n \in DOMAIN data : member_path(n) = p]]
\* Mutant: the first package that has a path keeps it.
CollectedFirst(data) == objects @@ Members(data)
                            @@ [q \in UNION {Ancestors(p) : p \in DOMAIN Members(data)} |-> Dir]
Collected(data) == Members(data) @@ objects
                       @@ [q \in UNION {Ancestors(p) : p \in DOMAIN Members(data)} |-> Dir]
FilesOf(data) == {p \in DOMAIN Members(data) : Members(data)[p].kind = "file"}
CollectPackage ==
    /\ build = "collect" /\ opened # <<>>
    /\ LET data == Head(opened).data
           files == work \cup FilesOf(data)
       IN IF /\ \A n \in DOMAIN data : SafeName(n) /\ data[n].kind # "other"
             /\ \A p, q \in files : p \notin Ancestors(q)
          THEN /\ objects' = Collected(data) /\ work' = files /\ opened' = Tail(opened)
               /\ UNCHANGED <<extractVars, packages, manifest, build>>
          ELSE BuildFails

RECURSIVE Listing(_)
Listing(S) == IF S = {} THEN <<>>
              ELSE LET p == CHOOSE q \in S : TRUE IN Append(Listing(S \ {p}), p)
\* _archive, in an order that extraction does not rely on, and the removal of
\* the work directory.
WriteArchive ==
    /\ build = "collect" /\ opened = <<>>
    /\ LET order == Listing(DOMAIN objects)
       IN archive' = [i \in DOMAIN order |->
                         [name |-> <<".">> \o order[i], member |-> objects[order[i]]]]
    /\ build' = "archived" /\ work' = {}
    /\ UNCHANGED <<genuine, phase, members, links, tree, packages, manifest, opened, objects>>

BuildStarts == /\ build = "authenticate" /\ opened = <<>> /\ objects = <<>> /\ work = {}
               /\ archive = <<>> /\ ExtractInit
ToolsInit == /\ packages \in PackageLists /\ manifest \in Manifests /\ genuine \in BOOLEAN
             /\ BuildStarts
ToolsNext == \/ AuthenticatePackages \/ CollectPackage \/ WriteArchive
             \/ build = "archived" /\ ExtractNext /\ UNCHANGED archiveVars
ToolsSpec == ToolsInit /\ [][ToolsNext]_toolsVars

-----------------------------------------------------------------------------
\* What the tree is for.

\* Every place that the walk to the target of a link leaves by a ".." is a
\* directory, and every legacy link on its way has the text it will be replaced
\* with.  The code asks for neither: it drops the name before a "..", whatever
\* is there, and replaces a legacy link that has another text.
Plain(p) == /\ \A q \in Resolved(p).left : q \in DOMAIN tree /\ tree[q] = Dir
            /\ \A q \in Resolved(p).dependencies \cap DOMAIN LegacyLinks :
                   members[q].text = LegacyLinks[q]

\* Every link of a finished tree is relative.  One that was absolute in the
\* archive, or whose way is plain, leads for the kernel to the object that its
\* text in the archive names, inside the tree and existing unless it is one of
\* the allowed ones: what the walk over the members decided before any link was
\* created still holds in the tree with all links and the merged /usr.
LinksLead ==
    phase = "done" =>
        \A p \in Of("symlink") \ DOMAIN LegacyLinks :
            /\ ~tree[p].text.absolute
            /\ members[p].text.absolute \/ Plain(p) =>
                 /\ Leads(tree, p) = Leads(tree, Resolved(p).path)
                 /\ p \in AllowedDangling \/ Leads(tree, p).end = "found"

\* The member of the last package that has a path.
Newest(p) == LET i == Max({j \in DOMAIN packages : p \in DOMAIN Members(packages[j].data)})
           IN Members(packages[i].data)[p]
PackagePaths == UNION {DOMAIN Members(packages[i].data) : i \in DOMAIN packages}
RECURSIVE Content(_)
Content(p) == IF Newest(p).kind = "hardlink" THEN Content(Newest(p).target) ELSE Newest(p).data

\* A finished tree has every member of every package, as the last package has
\* it, the file behind a hard link included; all packages are the ones of the
\* manifest; and nothing else is in it but parents and what is generated.
TreeIsThePackages ==
    phase = "done" =>
        /\ ManifestMatches /\ genuine
        /\ \A p \in PackagePaths \ (DOMAIN LegacyLinks \cup {Bundle}) :
             /\ p \in DOMAIN tree
             /\ IF Newest(p).kind \in {"file", "hardlink"} THEN tree[p] = File(Content(p))
                ELSE tree[p].kind = Newest(p).kind
        /\ \A p \in DOMAIN tree \ PackagePaths :
             \/ tree[p] = Dir /\ (p \in MountRoots \/ \E q \in DOMAIN tree : p \in Ancestors(q))
             \/ tree[p] = Empty \/ p = Bundle \/ p \in DOMAIN LegacyLinks
=============================================================================
