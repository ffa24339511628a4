--------------------------- MODULE MCDebianTools ----------------------------
(***************************************************************************)
(* The commands behind the Debian tools on small instances.  One of them   *)
(* has work to do: the generator resolves a specification, or, once it has *)
(* resolved an empty one, the checkout is refreshed or a tree is built.    *)
(* They share no variable.                                                 *)
(***************************************************************************)
EXTENDS LockResolver, DebVersions, RefreshDebianTools, ToolsTree

VARIABLE command   \* the command that has work to do

commandVars == <<vars, refreshVars, toolsVars, command>>

\* What the two commands that wait have to do.
NoUniverse == universe = <<>> /\ requested = <<>>
NoPackages == packages = <<>> /\ manifest = <<>> /\ genuine = FALSE
OneSnapshot == spec = CHOOSE s \in Snapshots : TRUE
CommandInit ==
    \/ /\ command = "generate_lock" /\ Init
       /\ OneSnapshot /\ RefreshInit /\ NoPackages /\ BuildStarts
    \/ /\ command = "refresh" /\ RefreshInit
       /\ NoUniverse /\ ResolverStarts /\ NoPackages /\ BuildStarts
    \/ /\ command = "tree" /\ ToolsInit
       /\ NoUniverse /\ ResolverStarts /\ OneSnapshot /\ RefreshInit
CommandNext ==
    \/ Next /\ UNCHANGED <<refreshVars, toolsVars, command>>
    \/ /\ Ended /\ command = "refresh"
       /\ RefreshNext /\ UNCHANGED <<vars, toolsVars, command>>
    \/ /\ Ended /\ command = "tree"
       /\ ToolsNext /\ UNCHANGED <<vars, refreshVars, command>>
CommandSpec == CommandInit /\ [][CommandNext]_commandVars /\ WF_vars(Next)

-----------------------------------------------------------------------------
\* Universes: a bootstrap package (name 1), a package in two versions (name 2),
\* two packages (names 3 and 5) that provide a virtual one (name 4), and every
\* choice of dependencies from a list, with duplicates across indexes.

Relation(name, operator, version) ==
    [name |-> name, foreign |-> "no", operator |-> operator, version |-> version]
Foreign(name) == [name |-> name, foreign |-> "yes", operator |-> "none", version |-> 0]

\* Dependencies: none, any version, an old version, a virtual package and an
\* exact version, alternatives, a provided version, a foreign package.
Depends == {
    <<>>,
    <<<<Relation(2, "none", 0)>>>>,
    <<<<Relation(2, "<<", 2)>>>>,
    <<<<Relation(4, "none", 0)>>, <<Relation(2, "=", 1)>>>>,
    <<<<Relation(3, "none", 0), Relation(2, ">>", 1)>>>>,
    <<<<Relation(4, ">=", 2)>>, <<Foreign(2), Relation(1, "<=", 1)>>>>}

Package(name, version, boot, provides, groups) ==
    [name |-> name, version |-> version, arch |-> "amd64",
     multiArch |-> IF name = 3 THEN "foreign" ELSE "no", bootstrap |-> boot,
     rank |-> IF name = 5 THEN 2 ELSE 3, provides |-> provides, groups |-> groups]
Provides(name, version) == {[name |-> name, version |-> version]}

Universe(g1, g2, g3, g4) == <<
    Package(1, 1, "yes", {}, g1),
    Package(2, 1, "no", {}, <<>>),
    Package(2, 2, "no", {}, g2),
    Package(3, 1, "no", Provides(4, 2), g3),
    Package(5, 1, "no", Provides(4, NoVersion), g4)>>
\* The same package in a second index, and one that differs there; a package
\* whose old version is the only provider of name 6.
Again == Package(2, 1, "no", {}, <<>>)
Otherwise == Package(2, 1, "no", Provides(4, 1), <<>>)
Old == Package(1, 1, "no", Provides(6, NoVersion), <<>>)
New == Package(1, 2, "yes", {}, <<<<Relation(2, ">=", 1)>>>>)

SmallUniverses ==
    {Universe(g1, g2, g3, g4) : g1, g2, g3, g4 \in Depends}
    \cup {Append(Universe(g, g, <<>>, <<>>), p) : g \in Depends, p \in {Again, Otherwise}}
    \cup {<<Old, New, Again>>, <<Again, New, Old>>, <<>>}
SmallRequests == {<<>>, <<2>>, <<3, 4>>, <<4>>, <<3, 2>>, <<6>>}
\* compare_versions orders by epoch, upstream version and revision, where a tilde
\* sorts before the end of a part, letters before other characters, and numbers
\* by value.  So the candidates of a name have a newest one, whatever order the
\* indexes list them in (compare_versions, Universe).
\* It has no state, and one state is where it is checked.
VersionOrder == pc = "universe" /\ command = "generate_lock" /\ NoUniverse => OrderIsPolicy
-----------------------------------------------------------------------------
\* Package lists: a base package with a merged /usr, and one that adds
\* directories, files, hard links and symbolic links, relative and absolute, to
\* each other, through the merged /usr, into nothing, and with a ".." behind a
\* directory, a file, a link or nothing.

Rel(parts) == Symlink([absolute |-> FALSE, parts |-> parts])
Abs(parts) == Symlink([absolute |-> TRUE, parts |-> parts])
Hard(target) == [kind |-> "hardlink", target |-> target]
Other == [kind |-> "other"]

a == <<"a">>
b == <<"b">>
dl == <<"d", "l">>
usrbin == <<"usr", "bin">>
x == <<"usr", "bin", "x">>
y == <<"usr", "bin", "y">>

Bins == {<<>>, (<<"bin">> :> Rel(usrbin)), (<<"bin">> :> Rel(<<"d">>)), (<<"bin">> :> Dir)}
Ys == {<<>>, y :> Abs(<<"bin", "x">>), y :> Rel(<<"x">>)}
Base(bin, why) == bin @@ why @@ (usrbin :> Dir) @@ (x :> File("one"))

Anything == {Dir, File("two"), Hard(x), Hard(b), Hard(dl),
             Rel(a), Rel(b), Rel(<<"d", "l">>), Rel(<<"bin", "y">>), Rel(<<"..", "b">>),
             Abs(<<"b">>), Abs(<<"d">>), Abs(<<"bin", "x">>), Abs(<<"bin", "y">>)}
Detours == {Rel(<<"b", "..", "d">>), Rel(<<"bin", "..", "b">>), Abs(<<"b", "..", "d">>)}
Optional(p, choices) == {<<>>} \cup {p :> c : c \in choices}
Extra == {f @@ g @@ h : f \in Optional(a, Anything \cup Detours), g \in Optional(b, Anything),
                        h \in Optional(dl, {File("two"), Rel(b), Rel(<<"..", "b">>), Rel(<<"..", "a">>),
                                            Abs(<<"bin", "x">>), Abs(<<"a", "y">>), Hard(a)})}
\* Packages that replace a member, populate /tmp or a mount root, own a
\* certificate or a runtime target, or have a member that is refused.
Special == {
    x :> File("three"), usrbin :> Rel(a), (<<"a", "y">> :> File("two")) @@ (a :> Rel(usrbin)),
    <<"tmp", "f">> :> File("two"), <<"etc">> :> File("two"), <<"etc">> :> Rel(<<"usr">>),
    <<"etc", "c">> :> File("two"), <<"etc", "t">> :> File("two"), <<"etc", "t">> :> Rel(<<"c">>),
    <<"bin", "z">> :> File("two"), <<"..", "a">> :> File("two"), <<".", "a">> :> File("two"),
    a :> Other, (a :> File("two")) @@ (<<"a", "l">> :> Hard(x)),
    (<<"k">> :> Rel(<<"etc", "m">>)) @@ (<<"etc", "m">> :> Dir), <<"v">> :> Rel(<<"n">>)}

Deb(name, data) == [name |-> name, digest |-> name, data |-> data]
SmallLists ==
    {<<Deb("base", Base(bin, why)), Deb("extra", e)>> :
         bin \in Bins, why \in Ys, e \in Extra}
    \cup {<<Deb("base", Base(bin, <<>>)), Deb("extra", e)>> : bin \in Bins, e \in Special}
    \cup {<<Deb("extra", e), Deb("base", Base(<<>>, <<>>))>> : e \in Special}
    \cup {<<Deb("base", Base(<<>>, <<>>))>>,
          <<Deb("base", Base(<<>>, <<>>)), Deb("base", a :> Dir)>>,
          <<Deb("base", Base(<<>>, <<>>)), [name |-> "extra", digest |-> "other", data |-> a :> Dir]>>}
SmallManifests == {[n \in {"base", "extra"} |-> n]}

SmallAllowed == {<<"v">>}
SmallEmptyTargets == {[link |-> <<"k">>, target |-> <<"etc", "m">>,
                       text |-> [absolute |-> FALSE, parts |-> <<"etc", "m">>]]}
SmallCertificates == {<<"etc", "c">>}
SmallBundle == <<"etc", "t">>
SmallRuntimeTargets == {<<"etc", "n">>}
SmallMountRoots == {<<"etc">>, <<"tmp">>}
SmallResolvConf == <<"etc", "r">>
SmallLegacy == <<"bin">> :> [absolute |-> FALSE, parts |-> usrbin]
=============================================================================
