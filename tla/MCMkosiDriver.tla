--------------------------- MODULE MCMkosiDriver ----------------------------
(***************************************************************************)
(* Small layouts and requests for MkosiDriver.  Every layout is built with *)
(* one request and every request with one layout.                          *)
(***************************************************************************)
EXTENDS MkosiDriver

Text(parts) == Symlink([absolute |-> FALSE, parts |-> parts])
Absolute(parts) == Symlink([absolute |-> TRUE, parts |-> parts])
FileAt(at, data) == [kind |-> "file", at |-> at, data |-> data]
TreeAt(at, t) == [kind |-> "dir", at |-> at, tree |-> t]
Generated(data) == [kind |-> "transport", data |-> data]

a == <<"a">>
b == <<"b">>
c == <<"c">>
ac == <<"a", "c">>
Low == <<"a-">>

\* A directory with a file, links to a file, a directory, upwards and nowhere.
Objects == {Dir, File("one"), Text(b), Text(<<"c">>), Text(<<".">>), Text(<<"..", "b">>), Absolute(b)}
Sub == {File("two"), Text(<<"..", "b">>), Text(<<"..", "..", "b">>)}
SmallTrees == {(a :> o) @@ (b :> File("three")) : o \in Objects}
              \cup {(a :> Dir) @@ (ac :> o) @@ (b :> p) : o \in Sub, p \in {Dir, Text(a), File("three")}}
              \cup {(a :> Generated("four")) @@ (b :> Text(a)), <<>>}
Nested == FileAt(<<"t", "b">>, "three")
Sources == {FileAt(<<"s">>, "s"), Nested, [kind |-> "missing", at |-> <<"m">>]}
           \cup {TreeAt(<<"t">>, t) : t \in SmallTrees}
Others == {FileAt(<<"s">>, "s"), Nested, TreeAt(<<"u">>, <<>>),
           TreeAt(<<"u">>, (a :> Dir) @@ (ac :> File("two")) @@ (b :> Text(a)))}
Places == {<<>>, a, c, ac}
Mapping(source, destination, role) == [source |-> source, destination |-> destination, role |-> role]
Mappings(S) == {Mapping(s, d, r) : s \in S, d \in Places, r \in {"tree", "file", "generated-tree"}}
Plausible(S) == {m \in Mappings(S) : (m.source.kind = "dir") = (m.role # "file")}
\* The nested file is the one of its tree.
Consistent(m, n) == n.source = Nested /\ m.source.kind = "dir" =>
    b \in DOMAIN m.source.tree /\ m.source.tree[b] = File("three")
Layout(ms, merge, executables) == [mappings |-> ms, merge |-> merge, executables |-> executables]
SmallLayouts ==
    {Layout(<<m>>, FALSE, e) : m \in Mappings(Sources), e \in {{}, {ac}}}
    \cup {Layout(<<m, m>>, g, {}) : m \in Plausible(Sources), g \in BOOLEAN}
    \cup {Layout(<<p[1], p[2]>>, g, {}) : g \in BOOLEAN,
             p \in {q \in Plausible(Sources) \X Plausible(Others) : Consistent(q[1], q[2])}}
\* A name that sorts between a directory and its children.
LowLayouts ==
    {Layout(<<Mapping(TreeAt(<<"t">>, (a :> o) @@ (b :> Dir) @@ (Low :> File("low"))), <<>>, "tree"),
              Mapping(FileAt(<<"s">>, "s"), ac, "file")>>, TRUE, {}) : o \in {File("one"), Text(b)}}
SmallOrder == <<"a", "a-", "b", "c">>
NoLow == {}
SlashLow == {<<"a", "a-">>}
SmallStale == {<<>>, c :> [kind |-> "file", data |-> "stale", executable |-> FALSE]}

Default == [repository |-> FALSE, baseTree |-> FALSE, initrd |-> FALSE, initrdOutput |-> FALSE,
            components |-> FALSE, directory |-> TRUE, release |-> "none", tools |-> "none",
            version |-> "none", firmware |-> "uefi", deviations |-> {}]
SmallDeviations == {"proxy", "incremental", "distribution", "components", "seed", "epoch", "extra tree",
                    "host modules", "undeclared path", "unsized hash", "script", "match", "secure boot", "no snapshot", "image version", "initrd modules",
                                "packages", "initrd packages", "other base", "other initrd", "cache",
                                "initrd configuration"}
OptionSets ==
    {[repository |-> r, baseTree |-> t, initrd |-> i, initrdOutput |-> o, components |-> k,
      directory |-> d, release |-> l, tools |-> "none", version |-> "none", firmware |-> "uefi",
      deviations |-> {}] :
        r \in BOOLEAN, t \in BOOLEAN, i \in BOOLEAN, o \in BOOLEAN, k \in BOOLEAN, d \in BOOLEAN,
        l \in {"none", "some", "all"}}
Release(finalize, base) == [Default EXCEPT !.repository = ~finalize, !.baseTree = finalize,
                                !.initrd = finalize, !.initrdOutput = base, !.components = TRUE,
                                !.release = "all"]
Releases == {Release(TRUE, FALSE), Release(FALSE, FALSE), Release(FALSE, TRUE)}
SmallRequests ==
    OptionSets
    \cup {[r EXCEPT !.deviations = {d}, !.firmware = f] :
             r \in Releases \cup {[Release(FALSE, FALSE) EXCEPT !.release = "none"]},
             d \in SmallDeviations, f \in {"uefi", "bios"}}
    \cup {[r EXCEPT !.tools = t, !.version = v] :
             r \in Releases \cup {Default}, t \in {"none", "some", "all"}, v \in {"good", "bad"}}
SmallCodes == {-64, -9, 0, 1, 255}

OneLayout == Layout(<<Mapping(TreeAt(<<"t">>, (a :> Dir) @@ (ac :> File("two")) @@ (b :> Text(a))), <<>>, "tree")>>, FALSE, {ac})
Case(l, r) == [layout |-> l, request |-> r]
SmallCases == {Case(l, Default) : l \in SmallLayouts} \cup {Case(OneLayout, r) : r \in SmallRequests}
LowCases == {Case(l, Default) : l \in LowLayouts}
=============================================================================
