------------------------- MODULE MCDebianRepository -------------------------
(***************************************************************************)
(* One component with two packages, and a mirror that may change once.     *)
(* Archives 1 and 2 are two well-formed states; 3 has the indexes of 1     *)
(* under a new Release file; each of the others differs from 1 in one      *)
(* respect.                                                                *)
(***************************************************************************)
EXTENDS DebianRepository, TLC

Deb(text) == [text |-> text, size |-> 1]
Package(name, version, arch, filename, text) ==
    [name |-> name, version |-> version, arch |-> arch, filename |-> filename,
     size |-> 1, sha256 |-> Sha256(Deb(text)), form |-> "complete"]
A == Package("a+", "1", "amd64", "pool/a.deb", "a")
B == Package("b", "1", "all", "pool/b.deb", "b")
Index(packages) == [packages |-> packages, size |-> Len(packages), compressed |-> "xz"]
NativeIndex == Index(<<A, B>>)
AllIndex == Index(<<B>>)

Listed2(path, index) ==
    [path |-> path, sha256 |-> Sha256(index), size |-> index.size, form |-> "lower"]
Field(name, kind, entries) == [name |-> name, kind |-> kind, entries |-> entries]
Native == <<"main", "amd64">>
All == <<"main", "all">>
Body(date, entries) ==
    [codename |-> "trixie", components |-> {"main"}, architectures |-> {"amd64", "all"},
     version |-> "numeric", paragraphs |-> 1, date |-> date,
     fields |-> <<Field("MD5Sum", "list", <<>>), Field("SHA256", "list", entries)>>]
Archive(body, native, all) ==
    LET release == [body |-> body, newlines |-> 1]
    IN  [files |-> (InRelease :> [body |-> body, newlines |-> 1,
                                  signature |-> [by |-> "debian", over |-> body]])
                   @@ (Release :> release)
                   @@ (ReleaseGpg :> [by |-> "debian", over |-> release])
                   @@ (Native :> native) @@ (All :> all),
         pool |-> ("pool/a.deb" :> Deb("a")) @@ ("pool/b.deb" :> Deb("b"))
                  @@ ("pool/c.deb" :> Deb("c")) @@ ("pool/../a.deb" :> Deb("a"))]
Signed(date, native, all) ==
    Archive(Body(date, <<Listed2(Native, native), Listed2(All, all)>>), native, all)

Good == Signed(1, NativeIndex, AllIndex)
Newer == Signed(2, Index(<<[A EXCEPT !.version = "2"], B>>), AllIndex)
Redated == Signed(2, NativeIndex, AllIndex)
GoodBody == Good.files[Release].body
WithBody(body) == Archive(body, NativeIndex, AllIndex)
WithFields(extra) == WithBody([GoodBody EXCEPT !.fields = @ \o extra])
WithEntries(entries) == WithBody(Body(1, entries))
WithNative(packages) == Signed(1, Index(packages), AllIndex)
N == Listed2(Native, NativeIndex)
L == Listed2(All, AllIndex)

MCArchives == <<
    Good, Newer, Redated,
    \* The Release file.
    WithFields(<<Field("Acquire-By-Hash", "value", <<>>)>>),
    WithFields(<<Field("SHA512", "list", <<>>)>>),
    WithFields(<<Field("SHA256", "list", <<>>)>>),
    WithBody([GoodBody EXCEPT !.paragraphs = 2]),
    WithBody([GoodBody EXCEPT !.codename = "forky"]),
    WithBody([GoodBody EXCEPT !.version = "none"]),
    WithEntries(<<N>>),
    WithEntries(<<N, L, N>>),
    WithEntries(<<[N EXCEPT !.form = "upper"], L>>),
    WithEntries(<<N, L, [path |-> <<"contrib", "all">>, sha256 |-> "", size |-> 0,
                         form |-> "malformed"]>>),
    WithEntries(<<[N EXCEPT !.size = 9], L>>),
    [Good EXCEPT !.files[Release].newlines = 0],
    [Good EXCEPT !.files[Release].newlines = 0, !.files[ReleaseGpg].over.newlines = 0],
    \* The signatures.
    [Good EXCEPT !.files[InRelease].signature.by = "other"],
    [Good EXCEPT !.files[ReleaseGpg].by = "other"],
    [Good EXCEPT !.files[InRelease].signature.over = Newer.files[Release].body],
    \* The indexes.
    [Good EXCEPT !.files[All] = Index(<<>>)],
    Signed(1, [NativeIndex EXCEPT !.compressed = "broken"], AllIndex),
    Signed(1, NativeIndex, Index(<<A>>)),
    WithNative(<<[A EXCEPT !.form = "incomplete"]>>),
    WithNative(<<[A EXCEPT !.filename = "pool/../a.deb"], B>>),
    WithNative(<<[A EXCEPT !.filename = "a.deb"], B>>),
    WithNative(<<A, [A EXCEPT !.name = "c"]>>),
    WithNative(<<A, [A EXCEPT !.filename = "pool/c.deb"]>>),
    WithNative(<<A, [A EXCEPT !.name = "a-p-", !.filename = "pool/c.deb",
                             !.sha256 = Sha256(Deb("c"))]>>),
    \* What is served.
    [files |-> [path \in (DOMAIN Good.files) \ {All} |-> Good.files[path]], pool |-> Good.pool],
    [Good EXCEPT !.pool["pool/a.deb"] = Deb("x")],
    WithNative(<<[A EXCEPT !.size = 2], B>>) >>

MCComponents == <<"main">>
MCEscaped == [name \in {"a+", "a-p-", "b", "c"} |-> IF name = "a+" THEN "a-p-" ELSE name]
MCPoolPaths == {"pool/a.deb", "pool/b.deb", "pool/c.deb", "pool/../a.deb"}
MCSafePaths == MCPoolPaths \ {"pool/../a.deb"}

\* One digest, one package or one record of an index is changed by hand.
MCEdits(l) ==
    LET other == Archives[2]
        edited(p) == {[p EXCEPT !.filename = f] : f \in {"pool/c.deb", "pool/../a.deb"}}
                     \cup {[p EXCEPT !.filename = "pool/c.deb", !.sha256 = Sha256(Deb("c"))],
                           [p EXCEPT !.sha256 = Sha256(Deb("c"))], [p EXCEPT !.size = 2],
                           [p EXCEPT !.version = "2"]}
    IN  {[l EXCEPT !.files[n] = Sha256(other.files[<<InRelease, Release, ReleaseGpg>>[n]])]
           : n \in 1..3}
        \cup {[l EXCEPT !.indexes[1].sha256 = Sha256(other.files[Native])],
              [l EXCEPT !.indexes[1].path = <<"forky", "main", "amd64">>],
              [l EXCEPT !.indexes[2].arch = "amd64", !.indexes[2].path = l.indexes[1].path],
              [l EXCEPT !.indexes = <<l.indexes[1]>>],
              [l EXCEPT !.codename = "Trixie"]}
        \cup UNION {{[l EXCEPT !.packages[n] = q] : q \in edited(l.packages[n])}
                      : n \in DOMAIN l.packages}
        \cup {[l EXCEPT !.packages = Append(@, [@[n] EXCEPT !.name = "c"])] : n \in DOMAIN l.packages}
=============================================================================
