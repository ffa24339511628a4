----------------------------- MODULE MCSecureBoot ----------------------------
EXTENDS SecureBootImage

Pe == INSTANCE PeImage
D == INSTANCE Der

Cert(key, issuer, der) == [key |-> key, issuer |-> issuer, der |-> der]
Leaf == Cert("leaf", "root", "canonical")
LeafOther == Cert("leaf", "root", "other")
Stranger == Cert("stranger", "stranger", "canonical")
SmallCertificates == {Leaf, LeafOther, Stranger}
Option(c, k, bundled, only) == [certificate |-> c, key |-> k, bundled |-> bundled, only |-> only]
SmallOptions == {Option(Leaf, Leaf, TRUE, FALSE), Option(Leaf, Leaf, FALSE, TRUE), Option(Leaf, Stranger, TRUE, FALSE),
                 Option(Leaf, Stranger, FALSE, FALSE), Option(LeafOther, Leaf, FALSE, FALSE),
                 Option(Stranger, Stranger, FALSE, FALSE)}
Middle == Cert("middle", "root", "canonical")
Distant == Cert("distant", "middle", "canonical")
Vendor(certificate, key, chain) ==
    [form |-> "signed", body |-> <<"vendor", 0>>, digest |-> <<"vendor", 0>>, names |-> certificate,
     key |-> key, chain |-> chain]

Uki == File("pe", <<"uki", 0>>)
Loader == File("pe", <<"loader", 0>>)
\* A UKI and a loader, the latter under two names or in the place of the UKI.
Plain == ("uki.efi" :> Uki) @@ ("boot.efi" :> Loader)
Extras == {<<>>,
           "copy.EFI" :> Loader,
           "other.efi" :> File("pe", <<"other", 0>>),
           "kernel" :> File("pe", <<"other", 0>>),
           "kernel" :> Vendor(Stranger, "stranger", {}),
           ("kernel" :> Vendor(Stranger, "stranger", {})) @@ ("entry" :> [form |-> "entry", refs |-> {"kernel"}]),
           "other.efi" :> Vendor(Leaf, "leaf", {}),
           "other.efi" :> Vendor(Leaf, "stranger", {}),
           "other.efi" :> Vendor(Distant, "distant", {Middle}),
           "other.efi" :> Vendor(Distant, "distant", {}),
           "other.efi" :> File("odd", <<"odd", 0>>),
           ("LOADER.CONF" :> File("data", <<"timeout", 0>>)) @@ ("db.auth" :> File("data", <<"old", 0>>))}
SmallImages == {Plain @@ e : e \in Extras} \cup {("uki.efi" :> Uki) @@ ("boot.efi" :> Uki), "uki.efi" :> Uki}
Case(i, e, r) == [image |-> i, edits |-> e, runs |-> r]
SmallCases == {Case(i, 0, 1) : i \in SmallImages} \cup {Case(Plain, 1, 2)}
SmallLower(p) == CASE p = "copy.EFI" -> "copy.efi" [] p = "LOADER.CONF" -> "loader.conf" [] OTHER -> p
SmallEfi == {"uki.efi", "boot.efi", "copy.efi", "other.efi"}
SmallPathOf == ("u" :> "uki.efi") @@ ("b" :> "boot.efi")
SmallManifest == <<"u", "b">>
SmallUkis == {"u"}
X509(certificate) == signature_list("X509", certificate, 2)
Auth(variable, lists) == [variable |-> variable, time |-> "valid", pkcs7 |-> "DER", lists |-> lists]
Keys(db) == <<Auth("PK", <<X509(Stranger)>>), Auth("KEK", <<X509(Stranger)>>), Auth("db", db)>>
Digests == [X509(Leaf) EXCEPT !.type = "SHA256"]
SmallKeySets ==
    {<<>>, Keys(<<X509(Leaf)>>), Keys(<<Digests, X509(Cert("root", "root", "canonical"))>>), Keys(<<X509(Stranger)>>),
     Keys(<<Digests>>), Keys(<<[X509(Leaf) EXCEPT !.size = @ - 1]>>), Keys(<<[X509(Leaf) EXCEPT !.size = 28]>>),
     Append(Keys(<<X509(Leaf)>>), Auth("db", <<X509(Stranger)>>)),
     Append(Keys(<<X509(Leaf)>>), Auth("other", <<X509(Stranger)>>)), SubSeq(Keys(<<X509(Leaf)>>), 1, 2),
     [Keys(<<X509(Leaf)>>) EXCEPT ![1].lists = <<X509(Leaf), X509(Stranger)>>],
     [Keys(<<X509(Leaf)>>) EXCEPT ![2].time = "nonzero padding"], [Keys(<<X509(Leaf)>>) EXCEPT ![2].pkcs7 = "none"]}
SmallKeyPath == [v \in {"PK", "KEK", "db"} |-> IF v = "db" THEN "db.auth" ELSE IF v = "PK" THEN "pk.auth" ELSE "kek.auth"]
\* Binaries of up to 2 KiB: fields at, below and above their limits.
PeFields == {[length |-> length, pe |-> pe, magic |-> 523, sectionCount |-> count, optionalSize |-> size,
              directories |-> directories, alignment |-> 512, sizeHeaders |-> headers, sections |-> sections,
              certificateOffset |-> 0, certificateSize |-> 0, table |-> <<>>] :
             length \in {512, 1535, 1536}, pe \in {64, 280}, count \in {1, 2}, size \in {111, 151, 152},
             directories \in {4, 5, 6}, headers \in {0, 512, 1024},
             sections \in {<<>>, <<[offset |-> 512, size |-> 512]>>, <<[offset |-> 512, size |-> 600]>>,
                           <<[offset |-> 512, size |-> 512], [offset |-> 1024, size |-> 511]>>,
                           <<[offset |-> 512, size |-> 513], [offset |-> 1024, size |-> 1]>>,
                           <<[offset |-> 1024, size |-> 8]>>,
                           <<[offset |-> 512, size |-> 9], [offset |-> 1024, size |-> 8]>>}}
SignedAs(f, offset, record) ==
    [f EXCEPT !.length = offset + 24, !.certificateOffset = offset, !.certificateSize = 24, !.table = <<record>>]
PeSigned(f) == {SignedAs(f, offset, [length |-> length, der |-> der]) :
                offset \in {1024, 1535, 1536}, length \in {16, 17, 24}, der \in {0, 9, 16, 17}}
Words(bytes, size) == UNION {[1..n -> bytes] : n \in 0..size}

\* Every short encoding and every small layout.
EncodingsAreReadOneWay ==
    /\ D!DerIsCanonical(Words({0, 1, 127, 128, 129, 130, 131, 255}, 4), {0, 1, 127, 128, 255, 256, 65535, 65536},
                        Words({0, 39, 40, 80, 127, 128, 129, 255}, 4))
    /\ \A f \in PeFields :
          /\ Pe!HashCoversOnce(f, FALSE)
          /\ Pe!parse_pe(f, FALSE) => \A s \in PeSigned(f) : Pe!HashCoversOnce(s, TRUE) /\ Pe!EquivalentIsHashed(f, s)

\* The encodings of a signature are read in one way: lengths and object
\* identifiers have one form; the digest of a binary covers no byte twice and
\* leaves out none but the two fields, the signature and the gaps around its
\* sections (der_read, der_oid, parse_pe, authenticode_hash).  That has no state;
\* it is what every import and every image rest on.
SignaturesAreReadOneWay == requested # {} => EncodingsAreReadOneWay
=============================================================================
