-------------------------- MODULE SecureBootImage ---------------------------
(***************************************************************************)
(* mkosi/private/secure_boot_image.py and esp_files.py: the imported       *)
(* binaries replace the unsigned ones in a copy of the image, and keys for *)
(* automatic enrollment are added.  Names of a FAT file system do not      *)
(* depend on case: Lower(p) is what a lookup of p compares.                *)
(***************************************************************************)
EXTENDS SecureBoot

CONSTANTS
    Lower(_),     \* a path in lower case
    EfiNames,     \* the paths, in lower case, that end with .efi
    KeySets,      \* sequences of enrollment files [variable, time, pkcs7, lists]
    KeyPath,      \* the path of a file for each variable of Secure Boot
    LoaderConf, EspManifest   \* the paths of loader.conf and of the manifest
\* A FAT file system has no two names that differ in case only.
NamesDiffer(t) == \A p, q \in DOMAIN t : Lower(p) = Lower(q) => p = q
ASSUME ImageAssumption == \A case \in Cases : NamesDiffer(case.image)

VARIABLES
    step,        \* where the action is, or how it ended
    enroll,      \* the enrollment files that it was given
    tree,        \* the files that were in the system partition
    presigned,   \* the paths of startable binaries that had a signature
    changes,     \* path to new file
    result       \* the system partition of the signed image

imageVars == <<step, enroll, tree, presigned, changes, result>>
vars == <<signingVars, imageVars>>

Fails == step' = "failed" /\ UNCHANGED <<enroll, tree, presigned, changes, result>>
Found(t, p) == {q \in DOMAIN t : Lower(q) = Lower(p)}
Place(t, p) == IF Found(t, p) = {} THEN p ELSE CHOOSE q \in Found(t, p) : TRUE
\* is_pe; "odd" is a binary without a signature that parse_pe refuses all the same,
\* for its alignment or another detail of its layout.
IsPe(file) == file.form \in {"pe", "signed", "odd"}
\* _startable: what firmware discovers and what a boot loader entry names.
Startable(t) ==
    {p \in DOMAIN t : \/ Lower(p) \in EfiNames
                      \/ \E q \in DOMAIN t : t[q].form = "entry" /\ Lower(p) \in t[q].refs}

\* _replacements: by the content of the unsigned binary.
Replacing(file) == {r \in Requests : document[r].unsigned = file}
ReplacementsFit == \A r, s \in Requests : document[r].unsigned = document[s].unsigned => r = s

StartImage ==
    /\ step = "idle" /\ enroll' \in KeySets
    /\ \A r \in Requests : Fresh(r) /\ imported[r] # NoImport
                           /\ imported[r].inputs = InputsOf(r) /\ imported[r].result = "imported"
    /\ IF ReplacementsFit THEN step' = "assign" /\ tree' = image ELSE step' = "failed" /\ UNCHANGED tree
    /\ UNCHANGED <<signingVars, presigned, changes, result>>
_assign ==
    LET others == {p \in DOMAIN tree : Replacing(tree[p]) = {} /\ IsPe(tree[p])}
    IN /\ step = "assign"
       /\ IF /\ \A r \in Requests : \E p \in DOMAIN tree : Replacing(tree[p]) = {r}
             /\ \A p \in others : ~IsUnsigned(tree[p])
          THEN step' = "changes" /\ presigned' = others \cap Startable(tree)
               /\ UNCHANGED <<enroll, tree, changes, result>>
          ELSE Fails
       /\ UNCHANGED signingVars

-----------------------------------------------------------------------------
\* Enrollment.

\* efi_auth.py.  A signature list has its size and those of its header and of
\* an entry, with 28 bytes before the header and 16 before an entry's data.
Entries(list) == (list.size - 28 - list.header) \div list.entry
signature_list(type, certificate, size) ==
    [type |-> type, size |-> 44 + size, header |-> 0, entry |-> 16 + size, data |-> <<certificate>>]
signature_lists(lists) == \A i \in DOMAIN lists :
    /\ 28 + lists[i].header <= lists[i].size
    /\ lists[i].entry > 16 /\ (lists[i].size - 28 - lists[i].header) % lists[i].entry = 0
    /\ Entries(lists[i]) > 0
\* Lists whose sizes fit have the entries that there is room for.
ASSUME KeyAssumption ==
    \A keys \in KeySets : \A i \in DOMAIN keys : LET lists == keys[i].lists IN
        /\ lists \in Seq({lists[k] : k \in DOMAIN lists})
        /\ \A k \in DOMAIN lists : lists[k].size \in Nat /\ lists[k].header \in Nat /\ lists[k].entry \in Nat
        /\ signature_lists(lists) => \A k \in DOMAIN lists : DOMAIN lists[k].data = 1..Entries(lists[k])
x509_certificates(lists) ==
    UNION {{lists[i].data[k] : k \in DOMAIN lists[i].data} : i \in {j \in DOMAIN lists : lists[j].type = "X509"}}
parse_auth(file) ==
    /\ file.variable \in DOMAIN KeyPath
    /\ file.time = "valid" /\ file.pkcs7 = "DER"
    /\ signature_lists(file.lists)
    /\ file.variable = "PK" => Len(file.lists) = 1 /\ file.lists[1].type = "X509" /\ Entries(file.lists[1]) = 1
    /\ file.variable \in {"KEK", "db"} => \E i \in DOMAIN file.lists : file.lists[i].type = "X509"

Required == {"PK", "KEK", "db"}
_enrollment_keys == /\ \A i, j \in DOMAIN enroll : enroll[i].variable = enroll[j].variable => i = j
                    /\ \A i \in DOMAIN enroll : parse_auth(enroll[i])
                    /\ Required \subseteq {enroll[i].variable : i \in DOMAIN enroll}
Db == UNION {x509_certificates(enroll[i].lists) : i \in {j \in DOMAIN enroll : enroll[j].variable = "db"}}
\* openssl verify -partial_chain: db has the certificate or one that issued it,
\* directly or through the certificates of the signature.
Trusts(c, chain) ==
    LET Anchored(d) == \E a \in Db : a.key \in {d.key, d.issuer}
    IN Anchored(c) \/ \E i \in chain : i.key = c.issuer /\ Anchored(i)
\* _embedded_signer: the signature must be readable, and made by what it names.
SignatureVerifies(file) == file.form = "signed" /\ file.key = file.names.key
\* Mutant: only the imported binaries are looked at.
DbTrustsImported == \A r \in Requests : Trusts(document[r].certificate, {})
_check_db_trusts ==
    /\ \A r \in Requests : Trusts(document[r].certificate, {})
    /\ \A p \in presigned : SignatureVerifies(tree[p]) /\ Trusts(tree[p].names, tree[p].chain)

Replaced == {p \in DOMAIN tree : Replacing(tree[p]) # {}}
SignedFor(p) == imported[CHOOSE r \in Replacing(tree[p]) : TRUE].signed
\* Files over those of a tree.
Over(files, t) == [p \in DOMAIN files \cup DOMAIN t |-> IF p \in DOMAIN files THEN files[p] ELSE t[p]]
KeyFiles == [p \in {KeyPath[enroll[i].variable] : i \in DOMAIN enroll} |-> File("data", <<"auth", 0>>)]
_loader_conf == [p \in {Place(tree, LoaderConf)} |-> File("data", <<"secure-boot-enroll", 0>>)]
\* build_esp_manifest: the binaries with the digests that they have now.
ManifestFile == [form |-> "data", binaries |-> [p \in Replaced |-> SignedFor(p)]]
NewFiles == Over([p \in {Place(tree, EspManifest)} |-> ManifestFile],
                 Over(IF enroll = <<>> THEN <<>> ELSE Over(_loader_conf, KeyFiles), [p \in Replaced |-> SignedFor(p)]))
_changes ==
    /\ step = "changes"
    /\ IF enroll = <<>> \/ (_enrollment_keys /\ _check_db_trusts)
       THEN /\ changes' = NewFiles
            /\ step' = "apply" /\ UNCHANGED <<enroll, tree, presigned, result>>
       ELSE Fails
    /\ UNCHANGED signingVars

\* _apply and _verify: mcopy writes a file under the name that it finds; the
\* partition may be full.
Written(t, cs) == Over([q \in {Place(t, p) : p \in DOMAIN cs} |-> cs[CHOOSE p \in DOMAIN cs : Place(t, p) = q]], t)
VerifiedIn(t) == \A p \in DOMAIN changes : Found(t, p) # {} /\ t[Place(t, p)] = changes[p]
_apply ==
    /\ step = "apply"
    /\ \E fits \in BOOLEAN :
         IF fits /\ VerifiedIn(Written(tree, changes))
         THEN result' = Written(tree, changes) /\ step' = "done" /\ UNCHANGED <<enroll, tree, presigned, changes>>
         ELSE Fails
    /\ UNCHANGED signingVars

ImageNext == StartImage \/ _assign \/ _changes \/ _apply
Init == /\ SigningInit
        /\ step = "idle" /\ enroll = <<>> /\ tree = <<>> /\ presigned = {} /\ changes = <<>> /\ result = <<>>
\* The image is built in one go, while nothing else changes.
Next == \/ step \in {"idle", "done", "failed"} /\ SigningNext /\ UNCHANGED imageVars
        \/ ImageNext
Spec == Init /\ [][Next]_vars

-----------------------------------------------------------------------------
\* What signing promises.

\* The import accepts exactly the requested binary with a signature over it by
\* the requested certificate; and it refuses a file of the signer only if that
\* was made for another binary or another certificate.
ImportIsExact == \A r \in {q \in Requests : imported[q] # NoImport} :
    LET doc == imported[r].inputs.doc
        given == imported[r].inputs.signed
    IN IF imported[r].result = "imported"
       THEN imported[r].signed = Signed(doc.unsigned.body, doc.unsigned.body, doc.certificate, doc.certificate.key)
       ELSE given.body # doc.unsigned.body \/ given.names # doc.certificate

\* The signer validates and signs everything before it replaces the first file
\* of the source tree; what it puts there is whole, and is a binary that was
\* requested under that name with the signer's certificate, although the files
\* are rebuilt while it reads them.
SigningIsWhole == [][
    out' # out =>
        /\ Len(signer.signed) = Len(Manifest)
        /\ \A r \in Requests : out'[r] # out[r] =>
               \E q \in requested :
                  /\ q[1] = r /\ q[2].certificate = signer.certificate
                  /\ out'[r] = Signed(q[2].unsigned.body, q[2].unsigned.body, signer.certificate, signer.certificate.key)
    ]_vars

\* In a signed image no binary is left that parse_pe reads as unsigned; keys are
\* enrolled with a certificate for each required variable, or none are; if they
\* are, every binary that can be started, whether parse_pe reads it or not, has a
\* signature by a signer that the enrolled db trusts; the replaced binaries are
\* those of the image that was built, as the manifest says; and every other file
\* is as it was (_assign, _check_db_trusts, _changes, _verify).
ImageIsTrusted == step = "done" =>
    /\ \A p \in DOMAIN result : result[p].form # "pe"
    /\ enroll # <<>> => \A v \in Required :
           \E i \in DOMAIN enroll : enroll[i].variable = v /\ x509_certificates(enroll[i].lists) # {}
    /\ enroll # <<>> => \A p \in Startable(result) :
           IsPe(result[p]) => SignatureVerifies(result[p]) /\ Trusts(result[p].names, result[p].chain)
    /\ \A p \in DOMAIN tree :
           \/ result[p] = tree[p]
           \/ IsUnsigned(tree[p]) /\ result[p].body = tree[p].body /\ result[p].digest = tree[p].body
              /\ result[Place(result, EspManifest)].binaries[p] = result[p]
           \/ Lower(p) \in {Lower(LoaderConf), Lower(EspManifest)} \cup {Lower(KeyPath[v]) : v \in DOMAIN KeyPath}

\* The documented promise of secure_boot_signed_image: a build that succeeds
\* leaves no PE/COFF binary unsigned (_assign).
NothingUnsigned == step = "done" =>
    \A p \in DOMAIN result : IsPe(result[p]) => result[p].form = "signed"
=============================================================================
