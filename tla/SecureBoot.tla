----------------------------- MODULE SecureBoot -----------------------------
(***************************************************************************)
(* mkosi/private/secure_boot.py and secure_boot_signer.py: how a binary of *)
(* an image gets its signature.  Bazel extracts it and writes a request,   *)
(* its digest and a certificate; a person runs the signer, which reads     *)
(* these files where Bazel builds them, while it may be building them, and *)
(* writes signed binaries into the source tree; Bazel imports them.        *)
(*                                                                         *)
(* A file of a system partition is a record: form is "data", "entry", "pe" *)
(* (not signed), "signed" or "odd" (a PE header without a valid layout).   *)
(* A signature has the digest that it covers, the certificate that it      *)
(* names, the key that made it and the certificates that come with it.  A  *)
(* body stands for its own digest, a document for its own.                 *)
(***************************************************************************)
EXTENDS Naturals, Sequences, FiniteSets, TLC

CONSTANTS
    Manifest,       \* the names of the requests, in the manifest's order
    PathOf,         \* the ESP path of a request's binary
    Ukis,           \* the requests for the image's UKI, which have no ESP path
    Cases,          \* [image, edits, runs]: the system partition of an unsigned image,
                    \* path to file, and bounds on changes and runs of the signer
    Certificates,   \* [key, issuer, der]
    Options         \* of a signer: [certificate, key, bundled, only]
\* load_manifest refuses an empty manifest.
ASSUME ManifestAssumption == Manifest \in Seq(STRING) /\ Manifest # <<>>

VARIABLES
    image,       \* the system partition of the current unsigned image
    certFile,    \* the certificate in the source tree
    edits,       \* changes of the image or the certificate that may still come
    unsigned,    \* per request: the extracted binary,
    certOut,     \*   the normalized certificate,
    document,    \*   the request
    recorded,    \*   and its digest
    requested,   \* history: every request with its name
    signer,      \* the signer process
    runs,        \* its runs that may still come
    out,         \* per request: the signed binary in the source tree
    partial,     \*   and the file that it is written to first
    imported     \* per request: what the import made of it

built == <<unsigned, certOut, document, recorded, requested>>
sourceTree == <<out, partial>>
world == <<image, certFile, edits>>
signingVars == <<world, built, sourceTree, signer, runs, imported>>

Requests == {Manifest[i] : i \in DOMAIN Manifest}
None == [form |-> "none"]
NoDocument == [unsigned |-> None]
File(form, body) == [form |-> form, body |-> body]
Signed(body, digest, certificate, key) ==
    [form |-> "signed", body |-> body, digest |-> digest, names |-> certificate, key |-> key, chain |-> {}]

-----------------------------------------------------------------------------
\* Certificates and binaries.

\* canonical_certificate: OpenSSL's encoding of the same certificate.
canonical_certificate(certificate) == [certificate EXCEPT !.der = "canonical"]
\* parse_pe(data, False)
IsUnsigned(file) == file.form = "pe"
\* verify_embedded_digest: the signed binary is the unsigned one with a
\* signature over it and nothing else.
SamePrograms(u, s) == IsUnsigned(u) /\ s.form = "signed" /\ s.body = u.body
verify_embedded_digest(u, s) == SamePrograms(u, s) /\ s.digest = s.body
\* verify_signature and _verify_signer: named by, and made with the key of, one
\* certificate.
verify_signature(s, certificate) == s.names = certificate /\ s.key = certificate.key

-----------------------------------------------------------------------------
\* Bazel's side: extraction and requests.  Two of them may be built at once.

Context(espPath) == IF espPath = "" THEN "uki" ELSE "esp-file"
EspPath(r) == IF r \in Ukis THEN "" ELSE PathOf[r]
Request(r) == [certificate |-> certOut[r], context |-> Context(EspPath(r)),
               espPath |-> EspPath(r), unsigned |-> unsigned[r]]
keepBuild == <<world, sourceTree, signer, runs, imported>>

extract(r) ==
    /\ PathOf[r] \in DOMAIN image /\ IsUnsigned(image[PathOf[r]])
    /\ unsigned[r] # image[PathOf[r]]
    /\ unsigned' = [unsigned EXCEPT ![r] = image[PathOf[r]]]
    /\ UNCHANGED <<keepBuild, certOut, document, recorded, requested>>
Extracted(r) == PathOf[r] \in DOMAIN image /\ unsigned[r] = image[PathOf[r]] /\ unsigned[r] # None
CertificateWritten(r) == certOut[r] = canonical_certificate(certFile)
\* create_request writes three files.
WriteCertificate(r) ==
    /\ Extracted(r) /\ ~CertificateWritten(r)
    /\ certOut' = [certOut EXCEPT ![r] = canonical_certificate(certFile)]
    /\ UNCHANGED <<keepBuild, unsigned, document, recorded, requested>>
WriteDocument(r) ==
    /\ Extracted(r) /\ CertificateWritten(r) /\ document[r] # Request(r)
    /\ document' = [document EXCEPT ![r] = Request(r)]
    /\ requested' = requested \cup {<<r, Request(r)>>}
    /\ UNCHANGED <<keepBuild, unsigned, certOut, recorded>>
WriteDigest(r) ==
    /\ Extracted(r) /\ CertificateWritten(r) /\ document[r] = Request(r)
    /\ recorded[r] # document[r]
    /\ recorded' = [recorded EXCEPT ![r] = document[r]]
    /\ UNCHANGED <<keepBuild, unsigned, certOut, document, requested>>
\* What Bazel guarantees to an action that has the request as an input.
Fresh(r) == Extracted(r) /\ CertificateWritten(r) /\ document[r] = Request(r) /\ recorded[r] = document[r]

\* One binary is rebuilt with other content, or the certificate is replaced.
Edit ==
    /\ edits > 0 /\ edits' = edits - 1
    /\ \/ \E p \in {PathOf[r] : r \in Requests} \cap DOMAIN image :
             /\ IsUnsigned(image[p])
             /\ image' = [image EXCEPT ![p].body = <<@[1], @[2] + 1>>]
             /\ UNCHANGED certFile
       \/ /\ \E c \in Certificates \ {certFile} : certFile' = c
          /\ UNCHANGED image
    /\ UNCHANGED <<built, sourceTree, signer, runs, imported>>

-----------------------------------------------------------------------------
\* The signer.

keepSigner == <<world, built, imported>>
Idle == [pc |-> "idle"]
Step(pc) == signer' = [signer EXCEPT !.pc = pc]
SignerFails == Step("failed") /\ UNCHANGED <<runs, sourceTree>>
\* validate_request
ValidRequest(doc, digest) == doc # NoDocument /\ digest = doc /\ doc.context = Context(doc.espPath)

\* The options: a certificate, a key that may be another's and may come with a
\* certificate of its own, and whether to validate only.
StartSigner ==
    /\ signer.pc \in {"idle", "failed", "dead", "finished"} /\ runs > 0
    /\ runs' = runs - 1
    /\ \E o \in Options :
         signer' = [pc |-> "request", at |-> 1, certificate |-> o.certificate, key |-> o.key,
                    bundled |-> o.bundled, only |-> o.only,
                    doc |-> NoDocument, u |-> None, valid |-> <<>>, signed |-> <<>>]
    /\ UNCHANGED <<keepSigner, sourceTree>>
\* validate_entry reads the files of one request after the other.
Current == Manifest[signer.at]
ReadRequest ==
    /\ signer.pc = "request"
    /\ IF ValidRequest(document[Current], recorded[Current]) /\ document[Current].espPath = EspPath(Current)
       THEN /\ signer' = [signer EXCEPT !.pc = "unsigned", !.doc = document[Current]]
            /\ UNCHANGED <<runs, sourceTree>>
       ELSE SignerFails
    /\ UNCHANGED keepSigner
ReadUnsigned ==
    /\ signer.pc = "unsigned"
    /\ IF unsigned[Current] = signer.doc.unsigned /\ IsUnsigned(unsigned[Current])
       THEN /\ signer' = [signer EXCEPT !.pc = "certificate", !.u = unsigned[Current]]
            /\ UNCHANGED <<runs, sourceTree>>
       ELSE SignerFails
    /\ UNCHANGED keepSigner
\* Mutant: the binary that is signed is read after the one that was checked.
ReadBinaryAgain ==
    /\ signer.pc = "certificate"
    /\ IF certOut[Current] = signer.doc.certificate /\ certOut[Current] = signer.certificate
       THEN /\ LET next == [signer EXCEPT !.valid = Append(@, unsigned[Current])]
               IN signer' = IF signer.at < Len(Manifest) THEN [next EXCEPT !.pc = "request", !.at = @ + 1]
                            ELSE [next EXCEPT !.pc = "key", !.at = 1]
            /\ UNCHANGED <<runs, sourceTree>>
       ELSE SignerFails
    /\ UNCHANGED keepSigner
ReadCertificate ==
    /\ signer.pc = "certificate"
    /\ IF certOut[Current] = signer.doc.certificate /\ certOut[Current] = signer.certificate
       THEN /\ LET next == [signer EXCEPT !.valid = Append(@, signer.u)]
               IN signer' = IF signer.at < Len(Manifest) THEN [next EXCEPT !.pc = "request", !.at = @ + 1]
                            ELSE [next EXCEPT !.pc = "key", !.at = 1]
            /\ UNCHANGED <<runs, sourceTree>>
       ELSE SignerFails
    /\ UNCHANGED keepSigner
check_key_file ==
    /\ signer.pc = "key"
    /\ IF signer.only THEN Step("finished") /\ UNCHANGED <<runs, sourceTree>>
       ELSE IF signer.bundled /\ signer.key # signer.certificate THEN SignerFails
       ELSE Step("sign") /\ UNCHANGED <<runs, sourceTree>>
    /\ UNCHANGED keepSigner

\* sbsign or systemd-sbsign: what it is asked for, another binary, or nothing.
ToolOutputs == {Signed(signer.valid[signer.at].body, signer.valid[signer.at].body, signer.certificate, signer.key.key),
                Signed(<<"damaged", 0>>, <<"damaged", 0>>, signer.certificate, signer.key.key), None}
SignRequest ==
    /\ signer.pc = "sign"
    /\ \E s \in ToolOutputs :
         IF verify_embedded_digest(signer.valid[signer.at], s) /\ verify_signature(s, signer.certificate)
         THEN /\ LET next == [signer EXCEPT !.signed = Append(@, s)]
                 IN signer' = IF signer.at < Len(Manifest) THEN [next EXCEPT !.at = @ + 1]
                              ELSE [next EXCEPT !.pc = "write", !.at = 1]
              /\ UNCHANGED <<runs, sourceTree>>
         ELSE SignerFails
    /\ UNCHANGED keepSigner
\* write_signed: opened, filled and put in its place.
OpenPartial ==
    /\ signer.pc = "write" /\ partial' = [partial EXCEPT ![Current] = File("data", <<"part of a file", 0>>)]
    /\ Step("fill") /\ UNCHANGED <<keepSigner, runs, out>>
FillPartial ==
    /\ signer.pc = "fill" /\ partial' = [partial EXCEPT ![Current] = signer.signed[signer.at]]
    /\ Step("replace") /\ UNCHANGED <<keepSigner, runs, out>>
Replace ==
    /\ signer.pc = "replace"
    /\ out' = [out EXCEPT ![Current] = partial[Current]]
    /\ partial' = [partial EXCEPT ![Current] = None]
    /\ signer' = IF signer.at < Len(Manifest) THEN [signer EXCEPT !.pc = "write", !.at = @ + 1]
                 ELSE [signer EXCEPT !.pc = "finished"]
    /\ UNCHANGED <<keepSigner, runs>>
SignerDies == /\ signer.pc \in {"sign", "write", "fill", "replace"} /\ Step("dead")
              /\ UNCHANGED <<keepSigner, runs, sourceTree>>
SignerNext == \/ StartSigner \/ ReadRequest \/ ReadUnsigned \/ ReadCertificate \/ check_key_file
              \/ SignRequest \/ OpenPartial \/ FillPartial \/ Replace \/ SignerDies

-----------------------------------------------------------------------------
\* The import: an action of a later build, whose inputs do not change meanwhile.

NoImport == [result |-> "none"]
InputsOf(r) == [doc |-> document[r], signed |-> out[r]]
\* Mutant: a signature by the right key is enough.
SignerFits(r) == out[r].form = "signed" /\ verify_signature(out[r], document[r].certificate)
ImportFits(r) ==
    LET expected == canonical_certificate(certOut[r])
    IN /\ ValidRequest(document[r], recorded[r])
       /\ unsigned[r] = document[r].unsigned
       /\ expected = document[r].certificate
       /\ verify_embedded_digest(unsigned[r], out[r])
       /\ verify_signature(out[r], expected)
verify(r) ==
    /\ Fresh(r) /\ out[r] # None
    /\ imported[r] # NoImport => imported[r].inputs # InputsOf(r)
    /\ imported' = [imported EXCEPT ![r] =
                       IF ImportFits(r) THEN [result |-> "imported", inputs |-> InputsOf(r), signed |-> out[r]]
                       ELSE [result |-> "invalid", inputs |-> InputsOf(r), signed |-> None]]
    /\ UNCHANGED <<world, built, sourceTree, signer, runs>>

SigningInit ==
    /\ \E case \in Cases : image = case.image /\ edits = case.edits /\ runs = case.runs
    /\ certFile \in Certificates
    /\ unsigned = [r \in Requests |-> None] /\ certOut = [r \in Requests |-> None]
    /\ document = [r \in Requests |-> NoDocument] /\ recorded = document /\ requested = {}
    /\ signer = Idle
    /\ out = [r \in Requests |-> None] /\ partial = out
    /\ imported = [r \in Requests |-> NoImport]
SigningNext ==
    \/ \E r \in Requests : \/ extract(r) \/ WriteCertificate(r) \/ WriteDocument(r) \/ WriteDigest(r)
                           \/ verify(r)
    \/ Edit \/ SignerNext
=============================================================================
