-------------------------- MODULE SecureBootProofs ---------------------------
(***************************************************************************)
(* For any image, any manifest and any interleaving of builds, edits and   *)
(* signers: what the signer puts into the source tree was requested, the   *)
(* import accepts exactly that, and a signed image starts nothing that its *)
(* enrolled keys do not trust.                                             *)
(***************************************************************************)
EXTENDS SecureBootImage, TLAPS

-----------------------------------------------------------------------------
\* The invariant of signing.

IsSequence(s) == s \in Seq({s[i] : i \in DOMAIN s})
SignedBy(u, c) == Signed(u.body, u.body, c, c.key)
WasRequested(r, u, c) == \E q \in requested : q[1] = r /\ q[2].certificate = c /\ q[2].unsigned = u

SignerFields == {"pc", "at", "certificate", "key", "bundled", "only", "doc", "u", "valid", "signed"}
Reading == {"request", "unsigned", "certificate"}
Writing == {"write", "fill", "replace"}
\* The signer is a process with sequences of the binaries that it has checked
\* and signed so far.
SignerType ==
    /\ signer.pc \in Reading \cup Writing \cup {"idle", "failed", "dead", "finished", "key", "sign"}
    /\ signer.pc # "idle" => /\ DOMAIN signer = SignerFields /\ signer.at \in 1..Len(Manifest)
                             /\ IsSequence(signer.valid) /\ IsSequence(signer.signed)
\* What it has read was requested, with its certificate.
ValidInv ==
    /\ signer.pc \in {"unsigned", "certificate"} => <<Current, signer.doc>> \in requested
    /\ signer.pc = "certificate" => signer.u = signer.doc.unsigned
    /\ signer.pc \in Reading => Len(signer.valid) = signer.at - 1
    /\ signer.pc \in Writing \cup {"key", "sign"} => Len(signer.valid) = Len(Manifest)
    /\ signer.pc = "key" => signer.at = 1
    /\ signer.pc # "idle" =>
          \A i \in 1..Len(signer.valid) : WasRequested(Manifest[i], signer.valid[i], signer.certificate)
\* What it has signed is what it has read.
SignedInv ==
    /\ signer.pc \in Reading \cup {"key"} => Len(signer.signed) = 0
    /\ signer.pc = "sign" => Len(signer.signed) = signer.at - 1
    /\ signer.pc \in Writing => Len(signer.signed) = Len(Manifest)
    /\ signer.pc \in Writing \cup {"sign"} =>
          \A i \in 1..Len(signer.signed) : signer.signed[i] = SignedBy(signer.valid[i], signer.certificate)
    /\ signer.pc = "replace" => partial[Current] = signer.signed[signer.at]
\* The source tree has whole files only.
Whole(s) == s = None \/ s = Signed(s.body, s.body, s.names, s.names.key)
OutInv == DOMAIN out = Requests /\ DOMAIN partial = Requests /\ \A r \in Requests : Whole(out[r])
\* Every request was recorded, and is of a binary that is not signed.
BuiltInv ==
    /\ DOMAIN document = Requests /\ DOMAIN unsigned = Requests
    /\ \A r \in Requests : document[r] # NoDocument => <<r, document[r]>> \in requested
    /\ \A r \in Requests : unsigned[r] = None \/ IsUnsigned(unsigned[r])
ImportInv == DOMAIN imported = Requests /\ ImportIsExact
SigningInv == SignerType /\ ValidInv /\ SignedInv /\ OutInv /\ BuiltInv /\ ImportInv

-----------------------------------------------------------------------------
\* Sequences and records.

\* Appending to a list keeps its elements.
LEMMA AppendSequence ==
  ASSUME NEW s, IsSequence(s), NEW e
  PROVE  /\ IsSequence(Append(s, e)) /\ Len(s) \in Nat /\ Len(Append(s, e)) = Len(s) + 1
         /\ \A i \in 1..Len(s) : Append(s, e)[i] = s[i]
         /\ Append(s, e)[Len(s) + 1] = e
<1> DEFINE S == {s[i] : i \in DOMAIN s} \cup {e}
           t == Append(s, e)
<1>1. s \in Seq(S) /\ e \in S
  BY DEF IsSequence
<1>2. /\ t \in Seq(S) /\ Len(s) \in Nat /\ Len(t) = Len(s) + 1 /\ t[Len(s) + 1] = e
      /\ \A i \in 1..Len(s) : t[i] = s[i]
  BY <1>1
<1>3. IsSequence(t)
  BY <1>2 DEF IsSequence
<1> QED
  BY <1>2, <1>3
\* The empty list.
LEMMA EmptySequence == IsSequence(<<>>) /\ Len(<<>>) = 0
  BY DEF IsSequence
\* The manifest has at least one request.
LEMMA ManifestType == Len(Manifest) \in Nat \ {0} /\ \A i \in 1..Len(Manifest) : Manifest[i] \in Requests
  BY ManifestAssumption DEF Requests
\* A signed binary has the fields that it is made of.
LEMMA SignedFields ==
  ASSUME NEW b, NEW d, NEW c, NEW k
  PROVE  /\ Signed(b, d, c, k).form = "signed" /\ Signed(b, d, c, k).body = b /\ Signed(b, d, c, k).digest = d
         /\ Signed(b, d, c, k).names = c /\ Signed(b, d, c, k).key = k
  BY DEF Signed

\* A signer that only moves on.
SameBut(fields) == \A f \in SignerFields \ fields : signer'[f] = signer[f]
\* A step of the signer that only goes on changes its place.
LEMMA StepFields ==
  ASSUME DOMAIN signer = SignerFields, NEW x, Step(x)
  PROVE  DOMAIN signer' = SignerFields /\ signer'.pc = x /\ SameBut({"pc"})
  BY DEF Step, SignerFields, SameBut

-----------------------------------------------------------------------------
\* The signer.

SignerInv == SignerType /\ ValidInv /\ SignedInv
\* What the signer has read was requested, and stays so when more is requested.
LEMMA SignerStays ==
  ASSUME SignerInv, UNCHANGED <<signer, partial>>, requested \subseteq requested'
  PROVE  SignerInv'
<1>1. SignerType'
  BY DEF SignerInv, SignerType
<1>2. ValidInv'
  BY Zenon DEF SignerInv, ValidInv, WasRequested, Current
<1>3. SignedInv'
  BY Zenon DEF SignerInv, SignedInv, Current
<1> QED
  BY <1>1, <1>2, <1>3 DEF SignerInv

\* A signer that ends, for whatever reason, still has what it has read.
LEMMA SignerEnds ==
  ASSUME SignerInv, signer.pc # "idle", NEW x \in {"failed", "dead", "finished"}, Step(x), UNCHANGED requested
  PROVE  SignerInv'
<1>1. DOMAIN signer = SignerFields
  BY DEF SignerInv, SignerType
<1>2. /\ DOMAIN signer' = SignerFields /\ signer'.pc = x /\ signer'.at = signer.at
      /\ signer'.valid = signer.valid /\ signer'.signed = signer.signed /\ signer'.certificate = signer.certificate
  BY <1>1, StepFields DEF SameBut, SignerFields
<1>3. SignerType'
  BY <1>2 DEF SignerInv, SignerType
<1>4. ValidInv'
  BY <1>2 DEF SignerInv, ValidInv, WasRequested, Reading, Writing
<1>5. SignedInv'
  BY <1>2 DEF SignedInv, Reading, Writing
<1> QED
  BY <1>3, <1>4, <1>5 DEF SignerInv

\* A signer begins with nothing.
LEMMA StartKeeps == ASSUME SignerInv, StartSigner PROVE SignerInv'
<1>1. /\ DOMAIN signer' = SignerFields /\ signer'.pc = "request" /\ signer'.at = 1
      /\ signer'.valid = <<>> /\ signer'.signed = <<>>
  BY DEF StartSigner, SignerFields
<1>2. SignerType'
  BY <1>1, EmptySequence, ManifestType DEF SignerType, Reading
<1>3. ValidInv'
  BY <1>1, EmptySequence DEF ValidInv, Reading, Writing
<1>4. SignedInv'
  BY <1>1, EmptySequence DEF SignedInv, Reading, Writing
<1> QED
  BY <1>2, <1>3, <1>4 DEF SignerInv

\* The request that the signer reads was built.
LEMMA RequestKeeps == ASSUME SignerInv, BuiltInv, ReadRequest PROVE SignerInv'
<1>1. signer.pc = "request" /\ UNCHANGED requested
  BY DEF ReadRequest, keepSigner, built
<1>2. CASE SignerFails
  BY <1>1, <1>2, SignerEnds DEF SignerFails
<1>3. CASE /\ ValidRequest(document[Current], recorded[Current])
           /\ signer' = [signer EXCEPT !.pc = "unsigned", !.doc = document[Current]]
  <2>1. DOMAIN signer = SignerFields /\ signer.at \in 1..Len(Manifest)
    BY <1>1 DEF SignerInv, SignerType
  <2>2. /\ DOMAIN signer' = SignerFields /\ signer'.pc = "unsigned" /\ signer'.at = signer.at
        /\ signer'.doc = document[Current] /\ signer'.valid = signer.valid /\ signer'.signed = signer.signed
        /\ signer'.certificate = signer.certificate
    BY <1>3, <2>1 DEF SignerFields
  <2> USE <2>2
  <2>3. <<Current, document[Current]>> \in requested /\ Current' = Current
    BY <1>3, <2>1, ManifestType, Zenon DEF BuiltInv, ValidRequest, Current
  <2>4. SignerType'
    BY <1>1, <2>1, Zenon DEF SignerInv, SignerType, Reading
  <2>5. ValidInv'
    BY <1>1, <2>3 DEF SignerInv, ValidInv, WasRequested, Reading, Writing
  <2>6. SignedInv'
    BY <1>1, Zenon DEF SignerInv, SignedInv, Reading, Writing
  <2> QED
    BY <2>4, <2>5, <2>6 DEF SignerInv
<1> QED
  BY <1>2, <1>3 DEF ReadRequest

\* The unsigned binary is taken when its digest is the requested one.
LEMMA UnsignedKeeps == ASSUME SignerInv, ReadUnsigned PROVE SignerInv'
<1>1. signer.pc = "unsigned" /\ UNCHANGED requested
  BY DEF ReadUnsigned, keepSigner, built
<1>2. CASE SignerFails
  BY <1>1, <1>2, SignerEnds DEF SignerFails
<1>3. CASE /\ unsigned[Current] = signer.doc.unsigned
           /\ signer' = [signer EXCEPT !.pc = "certificate", !.u = unsigned[Current]]
  <2>1. DOMAIN signer = SignerFields /\ signer.at \in 1..Len(Manifest)
    BY <1>1 DEF SignerInv, SignerType
  <2>2. /\ DOMAIN signer' = SignerFields /\ signer'.pc = "certificate" /\ signer'.at = signer.at
        /\ signer'.doc = signer.doc /\ signer'.u = signer.doc.unsigned
        /\ signer'.valid = signer.valid /\ signer'.signed = signer.signed /\ signer'.certificate = signer.certificate
    BY <1>3, <2>1 DEF SignerFields
  <2> USE <2>2
  <2>3. Current' = Current
    BY DEF Current
  <2>4. SignerType'
    BY <1>1, <2>1, Zenon DEF SignerInv, SignerType, Reading
  <2>5. ValidInv'
    BY <1>1, <2>3 DEF SignerInv, ValidInv, WasRequested, Reading, Writing
  <2>6. SignedInv'
    BY <1>1, Zenon DEF SignerInv, SignedInv, Reading, Writing
  <2> QED
    BY <2>4, <2>5, <2>6 DEF SignerInv
<1> QED
  BY <1>2, <1>3 DEF ReadUnsigned

\* The certificate is taken when it is the requested one.
LEMMA CertificateKeeps == ASSUME SignerInv, ReadCertificate PROVE SignerInv'
<1>1. signer.pc = "certificate" /\ UNCHANGED requested
  BY DEF ReadCertificate, keepSigner, built
<1>2. CASE SignerFails
  BY <1>1, <1>2, SignerEnds DEF SignerFails
<1>3. CASE /\ certOut[Current] = signer.doc.certificate /\ certOut[Current] = signer.certificate
           /\ LET next == [signer EXCEPT !.valid = Append(@, signer.u)]
              IN signer' = IF signer.at < Len(Manifest) THEN [next EXCEPT !.pc = "request", !.at = @ + 1]
                           ELSE [next EXCEPT !.pc = "key", !.at = 1]
  <2> DEFINE n == Len(signer.valid)
             more == Append(signer.valid, signer.u)
  <2>1. /\ DOMAIN signer = SignerFields /\ signer.at \in 1..Len(Manifest) /\ IsSequence(signer.valid)
        /\ IsSequence(signer.signed) /\ Len(signer.valid) = signer.at - 1 /\ Len(signer.signed) = 0
    BY <1>1, Zenon DEF SignerInv, SignerType, ValidInv, SignedInv, Reading
  <2>2. /\ DOMAIN signer' = SignerFields /\ signer'.valid = more /\ signer'.signed = signer.signed
        /\ signer'.certificate = signer.certificate
        /\ \/ signer.at < Len(Manifest) /\ signer'.pc = "request" /\ signer'.at = signer.at + 1
           \/ signer.at = Len(Manifest) /\ signer'.pc = "key" /\ signer'.at = 1
    BY <1>3, <2>1, ManifestType DEF SignerFields
  <2>3. /\ IsSequence(more) /\ n \in Nat /\ Len(more) = n + 1 /\ more[n + 1] = signer.u
        /\ \A i \in 1..n : more[i] = signer.valid[i]
    <3>1. IsSequence(signer.valid)
      BY <2>1, Zenon
    <3>2. /\ IsSequence(Append(signer.valid, signer.u)) /\ Len(signer.valid) \in Nat /\ Len(Append(signer.valid, signer.u)) = Len(signer.valid) + 1
          /\ \A i \in 1..Len(signer.valid) : Append(signer.valid, signer.u)[i] = signer.valid[i]
          /\ Append(signer.valid, signer.u)[Len(signer.valid) + 1] = signer.u
      BY <3>1, AppendSequence, Zenon
    <3> QED
      BY <3>2, Zenon
  <2>4. WasRequested(Current, signer.u, signer.certificate)
    <3>1. <<Current, signer.doc>> \in requested /\ signer.u = signer.doc.unsigned
      BY <1>1 DEF SignerInv, ValidInv
    <3> QED
      BY <1>3, <3>1, Zenon DEF WasRequested
  <2>5. n + 1 = signer.at /\ Current = Manifest[n + 1]
    BY <2>1 DEF Current
  <2>6. \A i \in 1..n : WasRequested(Manifest[i], signer.valid[i], signer.certificate)
    BY <1>1 DEF SignerInv, ValidInv
  <2> HIDE DEF more, n
  <2>7. \A i \in 1..(n + 1) : WasRequested(Manifest[i], more[i], signer.certificate)
    BY <2>3, <2>4, <2>5, <2>6
  <2>8. SignerType'
    BY <2>1, <2>2, <2>3, ManifestType DEF SignerType, Reading
  <2>9. ValidInv'
    <3>1. (\A i \in 1..Len(signer.valid) : WasRequested(Manifest[i], signer.valid[i], signer.certificate))'
      BY <1>1, <2>2, <2>3, <2>7, Zenon DEF WasRequested
    <3>2. Len(signer'.valid) = signer.at
      BY Zenon, <2>2, <2>3, <2>5
    <3> QED
      BY <2>1, <2>2, <3>1, <3>2 DEF ValidInv, Reading, Writing
  <2>10. SignedInv'
    BY <2>1, <2>2, Zenon DEF SignedInv, Reading, Writing
  <2> QED
    BY <2>8, <2>9, <2>10 DEF SignerInv
<1> QED
  BY <1>2, <1>3 DEF ReadCertificate

\* check_key_file changes nothing that was read.
LEMMA KeyKeeps == ASSUME SignerInv, check_key_file PROVE SignerInv'
<1>1. signer.pc = "key" /\ UNCHANGED <<requested, partial>>
  BY DEF check_key_file, keepSigner, built, SignerFails, sourceTree
<1>2. CASE Step("failed") \/ Step("finished")
  BY <1>1, <1>2, SignerEnds
<1>3. CASE Step("sign")
  <2>1. /\ DOMAIN signer = SignerFields /\ signer.at = 1 /\ Len(signer.signed) = 0
        /\ Len(signer.valid) = Len(Manifest)
    BY <1>1, Zenon DEF SignerInv, SignerType, ValidInv, SignedInv, Writing, Reading
  <2>2. /\ DOMAIN signer' = SignerFields /\ signer'.pc = "sign" /\ signer'.at = signer.at
        /\ signer'.valid = signer.valid /\ signer'.signed = signer.signed /\ signer'.certificate = signer.certificate
    BY <1>3, <2>1, StepFields, Zenon DEF SameBut, SignerFields
  <2>3. SignerType'
    BY <1>1, <2>2 DEF SignerInv, SignerType
  <2>4. ValidInv'
    BY <1>1, <2>1, <2>2 DEF SignerInv, ValidInv, WasRequested, Reading, Writing
  <2>5. SignedInv'
    BY <2>1, <2>2 DEF SignedInv, Reading, Writing
  <2> QED
    BY <2>3, <2>4, <2>5 DEF SignerInv
<1> QED
  BY <1>2, <1>3 DEF check_key_file, SignerFails

\* A tool's output that passes the checks is the signature that was asked for.
LEMMA OutputIsAskedFor ==
  ASSUME NEW s \in ToolOutputs, NEW u, u = signer.valid[signer.at],
         verify_embedded_digest(u, s), verify_signature(s, signer.certificate)
  PROVE  s = SignedBy(u, signer.certificate)
<1> DEFINE c == signer.certificate
           k == signer.key.key
           d == <<"damaged", 0>>
<1>1. s.form = "signed" /\ s.body = u.body /\ s.key = c.key
  BY DEF verify_embedded_digest, SamePrograms, verify_signature
<1>2. s # None
  <2>1. None.form # "signed"
    BY DEF None
  <2> QED
    BY <1>1, <2>1, Zenon
<1>3. s = Signed(u.body, u.body, c, k) \/ s = Signed(d, d, c, k)
  BY <1>2, Zenon DEF ToolOutputs
<1> HIDE DEF c, k, d
<1>4. /\ Signed(u.body, u.body, c, k).key = k
      /\ Signed(d, d, c, k).key = k /\ Signed(d, d, c, k).body = d
  BY SignedFields
<1>5. s = Signed(u.body, u.body, c, k) /\ s.key = k
  BY <1>1, <1>3, <1>4, Zenon
<1>6. s = Signed(u.body, u.body, c, c.key)
  BY <1>1, <1>5, Zenon
<1> QED
  BY <1>6, Zenon DEF SignedBy, c

\* What is signed is what was read.
LEMMA SignKeeps == ASSUME SignerInv, SignRequest PROVE SignerInv'
<1>1. signer.pc = "sign" /\ UNCHANGED requested
  BY DEF SignRequest, keepSigner, built
<1>2. CASE SignerFails
  BY <1>1, <1>2, SignerEnds DEF SignerFails
<1>3. ASSUME NEW s \in ToolOutputs,
             verify_embedded_digest(signer.valid[signer.at], s), verify_signature(s, signer.certificate),
             LET next == [signer EXCEPT !.signed = Append(@, s)]
             IN signer' = IF signer.at < Len(Manifest) THEN [next EXCEPT !.at = @ + 1]
                          ELSE [next EXCEPT !.pc = "write", !.at = 1]
      PROVE  SignerInv'
  <2> DEFINE n == Len(signer.signed)
             more == Append(signer.signed, s)
  <2>1. /\ DOMAIN signer = SignerFields /\ signer.at \in 1..Len(Manifest) /\ IsSequence(signer.valid)
        /\ IsSequence(signer.signed) /\ Len(signer.signed) = signer.at - 1 /\ Len(signer.valid) = Len(Manifest)
    BY <1>1, Zenon DEF SignerInv, SignerType, ValidInv, SignedInv
  <2>2. /\ DOMAIN signer' = SignerFields /\ signer'.signed = more /\ signer'.valid = signer.valid
        /\ signer'.certificate = signer.certificate
        /\ \/ signer.at < Len(Manifest) /\ signer'.pc = "sign" /\ signer'.at = signer.at + 1
           \/ signer.at = Len(Manifest) /\ signer'.pc = "write" /\ signer'.at = 1
    BY <1>1, <1>3, <2>1, ManifestType DEF SignerFields
  <2>3. /\ IsSequence(more) /\ n \in Nat /\ Len(more) = n + 1 /\ more[n + 1] = s
        /\ \A i \in 1..n : more[i] = signer.signed[i]
    <3>1. IsSequence(signer.signed)
      BY <2>1, Zenon
    <3>2. /\ IsSequence(Append(signer.signed, s)) /\ Len(signer.signed) \in Nat /\ Len(Append(signer.signed, s)) = Len(signer.signed) + 1
          /\ \A i \in 1..Len(signer.signed) : Append(signer.signed, s)[i] = signer.signed[i]
          /\ Append(signer.signed, s)[Len(signer.signed) + 1] = s
      BY <3>1, AppendSequence, Zenon
    <3> QED
      BY <3>2, Zenon
  <2>4. s = SignedBy(signer.valid[signer.at], signer.certificate)
    BY Zenon, <1>3, OutputIsAskedFor
  <2>5. n + 1 = signer.at
    BY <2>1
  <2>6. \A i \in 1..n : signer.signed[i] = SignedBy(signer.valid[i], signer.certificate)
    BY <1>1 DEF SignerInv, SignedInv
  <2> HIDE DEF more, n
  <2>7. \A i \in 1..(n + 1) : more[i] = SignedBy(signer.valid[i], signer.certificate)
    BY <2>3, <2>4, <2>5, <2>6
  <2>8. SignerType'
    BY <2>1, <2>2, <2>3, ManifestType DEF SignerType, Writing
  <2>9. ValidInv'
    BY <1>1, <2>1, <2>2 DEF SignerInv, ValidInv, WasRequested, Reading, Writing
  <2>10. SignedInv'
    BY <2>2, <2>3, <2>5, <2>7 DEF SignedInv, Reading, Writing
  <2> QED
    BY <2>8, <2>9, <2>10 DEF SignerInv
<1> QED
  BY <1>2, <1>3, Zenon DEF SignRequest

\* Between two of its writes the signer only moves on.
LEMMA WritingKeeps ==
  ASSUME SignerInv, signer.pc \in Writing, DOMAIN signer' = SignerFields, SameBut({"pc", "at"}),
         signer'.pc \in Writing, signer'.at \in 1..Len(Manifest), UNCHANGED requested,
         signer'.pc = "replace" => partial'[Manifest[signer'.at]] = signer.signed[signer'.at]
  PROVE  SignerInv'
<1>1. /\ signer'.valid = signer.valid /\ signer'.signed = signer.signed /\ signer'.certificate = signer.certificate
  BY DEF SameBut, SignerFields
<1>2. SignerType'
  BY <1>1, Zenon DEF SignerInv, SignerType, Reading, Writing
<1>3. ValidInv'
  BY <1>1 DEF SignerInv, ValidInv, WasRequested, Reading, Writing
<1>4. SignedInv'
  BY <1>1, Zenon DEF SignerInv, SignedInv, Reading, Writing, Current
<1> QED
  BY <1>2, <1>3, <1>4, Zenon DEF SignerInv

\* What is put into the source tree, and what was in the file before.
LEMMA ReplacedIsSigned ==
  ASSUME SignerInv, signer.pc = "replace"
  PROVE  /\ partial[Current] = SignedBy(signer.valid[signer.at], signer.certificate) /\ Current \in Requests
         /\ WasRequested(Current, signer.valid[signer.at], signer.certificate)
         /\ Len(signer.signed) = Len(Manifest)
<1>1. signer.at \in 1..Len(Manifest) /\ Len(signer.valid) = Len(Manifest) /\ Len(signer.signed) = Len(Manifest)
  BY Zenon DEF SignerInv, SignerType, ValidInv, SignedInv, Writing, Reading
<1>2. partial[Current] = signer.signed[signer.at] /\ signer.signed[signer.at] = SignedBy(signer.valid[signer.at], signer.certificate)
  BY <1>1, Zenon DEF SignerInv, SignedInv, Writing
<1>3. WasRequested(Current, signer.valid[signer.at], signer.certificate)
  BY <1>1, Zenon DEF SignerInv, ValidInv, Current
<1> QED
  BY <1>1, <1>2, <1>3, ManifestType, Zenon DEF Current

\* Writing and replacing leave alone what was read and signed.
LEMMA WriteKeeps == ASSUME SignerInv, OutInv, OpenPartial \/ FillPartial \/ Replace PROVE SignerInv'
<1>1. signer.pc \in Writing /\ UNCHANGED requested
  BY Zenon DEF OpenPartial, FillPartial, Replace, keepSigner, built, Writing
<1>2. DOMAIN signer = SignerFields /\ signer.at \in 1..Len(Manifest) /\ Current \in Requests
  BY <1>1, ManifestType, Zenon DEF SignerInv, SignerType, Writing, Current
<1>3. CASE OpenPartial
  <2>1. DOMAIN signer' = SignerFields /\ signer'.pc = "fill" /\ SameBut({"pc"})
    BY <1>2, <1>3, StepFields, Zenon DEF OpenPartial
  <2> QED
    BY <1>1, <1>2, <2>1, WritingKeeps, Zenon DEF SameBut, SignerFields, Writing
<1>4. CASE FillPartial
  <2>1. DOMAIN signer' = SignerFields /\ signer'.pc = "replace" /\ SameBut({"pc"})
    BY <1>2, <1>4, StepFields, Zenon DEF FillPartial
  <2>2. signer'.at = signer.at /\ SameBut({"pc", "at"})
    BY <2>1 DEF SameBut, SignerFields
  <2>3. partial'[Current] = signer.signed[signer.at]
    BY <1>2, <1>4, Zenon DEF FillPartial, OutInv
  <2> QED
    BY <1>1, <1>2, <2>1, <2>2, <2>3, WritingKeeps, Zenon DEF Writing, Current
<1>5. CASE Replace
  <2>1. CASE signer.at < Len(Manifest)
    <3>1. DOMAIN signer' = SignerFields /\ signer'.pc = "write" /\ signer'.at = signer.at + 1 /\ SameBut({"pc", "at"})
      BY <1>2, <1>5, <2>1, Zenon DEF Replace, SameBut, SignerFields
    <3>2. signer'.at \in 1..Len(Manifest)
      BY <1>2, <2>1, <3>1, ManifestType
    <3> QED
      BY <1>1, <3>1, <3>2, WritingKeeps, Zenon DEF Writing
  <2>2. CASE ~(signer.at < Len(Manifest))
    <3>1. Step("finished")
      BY <1>5, <2>2 DEF Replace, Step
    <3> QED
      BY <1>1, <3>1, SignerEnds DEF Writing
  <2> QED
    BY <2>1, <2>2
<1> QED
  BY <1>3, <1>4, <1>5

\* Every step of the signer keeps what is known of it.
LEMMA SignerKeeps == ASSUME SignerInv, BuiltInv, OutInv, SignerNext PROVE SignerInv'
<1>1. CASE SignerDies
  BY <1>1, SignerEnds DEF SignerDies, keepSigner, built
<1> QED
  BY <1>1, StartKeeps, RequestKeeps, UnsignedKeeps, CertificateKeeps, KeyKeeps, SignKeeps, WriteKeeps, Zenon DEF SignerNext

-----------------------------------------------------------------------------
\* The source tree, the requests and the import.

\* What the signer makes is a whole signed binary.
LEMMA SignedIsWhole == ASSUME NEW u, NEW c PROVE Whole(SignedBy(u, c)) /\ SignedBy(u, c).form = "signed"
<1>1. LET s == SignedBy(u, c) IN s.form = "signed" /\ s.body = u.body /\ s.names = c
  BY SignedFields DEF SignedBy
<1>2. SignedBy(u, c) = Signed(u.body, u.body, c, c.key)
  BY DEF SignedBy
<1> QED
  BY <1>1, <1>2, Zenon DEF Whole
\* Only the last of the signer's writes changes a signed binary.
LEMMA OnlyReplaceWrites ==
  ASSUME SigningNext \/ ImageNext, ~Replace
  PROVE  UNCHANGED out
  BY Zenon DEF SigningNext, ImageNext, SignerNext, extract, WriteCertificate, WriteDocument, WriteDigest, verify, Edit,
         keepBuild, keepSigner, sourceTree, StartSigner, ReadRequest, ReadUnsigned, ReadCertificate, check_key_file,
         SignRequest, OpenPartial, FillPartial, SignerDies, SignerFails, StartImage, _assign, _changes, _apply, signingVars
\* The source tree has whole files only: a partial one is never under its final name.
LEMMA OutKeeps == ASSUME SignerInv, OutInv, SigningNext PROVE OutInv'
<1>1. CASE Replace
  <2> DEFINE s == partial[Current]
  <2>1. Current \in Requests /\ Whole(s)
    BY <1>1, ReplacedIsSigned, SignedIsWhole, Zenon DEF Replace
  <2>2. out' = [out EXCEPT ![Current] = s] /\ partial' = [partial EXCEPT ![Current] = None]
    BY <1>1 DEF Replace
  <2> HIDE DEF s
  <2>3. DOMAIN out' = Requests /\ DOMAIN partial' = Requests
    BY <2>2 DEF OutInv
  <2>4. \A r \in Requests : out'[r] = out[r] \/ out'[r] = s
    BY <2>2 DEF OutInv
  <2>5. \A r \in Requests : Whole(out'[r])
    BY <2>1, <2>4 DEF OutInv
  <2> QED
    BY <2>3, <2>5, Zenon DEF OutInv, Whole
<1>2. CASE ~Replace
  <2>1. UNCHANGED out
    BY <1>2, OnlyReplaceWrites
  <2>2. DOMAIN partial' = DOMAIN partial
    BY <1>2, Zenon DEF SigningNext, SignerNext, extract, WriteCertificate, WriteDocument, WriteDigest, verify, Edit,
         keepBuild, sourceTree, StartSigner, ReadRequest, ReadUnsigned, ReadCertificate, check_key_file,
         SignRequest, OpenPartial, FillPartial, SignerDies, SignerFails
  <2> QED
    BY <2>1, <2>2, Zenon DEF OutInv, Whole
<1> QED
  BY <1>1, <1>2

\* Signer, edits and imports build nothing.
LEMMA BuildStays == ASSUME SignerNext \/ Edit \/ (\E r \in Requests : verify(r)) PROVE UNCHANGED built
  BY Zenon DEF SignerNext, verify, Edit, keepSigner, StartSigner, ReadRequest, ReadUnsigned, ReadCertificate, check_key_file,
         SignRequest, OpenPartial, FillPartial, Replace, SignerDies
\* What is built was requested, and the history of requests grows.
LEMMA BuiltKeeps == ASSUME BuiltInv, SigningNext PROVE BuiltInv' /\ requested \subseteq requested'
<1>1. CASE UNCHANGED built
  BY <1>1 DEF BuiltInv, built, IsUnsigned
<1>2. ASSUME NEW r \in Requests, extract(r) PROVE BuiltInv' /\ requested \subseteq requested'
  BY <1>2, Zenon DEF BuiltInv, extract, IsUnsigned
<1>3. ASSUME NEW r \in Requests, WriteCertificate(r) \/ WriteDigest(r) PROVE BuiltInv' /\ requested \subseteq requested'
  BY <1>3, Zenon DEF BuiltInv, WriteCertificate, WriteDigest, IsUnsigned
<1>4. ASSUME NEW r \in Requests, WriteDocument(r) PROVE BuiltInv' /\ requested \subseteq requested'
  <2> DEFINE d == Request(r)
  <2>1. /\ document' = [document EXCEPT ![r] = d] /\ requested' = requested \cup {<<r, d>>} /\ UNCHANGED unsigned
    BY <1>4 DEF WriteDocument
  <2> HIDE DEF d
  <2> QED
    BY <2>1 DEF BuiltInv, IsUnsigned
<1> QED
  BY <1>1, <1>2, <1>3, <1>4, BuildStays, Zenon DEF SigningNext

-----------------------------------------------------------------------------
\* The import.

\* A canonical certificate is canonical.
LEMMA CanonicalTwice ==
  ASSUME NEW c PROVE canonical_certificate(canonical_certificate(c)) = canonical_certificate(c)
  BY Zenon DEF canonical_certificate
\* A request has the certificate, the binary and the context that it was made from.
LEMMA RequestFields ==
  ASSUME NEW r
  PROVE  /\ Request(r).certificate = certOut[r] /\ Request(r).unsigned = unsigned[r]
         /\ Request(r).context = Context(Request(r).espPath)
  BY DEF Request
\* What the import needs of a request that is up to date.
LEMMA FreshFits ==
  ASSUME BuiltInv, NEW r \in Requests, Fresh(r)
  PROVE  /\ ValidRequest(document[r], recorded[r]) /\ unsigned[r] = document[r].unsigned /\ IsUnsigned(unsigned[r])
         /\ canonical_certificate(certOut[r]) = document[r].certificate
<1>1. document[r] = Request(r) /\ recorded[r] = document[r] /\ unsigned[r] # None
  BY DEF Fresh, Extracted
<1> USE <1>1
<1>2. certOut[r] = canonical_certificate(certFile)
  BY DEF Fresh, CertificateWritten
<1>3. canonical_certificate(certOut[r]) = document[r].certificate
  BY Zenon, <1>2, CanonicalTwice, RequestFields
<1>4. unsigned[r] = document[r].unsigned /\ IsUnsigned(unsigned[r])
  BY RequestFields DEF BuiltInv
<1>5. document[r] # NoDocument
  <2>1. NoDocument.unsigned = None
    BY DEF NoDocument
  <2> QED
    BY <1>4, <2>1
<1>6. document[r].context = Context(document[r].espPath)
  BY RequestFields
<1> QED
  BY <1>3, <1>4, <1>5, <1>6, Zenon DEF ValidRequest
\* A whole file of the source tree fits, or was made for another binary or
\* another certificate.
LEMMA WholeFits ==
  ASSUME BuiltInv, NEW r \in Requests, Fresh(r), Whole(out[r]), out[r] # None
  PROVE  IF ImportFits(r) THEN out[r] = SignedBy(document[r].unsigned, document[r].certificate)
         ELSE out[r].body # document[r].unsigned.body \/ out[r].names # document[r].certificate
<1> DEFINE s == out[r]
           u == document[r].unsigned
           c == document[r].certificate
<1>1. s = Signed(s.body, s.body, s.names, s.names.key)
  BY DEF Whole
<1>2. s.form = "signed" /\ s.digest = s.body /\ s.key = s.names.key
  <2> DEFINE b == s.body
             n == s.names
  <2>1. /\ Signed(b, b, n, n.key).form = "signed" /\ Signed(b, b, n, n.key).digest = b
        /\ Signed(b, b, n, n.key).key = n.key
    BY SignedFields
  <2> QED
    BY <1>1, <2>1, Zenon
<1>3. ImportFits(r) <=> s.body = u.body /\ s.names = c
  BY <1>2, FreshFits, Zenon DEF ImportFits, verify_embedded_digest, SamePrograms, verify_signature
<1>4. ImportFits(r) => s = Signed(u.body, u.body, c, c.key)
  BY <1>1, <1>3, Zenon
<1> QED
  BY <1>3, <1>4, Zenon DEF SignedBy
\* One request's part of ImportIsExact.
Exact(i) == LET doc == i.inputs.doc
                given == i.inputs.signed
            IN IF i.result = "imported" THEN i.signed = SignedBy(doc.unsigned, doc.certificate)
               ELSE given.body # doc.unsigned.body \/ given.names # doc.certificate
\* ImportIsExact speaks of each import on its own.
LEMMA ExactEach == ImportIsExact <=> \A r \in Requests : imported[r] # NoImport => Exact(imported[r])
  BY Zenon DEF ImportIsExact, Exact, SignedBy
\* An import is made only of a binary that verify has compared with its request.
LEMMA ImportKeeps == ASSUME ImportInv, BuiltInv, OutInv, SigningNext PROVE ImportInv'
<1>1. CASE UNCHANGED imported
  BY <1>1, Zenon DEF ImportInv, ImportIsExact
<1>2. ASSUME NEW r \in Requests, verify(r) PROVE ImportInv'
  <2> DEFINE new == imported'[r]
  <2>1. DOMAIN imported' = Requests /\ \A q \in Requests \ {r} : imported'[q] = imported[q]
    BY <1>2, Zenon DEF verify, ImportInv
  <2>2. new = IF ImportFits(r) THEN [result |-> "imported", inputs |-> InputsOf(r), signed |-> out[r]]
              ELSE [result |-> "invalid", inputs |-> InputsOf(r), signed |-> None]
    BY <1>2, Zenon DEF verify, ImportInv
  <2>3. InputsOf(r).doc = document[r] /\ InputsOf(r).signed = out[r]
    BY DEF InputsOf
  <2>4. new.inputs = InputsOf(r) /\ IF ImportFits(r) THEN new.result = "imported" /\ new.signed = out[r] ELSE new.result = "invalid"
    BY <2>2
  <2>5. Fresh(r) /\ out[r] # None /\ Whole(out[r])
    BY <1>2, Zenon DEF verify, OutInv
  <2> HIDE DEF new
  <2>6. "invalid" # "imported"
    OBVIOUS
  <2>7. Exact(new)
    BY <2>3, <2>4, <2>5, <2>6, WholeFits, Zenon DEF Exact
  <2>8. \A q \in Requests : imported'[q] # NoImport => Exact(imported'[q])
    BY <2>1, <2>7, ExactEach, Zenon DEF ImportInv, new
  <2>9. ImportIsExact'
    BY <2>8, Zenon DEF ImportIsExact, Exact, SignedBy
  <2> QED
    BY <2>1, <2>9 DEF ImportInv
<1>3. CASE ~(\E r \in Requests : verify(r))
  <2>1. UNCHANGED imported
    BY <1>3, Zenon DEF SigningNext, SignerNext, extract, WriteCertificate, WriteDocument, WriteDigest, Edit, keepBuild, keepSigner,
       StartSigner, ReadRequest, ReadUnsigned, ReadCertificate, check_key_file, SignRequest, OpenPartial, FillPartial,
       Replace, SignerDies
  <2> QED
    BY <1>1, <2>1
<1> QED
  BY <1>2, <1>3

-----------------------------------------------------------------------------
\* The invariant.

\* At first nothing is built, signed or imported.
LEMMA SigningBegins == ASSUME SigningInit PROVE SigningInv
<1>1. signer = [pc |-> "idle"]
  BY DEF SigningInit, Idle
<1>2. SignerType /\ ValidInv /\ SignedInv
  BY <1>1 DEF SignerType, ValidInv, SignedInv, Reading, Writing
<1>3. OutInv
  BY DEF SigningInit, OutInv, Whole
<1>4. BuiltInv
  BY DEF SigningInit, BuiltInv
<1>5. ImportInv
  BY Zenon DEF SigningInit, ImportInv, ImportIsExact
<1> QED
  BY <1>2, <1>3, <1>4, <1>5, Zenon DEF SigningInv
\* Steps of others leave the signing alone.
LEMMA SigningRests == ASSUME SigningInv, UNCHANGED signingVars PROVE SigningInv'
<1>1. UNCHANGED <<signer, partial, requested, out, document, unsigned, imported>>
  BY DEF signingVars, built, sourceTree
<1>2. (SignerType /\ ValidInv /\ SignedInv)'
  BY <1>1, SignerStays DEF SignerInv, SigningInv
<1>3. OutInv' /\ BuiltInv'
  BY <1>1, Zenon DEF SigningInv, OutInv, BuiltInv, Whole, IsUnsigned
<1>4. ImportInv'
  BY <1>1, Zenon DEF SigningInv, ImportInv, ImportIsExact
<1> QED
  BY <1>2, <1>3, <1>4, Zenon DEF SigningInv
\* Rebuilds, edits and imports leave the signer where it is.
LEMMA SignerWaits == ASSUME SigningNext, ~SignerNext PROVE UNCHANGED <<signer, partial>>
  BY Zenon DEF SigningNext, extract, WriteCertificate, WriteDocument, WriteDigest, verify, Edit, keepBuild, sourceTree
\* Every step of the signing keeps SigningInv.
LEMMA SigningMoves == ASSUME SigningInv, SigningNext PROVE SigningInv'
<1>1. SignerInv /\ OutInv /\ BuiltInv /\ ImportInv
  BY DEF SigningInv, SignerInv
<1>2. BuiltInv' /\ requested \subseteq requested'
  BY <1>1, BuiltKeeps
<1>3. OutInv' /\ ImportInv'
  BY <1>1, OutKeeps, ImportKeeps
<1>4. SignerInv'
  BY Zenon, <1>1, <1>2, SignerKeeps, SignerStays, SignerWaits
<1> QED
  BY <1>2, <1>3, <1>4, Zenon DEF SigningInv, SignerInv
\* Building an image changes nothing that the signing reads.
LEMMA ImageLeavesSigning == ASSUME ImageNext PROVE UNCHANGED signingVars
  BY Zenon DEF ImageNext, StartImage, _assign, _changes, _apply
\* Every step of the composition keeps SigningInv.
LEMMA SigningStep == ASSUME SigningInv, [Next]_vars PROVE SigningInv'
  BY SigningMoves, SigningRests, ImageLeavesSigning DEF Next, vars
\* Requests, source tree and signer fit together, whatever is rebuilt while the
\* signer reads and wherever it dies.
THEOREM SigningInvariant == Spec => []SigningInv
<1>1. Init => SigningInv
  BY SigningBegins DEF Init
<1>2. SigningInv /\ [Next]_vars => SigningInv'
  BY SigningStep
<1> QED
  BY <1>1, <1>2, PTL DEF Spec
\* secure_boot.py verify, for any image, manifest, certificates and options of
\* the signer: the import accepts exactly the requested binary with a signature
\* by the requested certificate, and refuses a file of the signer only if it
\* was made for another binary or another certificate.
THEOREM ImportIsAlwaysExact == Spec => []ImportIsExact
<1>1. SigningInv => ImportIsExact
  BY DEF SigningInv, ImportInv
<1> QED
  BY <1>1, SigningInvariant, PTL

\* write_signed, for any interleaving of builds with any number of runs of the
\* signer: everything is signed before the first file is replaced, and what is
\* put into the source tree is whole and was requested under that name.
THEOREM SigningIsAlwaysWhole == Spec => SigningIsWhole
<1> DEFINE Good == out' # out =>
        /\ Len(signer.signed) = Len(Manifest)
        /\ \A r \in Requests : out'[r] # out[r] =>
               \E q \in requested :
                  /\ q[1] = r /\ q[2].certificate = signer.certificate
                  /\ out'[r] = Signed(q[2].unsigned.body, q[2].unsigned.body, signer.certificate, signer.certificate.key)
<1>1. SigningInv /\ [Next]_vars => [Good]_vars
  <2> SUFFICES ASSUME SigningInv, Next, out' # out PROVE Good
    BY Zenon DEF vars, signingVars, sourceTree
  <2> DEFINE u == signer.valid[signer.at]
  <2>1. Replace
    BY OnlyReplaceWrites DEF Next
  <2>2. SignerInv /\ OutInv
    BY DEF SigningInv, SignerInv
  <2>3. /\ partial[Current] = SignedBy(u, signer.certificate) /\ WasRequested(Current, u, signer.certificate)
        /\ Len(signer.signed) = Len(Manifest)
    BY <2>1, <2>2, ReplacedIsSigned, Zenon DEF Replace
  <2>4. \A r \in Requests : out'[r] # out[r] => r = Current /\ out'[r] = partial[Current]
    BY <2>1, <2>2, Zenon DEF Replace, OutInv
  <2> HIDE DEF u
  <2>5. PICK q \in requested : q[1] = Current /\ q[2].certificate = signer.certificate /\ q[2].unsigned = u
    BY <2>3 DEF WasRequested
  <2>6. SignedBy(u, signer.certificate) =
           Signed(q[2].unsigned.body, q[2].unsigned.body, signer.certificate, signer.certificate.key)
    BY <2>5 DEF SignedBy
  <2> QED
    BY Zenon, <2>3, <2>4, <2>5, <2>6
<1> QED
  BY <1>1, SigningInvariant, PTL DEF Spec, SigningIsWhole

-----------------------------------------------------------------------------
\* The signed image.

Building == {"assign", "changes", "apply"}
\* What the files are that take the place of the requested binaries.
Binary(r) == document[r].unsigned
SignedFits == \A r \in Requests :
    /\ Binary(r).form = "pe"
    /\ imported[r].signed = SignedBy(Binary(r), document[r].certificate)
Others == {p \in DOMAIN tree : Replacing(tree[p]) = {} /\ IsPe(tree[p])}
ImageInv ==
    /\ step \in Building \cup {"idle", "done", "failed"}
    /\ NamesDiffer(image)
    /\ step \in Building => NamesDiffer(tree) /\ SignedFits /\ enroll \in KeySets
    /\ step \in {"changes", "apply"} =>
          (\A p \in Others : ~IsUnsigned(tree[p])) /\ presigned = Others \cap Startable(tree)
    /\ step = "apply" =>
          (enroll = <<>> \/ (_enrollment_keys /\ _check_db_trusts)) /\ changes = NewFiles
    /\ ImageIsTrusted
\* The keys of another case find one file.
LEMMA PlaceNamed == ASSUME NEW t, NEW p PROVE Lower(Place(t, p)) = Lower(p)
<1>1. CASE Found(t, p) = {}
  BY <1>1 DEF Place
<1>2. CASE Found(t, p) # {}
  <2>1. Place(t, p) \in Found(t, p)
    BY <1>2 DEF Place
  <2> QED
    BY <2>1 DEF Found
<1> QED
  BY <1>1, <1>2
\* A file is found under its own name.
LEMMA PlaceOwn == ASSUME NEW t, NamesDiffer(t), NEW p \in DOMAIN t PROVE Place(t, p) = p
<1>1. p \in Found(t, p)
  BY DEF Found
<1>2. Place(t, p) \in Found(t, p)
  BY <1>1 DEF Place
<1> QED
  BY <1>2 DEF Found, NamesDiffer
\* Names that differ in case only name the same file.
LEMMA PlaceSame == ASSUME NEW t, NEW p, NEW q, Lower(p) = Lower(q), Found(t, p) # {} PROVE Place(t, p) = Place(t, q)
<1>1. Found(t, p) = Found(t, q)
  BY DEF Found
<1> QED
  BY <1>1 DEF Place

\* Files that are written over others.
LEMMA OverCases ==
  ASSUME NEW f, NEW g
  PROVE  /\ DOMAIN Over(f, g) = DOMAIN f \cup DOMAIN g
         /\ \A x \in DOMAIN f : Over(f, g)[x] = f[x]
         /\ \A x \in DOMAIN g \ DOMAIN f : Over(f, g)[x] = g[x]
  BY DEF Over
\* A file of the result is one of the changes or an old one that no change names.
LEMMA WrittenCases ==
  ASSUME NEW t, NEW cs, NEW p \in DOMAIN Written(t, cs)
  PROVE  \/ \E c \in DOMAIN cs : Place(t, c) = p /\ Written(t, cs)[p] = cs[c]
         \/ p \in DOMAIN t /\ Written(t, cs)[p] = t[p] /\ \A c \in DOMAIN cs : Place(t, c) # p
<1> DEFINE Q == {Place(t, c) : c \in DOMAIN cs}
           w == [q \in Q |-> cs[CHOOSE c \in DOMAIN cs : Place(t, c) = q]]
<1>1. Written(t, cs) = Over(w, t) /\ DOMAIN w = Q
  BY DEF Written
<1>2. CASE p \in Q
  <2> DEFINE c == CHOOSE d \in DOMAIN cs : Place(t, d) = p
  <2>1. c \in DOMAIN cs /\ Place(t, c) = p
    BY <1>2
  <2>2. w[p] = cs[c]
    BY <1>2
  <2> HIDE DEF w, Q, c
  <2>3. Over(w, t)[p] = w[p]
    BY <1>1, <1>2, OverCases, Zenon
  <2> QED
    BY Zenon, <1>1, <2>1, <2>2, <2>3
<1>3. CASE p \notin Q
  <2>1. \A c \in DOMAIN cs : Place(t, c) # p
    BY <1>3
  <2> HIDE DEF w, Q
  <2>2. /\ DOMAIN Over(w, t) = DOMAIN w \cup DOMAIN t
        /\ \A x \in DOMAIN w : Over(w, t)[x] = w[x]
        /\ \A x \in DOMAIN t \ DOMAIN w : Over(w, t)[x] = t[x]
    BY OverCases, Zenon
  <2>3. p \in DOMAIN t /\ Over(w, t)[p] = t[p]
    BY Zenon, <1>1, <1>3, <2>2
  <2> QED
    BY Zenon, <1>1, <2>1, <2>3
<1> QED
  BY Zenon, <1>2, <1>3
\* Writing removes no file.
LEMMA WrittenKeeps == ASSUME NEW t, NEW cs PROVE DOMAIN t \subseteq DOMAIN Written(t, cs)
  BY OverCases, Zenon DEF Written

\* What the new files are.
Conf == File("data", <<"secure-boot-enroll", 0>>)
Auth == File("data", <<"auth", 0>>)
\* The changes: signed binaries, the manifest, and what an enrollment adds.
LEMMA NewFilesCases ==
  /\ Replaced \subseteq DOMAIN NewFiles
  /\ Place(tree, EspManifest) \in DOMAIN NewFiles /\ NewFiles[Place(tree, EspManifest)] = ManifestFile
  /\ \A c \in DOMAIN NewFiles :
       \/ c = Place(tree, EspManifest) /\ NewFiles[c] = ManifestFile
       \/ enroll # <<>> /\ c = Place(tree, LoaderConf) /\ NewFiles[c] = Conf
       \/ enroll # <<>> /\ (\E i \in DOMAIN enroll : c = KeyPath[enroll[i].variable]) /\ NewFiles[c] = Auth
       \/ c \in Replaced /\ NewFiles[c] = SignedFor(c)
<1> DEFINE m == Place(tree, EspManifest)
           manifest == [p \in {m} |-> ManifestFile]
           keys == IF enroll = <<>> THEN <<>> ELSE Over(_loader_conf, KeyFiles)
           signed == [p \in Replaced |-> SignedFor(p)]
           rest == Over(keys, signed)
<1>1. NewFiles = Over(manifest, rest)
  BY DEF NewFiles
<1>2. DOMAIN signed = Replaced /\ \A p \in Replaced : signed[p] = SignedFor(p)
  OBVIOUS
<1>3. DOMAIN manifest = {m} /\ manifest[m] = ManifestFile
  OBVIOUS
<1>4. DOMAIN KeyFiles = {KeyPath[enroll[i].variable] : i \in DOMAIN enroll} /\ \A p \in DOMAIN KeyFiles : KeyFiles[p] = Auth
  BY Zenon DEF KeyFiles, Auth
<1>5. DOMAIN _loader_conf = {Place(tree, LoaderConf)} /\ \A p \in DOMAIN _loader_conf : _loader_conf[p] = Conf
  BY DEF _loader_conf, Conf
<1>6. \A c \in DOMAIN keys :
       \/ enroll # <<>> /\ c = Place(tree, LoaderConf) /\ keys[c] = Conf
       \/ enroll # <<>> /\ c \in DOMAIN KeyFiles /\ keys[c] = Auth
  <2>1. CASE enroll = <<>>
    BY <2>1
  <2>2. CASE enroll # <<>>
    <3>1. keys = Over(_loader_conf, KeyFiles)
      BY <2>2
    <3>2. /\ DOMAIN Over(_loader_conf, KeyFiles) = DOMAIN _loader_conf \cup DOMAIN KeyFiles
          /\ \A x \in DOMAIN _loader_conf : Over(_loader_conf, KeyFiles)[x] = _loader_conf[x]
          /\ \A x \in DOMAIN KeyFiles \ DOMAIN _loader_conf : Over(_loader_conf, KeyFiles)[x] = KeyFiles[x]
      BY OverCases, Zenon
    <3> HIDE DEF keys
    <3> QED
      BY Zenon, <1>4, <1>5, <2>2, <3>1, <3>2
  <2> QED
    BY Zenon, <2>1, <2>2
<1> HIDE DEF m, keys, signed, manifest
<1>7. /\ DOMAIN Over(keys, signed) = DOMAIN keys \cup DOMAIN signed
      /\ \A x \in DOMAIN keys : Over(keys, signed)[x] = keys[x]
      /\ \A x \in DOMAIN signed \ DOMAIN keys : Over(keys, signed)[x] = signed[x]
  BY OverCases, Zenon
<1>8. /\ DOMAIN rest = DOMAIN keys \cup Replaced /\ \A c \in DOMAIN keys : rest[c] = keys[c]
      /\ \A c \in Replaced \ DOMAIN keys : rest[c] = SignedFor(c)
  BY Zenon, <1>2, <1>7
<1> HIDE DEF rest
<1>9. /\ DOMAIN Over(manifest, rest) = DOMAIN manifest \cup DOMAIN rest
      /\ \A x \in DOMAIN manifest : Over(manifest, rest)[x] = manifest[x]
      /\ \A x \in DOMAIN rest \ DOMAIN manifest : Over(manifest, rest)[x] = rest[x]
  BY Zenon, OverCases
<1>10. /\ DOMAIN NewFiles = {m} \cup DOMAIN rest /\ NewFiles[m] = ManifestFile
      /\ \A c \in DOMAIN rest \ {m} : NewFiles[c] = rest[c]
  BY Zenon, <1>1, <1>3, <1>9
<1> USE <1>10
<1>11. ASSUME NEW c \in DOMAIN NewFiles
      PROVE  \/ c = m /\ NewFiles[c] = ManifestFile
             \/ enroll # <<>> /\ c = Place(tree, LoaderConf) /\ NewFiles[c] = Conf
             \/ enroll # <<>> /\ (\E i \in DOMAIN enroll : c = KeyPath[enroll[i].variable]) /\ NewFiles[c] = Auth
             \/ c \in Replaced /\ NewFiles[c] = SignedFor(c)
  <2>1. CASE c = m
    BY <2>1
  <2>2. CASE c # m /\ c \in DOMAIN keys
    BY Zenon, <1>4, <1>6, <1>8, <2>2
  <2>3. CASE c # m /\ c \notin DOMAIN keys
    BY Zenon, <1>8, <2>3
  <2> QED
    BY Zenon, <2>1, <2>2, <2>3
<1> QED
  BY <1>8, <1>11, Zenon DEF m

\* A binary that is replaced is an unsigned one, and gets its own signature.
LEMMA SignedForOwn ==
  ASSUME SignedFits, NEW p \in Replaced
  PROVE  \E r \in Requests : tree[p].form = "pe" /\ SignedFor(p) = SignedBy(tree[p], document[r].certificate)
<1> DEFINE r == CHOOSE q \in Replacing(tree[p]) : TRUE
<1>1. r \in Replacing(tree[p])
  BY DEF Replaced
<1>2. r \in Requests /\ Binary(r) = tree[p]
  BY <1>1, Zenon DEF Replacing, Binary
<1>3. SignedFor(p) = imported[r].signed
  BY DEF SignedFor
<1> HIDE DEF r
<1> QED
  BY <1>2, <1>3, Zenon DEF SignedFits
\* What there is in the signed image.
Added == {Lower(LoaderConf), Lower(EspManifest)} \cup {Lower(KeyPath[v]) : v \in DOMAIN KeyPath}
Kept(t, p) == p \in DOMAIN tree /\ t[p] = tree[p] /\ p \notin Replaced
New(t, p) == t[p].form = "data" /\ Lower(p) \in Added
Again(t, p) == p \in Replaced /\ t[p] = SignedFor(p)
\* The variables of an enrollment lie at the added paths.
LEMMA EnrollmentPaths ==
  ASSUME enroll = <<>> \/ _enrollment_keys, enroll # <<>>, NEW i \in DOMAIN enroll
  PROVE  Lower(KeyPath[enroll[i].variable]) \in Added
<1>1. enroll[i].variable \in DOMAIN KeyPath
  BY Zenon DEF _enrollment_keys, parse_auth
<1> QED
  BY <1>1 DEF Added
\* Files that are written as data are no binaries.
LEMMA FileForms == ASSUME NEW b PROVE File("data", b).form = "data" /\ ManifestFile.form = "data"
  BY DEF File, ManifestFile
\* Each file of the result is kept, new, or signed again.
LEMMA ResultCases ==
  ASSUME NamesDiffer(tree), enroll = <<>> \/ _enrollment_keys, NEW p \in DOMAIN Written(tree, NewFiles)
  PROVE  LET t == Written(tree, NewFiles) IN Kept(t, p) \/ New(t, p) \/ Again(t, p)
<1> DEFINE t == Written(tree, NewFiles)
<1>1. ASSUME NEW c \in DOMAIN NewFiles, Place(tree, c) = p, t[p] = NewFiles[c]
      PROVE  New(t, p) \/ Again(t, p)
  <2>1. Lower(p) = Lower(c)
    BY Zenon, <1>1, PlaceNamed
  <2> HIDE DEF t
  <2>2. CASE c = Place(tree, EspManifest) /\ NewFiles[c] = ManifestFile
    <3>1. Lower(c) = Lower(EspManifest)
      BY Zenon, <2>2, PlaceNamed
    <3> QED
      BY <1>1, <2>1, <2>2, <3>1, FileForms, Zenon DEF New, Added
  <2>3. CASE c = Place(tree, LoaderConf) /\ NewFiles[c] = Conf
    <3>1. Lower(c) = Lower(LoaderConf)
      BY Zenon, <2>3, PlaceNamed
    <3>2. Conf.form = "data"
      BY FileForms DEF Conf
    <3> QED
      BY <1>1, <2>1, <2>3, <3>1, <3>2, Zenon DEF New, Added
  <2>4. CASE enroll # <<>> /\ (\E i \in DOMAIN enroll : c = KeyPath[enroll[i].variable]) /\ NewFiles[c] = Auth
    <3>1. Lower(c) \in Added
      BY Zenon, <2>4, EnrollmentPaths
    <3>2. Auth.form = "data"
      BY FileForms DEF Auth
    <3> QED
      BY <1>1, <2>1, <2>4, <3>1, <3>2, Zenon DEF New
  <2>5. CASE c \in Replaced /\ NewFiles[c] = SignedFor(c)
    <3>1. p = c
      BY <1>1, <2>5, PlaceOwn, Zenon DEF Replaced
    <3> QED
      BY <1>1, <2>5, <3>1, Zenon DEF Again
  <2> QED
    BY Zenon, <2>2, <2>3, <2>4, <2>5, NewFilesCases
<1>2. ASSUME p \in DOMAIN tree, t[p] = tree[p], \A c \in DOMAIN NewFiles : Place(tree, c) # p
      PROVE  Kept(t, p)
  <2>1. p \notin Replaced
    BY Zenon, <1>2, PlaceOwn, NewFilesCases
  <2> QED
    BY <1>2, <2>1, Zenon DEF Kept
<1> QED
  BY <1>1, <1>2, WrittenCases

-----------------------------------------------------------------------------
\* What a verified image promises.

\* _enrollment_keys: every required variable has a certificate.
LEMMA CertificatesEnrolled ==
  ASSUME _enrollment_keys, enroll \in KeySets, NEW v \in Required
  PROVE  \E i \in DOMAIN enroll : enroll[i].variable = v /\ x509_certificates(enroll[i].lists) # {}
<1>1. PICK i \in DOMAIN enroll : enroll[i].variable = v
  BY DEF _enrollment_keys
<1> DEFINE lists == enroll[i].lists
<1>2. parse_auth(enroll[i])
  BY DEF _enrollment_keys
<1>3. PICK k \in DOMAIN lists : lists[k].type = "X509"
  <2>1. CASE v = "PK"
    <3>1. Len(lists) = 1 /\ lists[1].type = "X509"
      BY <1>1, <1>2, <2>1, Zenon DEF parse_auth
    <3>2. 1 \in DOMAIN lists
      BY <1>1, <3>1, KeyAssumption
    <3> QED
      BY Zenon, <3>1, <3>2
  <2>2. CASE v \in {"KEK", "db"}
    BY <1>1, <1>2, <2>2, Zenon DEF parse_auth
  <2> QED
    BY <2>1, <2>2, Zenon DEF Required
<1>4. /\ DOMAIN lists[k].data = 1..Entries(lists[k]) /\ Entries(lists[k]) > 0
      /\ 28 + lists[k].header <= lists[k].size /\ lists[k].entry > 16
  BY <1>2, KeyAssumption, Zenon DEF parse_auth, signature_lists
<1>5. Entries(lists[k]) \in Nat
  <2>1. lists[k].size \in Nat /\ lists[k].header \in Nat /\ lists[k].entry \in Nat
    BY KeyAssumption, Zenon
  <2>2. lists[k].size - 28 - lists[k].header \in Nat
    BY <1>4, <2>1
  <2>3. \A a, b \in Nat : b > 16 => a \div b \in Nat
    OBVIOUS
  <2> QED
    BY <1>4, <2>1, <2>2, <2>3, Zenon DEF Entries
<1>6. 1 \in DOMAIN lists[k].data
  BY <1>4, <1>5
<1>7. lists[k].data[1] \in x509_certificates(lists)
  BY <1>3, <1>6 DEF x509_certificates
<1> QED
  BY Zenon, <1>1, <1>7

NoneUnsigned(t) == \A p \in DOMAIN t : t[p].form # "pe"
StartsTrusted(t) == \A p \in Startable(t) :
    IsPe(t[p]) => SignatureVerifies(t[p]) /\ Trusts(t[p].names, t[p].chain)
Accounted(t) == \A p \in DOMAIN tree :
    \/ t[p] = tree[p]
    \/ IsUnsigned(tree[p]) /\ t[p].body = tree[p].body /\ t[p].digest = tree[p].body
       /\ t[Place(t, EspManifest)].binaries[p] = t[p]
    \/ Lower(p) \in Added
Enrolled == enroll # <<>> => \A v \in Required :
    \E i \in DOMAIN enroll : enroll[i].variable = v /\ x509_certificates(enroll[i].lists) # {}
\* The parts of ImageIsTrusted.
LEMMA TrustedParts ==
  ImageIsTrusted <=> (step = "done" => NoneUnsigned(result) /\ Enrolled /\ (enroll # <<>> => StartsTrusted(result))
                                       /\ Accounted(result))
  BY Zenon DEF ImageIsTrusted, NoneUnsigned, Enrolled, StartsTrusted, Accounted, Added

\* A binary that is signed again has its own body under its requested certificate.
LEMMA AgainFields ==
  ASSUME SignedFits, NEW t, NEW p, Again(t, p)
  PROVE  /\ t[p].form = "signed" /\ t[p].chain = {} /\ tree[p].form = "pe" /\ t[p].body = tree[p].body
         /\ t[p].digest = tree[p].body /\ t[p].key = t[p].names.key
         /\ \E r \in Requests : t[p].names = document[r].certificate
<1>1. PICK r \in Requests : tree[p].form = "pe" /\ t[p] = SignedBy(tree[p], document[r].certificate)
  BY SignedForOwn, Zenon DEF Again
<1> DEFINE u == tree[p]
           c == document[r].certificate
           s == t[p]
<1>2. s = Signed(u.body, u.body, c, c.key)
  BY <1>1, Zenon DEF SignedBy
<1> HIDE DEF u, c, s
<1>3. s.form = "signed" /\ s.chain = {} /\ s.body = u.body /\ s.digest = u.body /\ s.names = c /\ s.key = c.key
  BY <1>2, Zenon DEF Signed
<1> QED
  BY <1>1, <1>3, Zenon DEF u, c, s
\* No unsigned binary is left.
LEMMA NoneIsUnsigned ==
  ASSUME SignedFits, \A p \in Others : ~IsUnsigned(tree[p]), NEW t,
         \A p \in DOMAIN t : Kept(t, p) \/ New(t, p) \/ Again(t, p)
  PROVE  NoneUnsigned(t)
<1> SUFFICES ASSUME NEW p \in DOMAIN t PROVE t[p].form # "pe"
  BY DEF NoneUnsigned
<1>1. CASE Kept(t, p)
  <2>1. Replacing(tree[p]) = {} /\ t[p] = tree[p] /\ p \in DOMAIN tree
    BY <1>1, Zenon DEF Kept, Replaced
  <2> QED
    BY <2>1, Zenon DEF Others, IsPe, IsUnsigned
<1>2. CASE New(t, p)
  BY <1>2 DEF New
<1>3. CASE Again(t, p)
  BY Zenon, <1>3, AgainFields
<1> QED
  BY Zenon, <1>1, <1>2, <1>3
\* The enrolled db trusts what the firmware starts (_check_db_trusts).
LEMMA StartedIsTrusted ==
  ASSUME SignedFits, _check_db_trusts, presigned = Others \cap Startable(tree), NEW t,
         \A p \in DOMAIN t : Kept(t, p) \/ New(t, p) \/ Again(t, p)
  PROVE  StartsTrusted(t)
<1> SUFFICES ASSUME NEW p \in Startable(t), IsPe(t[p])
             PROVE  SignatureVerifies(t[p]) /\ Trusts(t[p].names, t[p].chain)
  BY DEF StartsTrusted
<1>1. p \in DOMAIN t
  BY DEF Startable
<1>2. CASE Kept(t, p)
  <2>1. Replacing(tree[p]) = {} /\ t[p] = tree[p] /\ p \in DOMAIN tree
    BY <1>2, Zenon DEF Kept, Replaced
  <2>2. p \in Others
    BY <2>1, Zenon DEF Others
  <2>3. p \in Startable(tree)
    <3>1. CASE Lower(p) \in EfiNames
      BY <2>1, <3>1, Zenon DEF Startable
    <3>2. ASSUME NEW q \in DOMAIN t, t[q].form = "entry", Lower(p) \in t[q].refs PROVE p \in Startable(tree)
      <4>1. ~New(t, q)
        BY <3>2, Zenon DEF New
      <4>2. ~Again(t, q)
        BY Zenon, <3>2, AgainFields
      <4>3. q \in DOMAIN tree /\ t[q] = tree[q]
        BY <4>1, <4>2, Zenon DEF Kept
      <4> QED
        BY <2>1, <3>2, <4>3, Zenon DEF Startable
    <3> QED
      BY <3>1, <3>2, Zenon DEF Startable
  <2> QED
    BY <2>1, <2>2, <2>3, Zenon DEF _check_db_trusts
<1>3. CASE New(t, p)
  BY <1>3, Zenon DEF New, IsPe
<1>4. CASE Again(t, p)
  <2>1. PICK r \in Requests : t[p].names = document[r].certificate
    BY <1>4, AgainFields
  <2>2. t[p].form = "signed" /\ t[p].chain = {} /\ t[p].key = t[p].names.key
    BY <1>4, AgainFields
  <2>3. Trusts(document[r].certificate, {})
    BY DEF _check_db_trusts
  <2> QED
    BY <2>1, <2>2, <2>3, Zenon DEF SignatureVerifies
<1> QED
  BY Zenon, <1>1, <1>2, <1>3, <1>4
\* The manifest accounts for every difference.
LEMMA AllAccounted ==
  ASSUME SignedFits, changes = NewFiles, NEW t, VerifiedIn(t), DOMAIN tree \subseteq DOMAIN t,
         \A p \in DOMAIN t : Kept(t, p) \/ New(t, p) \/ Again(t, p)
  PROVE  Accounted(t)
<1>1. t[Place(t, EspManifest)] = ManifestFile
  <2> DEFINE m == Place(tree, EspManifest)
  <2>1. Found(t, m) # {} /\ t[Place(t, m)] = ManifestFile
    BY NewFilesCases, Zenon DEF VerifiedIn
  <2>2. Lower(m) = Lower(EspManifest)
    BY PlaceNamed
  <2> HIDE DEF m
  <2>3. Place(t, m) = Place(t, EspManifest)
    BY Zenon, <2>1, <2>2, PlaceSame
  <2> QED
    BY Zenon, <2>1, <2>3
<1> SUFFICES ASSUME NEW p \in DOMAIN tree
             PROVE  \/ t[p] = tree[p]
                    \/ IsUnsigned(tree[p]) /\ t[p].body = tree[p].body /\ t[p].digest = tree[p].body
                       /\ t[Place(t, EspManifest)].binaries[p] = t[p]
                    \/ Lower(p) \in Added
  BY Zenon DEF Accounted
<1>2. CASE Kept(t, p)
  BY <1>2, Zenon DEF Kept
<1>3. CASE New(t, p)
  BY <1>3, Zenon DEF New
<1>4. CASE Again(t, p)
  <2>1. ManifestFile.binaries[p] = t[p]
    BY <1>4, Zenon DEF ManifestFile, Again
  <2> QED
    BY <1>1, <1>4, <2>1, AgainFields DEF IsUnsigned
<1> QED
  BY Zenon, <1>2, <1>3, <1>4

-----------------------------------------------------------------------------
\* The steps of the image.

\* Trust depends on the enrolled keys only.
LEMMA TrustStays ==
  ASSUME UNCHANGED enroll
  PROVE  \A c, chain : Trusts(c, chain)' <=> Trusts(c, chain)
<1>1. Db' = Db
  BY DEF Db, x509_certificates
<1> QED
  BY <1>1 DEF Trusts
\* What holds of a tree of files holds of it as the finished image.
LEMMA TrustedNext ==
  ASSUME UNCHANGED <<enroll, tree>>, NoneUnsigned(result'), Enrolled, enroll # <<>> => StartsTrusted(result'), Accounted(result')
  PROVE  ImageIsTrusted'
<1>1. Enrolled'
  BY DEF Enrolled
<1>2. (enroll # <<>> => StartsTrusted(result))'
  BY TrustStays, Zenon DEF StartsTrusted, Startable, SignatureVerifies, IsPe
<1>3. NoneUnsigned(result)' /\ Accounted(result)'
  BY Zenon DEF NoneUnsigned, Accounted, Place, Found, IsUnsigned
<1> QED
  BY <1>1, <1>2, <1>3, Zenon DEF ImageIsTrusted, NoneUnsigned, Enrolled, StartsTrusted, Accounted, Added
\* A finished image does not change.
LEMMA TrustedStays == ASSUME ImageIsTrusted, step' # "done" \/ UNCHANGED imageVars PROVE ImageIsTrusted'
<1>1. CASE step' # "done"
  BY <1>1, Zenon DEF ImageIsTrusted
<1>2. CASE UNCHANGED imageVars /\ step = "done"
  <2>1. UNCHANGED <<step, enroll, tree, result>>
    BY <1>2 DEF imageVars
  <2> QED
    BY Zenon, <1>2, <2>1, TrustedParts, TrustedNext
<1> QED
  BY <1>1, <1>2, Zenon DEF imageVars
\* While the image is built its inputs stay.
LEMMA InputsStay ==
  ASSUME UNCHANGED <<signingVars, enroll, tree>>
  PROVE  /\ SignedFits' <=> SignedFits
         /\ Others' = Others /\ Startable(tree)' = Startable(tree) /\ NewFiles' = NewFiles
         /\ _enrollment_keys' <=> _enrollment_keys
<1>1. UNCHANGED <<document, imported>>
  BY DEF signingVars, built
<1>2. SignedFits' <=> SignedFits
  BY <1>1 DEF SignedFits, Binary
<1>3. \A f : Replacing(f)' = Replacing(f)
  BY <1>1 DEF Replacing
<1>4. Others' = Others /\ Replaced' = Replaced
  BY <1>3, Zenon DEF Others, Replaced, IsPe
<1>5. \A p : Place(tree, p)' = Place(tree, p)
  BY DEF Place, Found
<1>6. \A p : SignedFor(p)' = SignedFor(p)
  BY <1>1, <1>3, Zenon DEF SignedFor
<1>7. ManifestFile' = ManifestFile
  BY <1>4, <1>6, Zenon DEF ManifestFile
<1>8. KeyFiles' = KeyFiles /\ _loader_conf' = _loader_conf
  BY <1>5, Zenon DEF KeyFiles, _loader_conf, File
<1>9. NewFiles' = NewFiles
  <2>1. [p \in Replaced |-> SignedFor(p)]' = [p \in Replaced |-> SignedFor(p)]
    BY Zenon, <1>4, <1>6
  <2>2. [p \in {Place(tree, EspManifest)} |-> ManifestFile]' = [p \in {Place(tree, EspManifest)} |-> ManifestFile]
    BY Zenon, <1>5, <1>7
  <2> QED
    BY <1>8, <2>1, <2>2, Zenon DEF NewFiles
<1>10. _enrollment_keys' <=> _enrollment_keys
  BY DEF _enrollment_keys
<1>11. Startable(tree)' = Startable(tree)
  BY DEF Startable
<1> QED
  BY Zenon, <1>2, <1>4, <1>9, <1>10, <1>11
\* The check of the db reads only what stays.
LEMMA TrustCheckStays ==
  ASSUME UNCHANGED <<signingVars, enroll, tree, presigned>>
  PROVE  _check_db_trusts' <=> _check_db_trusts
<1>1. UNCHANGED document
  BY DEF signingVars, built
<1> QED
  BY <1>1, TrustStays, Zenon DEF _check_db_trusts, SignatureVerifies

\* An image starts from imports that are exact.
LEMMA StartImageKeeps == ASSUME SigningInv, ImageInv, StartImage PROVE ImageInv'
<1>1. UNCHANGED <<signingVars, image, document, imported>> /\ step' \in {"assign", "failed"}
  BY Zenon DEF StartImage, signingVars, world, built
<1>2. ASSUME NEW r \in Requests
      PROVE  Binary(r).form = "pe" /\ imported[r].signed = SignedBy(Binary(r), document[r].certificate)
  <2>1. Fresh(r) /\ imported[r] # NoImport /\ imported[r].inputs = InputsOf(r) /\ imported[r].result = "imported"
    BY Zenon DEF StartImage
  <2>2. Binary(r).form = "pe"
    BY <2>1, FreshFits, Zenon DEF SigningInv, IsUnsigned, Binary
  <2>3. InputsOf(r).doc = document[r]
    BY DEF InputsOf
  <2>4. Exact(imported[r])
    BY <2>1, ExactEach, Zenon DEF SigningInv, ImportInv
  <2> QED
    BY <2>1, <2>2, <2>3, <2>4, Zenon DEF Exact, Binary
<1>3. SignedFits'
  BY <1>1, <1>2, Zenon DEF SignedFits, Binary
<1>4. NamesDiffer(image)' /\ (step' = "assign" => NamesDiffer(tree)' /\ enroll' \in KeySets)
  BY <1>1, Zenon DEF ImageInv, StartImage, NamesDiffer
<1>5. ImageIsTrusted'
  BY <1>1, TrustedStays, Zenon DEF ImageInv
<1> QED
  BY <1>1, <1>3, <1>4, <1>5, Zenon DEF ImageInv, Building
\* An image that fails claims nothing.
LEMMA FailsKeeps == ASSUME ImageInv, Fails, UNCHANGED signingVars PROVE ImageInv'
<1>1. UNCHANGED image /\ step' = "failed"
  BY DEF Fails, signingVars, world
<1>2. NamesDiffer(image)'
  BY <1>1, Zenon DEF ImageInv, NamesDiffer
<1>3. ImageIsTrusted'
  BY <1>1, TrustedStays, Zenon DEF ImageInv
<1> QED
  BY <1>1, <1>2, <1>3, Zenon DEF ImageInv, Building
\* The parts of the invariant that speak of the inputs.
LEMMA BuildingStays ==
  ASSUME ImageInv, step \in Building, UNCHANGED <<signingVars, enroll, tree>>
  PROVE  NamesDiffer(image)' /\ NamesDiffer(tree)' /\ SignedFits' /\ enroll' \in KeySets
<1>1. UNCHANGED image
  BY DEF signingVars, world
<1> QED
  BY <1>1, InputsStay, Zenon DEF ImageInv, NamesDiffer
\* _assign finds each signed binary its places.
LEMMA AssignKeeps == ASSUME ImageInv, _assign PROVE ImageInv'
<1>1. step = "assign" /\ UNCHANGED signingVars
  BY DEF _assign
<1>2. CASE Fails
  BY Zenon, <1>1, <1>2, FailsKeeps
<1>3. CASE /\ \A p \in Others : ~IsUnsigned(tree[p])
           /\ step' = "changes" /\ presigned' = Others \cap Startable(tree) /\ UNCHANGED <<enroll, tree>>
  <2>1. NamesDiffer(image)' /\ NamesDiffer(tree)' /\ SignedFits' /\ enroll' \in KeySets
    BY <1>1, <1>3, BuildingStays, Zenon DEF Building
  <2>2. (\A p \in Others : ~IsUnsigned(tree[p]))' /\ presigned' = (Others \cap Startable(tree))'
    BY <1>1, <1>3, InputsStay, Zenon DEF IsUnsigned
  <2>3. ImageIsTrusted'
    BY <1>3, TrustedStays, Zenon DEF ImageInv
  <2> QED
    BY <1>3, <2>1, <2>2, <2>3, Zenon DEF ImageInv, Building
<1> QED
  BY <1>2, <1>3, Zenon DEF _assign, Others
\* _changes adds what the checks have shown.
LEMMA ChangesKeeps == ASSUME ImageInv, _changes PROVE ImageInv'
<1>1. step = "changes" /\ UNCHANGED signingVars
  BY DEF _changes
<1> USE <1>1
<1>2. CASE Fails
  BY Zenon, <1>2, FailsKeeps
<1>3. CASE /\ enroll = <<>> \/ (_enrollment_keys /\ _check_db_trusts)
           /\ changes' = NewFiles /\ step' = "apply" /\ UNCHANGED <<enroll, tree, presigned>>
  <2>1. NamesDiffer(image)' /\ NamesDiffer(tree)' /\ SignedFits' /\ enroll' \in KeySets
    BY <1>3, BuildingStays, Zenon DEF Building
  <2>2. (\A p \in Others : ~IsUnsigned(tree[p]))' /\ presigned' = (Others \cap Startable(tree))'
    BY <1>3, InputsStay, Zenon DEF ImageInv, IsUnsigned
  <2>3. changes' = NewFiles'
    BY Zenon, <1>3, InputsStay
  <2>4. (enroll = <<>> \/ (_enrollment_keys /\ _check_db_trusts))'
    BY Zenon, <1>3, InputsStay, TrustCheckStays
  <2>5. ImageIsTrusted'
    BY <1>3, TrustedStays, Zenon DEF ImageInv
  <2> QED
    BY <1>3, <2>1, <2>2, <2>3, <2>4, <2>5, Zenon DEF ImageInv, Building
<1> QED
  BY <1>2, <1>3, Zenon DEF _changes
\* _apply compares the result with what was meant.
LEMMA ApplyKeeps == ASSUME ImageInv, _apply PROVE ImageInv'
<1>1. step = "apply" /\ UNCHANGED signingVars
  BY DEF _apply
<1>2. CASE Fails
  BY Zenon, <1>1, <1>2, FailsKeeps
<1> DEFINE t == Written(tree, changes)
<1>3. CASE VerifiedIn(t) /\ result' = t /\ step' = "done" /\ UNCHANGED <<enroll, tree, presigned, changes>>
  <2>1. /\ NamesDiffer(tree) /\ SignedFits /\ enroll \in KeySets /\ changes = NewFiles
        /\ \A p \in Others : ~IsUnsigned(tree[p])
        /\ presigned = Others \cap Startable(tree)
        /\ enroll = <<>> \/ (_enrollment_keys /\ _check_db_trusts)
    BY <1>1, Zenon DEF ImageInv, Building
  <2>2. \A p \in DOMAIN t : Kept(t, p) \/ New(t, p) \/ Again(t, p)
    BY Zenon, <2>1, ResultCases
  <2>3. DOMAIN tree \subseteq DOMAIN t
    BY WrittenKeeps
  <2> HIDE DEF t
  <2>4. NoneUnsigned(t)
    BY Zenon, <2>1, <2>2, NoneIsUnsigned
  <2>5. Enrolled
    BY <2>1, CertificatesEnrolled, Zenon DEF Enrolled
  <2>6. enroll # <<>> => StartsTrusted(t)
    BY Zenon, <2>1, <2>2, StartedIsTrusted
  <2>7. Accounted(t)
    BY Zenon, <1>3, <2>1, <2>2, <2>3, AllAccounted
  <2>8. ImageIsTrusted'
    BY Zenon, <1>3, <2>4, <2>5, <2>6, <2>7, TrustedNext
  <2>9. NamesDiffer(image)'
    BY <1>1, <1>3, BuildingStays, Zenon DEF Building
  <2> QED
    BY <1>3, <2>8, <2>9, Zenon DEF ImageInv, Building
<1> QED
  BY <1>2, <1>3, Zenon DEF _apply
\* Names in an image differ in more than case, whatever is rebuilt.
LEMMA NamesStay == ASSUME NamesDiffer(image), SigningNext PROVE NamesDiffer(image)'
<1>1. DOMAIN image' = DOMAIN image
  BY Zenon DEF SigningNext, SignerNext, extract, WriteCertificate, WriteDocument, WriteDigest, verify, Edit, keepBuild, keepSigner,
         world, StartSigner, ReadRequest, ReadUnsigned, ReadCertificate, check_key_file, SignRequest, OpenPartial,
         FillPartial, Replace, SignerDies
<1> QED
  BY <1>1 DEF NamesDiffer
\* Every step of the composition keeps ImageInv.
LEMMA ImageKeeps == ASSUME SigningInv, ImageInv, [Next]_vars PROVE ImageInv'
<1>1. CASE ImageNext
  BY <1>1, StartImageKeeps, AssignKeeps, ChangesKeeps, ApplyKeeps, Zenon DEF ImageNext
<1>2. CASE step \in {"idle", "done", "failed"} /\ SigningNext /\ UNCHANGED imageVars
  <2>1. NamesDiffer(image)'
    BY <1>2, NamesStay, Zenon DEF ImageInv
  <2>2. ImageIsTrusted'
    BY <1>2, TrustedStays, Zenon DEF ImageInv
  <2> QED
    BY <1>2, <2>1, <2>2, Zenon DEF ImageInv, imageVars, Building
<1>3. CASE UNCHANGED vars
  <2>1. UNCHANGED <<signingVars, step, enroll, tree, presigned, changes, imageVars, image>>
    BY <1>3, Zenon DEF vars, imageVars, signingVars, world
  <2>2. ImageIsTrusted'
    BY <2>1, TrustedStays, Zenon DEF ImageInv
  <2>3. NamesDiffer(image)' /\ NamesDiffer(tree)' = NamesDiffer(tree)
    BY <2>1, Zenon DEF ImageInv, NamesDiffer
  <2> QED
    BY <2>1, <2>2, <2>3, InputsStay, TrustCheckStays, Zenon DEF ImageInv, IsUnsigned
<1> QED
  BY <1>1, <1>2, <1>3, Zenon DEF Next
\* The image is built from inputs that stay, and keeps what it has checked.
THEOREM ImageInvariant == Spec => []ImageInv
<1>1. Init => ImageInv
  <2> SUFFICES ASSUME Init PROVE ImageInv
    OBVIOUS
  <2>1. NamesDiffer(image)
    BY ImageAssumption, Zenon DEF Init, SigningInit
  <2> QED
    BY <2>1, Zenon DEF Init, ImageInv, ImageIsTrusted, Building
<1>2. SigningInv /\ ImageInv /\ [Next]_vars => ImageInv'
  BY ImageKeeps
<1> QED
  BY <1>1, <1>2, SigningInvariant, PTL DEF Spec
\* sign_image, for any image with names that differ in more than case, any
\* manifest and any enrollment files: a signed image has no unsigned binary,
\* starts nothing that its enrolled db does not trust, and is otherwise the
\* image that was built.
THEOREM ImageIsAlwaysTrusted == Spec => []ImageIsTrusted
<1>1. ImageInv => ImageIsTrusted
  BY DEF ImageInv
<1> QED
  BY <1>1, ImageInvariant, PTL
=============================================================================
