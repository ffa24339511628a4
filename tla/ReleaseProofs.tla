---------------------------- MODULE ReleaseProofs ----------------------------
(***************************************************************************)
(* A signed update is the verified image, for every disk, hash tree and    *)
(* set of options; the keys of a test's signer are gone when it ends; and  *)
(* the two readers of disk images do beside the rest what they do alone,   *)
(* so that what DiskProofs states of them holds here too.  Each part has   *)
(* an invariant of its own, and the steps of the other parts leave its     *)
(* variables alone.                                                        *)
(***************************************************************************)
EXTENDS Release, WellFoundedInduction, TLAPS

-----------------------------------------------------------------------------
\* The update.

\* What the verification of the hash tree has found so far.
VerityInv ==
    /\ \E case \in Cases : artifact = case.artifact
    /\ phase \in {"leaves", "levels", "root", "verified"} =>
         artifact.dataBlocks <= Len(artifact.root) /\ ZeroFrom(artifact.root, artifact.dataBlocks)
    /\ phase = "verified" => ZeroFrom(artifact.hash, Size("verity"))

\* A finished file is the first blocks of what it was made of.
IsCopy(name, blocks) ==
    LET plain == Unpacked(name, blocks)
    IN /\ IsBlocks(plain) /\ Len(plain) = Size(name) /\ Len(plain) <= Len(Source(name))
       /\ \A k \in 1..Len(plain) : plain[k] = Source(name)[k]
\* The file that is written: what was read of it, of which all but zeros at the
\* end is on disk; or nothing is on disk when it will be compressed.
InProgress(name) ==
    /\ file = [read |-> file.read, position |-> file.read, seen |-> file.seen] /\ file.read \in Nat
    /\ IsBlocks(file.seen) /\ Len(file.seen) = file.read /\ file.read <= Len(Source(name))
    /\ \A k \in 1..file.read : file.seen[k] = Source(name)[k]
    /\ IsBlocks(Blocks) /\ Len(Blocks) <= file.read
    /\ Compression(name) # "none" => Blocks = <<>>
    /\ Compression(name) = "none" => \A k \in 1..file.read :
          Source(name)[k] = IF k <= Len(Blocks) THEN Blocks[k] ELSE Zero
Finished(i) == /\ Names[i] \in DOMAIN output /\ IsCopy(Names[i], output[Names[i]])
               /\ sums[i] = Digest(output[Names[i]])
Copying ==
    /\ _release_uki
    /\ IsBlocks(sums) /\ Len(sums) \in 0..3 /\ \A i \in 1..Len(sums) : Finished(i)
    /\ Len(sums) < 3 =>
         /\ InProgress(Name)
         /\ \A i \in (Len(sums) + 1)..3 :
              Names[i] \in DOMAIN output => i = Len(sums) + 1 /\ file.read > 0

OptionFields == {"slot", "version", "compression", "signedUki", "requestedUki", "certificate", "edits"}
\* The payload of a build whose kernel is given.
IsImage(built, kernel) ==
    /\ \A i \in 1..3 : built.sums[i] = Digest(built.files[Names[i]])
    /\ Restores("root", built.files["root"], artifact.root)
    /\ Restores("verity", built.files["verity"], artifact.hash)
    /\ built.files["uki"] = <<IF options.signedUki = NoUki THEN kernel ELSE options.signedUki>>
    /\ options.signedUki # NoUki => options.requestedUki = kernel
IsSigned(import) ==
    /\ IsImage(import.payload, import.uki)
    /\ import.signature.tags = <<2>> /\ import.signature.key = options.certificate.key
    /\ import.signature.over = import.payload.sums
UpdateInv ==
    /\ VerityInv /\ DOMAIN options = OptionFields /\ IsBlocks(signatures)
    /\ step \in {"copy", "done", "stale"} => phase = "verified"
    /\ step \in {"failed", "idle"} => output = NoDirectory
    /\ step = "copy" => Copying
    /\ step = "done" => IsImage(payload, uki)
    /\ imported.result = "signed" => IsSigned(imported)

\* Sequences of blocks, whatever a block is.
LEMMA AnyBlocks == ASSUME NEW S, NEW s \in Seq(S) PROVE IsBlocks(s)
<1>1. \A k \in 1..Len(s) : s[k] \in Range(s)
  BY DEF Range
<1>2. s \in Seq(Range(s))
  BY <1>1
<1> QED
  BY <1>2 DEF IsBlocks
\* One more block.
LEMMA AppendBlocks ==
  ASSUME NEW s, IsBlocks(s), NEW x
  PROVE  /\ IsBlocks(Append(s, x)) /\ Len(s) \in Nat /\ Len(Append(s, x)) = Len(s) + 1
         /\ \A k \in 1..Len(s) : Append(s, x)[k] = s[k]
         /\ Append(s, x)[Len(s) + 1] = x
<1> DEFINE S == Range(s) \cup {x}
<1>1. s \in Seq(S) /\ x \in S /\ Len(s) \in Nat
  BY DEF IsBlocks
<1> HIDE DEF S
<1>2. /\ Append(s, x) \in Seq(S) /\ Len(Append(s, x)) = Len(s) + 1
      /\ \A k \in 1..Len(s) : Append(s, x)[k] = s[k]
      /\ Append(s, x)[Len(s) + 1] = x
  BY <1>1
<1> QED
  BY <1>1, <1>2, AnyBlocks, Zenon
\* Blocks behind blocks.
LEMMA ConcatBlocks ==
  ASSUME NEW s, IsBlocks(s), NEW t, IsBlocks(t)
  PROVE  /\ IsBlocks(s \o t) /\ Len(s) \in Nat /\ Len(t) \in Nat /\ Len(s \o t) = Len(s) + Len(t)
         /\ \A k \in 1..(Len(s) + Len(t)) : (s \o t)[k] = IF k <= Len(s) THEN s[k] ELSE t[k - Len(s)]
<1> DEFINE S == Range(s) \cup Range(t)
<1>1. s \in Seq(S) /\ t \in Seq(S) /\ Len(s) \in Nat /\ Len(t) \in Nat
  BY DEF IsBlocks
<1> HIDE DEF S
<1>2. /\ s \o t \in Seq(S) /\ Len(s \o t) = Len(s) + Len(t)
      /\ \A k \in 1..(Len(s) + Len(t)) : (s \o t)[k] = IF k <= Len(s) THEN s[k] ELSE t[k - Len(s)]
  BY <1>1
<1> QED
  BY <1>1, <1>2, AnyBlocks, Zenon
\* Files with the same blocks are the same.
LEMMA SameBlocks ==
  ASSUME NEW s, IsBlocks(s), NEW t, IsBlocks(t), Len(s) = Len(t), \A k \in 1..Len(s) : s[k] = t[k]
  PROVE  s = t
<1> DEFINE S == Range(s) \cup Range(t)
<1>1. s \in Seq(S) /\ t \in Seq(S)
  BY DEF IsBlocks
<1> QED
  BY <1>1
\* A file of one block.
LEMMA OneBlock == ASSUME NEW x PROVE IsBlocks(<<x>>) /\ Len(<<x>>) = 1 /\ <<x>>[1] = x
<1>1. <<x>> \in Seq({x})
  OBVIOUS
<1> QED
  BY <1>1, AnyBlocks, Zenon
\* The empty file.
LEMMA NoBlocks == IsBlocks(<<>>) /\ Len(<<>>) = 0 /\ DOMAIN <<>> = {}
  BY DEF IsBlocks
\* A hole reads as zeros.
LEMMA HoleBlocks ==
  ASSUME NEW n \in Nat
  PROVE  IsBlocks(Hole(n)) /\ Len(Hole(n)) = n /\ \A k \in 1..n : Hole(n)[k] = Zero
<1>1. Hole(n) \in Seq({Zero}) /\ Len(Hole(n)) = n /\ \A k \in 1..n : Hole(n)[k] = Zero
  BY DEF Hole
<1> QED
  BY Zenon, <1>1, AnyBlocks
\* A file whose blocks are the first of another is its beginning.
LEMMA PrefixBlocks ==
  ASSUME NEW s, IsBlocks(s), NEW t, IsBlocks(t), Len(s) <= Len(t), \A k \in 1..Len(s) : s[k] = t[k]
  PROVE  SubSeq(t, 1, Len(s)) = s
<1> DEFINE S == Range(s) \cup Range(t)
<1>1. s \in Seq(S) /\ t \in Seq(S)
  BY DEF IsBlocks
<1> HIDE DEF S
<1>2. Len(s) \in Nat /\ Len(t) \in Nat
  BY <1>1
<1>3. SubSeq(t, 1, Len(s)) \in Seq(S) /\ Len(SubSeq(t, 1, Len(s))) = Len(s)
      /\ \A k \in 1..Len(s) : SubSeq(t, 1, Len(s))[k] = t[k]
  BY <1>1, <1>2
<1> QED
  BY <1>1, <1>3

\* The signature that is tried first among those that are valid.
LEMMA LeastOf == ASSUME NEW S \in SUBSET Nat, S # {} PROVE Min(S) \in S
<1>1. \E x \in S : \A y \in S : ~(<<y, x>> \in OpToRel(<, Nat))
  BY NatLessThanWellFounded, WFMin, Zenon
<1>2. PICK x \in S : \A y \in S : ~(<<y, x>> \in OpToRel(<, Nat))
  BY <1>1, Zenon
<1>3. ASSUME NEW y \in S, y < x PROVE FALSE
  <2>1. <<y, x>> \in OpToRel(<, Nat)
    BY <1>3 DEF OpToRel
  <2> QED
    BY <1>2, <2>1, Zenon
<1>4. \A y \in S : x <= y
  BY <1>3
<1> QED
  BY <1>4, Zenon DEF Min

\* The artifacts of a case are blocks.
LEMMA ArtifactBlocks ==
  ASSUME VerityInv
  PROVE  IsBlocks(artifact.root) /\ IsBlocks(artifact.hash) /\ artifact.dataBlocks \in Nat
  BY ReleaseAssumption DEF VerityInv

\* What the properties say of a file and of a payload depends on the artifact,
\* the options and, for a file, the kernel.
LEMMA SameSizes ==
  ASSUME UNCHANGED artifact, options'.signedUki = options.signedUki, options'.compression = options.compression
  PROVE  /\ \A n : Size(n)' = Size(n) /\ Compression(n)' = Compression(n)
         /\ \A n, b : Unpacked(n, b)' = Unpacked(n, b)
         /\ UNCHANGED uki => \A n : Source(n)' = Source(n)
<1>1. _level_counts' = _level_counts
  BY DEF _level_counts
<1>2. \A n : Size(n)' = Size(n) /\ Compression(n)' = Compression(n)
  BY <1>1 DEF Size, Compression
<1> QED
  BY <1>2, Zenon DEF Unpacked, Source, ReleaseUki
\* What a payload is an image of depends on the artifact and on the options only.
LEMMA SameImage ==
  ASSUME UNCHANGED artifact, options'.signedUki = options.signedUki, options'.compression = options.compression,
         options'.requestedUki = options.requestedUki, options'.certificate = options.certificate
  PROVE  /\ \A b, k : IsImage(b, k)' = IsImage(b, k)
         /\ \A i : IsSigned(i)' = IsSigned(i)
<1>1. \A n, b, o : Restores(n, b, o)' = Restores(n, b, o)
  BY SameSizes, Zenon DEF Restores
<1>2. \A b, k : IsImage(b, k)' = IsImage(b, k)
  BY <1>1, Zenon DEF IsImage
<1> QED
  BY <1>2, Zenon DEF IsSigned
\* What a file is a copy of depends on the sources only.
LEMMA SameCopies ==
  ASSUME UNCHANGED <<artifact, options, uki>>
  PROVE  \A n, b : IsCopy(n, b)' = IsCopy(n, b)
  BY SameSizes DEF IsCopy
\* The verified tree stays while verity rests.
LEMMA SameVerity == ASSUME VerityInv, UNCHANGED verityVars PROVE VerityInv'
<1>1. UNCHANGED <<artifact, phase>> /\ _level_counts' = _level_counts
  BY DEF verityVars, _level_counts
<1>2. Size("verity")' = Size("verity")
  BY <1>1 DEF Size
<1> QED
  BY <1>1, <1>2, Zenon DEF VerityInv

\* Steps that leave the update alone keep its invariant.
LEMMA FrameKeeps == ASSUME UpdateInv, VerityInv', UNCHANGED <<artifact, updateVars>>,
                           phase = "verified" => phase' = "verified"
                    PROVE  UpdateInv'
<1>1. UNCHANGED <<artifact, options, uki, step, output, file, sums, payload, imported>>
  BY DEF updateVars
<1> USE <1>1
<1>2. Copying' = Copying
  <2>1. /\ Name' = Name /\ Blocks' = Blocks /\ \A n : Source(n)' = Source(n) /\ Compression(n)' = Compression(n)
    BY SameSizes, Zenon DEF Name, Blocks
  <2>2. InProgress(Name)' = InProgress(Name)
    BY <2>1, Zenon DEF InProgress
  <2>3. \A i : Finished(i)' = Finished(i)
    BY SameCopies, Zenon DEF Finished
  <2> QED
    BY <2>2, <2>3, Zenon DEF Copying, _release_uki
<1> QED
  BY <1>2, SameImage, Zenon DEF UpdateInv, updateVars

\* The verification of the hash tree.
LEMMA VerityKeeps == ASSUME UpdateInv, VerityStep PROVE UpdateInv'
<1>0. UNCHANGED <<artifact, updateVars>>
  BY Zenon DEF VerityStep, VerityNext, ReadArtifacts, _leaf_digests, _verify_level, RemoveBelow, _read_root_digest,
         CompareRoot, Ends
<1>1. /\ phase \in {"start", "leaves", "levels", "root"}
      /\ phase' \in {phase, "leaves", "levels", "root", "verified", "invalid", "failed"}
      /\ phase = "start" => \/ phase' \in {"invalid", "failed"}
                            \/ /\ phase' = "leaves" /\ artifact.dataBlocks <= Len(artifact.root)
                               /\ ZeroFrom(artifact.root, artifact.dataBlocks)
      /\ phase' = "verified" => phase = "root" /\ ZeroFrom(artifact.hash, 1 + TreeSize(_level_counts))
  BY Zenon DEF VerityStep, VerityNext, ReadArtifacts, _leaf_digests, _verify_level, RemoveBelow, _read_root_digest,
         CompareRoot, Ends
<1>2. Size("verity")' = 1 + TreeSize(_level_counts)
  <2>1. _level_counts' = _level_counts
    BY <1>0 DEF _level_counts
  <2> QED
    BY <2>1 DEF Size
<1>3. VerityInv'
  BY <1>0, <1>1, <1>2, Zenon DEF VerityInv, UpdateInv
<1> QED
  BY Zenon, <1>0, <1>1, <1>3, FrameKeeps

\* A build begins, or fails, with an empty output.
LEMMA FailsKeeps == ASSUME UpdateInv, PayloadFails PROVE UpdateInv'
<1>1. UNCHANGED <<artifact, phase, options, imported, signatures>> /\ step' = "failed" /\ output' = NoDirectory
  BY DEF PayloadFails, keepDisk, verityVars
<1>2. VerityInv'
  BY SameVerity, Zenon DEF UpdateInv, PayloadFails, keepDisk
<1> QED
  BY <1>1, <1>2, SameImage, Zenon DEF UpdateInv
\* What an error leaves behind is never signed.
LEMMA AbortKeeps == ASSUME UpdateInv, CopyAborts PROVE UpdateInv'
<1>1. UNCHANGED <<artifact, phase, options, imported, signatures>> /\ step' = "aborted"
  BY DEF CopyAborts, keepDisk, verityVars
<1>2. VerityInv'
  BY SameVerity, Zenon DEF UpdateInv, CopyAborts, keepDisk
<1> QED
  BY <1>1, <1>2, SameImage, Zenon DEF UpdateInv
\* The three payloads have different names.
LEMMA NamesAre == /\ Names[1] = "root" /\ Names[2] = "verity" /\ Names[3] = "uki"
                  /\ \A i, j \in 1..3 : Names[i] = Names[j] => i = j
  BY DEF Names
\* Whatever is copied is blocks.
LEMMA SourceBlocks == ASSUME VerityInv PROVE \A n : IsBlocks(Source(n)) /\ Len(Source(n)) \in Nat
<1>1. \A n : IsBlocks(Source(n))
  BY ArtifactBlocks, OneBlock, Zenon DEF Source
<1> QED
  BY <1>1 DEF IsBlocks
\* A payload begins empty.
LEMMA StartKeeps == ASSUME UpdateInv, StartPayload PROVE UpdateInv'
<1>1. CASE PayloadFails
  BY Zenon, <1>1, FailsKeeps
<1>2. CASE ~PayloadFails
  <2>1. /\ UNCHANGED <<artifact, phase, options, uki, imported, signatures>> /\ step' = "copy" /\ phase = "verified"
        /\ sums' = <<>> /\ output' = NoDirectory /\ file' = NoFile /\ _release_uki
    BY <1>2, Zenon DEF StartPayload, keepDisk, verityVars
  <2> USE <2>1
  <2>2. VerityInv'
    BY <1>2, SameVerity, Zenon DEF UpdateInv, StartPayload, keepDisk
  <2>3. \A n : Len(Source(n)') \in Nat
    BY SourceBlocks, SameSizes, Zenon DEF UpdateInv
  <2>4. Copying'
    <3>1. Name' \notin DOMAIN output'
      BY NoBlocks, Zenon DEF NoDirectory
    <3>2. InProgress(Name)'
      <4>1. Blocks' = <<>>
        BY <3>1, Zenon DEF Blocks
      <4>2. file'.read = 0 /\ file'.seen = <<>>
            /\ file' = [read |-> file'.read, position |-> file'.read, seen |-> file'.seen]
        BY Zenon DEF NoFile
      <4> QED
        BY <4>1, <4>2, <2>3, NoBlocks DEF InProgress
    <3> QED
      BY <3>2, NoBlocks DEF Copying, _release_uki, NoDirectory
  <2> QED
    BY <2>2, <2>4, SameImage, Zenon DEF UpdateInv
<1> QED
  BY Zenon, <1>1, <1>2

\* A block is copied: a zero block only moves the position.
LEMMA ChunkKeeps == ASSUME UpdateInv, CopyChunk PROVE UpdateInv'
<1>1. CASE PayloadFails
  BY Zenon, <1>1, FailsKeeps
<1>2. CASE ~PayloadFails
  <2> DEFINE block == Source(Name)[file.read + 1]
             X == IF Compression(Name) = "none" /\ block # Zero
                  THEN WriteAt(Blocks, file.position, block) ELSE Blocks
  <2>1. /\ UNCHANGED <<artifact, phase, options, uki, step, sums, imported, signatures>> /\ step = "copy" /\ Len(sums) < 3
        /\ ~(file.read >= Len(Source(Name)))
        /\ file' = [file EXCEPT !.read = @ + 1, !.position = @ + 1, !.seen = Append(@, block)]
        /\ output' = Put(Name, X)
    BY <1>2, Zenon DEF CopyChunk, keepDisk, verityVars
  <2>2. Copying /\ InProgress(Name) /\ VerityInv /\ Len(sums) \in 0..2
    BY <2>1 DEF UpdateInv, Copying
  <2>3. VerityInv'
    BY <1>2, <2>2, SameVerity, Zenon DEF CopyChunk, keepDisk
  <2>4. /\ file.read \in Nat /\ file.position = file.read /\ file'.read = file.read + 1
        /\ file'.seen = Append(file.seen, block)
        /\ file' = [read |-> file'.read, position |-> file'.read, seen |-> file'.seen]
    <3>1. PICK r, s : file = [read |-> r, position |-> r, seen |-> s] /\ r \in Nat
      BY <2>2, Zenon DEF InProgress
    <3> HIDE DEF block
    <3>2. file' = [read |-> r + 1, position |-> r + 1, seen |-> Append(s, block)]
      BY <3>1, <2>1, Zenon
    <3> QED
      BY Zenon, <3>1, <3>2
  <2>5. Len(Source(Name)) \in Nat /\ file.read + 1 <= Len(Source(Name))
    BY <2>1, <2>2, <2>4, SourceBlocks
  <2>6. /\ IsBlocks(X) /\ Len(X) \in Nat /\ Len(X) <= file.read + 1
        /\ Compression(Name) # "none" => X = <<>>
        /\ Compression(Name) = "none" => \A k \in 1..(file.read + 1) :
             Source(Name)[k] = IF k <= Len(X) THEN X[k] ELSE Zero
    <3>1. IsBlocks(Blocks) /\ Len(Blocks) \in Nat /\ Len(Blocks) <= file.read
      BY <2>2 DEF InProgress, IsBlocks
    <3>2. CASE Compression(Name) = "none" /\ block # Zero
      <4> DEFINE H == Blocks \o Hole(file.read - Len(Blocks))
      <4>1. /\ IsBlocks(H) /\ Len(H) = file.read
            /\ \A k \in 1..file.read : H[k] = IF k <= Len(Blocks) THEN Blocks[k] ELSE Zero
        <5> DEFINE n == file.read - Len(Blocks)
        <5>1. n \in Nat /\ Len(Blocks) + n = file.read
          BY <2>4, <3>1
        <5> HIDE DEF n
        <5>2. IsBlocks(Hole(n)) /\ Len(Hole(n)) = n /\ \A k \in 1..n : Hole(n)[k] = Zero
          BY Zenon, <5>1, HoleBlocks
        <5>3. /\ IsBlocks(Blocks \o Hole(n)) /\ Len(Blocks \o Hole(n)) = Len(Blocks) + n
              /\ \A k \in 1..(Len(Blocks) + n) :
                   (Blocks \o Hole(n))[k] = IF k <= Len(Blocks) THEN Blocks[k] ELSE Hole(n)[k - Len(Blocks)]
          BY <3>1, <5>2, ConcatBlocks, Zenon
        <5>4. H = Blocks \o Hole(n)
          BY DEF n
        <5> HIDE DEF H
        <5>5. \A k \in 1..file.read : k <= Len(Blocks) \/ k - Len(Blocks) \in 1..n
          BY <5>1, <2>4, <3>1
        <5> QED
          BY Zenon, <5>1, <5>2, <5>3, <5>4, <5>5
      <4>2. X = H \o <<block>>
        BY <3>2, <2>4, Zenon DEF WriteAt
      <4> HIDE DEF H, X, block
      <4>3. /\ IsBlocks(X) /\ Len(X) = file.read + 1
            /\ \A k \in 1..(file.read + 1) : X[k] = IF k <= file.read THEN H[k] ELSE block
        <5>1. IsBlocks(<<block>>) /\ Len(<<block>>) = 1 /\ <<block>>[1] = block
          BY Zenon, OneBlock
        <5>2. /\ IsBlocks(X) /\ Len(X) = Len(H) + Len(<<block>>)
              /\ \A k \in 1..(Len(H) + Len(<<block>>)) : X[k] = IF k <= Len(H) THEN H[k] ELSE <<block>>[k - Len(H)]
          BY ONLY <4>1, <4>2, <5>1, ConcatBlocks
        <5>3. \A k \in 1..(file.read + 1) : k <= file.read \/ k - file.read = 1
          BY <2>4
        <5> QED
          BY <4>1, <5>1, <5>2, <5>3, Zenon
      <4>4. \A k \in 1..file.read : Source(Name)[k] = H[k]
        BY <3>2, <4>1, <2>2, Zenon DEF InProgress
      <4> QED
        BY <3>2, <4>3, <4>4, <2>4 DEF block
    <3>3. CASE ~(Compression(Name) = "none" /\ block # Zero)
      <4>1. X = Blocks
        BY Zenon, <3>3
      <4> HIDE DEF X
      <4> QED
        BY <3>1, <3>3, <4>1, <2>2, <2>4 DEF InProgress
    <3> QED
      BY Zenon, <3>2, <3>3
  <2> HIDE DEF X
  <2>7. /\ Name \in DOMAIN output' /\ output'[Name] = X
        /\ DOMAIN output' = DOMAIN output \cup {Name}
        /\ \A n \in DOMAIN output \ {Name} : output'[n] = output[n]
    BY <2>1, Zenon DEF Put
  <2>8. Name' = Name /\ Blocks' = X
    BY <2>1, <2>7, Zenon DEF Name, Blocks
  <2>9. \A n : Source(n)' = Source(n) /\ Compression(n)' = Compression(n)
    BY Zenon, <2>1, SameSizes
  <2>10. /\ IsBlocks(file'.seen) /\ Len(file'.seen) = file.read + 1
         /\ \A k \in 1..(file.read + 1) : file'.seen[k] = Source(Name)[k]
    <3>1. /\ IsBlocks(file.seen) /\ Len(file.seen) = file.read
          /\ \A k \in 1..file.read : file.seen[k] = Source(Name)[k]
      BY <2>2, Zenon DEF InProgress
    <3> HIDE DEF block
    <3>2. /\ IsBlocks(file'.seen) /\ Len(file'.seen) = file.read + 1
          /\ \A k \in 1..file.read : file'.seen[k] = file.seen[k]
          /\ file'.seen[file.read + 1] = block
      BY <3>1, <2>4, AppendBlocks
    <3> QED
      BY <3>1, <3>2, <2>4 DEF block
  <2> HIDE DEF block
  <2>11. InProgress(Name)'
    BY <2>4, <2>5, <2>6, <2>8, <2>9, <2>10 DEF InProgress
  <2>12. \A i \in 1..Len(sums) : Finished(i)'
    <3> SUFFICES ASSUME NEW i \in 1..Len(sums) PROVE Finished(i)'
      OBVIOUS
    <3>1. Finished(i)
      BY <2>2, Zenon DEF Copying
    <3>2. Names[i] # Name
      <4>1. i \in 1..3 /\ Len(sums) + 1 \in 1..3 /\ i # Len(sums) + 1
        <5> DEFINE n == Len(sums)
        <5>1. n \in 0..2 /\ i \in 1..n
          BY Zenon, <2>2
        <5> HIDE DEF n
        <5>2. i \in 1..3 /\ n + 1 \in 1..3 /\ i # n + 1
          BY <5>1
        <5> QED
          BY <5>2, Zenon DEF n
      <4> QED
        BY <4>1, NamesAre, Zenon DEF Name
    <3>3. Names[i] \in DOMAIN output' /\ output'[Names[i]] = output[Names[i]]
      BY <3>1, <3>2, <2>7, Zenon DEF Finished
    <3> QED
      BY <3>1, <3>3, <2>1, SameCopies, Zenon DEF Finished
  <2>13. \A i \in (Len(sums) + 1)..3 : Names[i] \in DOMAIN output' => i = Len(sums) + 1 /\ file'.read > 0
    <3> SUFFICES ASSUME NEW i \in (Len(sums) + 1)..3, Names[i] \in DOMAIN output'
                 PROVE  i = Len(sums) + 1 /\ file'.read > 0
      OBVIOUS
    <3>1. i \in 1..3 /\ Len(sums) + 1 \in 1..3
      BY <2>2
    <3>2. Names[i] = Name => i = Len(sums) + 1
      BY <3>1, NamesAre, Zenon DEF Name
    <3> QED
      BY <3>2, <2>1, <2>2, <2>4, <2>7 DEF Copying
  <2>14. Copying'
    BY <2>1, <2>2, <2>11, <2>12, <2>13, Zenon DEF Copying, _release_uki
  <2> QED
    BY <2>1, <2>3, <2>14, SameImage, Zenon DEF UpdateInv
<1> QED
  BY Zenon, <1>1, <1>2

\* A file is finished: on disk and in the manifest are the blocks that were read.
LEMMA FinishKeeps == ASSUME UpdateInv, FinishFile PROVE UpdateInv'
<1> DEFINE n == Len(sums)
           plain == Compression(Name) = "none"
           F == IF plain THEN Truncated(Blocks, file.position) ELSE Xz(file.seen)
<1>1. /\ UNCHANGED <<artifact, phase, options, uki, step, imported, signatures>> /\ step = "copy" /\ n < 3
      /\ file.read = Size(Name) /\ file' = NoFile
      /\ output' = Put(Name, F)
      /\ sums' = Append(sums, Digest(IF plain THEN file.seen ELSE Xz(file.seen)))
  BY Zenon DEF FinishFile, keepDisk, verityVars
<1>2. Copying /\ InProgress(Name) /\ VerityInv /\ n \in 0..2 /\ IsBlocks(sums)
  BY <1>1 DEF UpdateInv, Copying
<1>3. VerityInv'
  BY <1>2, SameVerity, Zenon DEF FinishFile, keepDisk
<1>4. /\ file.read \in Nat /\ file.position = file.read
      /\ IsBlocks(file.seen) /\ Len(file.seen) = file.read /\ file.read <= Len(Source(Name))
      /\ \A k \in 1..file.read : file.seen[k] = Source(Name)[k]
  <2>1. PICK r, s : file = [read |-> r, position |-> r, seen |-> s] /\ r \in Nat
    BY <1>2, Zenon DEF InProgress
  <2>2. file.read \in Nat /\ file.position = file.read
    BY Zenon, <2>1
  <2> QED
    BY <2>2, <1>2, Zenon DEF InProgress
<1>5. plain => Truncated(Blocks, file.position) = file.seen
  <2> SUFFICES ASSUME plain PROVE Truncated(Blocks, file.position) = file.seen
    OBVIOUS
  <2> DEFINE m == file.read - Len(Blocks)
             H == Hole(m)
  <2>1. /\ IsBlocks(Blocks) /\ Len(Blocks) \in Nat /\ Len(Blocks) <= file.read
        /\ \A k \in 1..file.read : Source(Name)[k] = IF k <= Len(Blocks) THEN Blocks[k] ELSE Zero
    BY <1>2 DEF InProgress, IsBlocks
  <2>2. m \in Nat /\ Len(Blocks) + m = file.read
    BY <1>4, <2>1
  <2>3. Truncated(Blocks, file.position) = Blocks \o H
    BY <1>4, Zenon DEF Truncated
  <2> HIDE DEF m
  <2>4. IsBlocks(H) /\ Len(H) = m /\ \A k \in 1..m : H[k] = Zero
    BY Zenon, <2>2, HoleBlocks
  <2> HIDE DEF H
  <2>5. /\ IsBlocks(Blocks \o H) /\ Len(Blocks \o H) = Len(Blocks) + m
        /\ \A k \in 1..(Len(Blocks) + m) : (Blocks \o H)[k] = IF k <= Len(Blocks) THEN Blocks[k] ELSE H[k - Len(Blocks)]
    BY <2>1, <2>4, ConcatBlocks, Zenon
  <2>6. \A k \in 1..file.read : k <= Len(Blocks) \/ k - Len(Blocks) \in 1..m
    BY <2>1, <2>2, <1>4
  <2>7. \A k \in 1..file.read : (Blocks \o H)[k] = file.seen[k]
    BY Zenon, <1>4, <2>1, <2>2, <2>4, <2>5, <2>6
  <2> DEFINE T == Blocks \o H
  <2>8. IsBlocks(T) /\ Len(T) = Len(file.seen) /\ \A k \in 1..Len(T) : T[k] = file.seen[k]
    BY Zenon, <1>4, <2>2, <2>5, <2>7
  <2>9. Truncated(Blocks, file.position) = T
    BY Zenon, <2>3
  <2> HIDE DEF T
  <2> QED
    BY Zenon, <1>4, <2>8, <2>9, SameBlocks
<1>6. F = (IF plain THEN file.seen ELSE Xz(file.seen)) /\ Unpacked(Name, F) = file.seen
  BY <1>5, Zenon DEF Unpacked, Xz
<1> HIDE DEF F
<1>7. IsCopy(Name, F)
  BY <1>1, <1>4, <1>6, Zenon DEF IsCopy
<1>8. /\ DOMAIN output' = DOMAIN output \cup {Name} /\ output'[Name] = F
      /\ \A m \in DOMAIN output \ {Name} : output'[m] = output[m]
  BY <1>1, Zenon DEF Put
<1>9. /\ IsBlocks(sums') /\ Len(sums') = n + 1 /\ sums'[n + 1] = Digest(F)
      /\ \A i \in 1..n : sums'[i] = sums[i]
  <2> DEFINE d == Digest(F)
  <2>1. sums' = Append(sums, d)
    BY Zenon, <1>1, <1>6
  <2> HIDE DEF d
  <2>2. /\ IsBlocks(sums') /\ Len(sums') = n + 1 /\ sums'[n + 1] = d
        /\ \A i \in 1..n : sums'[i] = sums[i]
    BY <1>2, <2>1, AppendBlocks
  <2> QED
    BY <2>2, Zenon DEF d
<1>10. \A i \in 1..n : Finished(i)
  BY <1>2, Zenon DEF Copying
<1>11. \A i \in (n + 1)..3 : Names[i] \in DOMAIN output => i = n + 1
  BY <1>1, <1>2, Zenon DEF Copying
<1>12. Name = Names[n + 1]
  BY DEF Name
<1> HIDE DEF n, plain
<1>13. \A i \in 1..(n + 1) : Finished(i)'
  <2> SUFFICES ASSUME NEW i \in 1..(n + 1) PROVE Finished(i)'
    OBVIOUS
  <2>1. i \in 1..3 /\ n + 1 \in 1..3
    BY <1>2
  <2>2. CASE i = n + 1
    BY <2>1, <2>2, <1>7, <1>8, <1>9, <1>12, SameCopies, <1>1, Zenon DEF Finished
  <2>3. CASE i # n + 1
    <3>1. i \in 1..n
      BY <1>2, <2>3
    <3>2. Names[i] # Name
      BY Zenon, <2>1, <2>3, <1>12, NamesAre
    <3>3. Finished(i)
      BY Zenon, <3>1, <1>10
    <3>4. Names[i] \in DOMAIN output' /\ output'[Names[i]] = output[Names[i]] /\ sums'[i] = sums[i]
      BY <3>1, <3>2, <3>3, <1>8, <1>9, Zenon DEF Finished
    <3> QED
      BY <3>3, <3>4, <1>1, SameCopies, Zenon DEF Finished
  <2> QED
    BY Zenon, <2>2, <2>3
<1>14. \A i \in (n + 2)..3 : Names[i] \notin DOMAIN output'
  <2> SUFFICES ASSUME NEW i \in (n + 2)..3 PROVE Names[i] \notin DOMAIN output'
    OBVIOUS
  <2>1. i \in 1..3 /\ n + 1 \in 1..3 /\ i # n + 1 /\ i \in (n + 1)..3
    BY <1>2
  <2> QED
    BY Zenon, <2>1, <1>8, <1>11, <1>12, NamesAre
<1>15. n + 1 < 3 => InProgress(Name)'
  <2> SUFFICES ASSUME n + 1 < 3 PROVE InProgress(Name)'
    OBVIOUS
  <2>1. Name' = Names[n + 2]
    <3>1. Len(sums') + 1 = n + 2
      BY <1>2, <1>9
    <3> QED
      BY <3>1, Zenon DEF Name
  <2>2. Name' \notin DOMAIN output'
    <3>1. n + 2 \in (n + 2)..3
      BY <1>2
    <3> QED
      BY Zenon, <2>1, <3>1, <1>14
  <2>3. Blocks' = <<>>
    BY <2>2, Zenon DEF Blocks
  <2>4. file'.read = 0 /\ file'.seen = <<>>
        /\ file' = [read |-> file'.read, position |-> file'.read, seen |-> file'.seen]
    BY <1>1, Zenon DEF NoFile
  <2>5. \A m : Len(Source(m)') \in Nat
    BY Zenon, <1>1, <1>2, SourceBlocks, SameSizes
  <2> QED
    BY <2>3, <2>4, <2>5, NoBlocks DEF InProgress
<1>16. Copying'
  <2>1. Len(sums') \in 0..3 /\ Len(sums') = n + 1
    BY <1>2, <1>9
  <2>2. \A i \in (Len(sums') + 1)..3 : Names[i] \notin DOMAIN output'
    BY <1>2, <1>14, <2>1
  <2>3. _release_uki'
    BY <1>1, <1>2, Zenon DEF Copying, _release_uki
  <2> QED
    BY <1>9, <1>13, <1>15, <2>1, <2>2, <2>3, Zenon DEF Copying
<1> QED
  BY <1>1, <1>3, <1>16, SameImage, Zenon DEF UpdateInv

\* The three files make a payload that is the image.
LEMMA WriteKeeps == ASSUME UpdateInv, WriteSums PROVE UpdateInv'
<1>1. /\ UNCHANGED <<artifact, phase, options, uki, imported, signatures>> /\ step = "copy" /\ step' = "done" /\ Len(sums) = 3
      /\ payload'.files = output /\ payload'.sums = sums /\ phase = "verified"
  BY Zenon DEF WriteSums, keepDisk, verityVars, UpdateInv
<1>2. Copying /\ VerityInv
  BY <1>1, Zenon DEF UpdateInv
<1>3. VerityInv'
  BY <1>2, SameVerity, Zenon DEF WriteSums, keepDisk
<1>4. Finished(1) /\ Finished(2) /\ Finished(3)
  BY <1>1, <1>2 DEF Copying
<1>5. /\ IsCopy("root", output["root"]) /\ IsCopy("verity", output["verity"]) /\ IsCopy("uki", output["uki"])
      /\ \A i \in 1..3 : sums[i] = Digest(output[Names[i]])
  BY <1>4, NamesAre DEF Finished
<1>6. ASSUME NEW name \in {"root", "verity"}, IsCopy(name, output[name]), ZeroFrom(Source(name), Size(name))
      PROVE  Restores(name, output[name], Source(name))
  <2> DEFINE p == Unpacked(name, output[name])
  <2>1. IsBlocks(p) /\ Len(p) = Size(name) /\ Len(p) <= Len(Source(name)) /\ \A k \in 1..Len(p) : p[k] = Source(name)[k]
    BY <1>6, Zenon DEF IsCopy
  <2>2. IsBlocks(Source(name))
    BY Zenon, <1>2, SourceBlocks
  <2> HIDE DEF p
  <2>3. SubSeq(Source(name), 1, Len(p)) = p
    BY Zenon, <2>1, <2>2, PrefixBlocks
  <2> QED
    BY <1>6, <2>1, <2>3, Zenon DEF Restores, p
<1>7. Source("root") = artifact.root /\ Source("verity") = artifact.hash /\ Size("root") = artifact.dataBlocks
      /\ Source("uki") = <<ReleaseUki>> /\ Size("uki") = 1 /\ Compression("uki") = "none"
  BY DEF Source, Size, Compression
<1>8. ZeroFrom(artifact.root, artifact.dataBlocks) /\ ZeroFrom(artifact.hash, Size("verity"))
  BY <1>1, <1>2, Zenon DEF VerityInv
<1>9. Restores("root", output["root"], artifact.root) /\ Restores("verity", output["verity"], artifact.hash)
  BY Zenon, <1>5, <1>6, <1>7, <1>8
<1>10. output["uki"] = <<ReleaseUki>>
  <2> DEFINE b == output["uki"]
             s == Source("uki")
  <2>1. Unpacked("uki", b) = b
    BY <1>7, Zenon DEF Unpacked
  <2>2. IsBlocks(b) /\ Len(b) = 1 /\ \A k \in 1..Len(b) : b[k] = s[k]
    BY <1>5, <1>7, <2>1, Zenon DEF IsCopy
  <2>3. IsBlocks(s) /\ Len(s) = 1
    BY Zenon, <1>7, OneBlock
  <2> HIDE DEF b, s
  <2>4. b = s
    BY Zenon, <2>2, <2>3, SameBlocks
  <2> QED
    BY <1>7, <2>4, Zenon DEF b, s
<1>11. IsImage(payload', uki)
  BY <1>1, <1>2, <1>5, <1>9, <1>10, Zenon DEF IsImage, ReleaseUki, Copying, _release_uki
<1>12. IsImage(payload, uki)'
  BY Zenon, <1>1, <1>11, SameImage
<1> QED
  BY <1>1, <1>3, <1>12, SameImage, Zenon DEF UpdateInv

\* A later kernel does not change what was built or imported.
LEMMA RebuildKeeps == ASSUME UpdateInv, Rebuild PROVE UpdateInv'
<1>1. /\ UNCHANGED <<artifact, phase, imported, signatures>> /\ step = "done" /\ step' = "stale"
      /\ options' = [options EXCEPT !.edits = @ - 1]
  BY DEF Rebuild, keepDisk, verityVars
<1>2. VerityInv'
  BY SameVerity, Zenon DEF Rebuild, keepDisk, UpdateInv
<1>3. DOMAIN options' = OptionFields /\ \A f \in OptionFields \ {"edits"} : options'[f] = options[f]
  BY <1>1, Zenon DEF UpdateInv, OptionFields
<1>4. /\ options'.signedUki = options.signedUki /\ options'.compression = options.compression
      /\ options'.requestedUki = options.requestedUki /\ options'.certificate = options.certificate
  BY <1>3, Zenon DEF OptionFields
<1> QED
  BY <1>1, <1>2, <1>3, <1>4, SameImage, Zenon DEF UpdateInv

\* A request and a signature change nothing that was built.
LEMMA RequestKeeps == ASSUME UpdateInv, create_request \/ Sign PROVE UpdateInv'
<1>1. /\ UNCHANGED <<artifact, phase, options, uki, output, file, sums, payload, imported, verityVars>>
      /\ step' = step \/ (step = "done" /\ step' = "refused")
  BY Zenon DEF create_request, Sign, keepDisk, verityVars
<1> USE <1>1
<1>1a. IsBlocks(signatures')
  <2>1. CASE create_request
    BY <2>1, Zenon DEF create_request, UpdateInv
  <2>2. CASE Sign
    <3>1. PICK s : signatures' = Append(signatures, s)
      BY <2>2, Zenon DEF Sign
    <3> QED
      BY <3>1, AppendBlocks, Zenon DEF UpdateInv
  <2> QED
    BY Zenon, <2>1, <2>2
<1>2. VerityInv'
  BY SameVerity, Zenon DEF UpdateInv
<1>3. CASE step' = step
  <2>1. Copying' = Copying
    <3>1. /\ Name' = Name /\ Blocks' = Blocks /\ \A n : Source(n)' = Source(n) /\ Compression(n)' = Compression(n)
      BY SameSizes, Zenon DEF Name, Blocks
    <3>2. InProgress(Name)' = InProgress(Name)
      BY <3>1, Zenon DEF InProgress
    <3>3. \A i : Finished(i)' = Finished(i)
      BY SameCopies, Zenon DEF Finished
    <3> QED
      BY <3>2, <3>3, Zenon DEF Copying, _release_uki
  <2> QED
    BY <1>2, <1>1a, <1>3, <2>1, SameImage, Zenon DEF UpdateInv
<1>4. CASE step = "done" /\ step' = "refused"
  BY <1>2, <1>1a, <1>4, SameImage, Zenon DEF UpdateInv
<1> QED
  BY Zenon, <1>3, <1>4

\* Only a signature over the manifest of the payload that is there is imported.
LEMMA VerifyKeeps == ASSUME UpdateInv, verify PROVE UpdateInv'
<1>1. /\ UNCHANGED <<artifact, phase, options, uki, step, output, file, sums, payload, signatures, verityVars>> /\ step = "done"
      /\ request.sums = payload.sums
      /\ imported' = IF _checked_request /\ Valid # {}
                     THEN [result |-> "signed", signature |-> signatures[Min(Valid)], payload |-> payload, uki |-> uki]
                     ELSE [result |-> "invalid"]
  BY Zenon DEF verify, keepDisk, verityVars
<1>2. VerityInv' /\ IsImage(payload, uki)
  BY <1>1, SameVerity, Zenon DEF UpdateInv
<1>3. CASE _checked_request /\ Valid # {}
  <2>1. PICK i : i \in Valid /\ Min(Valid) = i
    <3>1. Valid \in SUBSET Nat
      BY DEF Valid, UpdateInv, IsBlocks
    <3> QED
      BY Zenon, <1>3, <3>1, LeastOf
  <2>2. /\ imported'.payload = payload /\ imported'.uki = uki /\ imported'.signature = signatures[i]
    BY Zenon, <1>1, <1>3, <2>1
  <2>3. signatures[i].tags = <<2>> /\ signatures[i].over = request.sums /\ signatures[i].key = request.fingerprint
    BY <2>1, Zenon DEF Valid, detached_signature, SqvVerifies
  <2>4. options.certificate.key = request.fingerprint
    BY <1>3, Zenon DEF _checked_request
  <2>5. IsSigned(imported')
    BY <1>1, <1>2, <2>2, <2>3, <2>4, Zenon DEF IsSigned
  <2>6. IsSigned(imported)' /\ IsImage(payload, uki)'
    BY Zenon, <1>1, <1>2, <2>5, SameImage
  <2> QED
    BY <1>1, <1>2, <2>6, Zenon DEF UpdateInv
<1>4. CASE ~(_checked_request /\ Valid # {})
  BY <1>1, <1>2, <1>4, SameImage, Zenon DEF UpdateInv
<1> QED
  BY Zenon, <1>3, <1>4

\* Every step of the composition keeps UpdateInv.
LEMMA UpdateKeeps == ASSUME UpdateInv, [Next]_vars PROVE UpdateInv'
<1>1. CASE UpdateNext
  <2>1. CASE CopyFails
    BY <2>1, FailsKeeps, Zenon DEF CopyFails
  <2> QED
    BY Zenon, <1>1, <2>1, StartKeeps, ChunkKeeps, FinishKeeps, AbortKeeps, WriteKeeps, RebuildKeeps, RequestKeeps, VerifyKeeps
       DEF UpdateNext
<1>2. CASE VerityStep
  BY Zenon, <1>2, VerityKeeps
<1>3. CASE UNCHANGED <<verityVars, updateVars>>
  <2>1. UNCHANGED <<artifact, phase>>
    BY <1>3, Zenon DEF verityVars
  <2> QED
    BY <1>3, <2>1, SameVerity, FrameKeeps, Zenon DEF UpdateInv
<1> QED
  BY <1>1, <1>2, <1>3, Zenon DEF Next, ReadEsp, Others, vars
\* Before the update there are no payloads.
LEMMA UpdateBegins == Init => UpdateInv
<1> SUFFICES ASSUME Init PROVE UpdateInv
  OBVIOUS
<1>1. VerityInv
  BY DEF Init, VerityInv
<1>2. /\ options \in Options /\ step = "idle" /\ output = NoDirectory /\ imported.result = None
      /\ signatures = <<>>
  BY Zenon DEF Init, UpdateInit, NoImport
<1>3. DOMAIN options = OptionFields
  BY <1>2, OptionsAssumption, Zenon DEF OptionFields
<1> QED
  BY <1>1, <1>2, <1>3, NoBlocks, Zenon DEF UpdateInv, None

\* A signed update is the image that was verified, whatever is built again in
\* between, with sparse and with compressed files and with any number of
\* signatures; and a build that fails leaves nothing (sysupdate.py,
\* sysupdate_signing.verify).
THEOREM UpdateIsAlwaysTheImage == Spec => []UpdateIsTheImage
<1>1. UpdateInv => UpdateIsTheImage
  BY Zenon DEF UpdateInv, UpdateIsTheImage, IsSigned, IsImage
<1> QED
  BY <1>1, UpdateBegins, UpdateKeeps, PTL DEF Spec

-----------------------------------------------------------------------------
\* The readers of the disk, beside the rest.

\* The update does not write what was read of the disk.
LEMMA UpdateLeavesDisk == ASSUME UpdateNext PROVE UNCHANGED diskVars
<1>1. CASE StartPayload
  BY <1>1, Zenon DEF StartPayload, PayloadFails, keepDisk
<1>2. CASE CopyChunk \/ FinishFile \/ CopyFails \/ CopyAborts \/ WriteSums \/ Rebuild
  BY <1>2, Zenon DEF CopyChunk, FinishFile, CopyFails, CopyAborts, PayloadFails, WriteSums, Rebuild, keepDisk
<1>3. CASE create_request \/ Sign \/ verify
  BY <1>3, Zenon DEF create_request, Sign, verify, keepDisk
<1> QED
  BY <1>1, <1>2, <1>3, Zenon DEF UpdateNext
\* A step of the composition is one of the table's reader or leaves it alone.
LEMMA DiskSteps == ASSUME Next PROVE [PartitionNext]_diskVars
  BY UpdateLeavesDisk, Zenon DEF Next, ReadEsp, Others, VerityStep
\* Nobody writes the disk.
LEMMA DiskStays == ASSUME Next PROVE UNCHANGED disk
<1>1. CASE _sector_size \/ ReadPrimary \/ ReadBackup \/ _validated_gpt \/ UNCHANGED diskVars
  BY <1>1, Zenon DEF _sector_size, ReadPrimary, ReadBackup, _validated_gpt, Reject, diskVars
<1>2. CASE ScanEntry \/ Project
  BY <1>2, Zenon DEF ScanEntry, Project, Reject
<1>3. CASE canonical_image_sha256 \/ HashPatch \/ HashRest
  BY <1>3, Zenon DEF canonical_image_sha256, HashPatch, HashRest
<1> QED
  BY <1>1, <1>2, <1>3, DiskSteps, Zenon DEF PartitionNext

\* Whatever the other actions do in between, the partition table is read as the
\* reader alone reads it: the release implements PartitionSpec
\* (partition_metadata.py), of which DiskUnambiguous is a theorem.
THEOREM ReleaseReadsTheDisk == Spec => PartitionSpec
<1>1. Init => PartitionInit
  BY Zenon DEF Init
<1>2. [Next]_vars => [PartitionNext]_diskVars
  BY DiskSteps, Zenon DEF vars
<1> QED
  BY <1>1, <1>2, PTL DEF Spec, PartitionSpec

\* The system partition is read of one disk, which no action writes: each step
\* is one of the reader's own with the table as it is, or leaves what it reads
\* and what it has read alone (esp_manifest.py): EspStaysInsideBeside is a theorem
\* of that.
THEOREM ReleaseReadsTheEsp == Spec => EspBeside
<1>1. Init => PartitionInit /\ volume.boot \in Boot /\ EspInit
  BY ReleaseAssumption DEF Init
<1>2. [Next]_vars => [(EspNext /\ UNCHANGED diskVars) \/ UNCHANGED <<espVars, disk>>]_<<espVars, diskVars>>
  <2> SUFFICES ASSUME [Next]_vars
               PROVE  (EspNext /\ UNCHANGED diskVars) \/ UNCHANGED <<espVars, disk>>
    OBVIOUS
  <2>1. CASE ReadEsp
    BY <2>1, Zenon DEF ReadEsp
  <2> QED
    BY <2>1, DiskStays, Zenon DEF Next, vars, diskVars
<1> QED
  BY <1>1, <1>2, PTL DEF Spec, EspBeside

-----------------------------------------------------------------------------
\* A test's signer.

\* A file has its name and its content.
LEMMA ContentFields == ASSUME NEW n, NEW x PROVE Content(n, x).name = n /\ Content(n, x).content = x
  BY DEF Content
NoPrivate(S) == \A c \in S : c.content # "private"
Owned(S) == \A c \in S : c.content = "private" => c.name \in Keys
\* A public file adds no private key.
LEMMA MorePublic == ASSUME NEW S, NoPrivate(S), NEW n, NEW x, x # "private" PROVE NoPrivate(S \cup {Content(n, x)})
  BY ContentFields DEF NoPrivate
\* A private key that is added is one of those to wipe.
LEMMA MoreOwned ==
  ASSUME NEW S, Owned(S), NEW n, NEW x, x # "private" \/ n \in Keys PROVE Owned(S \cup {Content(n, x)})
  BY ContentFields DEF Owned

\* Only the keys of this fixture are private, and only until the cleanup ends.
FixtureInv ==
    /\ fixture \in Fixtures /\ made \in Nat
    /\ NoPrivate(written)
    /\ does \notin {"start", "no scratch"} => Owned(scratch)
    /\ does \in {"done", "failed"} => NoPrivate(scratch)
\* Every step of ephemeral_fixture keeps FixtureInv.
LEMMA FixtureKeeps == ASSUME FixtureInv, [FixtureNext]_fixtureVars PROVE FixtureInv'
<1>1. UNCHANGED fixture
  BY Zenon DEF FixtureNext, MakeScratch, MakeKey, KeysMade, SignFile, Enroll, WipeKey, RemoveScratch, ToolFails, fixtureVars
<1>2. Keys' = Keys /\ ToWipe = Keys
  BY <1>1, Zenon DEF Keys, ToWipe
<1>4. Owned({}) /\ NoPrivate({})
  BY DEF Owned, NoPrivate
<1>5. CASE MakeScratch
  BY <1>4, <1>5, Zenon DEF FixtureInv, MakeScratch, Removed, Owned, NoPrivate
<1>6. CASE MakeKey
  <2> DEFINE key == fixture.keys[made + 1]
  <2>1. key \in Keys
    <3>1. fixture.keys \in Seq(STRING) /\ made \in Nat /\ made < Len(fixture.keys)
      BY <1>6, FixturesAssumption, Zenon DEF FixtureInv, MakeKey
    <3>2. made + 1 \in DOMAIN fixture.keys
      BY <3>1
    <3> QED
      BY <3>2, Zenon DEF Keys
  <2>2. /\ does = "keys" /\ does' \in {"keys", "wipe after error"}
        /\ scratch' = scratch \/ scratch' = scratch \cup {Content(key, "private")}
        /\ written' = written \/ written' = written \cup {Content(key, "certificate")}
    BY <1>6, Zenon DEF MakeKey, ToolFails
  <2> HIDE DEF key
  <2>3. Owned(scratch) /\ NoPrivate(written) /\ made \in Nat /\ fixture \in Fixtures
    BY <2>2, Zenon DEF FixtureInv
  <2>4. Owned(scratch \cup {Content(key, "private")})
    BY <2>1, <2>3, MoreOwned, Zenon
  <2>5. "certificate" # "private"
    OBVIOUS
  <2>6. NoPrivate(written \cup {Content(key, "certificate")})
    BY <2>3, <2>5, MorePublic, Zenon
  <2>7. Owned(scratch') /\ NoPrivate(written')
    BY <2>2, <2>3, <2>4, <2>6, Zenon
  <2>8. made' \in Nat
    <3>1. made' = made \/ made' = made + 1
      BY <1>6, Zenon DEF MakeKey, ToolFails
    <3> QED
      BY <2>3, <3>1
  <2>9. Owned(scratch)'
    BY <1>2, <2>7, Zenon DEF Owned
  <2>10. NoPrivate(written)'
    BY <2>7, Zenon DEF NoPrivate
  <2>11. does' \notin {"done", "failed"}
    BY <2>2, Zenon
  <2> QED
    BY <1>1, <2>3, <2>8, <2>9, <2>10, <2>11, Zenon DEF FixtureInv
<1>7. CASE KeysMade \/ UNCHANGED fixtureVars
  BY <1>1, <1>2, <1>7, Zenon DEF FixtureInv, KeysMade, fixtureVars, Owned, NoPrivate
<1>8. CASE SignFile \/ Enroll
  <2>1. /\ does = "sign" /\ does' \in {"sign", "wipe", "wipe after error"} /\ UNCHANGED <<made, scratch>>
        /\ \/ written' = written \/ written' = written \cup {Content("file", "signed")}
           \/ written' = written \cup {Content("auth", "signed")}
    BY <1>8, Zenon DEF SignFile, Enroll, ToolFails
  <2>2. NoPrivate(written')
    <3>1. NoPrivate(written)
      BY Zenon DEF FixtureInv
    <3>2. "signed" # "private"
      OBVIOUS
    <3>3. NoPrivate(written \cup {Content("file", "signed")})
      BY <3>1, <3>2, MorePublic, Zenon
    <3>4. NoPrivate(written \cup {Content("auth", "signed")})
      BY <3>1, <3>2, MorePublic, Zenon
    <3> QED
      BY <2>1, <3>1, <3>3, <3>4, Zenon
  <2> QED
    BY <1>1, <1>2, <2>1, <2>2, Zenon DEF FixtureInv, Owned, NoPrivate
<1>9. CASE WipeKey
  <2>1. PICK c \in Exposed : \/ scratch' = (scratch \ {c}) \cup {Content(c.name, "zeros")}
                             \/ scratch' = (scratch \ {c}) \cup {Content(c.name, "truncated")}
    BY <1>9, Zenon DEF WipeKey
  <2>2. Wiping /\ (UNCHANGED does \/ does' = "cleanup failed") /\ UNCHANGED <<made, written>>
    BY <1>9, Zenon DEF WipeKey
  <2>3. Owned(scratch \ {c})
    BY <2>2, Zenon DEF FixtureInv, Wiping, Owned
  <2>4. Owned(scratch')
    BY <2>1, <2>3, MoreOwned
  <2> QED
    BY <1>1, <1>2, <2>2, <2>4, Zenon DEF FixtureInv, Wiping, Owned, NoPrivate
<1>10. CASE RemoveScratch
  <2>1. /\ Wiping /\ Exposed = {} /\ (scratch' = {} \/ scratch' = scratch) /\ UNCHANGED <<made, written>>
        /\ does' \in {"done", "failed"}
    BY <1>10, Zenon DEF RemoveScratch, Removed
  <2>2. NoPrivate(scratch)
    BY <1>2, <2>1, Zenon DEF FixtureInv, Wiping, Exposed, Owned, NoPrivate
  <2> QED
    BY <1>1, <1>2, <1>4, <2>1, <2>2, Zenon DEF FixtureInv, Wiping, Owned, NoPrivate
<1> QED
  BY <1>5, <1>6, <1>7, <1>8, <1>9, <1>10, Zenon DEF FixtureNext

\* The length of four bytes that is read from a packet, most significant first.
LEMMA FourBytes ==
  ASSUME NEW b, b[3] \in Nat, b[4] \in Nat, b[5] \in Nat, b[6] \in Nat
  PROVE  BigEndian(b, 3, 6) = ((b[3] * 256 + b[4]) * 256 + b[5]) * 256 + b[6]
<1> DEFINE F(f) == [i \in 2..6 |-> IF i < 3 THEN 0 ELSE f[i - 1] * 256 + b[i]]
           at3 == CHOOSE f : f = F(f)
           g == [i \in 2..6 |-> CASE i = 2 -> 0 [] i = 3 -> b[3] [] i = 4 -> b[3] * 256 + b[4]
                                  [] i = 5 -> (b[3] * 256 + b[4]) * 256 + b[5]
                                  [] OTHER -> ((b[3] * 256 + b[4]) * 256 + b[5]) * 256 + b[6]]
<1>2. g = F(g)
  OBVIOUS
<1>3. at3 = F(at3)
  BY Zenon, <1>2
<1>4. BigEndian(b, 3, 6) = at3[6]
  BY DEF BigEndian
<1> HIDE DEF at3
<1>5. at3[2] = 0 /\ at3[3] = at3[2] * 256 + b[3] /\ at3[4] = at3[3] * 256 + b[4]
      /\ at3[5] = at3[4] * 256 + b[5] /\ at3[6] = at3[5] * 256 + b[6]
  BY <1>3
<1> QED
  BY <1>4, <1>5

\* Bytes behind a first byte.
LEMMA AfterFirst ==
  ASSUME NEW x \in Nat, NEW s \in Seq(Nat), NEW b, b = <<x>> \o s
  PROVE  Len(b) = 1 + Len(s) /\ b[1] = x /\ \A i \in 1..Len(s) : b[1 + i] = s[i]
<1>1. <<x>> \in Seq(Nat) /\ Len(<<x>>) = 1 /\ <<x>>[1] = x
  OBVIOUS
<1> QED
  BY <1>1
\* The four bytes of a length hold it.
FourByteLength(length) == length \div 16777216 < 256
\* What packet writes for a body of each form of length is read back.
LEMMA PacketReadBack ==
  ASSUME NEW tag \in {2, 6, 13}, NEW length \in Nat, FourByteLength(length)
  PROVE  PacketHeader(packet(tag, length)) = [tag |-> tag, start |-> Len(packet(tag, length)), length |-> length]
<1> DEFINE x == 192 + tag
           b == packet(tag, length)
<1>1. x \in Nat /\ x >= 192 /\ x % 64 = tag
  OBVIOUS
<1>2. CASE length < 192
  <2> DEFINE s == <<length>>
  <2>1. b = <<x>> \o s
    BY <1>2 DEF packet
  <2>2. s \in Seq(Nat) /\ Len(s) = 1 /\ s[1] = length
    OBVIOUS
  <2> HIDE DEF s, x, b
  <2>3. Len(b) = 2 /\ b[1] = x /\ b[2] = length
    <3>0. x \in Nat /\ s \in Seq(Nat)
      BY <1>1, <2>2, Zenon
    <3>1. Len(b) = 1 + Len(s) /\ b[1] = x /\ \A i \in 1..Len(s) : b[1 + i] = s[i]
      BY <2>1, <3>0, AfterFirst, SMT
    <3> QED
      BY <2>2, <3>1
  <2>4. PacketHeader(b) = [tag |-> tag, start |-> Len(b), length |-> length]
    BY <1>1, <1>2, <2>3 DEF PacketHeader, NewHeader
  <2> QED
    BY <2>4 DEF b
<1>3. CASE length >= 192 /\ length < 8384
  <2> DEFINE high == (length - 192) \div 256 + 192
             low == (length - 192) % 256
             s == <<high, low>>
  <2>1. b = <<x>> \o s
    BY <1>3 DEF packet
  <2>2. high \in 192..223 /\ low \in Nat /\ (high - 192) * 256 + low + 192 = length
    BY <1>3
  <2> HIDE DEF high, low, b, x
  <2>3. s \in Seq(Nat) /\ Len(s) = 2 /\ s[1] = high /\ s[2] = low
    BY <2>2
  <2> HIDE DEF s
  <2>4. Len(b) = 3 /\ b[1] = x /\ b[2] = high /\ b[3] = low
    <3>0. x \in Nat /\ s \in Seq(Nat)
      BY <1>1, <2>3, Zenon
    <3>1. Len(b) = 1 + Len(s) /\ b[1] = x /\ \A i \in 1..Len(s) : b[1 + i] = s[i]
      BY <2>1, <3>0, AfterFirst, SMT
    <3> QED
      BY <2>3, <3>1, SMT
  <2>5. PacketHeader(b) = [tag |-> tag, start |-> Len(b), length |-> length]
    BY <1>1, <2>2, <2>4 DEF PacketHeader, NewHeader
  <2> QED
    BY <2>5 DEF b
<1>4. CASE length >= 8384
  <2> DEFINE b3 == length \div 16777216
             b4 == (length \div 65536) % 256
             b5 == (length \div 256) % 256
             b6 == length % 256
             s == <<255, b3, b4, b5, b6>>
  <2>1. b = <<x>> \o s
    BY <1>4, SMTT(20) DEF packet
  <2>2. b3 \in Nat /\ b4 \in Nat /\ b5 \in Nat /\ b6 \in Nat
    BY SMTT(20)
  <2>3. ((b3 * 256 + b4) * 256 + b5) * 256 + b6 = length
    BY SMTT(20)
  <2> HIDE DEF b3, b4, b5, b6, b, x
  <2>4. s \in Seq(Nat) /\ Len(s) = 5 /\ s[1] = 255 /\ s[2] = b3 /\ s[3] = b4 /\ s[4] = b5 /\ s[5] = b6
    BY <2>2
  <2> HIDE DEF s
  <2>5. Len(b) = 6 /\ b[1] = x /\ b[2] = 255 /\ b[3] = b3 /\ b[4] = b4 /\ b[5] = b5 /\ b[6] = b6
    <3>0. x \in Nat /\ s \in Seq(Nat)
      BY <1>1, <2>4, Zenon
    <3>1. Len(b) = 1 + Len(s) /\ b[1] = x /\ \A i \in 1..Len(s) : b[1 + i] = s[i]
      BY <2>1, <3>0, AfterFirst, SMT
    <3> QED
      BY <2>4, <3>1, SMT
  <2>6. BigEndian(b, 3, 6) = length
    BY <2>2, <2>3, <2>5, FourBytes
  <2>7. PacketHeader(b) = [tag |-> tag, start |-> Len(b), length |-> length]
    BY <1>1, <2>5, <2>6 DEF PacketHeader, NewHeader, Least
  <2> QED
    BY <2>7 DEF b
<1> QED
  BY <1>2, <1>3, <1>4

\* Whatever fails on the way: a signer that has ended has left no private key,
\* and the headers of its packets are read as it meant them
\* (ephemeral_fixture, openpgp.packet and openpgp._header).
THEOREM FixtureIsAlwaysSound == Spec => []FixtureIsSound
<1>1. Init => FixtureInv
  BY DEF Init, FixtureInit, FixtureInv, NoPrivate
<1>2. FixtureInv /\ [Next]_vars => FixtureInv'
  <2>1. [Next]_vars => [FixtureNext]_fixtureVars
    BY Zenon DEF Next, vars, ReadEsp, Others, VerityStep
  <2> QED
    BY Zenon, <2>1, FixtureKeeps
<1>3. PacketsAreReadBack(PacketLengths)
  <2>1. \A length \in PacketLengths : length \in Nat /\ FourByteLength(length)
    BY ReleaseAssumption, SMTT(20) DEF FourByteLength
  <2> QED
    BY PacketReadBack, <2>1, Zenon DEF PacketsAreReadBack
<1>4. FixtureInv => FixtureIsSound
  BY <1>3, Zenon DEF FixtureInv, FixtureIsSound, KeysAreGone, NoPrivate
<1> QED
  BY <1>1, <1>2, <1>4, PTL DEF Spec
=============================================================================
