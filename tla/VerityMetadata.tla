--------------------------- MODULE VerityMetadata ---------------------------
(***************************************************************************)
(* mkosi/private/verity_metadata.py: the hash tree of a root file system   *)
(* is recomputed level by level, with the digests of two levels in files,  *)
(* and compared with the tree that was written.                            *)
(*                                                                         *)
(* A block is a sequence, the zero block <<>>: a data block of whatever, a *)
(* hash block of the digests in it.  The digest of a block is Digest(block)*)
(* and nothing else has that digest.  Sizes are in blocks.                 *)
(***************************************************************************)
EXTENDS Integers, Sequences, FiniteSets, FiniteSetsExt, Functions

CONSTANTS
    MaxSpool,     \* digests that may be in files at once
    MaxLevels     \* of a tree

VARIABLES
    artifact,   \* [root, hash: the two artifacts, block by block; header, dataBlocks, perBlock,
                \*  digestBytes: what the superblock says; padding: behind it; rootHash, name:
                \*  the root digest that was supplied, and its text]
    phase,      \* where the verification is, or its verdict
    level,      \* the level that is compared next
    spools,     \* level to its digests, for the files that exist
    verified    \* the root digest that was found

verityVars == <<artifact, phase, level, spools, verified>>

Digest(block) == <<block>>
Zero == <<>>
NoDigest == <<>>
Ceil(n, d) == (n + d - 1) \div d

\* The hash blocks of every level, from the lowest, for some number of digests.
LevelsOf(digests, per) ==
    LET levels[n \in Nat, counts \in Seq(Nat)] ==
          IF n <= 1 \/ Len(counts) > MaxLevels THEN counts
          ELSE levels[Ceil(n, per), Append(counts, Ceil(n, per))]
    IN levels[digests, <<>>]
_level_counts == LevelsOf(artifact.dataBlocks, artifact.perBlock)
\* The spool of the leaves and of the first level.
_check_spool_budget(counts) == artifact.dataBlocks + (IF counts = <<>> THEN 0 ELSE counts[1]) <= MaxSpool

\* The top level is stored first, behind the superblock.
TreeSize(counts) == FoldFunction(+, 0, counts)
\* Mutant: the lowest level is stored first.
OffsetFromLeaves(counts, l) == 1 + TreeSize(SubSeq(counts, 1, l - 1))
_level_offset(counts, l) == 1 + TreeSize(SubSeq(counts, l + 1, Len(counts)))

RemoveSpools == spools' = <<>>
Ends(result) == /\ phase' = result /\ RemoveSpools /\ UNCHANGED <<artifact, level, verified>>
ZeroFrom(blocks, n) == \A i \in DOMAIN blocks : i > n => blocks[i] = Zero

-----------------------------------------------------------------------------
\* project, up to the tree.
_read_superblock == artifact.header = "valid" /\ artifact.dataBlocks > 0
_check_superblock_padding == artifact.padding = Zero
ReadArtifacts ==
    /\ phase = "start"
    /\ IF /\ _read_superblock
          /\ artifact.dataBlocks <= Len(artifact.root)
          /\ ZeroFrom(artifact.root, artifact.dataBlocks)
          /\ _check_superblock_padding
          /\ Len(_level_counts) <= MaxLevels /\ _check_spool_budget(_level_counts)
       THEN phase' = "leaves" /\ UNCHANGED <<artifact, level, spools, verified>>
       ELSE Ends("invalid")
\* A full disk ends the verification; what is in files is removed.
_leaf_digests ==
    /\ phase = "leaves"
    /\ \/ /\ spools' = <<[i \in 1..artifact.dataBlocks |-> Digest(artifact.root[i])]>>
          /\ phase' = "levels" /\ level' = 1 /\ UNCHANGED <<artifact, verified>>
       \/ Ends("failed")

\* spools[1] is the level below, spools[2] the one that is written.
_expected_block(i) ==
    SubSeq(spools[1], (i - 1) * artifact.perBlock + 1,
           IF i * artifact.perBlock < Len(spools[1]) THEN i * artifact.perBlock ELSE Len(spools[1]))
Emitted(counts, i) == artifact.hash[_level_offset(counts, level) + i]
_verify_level ==
    LET counts == _level_counts
    IN /\ phase = "levels" /\ level <= Len(counts) /\ Len(spools) = 1
       /\ \/ IF \A i \in 1..counts[level] :
                   /\ _level_offset(counts, level) + i <= Len(artifact.hash)
                   /\ Emitted(counts, i) = _expected_block(i)
             THEN /\ spools' = Append(spools, [i \in 1..counts[level] |-> Digest(_expected_block(i))])
                  /\ UNCHANGED <<artifact, phase, level, verified>>
             ELSE Ends("invalid")
          \/ Ends("failed")
RemoveBelow ==
    /\ phase = "levels" /\ Len(spools) = 2
    /\ spools' = Tail(spools) /\ level' = level + 1 /\ UNCHANGED <<artifact, phase, verified>>
_read_root_digest ==
    LET counts == _level_counts
    IN /\ phase = "levels" /\ level > Len(counts) /\ Len(spools) = 1
       /\ IF Len(spools[1]) = 1
          THEN phase' = "root" /\ verified' = spools[1][1] /\ RemoveSpools /\ UNCHANGED <<artifact, level>>
          ELSE Ends("invalid")
CompareRoot ==
    /\ phase = "root"
    /\ IF ZeroFrom(artifact.hash, 1 + TreeSize(_level_counts)) /\ artifact.rootHash = verified
       THEN Ends("verified") ELSE Ends("invalid")

VerityNext == \/ ReadArtifacts \/ _leaf_digests \/ _verify_level \/ RemoveBelow \/ _read_root_digest \/ CompareRoot

-----------------------------------------------------------------------------
\* Reference: the digest at the top of the tree over a sequence of blocks, and
\* the tree as dm-verity reads it.
Grouped(digests, per) ==
    [i \in 1..Ceil(Len(digests), per) |->
       SubSeq(digests, (i - 1) * per + 1, IF i * per < Len(digests) THEN i * per ELSE Len(digests))]
Leaves(blocks) == [i \in DOMAIN blocks |-> Digest(blocks[i])]
\* The levels from the top, which is the first over a single digest.
MerkleLevels(digests, per) ==
    LET below[l \in Nat] == IF l = 0 THEN digests ELSE Leaves(Grouped(below[l - 1], per))
        depth == Min({l \in 0..Len(digests) : Len(below[l]) = 1})
    IN [l \in 1..depth |-> Grouped(below[depth - l], per)]
MerkleTree(blocks, per) ==
    LET levels == MerkleLevels(Leaves(blocks), per)
        tree[n \in 0..Len(levels)] == IF n = 0 THEN <<>> ELSE tree[n - 1] \o levels[n]
    IN tree[Len(levels)]
MerkleRoot(blocks, per) ==
    IF Len(blocks) = 1 THEN Digest(blocks[1]) ELSE Digest(MerkleTree(blocks, per)[1])

\* A root file system is accepted only with the root digest and the tree that
\* dm-verity computes for it, nothing but zeros behind either; and at no time
\* do the files with digests hold more than the budget that was checked, and
\* none is left.
VerifiedIsMerkle ==
    LET data == SubSeq(artifact.root, 1, artifact.dataBlocks)
        tree == MerkleTree(data, artifact.perBlock)
    IN /\ phase = "verified" =>
             /\ artifact.rootHash = MerkleRoot(data, artifact.perBlock)
             /\ SubSeq(artifact.hash, 2, 1 + Len(tree)) = tree
             /\ ZeroFrom(artifact.hash, 1 + Len(tree)) /\ ZeroFrom(artifact.root, artifact.dataBlocks)
       /\ TreeSize([i \in DOMAIN spools |-> Len(spools[i])]) <= MaxSpool
       /\ phase \in {"verified", "invalid", "failed"} => spools = <<>>
=============================================================================
