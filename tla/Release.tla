------------------------------- MODULE Release -------------------------------
(***************************************************************************)
(* The actions behind a release image, composed: partition metadata, the   *)
(* verification of the hash tree, the update and its signature, each on    *)
(* the outputs of those before it; and beside them a test's signer and the *)
(* reader of the system partition.                                         *)
(***************************************************************************)
EXTENDS Sysupdate, EphemeralFixture, EspVolume

CONSTANTS
    MaxArtifact, \* MAX_ARTIFACT_BYTES in blocks
    Cases,  \* [disk, artifact, options, fixture, volume], of Disks, Options, Fixtures and Volumes
    PacketLengths \* of the bodies of the packets that a test's signer writes

\* An artifact is blocks, and the length of a packet has four bytes.
IsBlocks(blocks) == blocks \in Seq(Range(blocks))
ASSUME ReleaseAssumption ==
    /\ \A case \in Cases : /\ IsBlocks(case.artifact.root) /\ IsBlocks(case.artifact.hash)
                           /\ case.artifact.dataBlocks \in Nat /\ case.volume.boot \in Boot
    /\ PacketLengths \subseteq Nat /\ \A length \in PacketLengths : length \div 16777216 < 256

vars == <<diskVars, verityVars, updateVars, fixtureVars, espVars>>

\* The blocks of data and of hashes are as large as they may be.
BlockBytes == ALIGNMENT
Populated(type) == CHOOSE i \in OfType(type) : partitions[i].label # EmptySlot
\* _root_partitions and _artifact_sizes, which read the partition metadata.
_root_partitions == \A type \in {"root", "verity"} :
    Cardinality({i \in OfType(type) : partitions[i].label # EmptySlot}) = 1
ExtentsFit == /\ _root_partitions /\ OfType("verity signature") = {}
              /\ Len(artifact.root) <= MaxArtifact /\ Len(artifact.hash) <= MaxArtifact
              /\ partitions[Populated("root")].size = Len(artifact.root) * BlockBytes
              /\ partitions[Populated("verity")].size = Len(artifact.hash) * BlockBytes
VerityStep ==
    /\ at \in {"projected", "hash", "hashed"}
    /\ IF phase = "start" /\ ~ExtentsFit THEN Ends("invalid") ELSE VerityNext
    /\ UNCHANGED <<diskVars, updateVars, fixtureVars>>

\* Without keys there is no signer.
HasFixture == fixture.keys # <<>>
Init ==
    /\ \E case \in Cases : disk = case.disk /\ artifact = case.artifact /\ options = case.options
                             /\ fixture = case.fixture /\ volume = case.volume
    /\ PartitionInit /\ UpdateInit /\ FixtureInit /\ EspInit
    /\ ~HasFixture => scratch = {}
    /\ phase = "start" /\ level = 0 /\ spools = <<>> /\ verified = NoDigest
\* The reader of the system partition changes nothing that the others read, so
\* it may as well run as soon as the table is read, and to its end.
Reading == at \notin {"start", "primary", "backup", "compare", "scan"} /\ reader \notin Ended
ReadEsp == Reading /\ EspNext /\ UNCHANGED <<diskVars, verityVars, updateVars, fixtureVars>>
Others ==
    \/ PartitionNext /\ UNCHANGED <<verityVars, updateVars, fixtureVars>>
    \/ VerityStep
    \/ UpdateNext /\ UNCHANGED fixtureVars
    \/ HasFixture /\ FixtureNext /\ UNCHANGED <<diskVars, verityVars, updateVars>>
Next == ReadEsp \/ (~Reading /\ Others /\ UNCHANGED espVars)
Spec == Init /\ [][Next]_vars
\* Every step of the two readers is taken.
FairSpec == Spec /\ WF_vars(ReadEsp) /\ WF_vars(~Reading /\ PartitionNext
                                             /\ UNCHANGED <<verityVars, updateVars, fixtureVars, espVars>>)

\* No private key outlives a test's signer that made its scratch directory and
\* could overwrite the keys in it (ephemeral_fixture); and a packet that it writes
\* is read back as it was written, for every length, in whatever state: the second
\* conjunct compares openpgp.packet with openpgp._header and reads no variable.
FixtureIsSound == KeysAreGone /\ PacketsAreReadBack(PacketLengths)
=============================================================================
