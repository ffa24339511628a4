----------------------------- MODULE MCEspVolume -----------------------------
(***************************************************************************)
(* Small volumes, and what their files are by definition.  A volume holds  *)
(* in next what its FAT says of each cluster, before it is packed.         *)
(***************************************************************************)
EXTENDS EspVolume, TLC

BootOf(s, per, fat16, fat32Size, rootEntries, total, rootCluster) ==
    [signature |-> "valid", sector |-> s, perCluster |-> per, reserved |-> 1, fats |-> 1,
     fatSize16 |-> fat16, fatSize32 |-> fat32Size, rootEntries |-> rootEntries,
     total16 |-> IF fat16 = 0 THEN 0 ELSE total, total32 |-> IF fat16 = 0 THEN total ELSE 7,
     rootCluster |-> rootCluster]
\* Data begin in sector 3 with a root directory of 16 entries and one sector of FAT.
Boot12(clusters) == BootOf(512, 1, 1, 9, 16, 3 + clusters, 0)
Boot16(clusters) == BootOf(512, 1, 16, 9, 16, 18 + clusters, 0)
Boot32(clusters, root) == BootOf(512, 1, 0, 1, 0, 2 + clusters, root)
Boot12Large == BootOf(512, 1, 15, 9, 16, 17 + 4084, 0)
BootWide(clusters) == BootOf(4096, 64, 1, 0, 128, 3 + clusters * 64, 0)

\* Values of next in the bytes of a FAT.
ValueAt(next, c) == IF c \in DOMAIN next THEN next[c] ELSE 0
Twelve(next) ==
    [i \in UNION {{(3 * c) \div 2, (3 * c) \div 2 + 1} : c \in DOMAIN next} |->
       LET even == 2 * (i \div 3)
       IN  CASE i % 3 = 0 -> ValueAt(next, even) % 256
             [] i % 3 = 1 -> ValueAt(next, even) \div 256 + 16 * (ValueAt(next, even + 1) % 16)
             [] i % 3 = 2 -> ValueAt(next, even + 1) \div 16]
Sixteen(next) == [i \in UNION {{2 * c, 2 * c + 1} : c \in DOMAIN next} |->
                    IF i % 2 = 0 THEN next[i \div 2] % 256 ELSE next[i \div 2] \div 256]
\* The four highest bits of an entry are reserved, and set here.
ThirtyTwo(next) ==
    [i \in UNION {(4 * c)..(4 * c + 3) : c \in DOMAIN next} |->
       LET value == next[i \div 4]
       IN  CASE i % 4 = 0 -> value % 256 [] i % 4 = 1 -> (value \div 256) % 256
             [] i % 4 = 2 -> (value \div 65536) % 256 [] i % 4 = 3 -> value \div 16777216 + 240]

Short(kind, name, c, size) ==
    [kind |-> kind, short |-> <<name>>, checksum |-> name, low |-> c, high |-> 0, size |-> size]
File(name, c, size) == Short("file", name, c, size)
Directory(name, c) == Short("directory", name, c, 0)
Skipped(kind) == [kind |-> kind]
Slot(ordinal, last, checksum, text) ==
    [kind |-> "slot", ordinal |-> ordinal, last |-> last, checksum |-> checksum, text |-> text]
\* A cluster of 512 bytes that is full.
Full(entries) == [n \in 1..(16 - Len(entries)) |-> Skipped("deleted")] \o entries

VolumeOf(b, next, root, content, request) ==
    [mbr |-> "valid", boot |-> b, next |-> next, root |-> root, content |-> content, request |-> request,
     fat |-> IF b.fatSize16 = 0 THEN ThirtyTwo(next) ELSE IF b.fatSize16 = 16 THEN Sixteen(next) ELSE Twelve(next)]
ListAll == [kind |-> "list", path |-> <<>>]
Extract(path) == [kind |-> "extract", path |-> path]
Manifest(document) == [kind |-> "manifest", path |-> <<<<"A">>, <<"m", "n">>>>, document |-> document]

\* A directory and a file below the root, and a directory below the directory;
\* every chain through four clusters.
TreeRoot == <<Skipped("label"), Directory("A", 2), File("B", 4, 700), Skipped("end"), File("C", 9, 1)>>
TreeContent == [c \in 2..5 |->
    CASE c = 2 -> Full(<<Slot(2, "yes", "C", "n"), Slot(1, "no", "C", "m")>>)
      [] c = 3 -> <<File("C", 5, 512), Directory("A", 5), Skipped("end")>>
      [] c = 4 -> Full(<<File("B", 3, 512)>>)
      [] c = 5 -> <<Skipped("dot"), File("B", 4, 1024), Skipped("end")>>]
Chains == [2..5 -> {0, 2, 3, 4, 5, 4095}]
TreeRequests == {ListAll, Extract(<<<<"b">>>>)}
TreeVolumes == {VolumeOf(Boot12(4), next, TreeRoot, TreeContent, r) : next \in Chains, r \in TreeRequests}
\* The tree as it should be: the directory in clusters 2 and 3, the file in 4 and 5.
Sound == (2 :> 3) @@ (3 :> 4088) @@ (4 :> 5) @@ (5 :> 4095)
Sound32 == (2 :> 3) @@ (3 :> 268435448) @@ (4 :> 5) @@ (5 :> 268435455)
RootOf32 == (6 :> TreeRoot) @@ TreeContent
Requests == {ListAll, Extract(<<>>), Extract(<<<<"a">>, <<"M", "n">>>>), Extract(<<<<"A">>, <<"c">>>>),
             Extract(<<<<"A">>>>), Extract(<<<<"B">>, <<"B">>>>), Extract(<<<<"C">>>>),
             Extract(<<<<"A">>, <<"A">>, <<"B">>>>), Manifest("manifest"), Manifest("other")}
RequestVolumes ==
    {VolumeOf(Boot12(4), Sound, TreeRoot, TreeContent, r) : r \in Requests}
    \cup {VolumeOf(Boot32(5, 6), (6 :> 268435455) @@ Sound32, <<>>, RootOf32, r) : r \in Requests}
    \cup {VolumeOf(Boot32(5, 6), (6 :> 268435447) @@ Sound32, <<>>, RootOf32, ListAll),
          VolumeOf(Boot32(5, 7), Sound32, <<>>, RootOf32, ListAll)}

\* The last entry of a FAT, the first FAT of 16 bits, and boot sectors that are refused.
At(b, c, end) ==
    VolumeOf(b, (c :> end), <<[Directory("A", c) EXCEPT !.high = 1]>>, (c :> <<File("B", 0, 0)>>), ListAll)
WithBoot(b) == VolumeOf(b, Sound, TreeRoot, TreeContent, ListAll)
Refused == {[Boot12(4) EXCEPT !.signature = "invalid"], [Boot12(4) EXCEPT !.sector = 256],
            [Boot12(4) EXCEPT !.perCluster = 3], [Boot12(4) EXCEPT !.reserved = 0],
            [Boot12(4) EXCEPT !.fats = 0], [Boot12(4) EXCEPT !.rootEntries = 0],
            [Boot12(4) EXCEPT !.total16 = 3], [Boot12(4) EXCEPT !.total16 = 9000],
            [Boot12(4) EXCEPT !.total16 = 2], [Boot12(4) EXCEPT !.fats = 2]}
LimitVolumes ==
    {At(Boot12(339), 340, 4095), At(Boot12(340), 341, 4095), At(Boot12(339), 341, 4095),
     At([Boot16(4085) EXCEPT !.total16 = 0, !.total32 = 18 + 4085], 4086, 65528), At(Boot12Large, 4085, 4088)}
    \cup {WithBoot(b) : b \in Refused} \cup {[WithBoot(Boot12(4)) EXCEPT !.mbr = "invalid"]}
\* Clusters of 256 KiB: a directory that is too large, and directories in a circle.
WideVolumes ==
    {VolumeOf(BootWide(12), [c \in 2..last |-> IF c = last THEN 4095 ELSE c + 1], <<Directory("A", 2)>>,
              (2 :> <<File("B", 0, 0), Skipped("end")>>), ListAll) : last \in {9, 10}}
    \cup {VolumeOf(BootWide(3), [i \in 2..4 |-> 4095], <<Directory("A", 2)>>,
                   (2 :> <<Directory("B", 3)>>) @@ (3 :> <<Directory("C", c)>>), ListAll) : c \in 2..5}

\* Directories with slots in every order.
Slots == {Slot(2, "yes", "C", "n"), Slot(1, "no", "C", "m"), Slot(1, "yes", "C", "b"),
          Slot(1, "no", "B", "a"), Skipped("deleted"), File("B", 0, 0)}
SlotVolumes ==
    {VolumeOf(Boot12(4), Sound, slots \o <<File("C", 0, 0)>>, (2 :> <<Skipped("end")>>), ListAll)
       : slots \in UNION {[1..n -> Slots] : n \in 0..3}}

SmallVolumes == TreeVolumes \cup RequestVolumes \cup LimitVolumes \cup WideVolumes \cup SlotVolumes
SmallUpper == [piece \in {"a", "A", "b", "B", "c", "C", "m", "M", "n"} |->
                 CASE piece = "a" -> "A" [] piece = "b" -> "B" [] piece = "c" -> "C"
                   [] piece = "m" -> "M" [] OTHER -> piece]

-----------------------------------------------------------------------------
\* The reference.

RECURSIVE Orbit(_)
Orbit(c) == IF volume.next[c] >= EndOfChain THEN <<c>> ELSE <<c>> \o Orbit(volume.next[c])
RECURSIVE Joined(_)
Joined(clusters) ==
    IF clusters = <<>> THEN <<>> ELSE EntriesAt(clusters[1]) \o Joined(Tail(clusters))
DataOf(d) == IF d = Root /\ ~fat32 THEN volume.root
             ELSE Joined(Orbit(IF d = Root THEN boot.rootCluster ELSE d.cluster))
\* The k entries before the n-th one are its long name.
IsLong(data, n, k) ==
    \A i \in 1..k : /\ data[n - i].kind = "slot"
                    /\ data[n - i].ordinal = i /\ (data[n - i].last = "yes") = (i = k)
                    /\ data[n - i].checksum = data[n].checksum
NameOf(data, n) ==
    LET long == {k \in 1..MaxLongNameSlots : k < n /\ IsLong(data, n, k)}
    IN  IF long = {} THEN data[n].short
        ELSE [i \in 1..(CHOOSE k \in long : TRUE) |-> data[n - i].text]
\* Positions of the entries of a directory.
EntriesOf(data) == {n \in DOMAIN data : /\ data[n].kind \in {"file", "directory"}
                                        /\ \A m \in 1..n : data[m].kind # "end"}
Child(d, data, n) ==
    [kind |-> data[n].kind, path |-> Append(d.path, NameOf(data, n)),
     cluster |-> data[n].low + (IF fat32 THEN 65536 * data[n].high ELSE 0), size |-> data[n].size]
RECURSIVE FilesBelow(_)
FilesBelow(d) ==
    LET data == DataOf(d)
        children == {Child(d, data, n) : n \in EntriesOf(data)}
    IN  {c \in children : c.kind = "file"}
        \cup UNION {FilesBelow(c) : c \in {c \in children : c.kind = "directory"}}

\* The entry that a path names: of those that match, the first.
NoEntry == [kind |-> "none"]
RECURSIVE Resolved(_, _)
Resolved(d, n) ==
    IF n > Len(Wanted) THEN d
    ELSE IF d.kind = "file" THEN NoEntry
    ELSE LET data == DataOf(d)
             matching == {p \in EntriesOf(data) :
                            _fold(Wanted[n]) \in {_fold(NameOf(data, p)), _fold(data[p].short)}}
         IN  IF matching = {} THEN NoEntry
             ELSE Resolved(Child(d, data, CHOOSE p \in matching : \A q \in matching : p <= q), n + 1)

\* What a reader says is what the volume holds: the partition is the one that
\* the other reader of the table finds, a list has the files of every directory
\* under their long names, and a path that is read is the whole chain of the
\* entry that it names, and a path that is missing names no file.
EspIsExact ==
    /\ esp # NoPartition /\ at \in {"projected", "hash", "hashed"} =>
         \E i \in OfType("esp") : esp = [offset |-> partitions[i].start, size |-> partitions[i].size]
    /\ reader = "listed" => DOMAIN found = FilesBelow(Root)
    /\ reader = "extracted" =>
         LET file == Resolved(Root, 1)
         IN  /\ file.kind = "file"
             /\ found = IF file.size = 0 THEN <<>> ELSE Orbit(file.cluster)
             /\ Len(found) * ClusterBytes \in file.size..(file.size + ClusterBytes - 1)
    /\ reader = "missing" => Resolved(Root, 1).kind # "file"

\* A reader of the system partition reads what is there, and nothing outside it
\* (_FatVolume).
EspIsRead == EspIsInside /\ EspIsExact
=============================================================================
