------------------------------- MODULE PeImage -------------------------------
(***************************************************************************)
(* The layout of a PE/COFF binary as mkosi/private/secure_boot.py reads it,*)
(* and the ranges that its Authenticode digest covers.  A binary is the    *)
(* record of the fields that are read and its length; a range is a pair of *)
(* offsets, the second one exclusive.                                      *)
(***************************************************************************)
EXTENDS Integers, Sequences

\* The fields: sections is sorted by offset, as _section_ranges sorts it, and
\* has the sections with raw data only; table has the WIN_CERTIFICATE records
\* with the length of the DER object in each.
PeBinary == [length : Nat, pe : Nat, magic : Nat, sectionCount : Nat, optionalSize : Nat,
             directories : Nat, alignment : Nat, sizeHeaders : Nat,
             sections : Seq([offset : Nat, size : Nat]), certificateOffset : Nat, certificateSize : Nat,
             table : Seq([length : Nat, der : Nat])]

Optional(f) == f.pe + 24
FixedSize(f) == IF f.magic = 523 THEN 112 ELSE IF f.magic = 267 THEN 96 ELSE -1
_pe_optional_header(f) ==
    /\ f.length >= 64 /\ f.pe <= f.length - 24
    /\ f.sectionCount \in 1..96
    /\ Optional(f) + f.optionalSize <= f.length
    /\ FixedSize(f) >= 0 /\ f.optionalSize >= FixedSize(f)

Checksum(f) == Optional(f) + 64
SecurityDirectory(f) == Optional(f) + FixedSize(f) + 32
_security_directory(f) ==
    /\ f.directories >= 5
    /\ Optional(f) + FixedSize(f) + f.directories * 8 <= Optional(f) + f.optionalSize

SectionTableEnd(f) == Optional(f) + f.optionalSize + f.sectionCount * 40
\* A power of two, of at least 512; 2^31 and more is larger than the file.
IsAlignment(n) == \E k \in 9..30 : n = 2 ^ k
\* Mutant: SizeOfHeaders may end before the section table.
_header_layout_short(f) ==
    /\ IsAlignment(f.alignment)
    /\ SectionTableEnd(f) <= f.length /\ f.sizeHeaders <= f.length
    /\ f.sizeHeaders % f.alignment = 0
_header_layout(f) ==
    /\ IsAlignment(f.alignment)
    /\ SectionTableEnd(f) <= f.length
    /\ SectionTableEnd(f) <= f.sizeHeaders /\ f.sizeHeaders <= f.length
    /\ f.sizeHeaders % f.alignment = 0

End(section) == section.offset + section.size
_section_ranges(f) ==
    /\ \A i \in DOMAIN f.sections :
          /\ f.sizeHeaders <= f.sections[i].offset /\ f.sections[i].offset % f.alignment = 0
          /\ End(f.sections[i]) <= f.length
    /\ \A i \in 1..(Len(f.sections) - 1) : End(f.sections[i]) <= f.sections[i + 1].offset

_certificate_table(f, signed) ==
    IF signed THEN /\ f.certificateOffset # 0 /\ f.certificateOffset % 8 = 0 /\ f.certificateSize >= 8
                   /\ f.certificateOffset + f.certificateSize = f.length
    ELSE f.certificateOffset = 0 /\ f.certificateSize = 0

parse_pe(f, signed) ==
    /\ _pe_optional_header(f) /\ _security_directory(f) /\ _header_layout(f)
    /\ _section_ranges(f) /\ _certificate_table(f, signed)

\* authenticode_payload: one record, padded to a multiple of 8, is the table.
Aligned(n) == ((n + 7) \div 8) * 8
authenticode_payload(f) ==
    /\ Len(f.table) = 1
    /\ f.table[1].length >= 8 /\ f.table[1].der + 8 <= f.table[1].length
    /\ Aligned(f.table[1].length) = f.certificateSize

\* authenticode_hash: what it covers, in its order, or that it refuses.
LastEnd(f) == IF f.sections = <<>> THEN f.sizeHeaders ELSE End(f.sections[Len(f.sections)])
ContentEnd(f) == IF f.certificateOffset = 0 THEN f.length ELSE f.certificateOffset
SectionsInOrder(f) ==
    \A i \in DOMAIN f.sections :
        f.sections[i].offset >= IF i = 1 THEN f.sizeHeaders ELSE End(f.sections[i - 1])
HashRefuses(f) == ~SectionsInOrder(f) \/ LastEnd(f) > ContentEnd(f)
HeaderRanges(f) == << <<0, Checksum(f)>>, <<Checksum(f) + 4, SecurityDirectory(f)>>,
                      <<SecurityDirectory(f) + 8, f.sizeHeaders>> >>

\* prove_equivalence: the signed binary begins with the unsigned one, except in
\* the two fields, so that all other fields are read alike.
prove_equivalence(u, s) ==
    /\ parse_pe(u, FALSE) /\ parse_pe(s, TRUE)
    /\ Checksum(u) = Checksum(s) /\ SecurityDirectory(u) = SecurityDirectory(s)
    /\ s.certificateOffset >= u.length
    /\ s.sizeHeaders = u.sizeHeaders /\ s.sections = u.sections
    /\ authenticode_payload(s)

-----------------------------------------------------------------------------
\* What the digest covers of a binary, byte by byte, and what it leaves out: the
\* two fields, the signature, and gaps behind the headers and between sections.
Within(x, first, end) == first <= x /\ x < end
InSection(f, x) == \E i \in DOMAIN f.sections : Within(x, f.sections[i].offset, End(f.sections[i]))
Hashed(f, x) == \/ \E i \in 1..3 : Within(x, HeaderRanges(f)[i][1], HeaderRanges(f)[i][2])
                \/ InSection(f, x)
                \/ Within(x, LastEnd(f), ContentEnd(f))
Gap(f, x) == Within(x, f.sizeHeaders, LastEnd(f)) /\ ~InSection(f, x)
LeftOut(f, x) == \/ Within(x, Checksum(f), Checksum(f) + 4)
                 \/ Within(x, SecurityDirectory(f), SecurityDirectory(f) + 8)
                 \/ Gap(f, x) \/ ContentEnd(f) <= x

\* authenticode_hash reads a binary that parse_pe accepts forwards: headers, then
\* sections, then what follows them, so that it covers nothing twice; it leaves
\* out the checksum, the security directory, the signature and the gaps, and
\* nothing else; and it refuses only if the signature begins inside the content.
HashCoversOnce(f, signed) == parse_pe(f, signed) =>
    LET ranges == HeaderRanges(f)
    IN /\ \A i \in 1..3 : ranges[i][1] <= ranges[i][2]
       /\ ranges[1][2] <= ranges[2][1] /\ ranges[2][2] <= ranges[3][1]
       /\ SectionsInOrder(f) /\ ContentEnd(f) <= f.length
       /\ IF HashRefuses(f) THEN signed /\ f.certificateOffset < LastEnd(f)
          ELSE \A x \in 0..(f.length - 1) : Hashed(f, x) <=> ~LeftOut(f, x)

\* Once prove_equivalence accepts a pair, neither digest is refused, the content
\* that is hashed of the signed binary has all of the unsigned one, and the
\* signature is read from behind it and ends with the file.
EquivalentIsHashed(u, s) == prove_equivalence(u, s) =>
    /\ ~HashRefuses(s) /\ ~HashRefuses(u)
    /\ LastEnd(u) <= u.length /\ u.length <= ContentEnd(s)
    /\ SecurityDirectory(s) + 8 <= u.length
    /\ ContentEnd(s) + 8 + s.table[1].der <= s.length
=============================================================================
