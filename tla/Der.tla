--------------------------------- MODULE Der ---------------------------------
(***************************************************************************)
(* The definite lengths and object identifiers of DER, as secure_boot.py   *)
(* reads and secure_boot_signer.py writes them.  Bytes are 0..255.         *)
(***************************************************************************)
EXTENDS Integers, Sequences, SequencesExt, FiniteSets

Number(bytes, base) == FoldLeft(LAMBDA n, byte : n * base + byte, 0, bytes)
RECURSIVE BytesOf(_)
BytesOf(n) == IF n = 0 THEN <<>> ELSE Append(BytesOf(n \div 256), n % 256)

\* _encode_der: the bytes after the tag, before the value.
_encode_length(length) == IF length < 128 THEN <<length>>
                          ELSE <<128 + Len(BytesOf(length))>> \o BytesOf(length)

\* der_read: the length that the bytes after the tag say and how many bytes say
\* it, -1 if it is refused; the value has to fit in what is left.
Refused == [length |-> -1, used |-> 0]
MinimalForm(bytes, count) ==
    LET length == Number(SubSeq(bytes, 2, count + 1), 256)
    IN IF count = 0 \/ count > 4 \/ count + 1 > Len(bytes) THEN Refused
       ELSE IF bytes[2] = 0 \/ length < 128 \/ count # Len(BytesOf(length)) THEN Refused
       ELSE [length |-> length, used |-> count + 1]
der_read(bytes, available) ==
    LET read == IF bytes = <<>> THEN Refused
                ELSE IF bytes[1] < 128 THEN [length |-> bytes[1], used |-> 1]
                ELSE MinimalForm(bytes, bytes[1] - 128)
    IN IF read.used + read.length > available THEN Refused ELSE read

\* der_oid: the arcs, <<>> if it is refused.  A byte below 128 ends a group.
Ends(bytes) == {i \in DOMAIN bytes : bytes[i] < 128}
GroupAt(bytes, end) ==
    LET before == {j \in Ends(bytes) : j < end}
    IN SubSeq(bytes, 1 + (IF before = {} THEN 0 ELSE CHOOSE j \in before : \A k \in before : k <= j), end)
Groups(bytes) == [i \in 1..Cardinality(Ends(bytes)) |->
    GroupAt(bytes, CHOOSE e \in Ends(bytes) : Cardinality({j \in Ends(bytes) : j <= e}) = i)]
Arc(group) == Number([i \in DOMAIN group |-> group[i] % 128], 128)
der_oid(bytes) ==
    IF \/ bytes = <<>> \/ Len(bytes) \notin Ends(bytes)
       \/ \E i \in DOMAIN Groups(bytes) : Groups(bytes)[i][1] = 128
    THEN <<>>
    ELSE LET arcs == [i \in DOMAIN Groups(bytes) |-> Arc(Groups(bytes)[i])]
             root == IF arcs[1] < 40 THEN 0 ELSE IF arcs[1] < 80 THEN 1 ELSE 2
         IN <<root, arcs[1] - 40 * root>> \o Tail(arcs)

\* A length is read in one form only, the one that is written; and no two
\* encodings are read as one object identifier.
DerIsCanonical(headers, lengths, oids) ==
    /\ \A bytes \in headers : LET read == der_read(bytes, 1000000)
                              IN read # Refused => SubSeq(bytes, 1, read.used) = _encode_length(read.length)
    /\ \A length \in lengths :
          der_read(_encode_length(length), 5 + length) = [length |-> length, used |-> Len(_encode_length(length))]
    /\ LET accepted == {bytes \in oids : der_oid(bytes) # <<>>}
       IN Cardinality({der_oid(bytes) : bytes \in accepted}) = Cardinality(accepted)
=============================================================================
