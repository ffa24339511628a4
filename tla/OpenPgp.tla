------------------------------- MODULE OpenPgp -------------------------------
(***************************************************************************)
(* mkosi/private/openpgp.py: the headers of packets, and which sequences   *)
(* of packets are a certificate and a detached signature.                  *)
(***************************************************************************)
EXTENDS Integers, Sequences, FiniteSets

Invalid == [tag |-> -1, start |-> 0, length |-> 0]
BigEndian(bytes, from, to) ==
    LET at[i \in (from - 1)..to] == IF i < from THEN 0 ELSE at[i - 1] * 256 + bytes[i] IN at[to]
\* packet: the header of a new packet with a body of some length.
packet(tag, length) ==
    <<192 + tag>> \o
    (IF length < 192 THEN <<length>>
     ELSE IF length < 8384 THEN <<(length - 192) \div 256 + 192, (length - 192) % 256>>
     ELSE <<255, length \div 16777216, (length \div 65536) % 256, (length \div 256) % 256, length % 256>>)
\* PacketHeader: the tag, how many bytes precede the body, and the body's length.
\* The old form has the tag in fewer bits; a slice that is too short is read as
\* it is, and an index that is too large is refused by packets.
Least(a, b) == IF a < b THEN a ELSE b
OldHeader(bytes) ==
    LET size == CASE bytes[1] % 4 = 0 -> 1 [] bytes[1] % 4 = 1 -> 2 [] bytes[1] % 4 = 2 -> 4 [] OTHER -> 0
    IN IF size = 0 THEN Invalid
       ELSE [tag |-> (bytes[1] \div 4) % 16, start |-> 1 + size,
             length |-> BigEndian(bytes, 2, Least(1 + size, Len(bytes)))]
NewHeader(bytes) ==
    LET tag == bytes[1] % 64
    IN IF Len(bytes) < 2 THEN Invalid
       ELSE IF bytes[2] < 192 THEN [tag |-> tag, start |-> 2, length |-> bytes[2]]
       ELSE IF bytes[2] < 224
       THEN IF Len(bytes) < 3 THEN Invalid
            ELSE [tag |-> tag, start |-> 3, length |-> (bytes[2] - 192) * 256 + bytes[3] + 192]
       ELSE IF bytes[2] = 255
       THEN [tag |-> tag, start |-> 6, length |-> BigEndian(bytes, 3, Least(6, Len(bytes)))]
       ELSE Invalid
PacketHeader(bytes) == IF bytes[1] < 128 THEN Invalid
                  ELSE IF bytes[1] < 192 THEN OldHeader(bytes) ELSE NewHeader(bytes)
\* What packet writes is what PacketHeader reads.
PacketsAreReadBack(lengths) == \A tag \in {2, 6, 13}, length \in lengths :
    LET bytes == packet(tag, length)
    IN PacketHeader(bytes) = [tag |-> tag, start |-> Len(bytes), length |-> length]

\* certificate and detached_signature, of the tags of the packets.
SecretTags == {5, 7}
CertificateTags == {2, 6, 12, 13, 14, 17}
certificate(tags) ==
    /\ tags # <<>> /\ \A i \in DOMAIN tags : tags[i] \notin SecretTags /\ tags[i] \in CertificateTags
    /\ tags[1] = 6 /\ Cardinality({i \in DOMAIN tags : tags[i] = 6}) = 1
detached_signature(tags) == tags = <<2>>
=============================================================================
