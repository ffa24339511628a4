---------------------------- MODULE DebVersions ----------------------------
(***************************************************************************)
(* mkosi/debian/generate_lock.py, compare_versions: two indexes run along  *)
(* two versions and compare non-digits and numbers in turn.  The reference *)
(* turns a fragment into a key and compares keys at their first            *)
(* difference.  A version is a sequence of characters.                     *)
(***************************************************************************)
EXTENDS Integers, Sequences, FiniteSets

CONSTANTS
    FragmentCharacters,  \* characters of the fragments that are compared
    VersionCharacters,   \* characters of the versions that are compared
    MaxCharacters        \* bound: characters of one of them

Digits == <<"0", "1", "2", "3", "4", "5", "6", "7", "8", "9">>
Value(c) == CHOOSE n \in 0..9 : Digits[n + 1] = c
Letters == {"a", "b"}
ord(c) == CASE c = "a" -> 97 [] c = "b" -> 98 [] c = "+" -> 43
            [] c = "-" -> 45 [] c = "." -> 46 [] c = ":" -> 58 [] c = "~" -> 126
isdigit(c) == \E n \in DOMAIN Digits : Digits[n] = c
DigitAt(s, i) == i <= Len(s) /\ isdigit(s[i])

\* Mutation: a tilde sorts as any other character that is no letter.
_order_without_tilde(character) ==
    IF isdigit(character) THEN 0
    ELSE IF character \in Letters THEN ord(character)
    ELSE ord(character) + 256
_order(character) ==
    IF character = "~" THEN -1
    ELSE IF isdigit(character) THEN 0
    ELSE IF character \in Letters THEN ord(character)
    ELSE ord(character) + 256

\* Each comparison returns the difference and the indexes after what it read.
RECURSIVE _compare_non_digits(_, _, _, _)
_compare_non_digits(left, right, i, j) ==
    LET order(s, k) == IF k <= Len(s) THEN _order(s[k]) ELSE 0
        difference == order(left, i) - order(right, j)
    IN  IF (i > Len(left) \/ DigitAt(left, i)) /\ (j > Len(right) \/ DigitAt(right, j))
        THEN <<0, i, j>>
        ELSE IF difference # 0 THEN <<difference, i, j>>
        ELSE _compare_non_digits(left, right, i + 1, j + 1)

RECURSIVE AfterZeros(_, _)
AfterZeros(s, i) == IF i <= Len(s) /\ s[i] = "0" THEN AfterZeros(s, i + 1) ELSE i
RECURSIVE CompareRuns(_, _, _, _, _)
CompareRuns(left, right, i, j, difference) ==
    IF DigitAt(left, i) /\ DigitAt(right, j)
    THEN CompareRuns(left, right, i + 1, j + 1,
                     IF difference # 0 THEN difference ELSE Value(left[i]) - Value(right[j]))
    ELSE IF DigitAt(left, i) THEN <<1, i, j>>
    ELSE IF DigitAt(right, j) THEN <<-1, i, j>>
    ELSE <<difference, i, j>>
\* Mutation: leading zeros count.
_compare_digit_runs(left, right, i, j) == CompareRuns(left, right, i, j, 0)
_compare_digits(left, right, i, j) ==
    CompareRuns(left, right, AfterZeros(left, i), AfterZeros(right, j), 0)

RECURSIVE CompareFrom(_, _, _, _)
CompareFrom(left, right, i, j) ==
    LET text == _compare_non_digits(left, right, i, j)
        number == _compare_digits(left, right, text[2], text[3])
    IN  IF i > Len(left) /\ j > Len(right) THEN 0
        ELSE IF text[1] # 0 THEN text[1]
        ELSE IF number[1] # 0 THEN number[1]
        ELSE CompareFrom(left, right, number[2], number[3])
_compare_fragment(left, right) == CompareFrom(left, right, 1, 1)

RECURSIVE Number(_)
Number(s) == IF s = <<>> THEN 0 ELSE 10 * Number(SubSeq(s, 1, Len(s) - 1)) + Value(s[Len(s)])
Occurrences(s, c) == {i \in DOMAIN s : s[i] = c}
\* The epoch ends at the first colon, and the revision begins after the last hyphen.
\* An epoch that is no number, which raises LockError, is left out.
_split_version(version) ==
    LET colons == Occurrences(version, ":")
        colon == IF colons = {} THEN 0
                 ELSE CHOOSE i \in colons : \A k \in colons : i <= k
        rest == SubSeq(version, colon + 1, Len(version))
        hyphens == Occurrences(rest, "-")
        hyphen == IF hyphens = {} THEN Len(rest) + 1
                  ELSE CHOOSE i \in hyphens : \A k \in hyphens : k <= i
    IN  <<IF colon = 0 THEN 0 ELSE Number(SubSeq(version, 1, colon - 1)),
          SubSeq(rest, 1, hyphen - 1), SubSeq(rest, hyphen + 1, Len(rest))>>

compare_versions(left, right) ==
    LET l == _split_version(left)
        r == _split_version(right)
        upstream == _compare_fragment(l[2], r[2])
    IN  IF l[1] # r[1] THEN l[1] - r[1]
        ELSE IF upstream # 0 THEN upstream
        ELSE _compare_fragment(l[3], r[3])

-----------------------------------------------------------------------------
\* The reference, after deb-version(7).

Ends(s, digits) == {n \in 0..Len(s) : \A k \in 1..n : isdigit(s[k]) = digits}
Prefix(s, digits) == CHOOSE n \in Ends(s, digits) : \A k \in Ends(s, digits) : k <= n
Rank(c) == CASE c = "~" -> -1 [] c \in Letters -> ord(c) [] OTHER -> 1000 + ord(c)
\* A part without digits, 0 for its end, and the number after it; and so on.
RECURSIVE Key(_)
Key(s) ==
    LET n == Prefix(s, FALSE)
        after == SubSeq(s, n + 1, Len(s))
        m == Prefix(after, TRUE)
    IN  IF s = <<>> THEN <<>>
        ELSE [k \in 1..n |-> Rank(s[k])] \o <<0, Number(SubSeq(after, 1, m))>>
             \o Key(SubSeq(after, m + 1, Len(after)))
At(key, n) == IF n <= Len(key) THEN key[n] ELSE 0
Before(left, right) ==
    \E n \in 1..(Len(left) + Len(right)) :
        /\ At(left, n) < At(right, n)
        /\ \A k \in 1..(n - 1) : At(left, k) = At(right, k)

Texts(characters, n) == UNION {[1..k -> characters] : k \in 0..n}
\* Versions in parts: the epoch or "none", the upstream version, and the
\* revision or "none".
Parts ==
    {p \in [epoch : {"none", "0", "1"}, upstream : Texts(VersionCharacters, MaxCharacters - 1),
            revision : {<<"none">>} \cup Texts(VersionCharacters \ {"-", ":"}, 1)] :
       /\ p.epoch = "none" => ":" \notin {p.upstream[k] : k \in DOMAIN p.upstream}
       /\ p.revision = <<"none">> => "-" \notin {p.upstream[k] : k \in DOMAIN p.upstream}}
Text(p) ==
    (IF p.epoch = "none" THEN <<>> ELSE <<p.epoch, ":">>) \o p.upstream
    \o (IF p.revision = <<"none">> THEN <<>> ELSE <<"-">> \o p.revision)
Keys(p) == <<IF p.epoch = "1" THEN <<1>> ELSE <<0>>, Key(p.upstream),
             IF p.revision = <<"none">> THEN <<>> ELSE Key(p.revision)>>

\* The order by definition.
OrderIsPolicy ==
    /\ LET key == [s \in Texts(FragmentCharacters, MaxCharacters) |-> Key(s)]
       IN  \A s, t \in DOMAIN key :
             (_compare_fragment(s, t) < 0) = Before(key[s], key[t])
    /\ LET keys == [p \in Parts |-> Keys(p)]
       IN  \A p, q \in Parts :
             (compare_versions(Text(p), Text(q)) < 0) =
               \E n \in 1..3 :
                   /\ Before(keys[p][n], keys[q][n])
                   /\ \A k \in 1..(n - 1) : ~Before(keys[q][k], keys[p][k])
=============================================================================
