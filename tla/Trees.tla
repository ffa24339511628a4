------------------------------- MODULE Trees --------------------------------
(***************************************************************************)
(* Directory trees as the kernel sees them.  A path is a sequence of names *)
(* and <<>> the root; a tree maps every path below the root that exists to *)
(* its object: a directory, a file with its data, or a symbolic link with  *)
(* its text.                                                               *)
(***************************************************************************)
EXTENDS Integers, Sequences, FiniteSets, SequencesExt, FiniteSetsExt

Dir == [kind |-> "dir"]
File(data) == [kind |-> "file", data |-> data]
Symlink(text) == [kind |-> "symlink", text |-> text]

Parent(p) == SubSeq(p, 1, Len(p) - 1)
Ancestors(p) == {SubSeq(p, 1, i) : i \in 1..(Len(p) - 1)}
Below(p, q) == Len(q) < Len(p) /\ SubSeq(p, 1, Len(q)) = q

\* Where the kernel arrives when it follows a path, with the tree as its root.
\* The budget is the number of links it follows.  The path of something missing
\* is known when its directory exists.
RECURSIVE Follow(_, _, _, _)
Follow(t, components, at, budget) ==
    IF components = <<>> THEN [end |-> "found", path |-> at]
    ELSE LET name == Head(components)
             rest == Tail(components)
             here == Append(at, name)
         IN IF name = "." THEN Follow(t, rest, at, budget)
            ELSE IF name = ".."
            THEN IF at = <<>> THEN [end |-> "outside", path |-> <<>>]
                 ELSE Follow(t, rest, Parent(at), budget)
            ELSE IF here \notin DOMAIN t
            THEN [end |-> "missing", path |-> IF rest = <<>> THEN here ELSE <<>>]
            ELSE IF t[here].kind = "symlink"
            THEN IF budget = 0 THEN [end |-> "loop", path |-> <<>>]
                 ELSE Follow(t, t[here].text.parts \o rest,
                             IF t[here].text.absolute THEN <<>> ELSE at, budget - 1)
            ELSE IF t[here].kind = "file" /\ rest # <<>> THEN [end |-> "missing", path |-> <<>>]
            ELSE Follow(t, rest, here, budget)
Leads(t, p) == Follow(t, p, <<>>, 8)
Object(t, p) == IF p = <<>> THEN Dir ELSE t[p]
=============================================================================
