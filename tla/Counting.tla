------------------------------ MODULE Counting ------------------------------
(***************************************************************************)
(* How often a value occurs in a sequence, in a function, and in the       *)
(* sequences of a function, and the items at some places of a sequence.    *)
(***************************************************************************)
EXTENDS Integers, Sequences, FiniteSets

Count(s, x) == Cardinality({i \in DOMAIN s : s[i] = x})

Entries(f, x) ==
    {p \in UNION {{d} \X DOMAIN f[d] : d \in DOMAIN f} : f[p[1]][p[2]] = x}

CountIn(f, x) == Cardinality(Entries(f, x))

\* SelectSeq, by the places of the items to be selected.
ItemsAt(s, places) ==
    LET upTo[n \in 0..Len(s)] ==
            IF n = 0 THEN <<>>
            ELSE IF n \in places THEN Append(upTo[n - 1], s[n]) ELSE upTo[n - 1]
    IN  upTo[Len(s)]

=============================================================================
