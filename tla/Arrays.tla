-------------------------------- MODULE Arrays --------------------------------
(* Arrays as the browser filters and sorts them, and objects as it spreads them. *)
EXTENDS Integers, Sequences, SequencesExt

\* filter: the elements that are in S, in their order.
Kept(s, S) ==
    LET kept[i \in 0..Len(s)] ==
          IF i = 0 THEN <<>> ELSE IF s[i] \in S THEN Append(kept[i - 1], s[i]) ELSE kept[i - 1]
    IN kept[Len(s)]

\* Where x goes: before the first element that it precedes in R.
PlaceFor(s, x, R) ==
    CHOOSE p \in 1..(Len(s) + 1) : /\ \A i \in 1..(p - 1) : <<x, s[i]>> \notin R
                                   /\ p <= Len(s) => <<x, s[p]>> \in R

\* sort, which is stable: each element goes behind those it does not precede.
Sorted(s, R) ==
    LET sorted[i \in 0..Len(s)] ==
          IF i = 0 THEN <<>>
          ELSE InsertAt(sorted[i - 1], PlaceFor(sorted[i - 1], s[i], R), s[i])
    IN sorted[Len(s)]

\* {...m, [k]: x}
Put(m, k, x) == [q \in DOMAIN m \cup {k} |-> IF q = k THEN x ELSE m[q]]

\* {...m, ...n}
Merged(m, n) == [q \in DOMAIN m \cup DOMAIN n |-> IF q \in DOMAIN n THEN n[q] ELSE m[q]]

===============================================================================
