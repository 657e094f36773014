----------------------------- MODULE Compaction -----------------------------
(***************************************************************************)
(* What is left of an array when entries are removed from it, or passed    *)
(* over when it is written out: the others, in their order.  A definition  *)
(* by the number of entries that are kept up to each, which can be         *)
(* reasoned about, as SelectSeq and its recursion cannot.                  *)
(***************************************************************************)
EXTENDS Integers, FiniteSets

\* The place that entry i gets among the entries is.
Place(is, i) == Cardinality({j \in is : j <= i})

\* The entry that gets place k.
Entrant(is, k) == CHOOSE i \in is : Place(is, i) = k

\* The array r with nothing but its entries is, a set of indices.
Keep(r, is) == [k \in 1 .. Cardinality(is) |-> r[Entrant(is, k)]]

\* The array r when its entry i is removed in place: those behind it, of the first n,
\* move down, and the last of them stays in its slot, too.
MoveDown(r, i, n) == [j \in DOMAIN r |-> IF j \in i .. n - 1 THEN r[j + 1] ELSE r[j]]

\* A round of a loop that removes entries in place: p is what it has left so far.
RemovalStep(is, i, p) ==
  IF i \in is THEN [entries |-> MoveDown(p.entries, i, p.num), num |-> p.num - 1] ELSE p

\* The first n entries of the array r when a loop from the last to the first has
\* removed its entries is.
Removal(r, n, is) ==
  LET Passed[i \in 1 .. n + 1] ==
        IF i = n + 1 THEN [entries |-> r, num |-> n] ELSE RemovalStep(is, i, Passed[i + 1])
  IN Passed[1]
=============================================================================
