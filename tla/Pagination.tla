----------------------------- MODULE Pagination -----------------------------
(* Offset pagination (app/shared/pagination.py), over rows that are numbers in *)
(* the order the query sorts them by.                                          *)
EXTENDS Naturals, FiniteSets

\* Mutant: pages counted from zero.
OffsetFromZero(page, size) == page * size

Offset(page, size) == (page - 1) * size

\* math.ceil(total / size)
Pages(total, size) == (total + size - 1) \div size

\* OFFSET and LIMIT.
PageOf(rows, page, size) ==
    LET Rank(x) == Cardinality({y \in rows : y <= x})
    IN  {x \in rows : Offset(page, size) < Rank(x) /\ Rank(x) <= Offset(page, size) + size}

=============================================================================
