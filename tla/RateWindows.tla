---------------------------- MODULE RateWindows ----------------------------
(***************************************************************************)
(* The counter tables of the Convex backend: rateLimitWindows and          *)
(* quotaWindows.  A table is a function whose domain is the set of rows    *)
(* that exist; a row that does not exist counts zero                       *)
(* (`existing?.count ?? 0`).                                               *)
(***************************************************************************)
EXTENDS Integers, FiniteSets

\* The start of the fixed window of the given length that contains `now`.
WindowStart(now, length) == (now \div length) * length

\* What a lookup by index followed by `?? 0` returns.
Count(table, row) == IF row \in DOMAIN table THEN table[row] ELSE 0

\* One upsert of `cost` into each row of `rows`: patch if it exists, insert if not.
AddTo(table, rows, cost) ==
    [row \in DOMAIN table \cup rows |->
        Count(table, row) + (IF row \in rows THEN cost ELSE 0)]

\* The table without the rows of `rows`.
Without(table, rows) == [row \in DOMAIN table \ rows |-> table[row]]

\* What one run of prune may delete of a table: its expired rows, or `limit` of them,
\* oldest first by the time index; `start` is the place of the start time in a row.
Batches(expired, start, limit) ==
    IF Cardinality(expired) <= limit THEN {expired}
    ELSE {batch \in SUBSET expired :
             /\ Cardinality(batch) = limit
             /\ \A row \in batch, other \in expired \ batch : row[start] <= other[start]}

EmptyTable == [row \in {} |-> 0]

\* What a table counts in some of its rows, one by one: there are as many as the rows'
\* counts add up to.
Units(table, rows) == UNION {{row} \X (1..Count(table, row)) : row \in rows}
Total(table, rows) == Cardinality(Units(table, rows))

(***************************************************************************)
(* hitWindow counts first and compares afterwards: a refused request is    *)
(* counted like an admitted one.  A limit is a record [bucket, limit]; the *)
(* rows hit are the buckets paired with the start of the window.           *)
(***************************************************************************)
RowsOf(limits, start) == {<<h.bucket, start>> : h \in limits}

\* combine: admitted only when no limit is exceeded, counting this request.
WithinLimits(table, limits, start, cost) ==
    \A h \in limits : Count(table, <<h.bucket, start>>) + cost <= h.limit
=============================================================================
