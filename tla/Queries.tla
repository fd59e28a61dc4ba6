------------------------------ MODULE Queries ------------------------------
(***************************************************************************)
(* What the readers of a receipt store ask it (sdk/go/store/store.go): a   *)
(* receipt by its place, and the rows a filter finds, once or again and    *)
(* again behind a watermark.  The rows are the sequence rows; the place of *)
(* a row in it is its rowid, which only grows, since no row is removed.    *)
(* A field of a query is None where nothing is asked of it.                *)
(***************************************************************************)
EXTENDS Integers, Sequences, FiniteSets, FiniteSetsExt, SequencesExt

CONSTANT None \* an absent payload, hash, key, envelope or filter

DistinctChainIDs(rows) == {rows[i].chain : i \in DOMAIN rows}

GetByChainSequence(rows, chain, seq) ==
    {i \in DOMAIN rows : rows[i].chain = chain /\ rows[i].seq = seq}

Matches(row, q) == \A field \in {"chain", "action", "risk", "status"} : q[field] \in {None, row[field]}

MaxRowID(rows) == Len(rows)
Found(rows, q, after) == {i \in after + 1 .. MaxRowID(rows) : Matches(rows[i], q)}
UpToLimit(n, q) == IF q.limit = None THEN n ELSE Min({n, q.limit})

(* The answers QueryReceipts can give: the limit cuts off the rows at one    *)
(* end of the order of their timestamps, which need not be that of the rows. *)
QueryReceipts(rows, q) ==
    LET found == Found(rows, q, 0) IN kSubset(UpToLimit(Cardinality(found), q), found)

(* The members of S in their order. *)
Rank(S, i) == Cardinality({j \in S : j <= i})
InOrder(S) == [n \in 1..Cardinality(S) |-> CHOOSE i \in S : Rank(S, i) = n]

WrongQueryAfterRowID(rows, q, after) == \* the watermark passes the rows beyond the limit
    LET found == Found(rows, q, after)
        first == {i \in found : Rank(found, i) <= UpToLimit(Cardinality(found), q)}
    IN [shown |-> InOrder(first), mark |-> MaxRowID(rows)]

(* The rows behind the watermark in their order, up to the limit; the new    *)
(* watermark is the last row shown.                                          *)
QueryAfterRowID(rows, q, after) ==
    LET found == Found(rows, q, after)
        first == {i \in found : Rank(found, i) <= UpToLimit(Cardinality(found), q)}
    IN [shown |-> InOrder(first), mark |-> IF first = {} THEN after ELSE Max(first)]
=============================================================================
