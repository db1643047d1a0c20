------------------------------ MODULE RowLocks ------------------------------
(***************************************************************************)
(* The row locks of PostgreSQL, as far as the repositories under           *)
(* src/api/internal/repo use them: SELECT ... FOR UPDATE, which excludes   *)
(* every other lock on the row, and the FOR KEY SHARE lock a foreign-key   *)
(* check takes on the row it references, which only FOR UPDATE excludes.   *)
(* A transaction keeps its locks until it commits or rolls back, and waits *)
(* for the transactions that hold a conflicting one.  PostgreSQL aborts a  *)
(* transaction that waits in a cycle.                                      *)
(***************************************************************************)

\* A row is named by its table and its key.
Row(table, id) == [table |-> table, id |-> id]

ForUpdate(row) == [mode |-> "update", row |-> row]
KeyShare(row)  == [mode |-> "key share", row |-> row]

LockModes == {"update", "key share"}
LocksOn(rows) == [mode : LockModes, row : rows]

Conflicting(l, m) == l.row = m.row /\ (l.mode = "update" \/ m.mode = "update")

\* The transactions, other than p, that keep p from the lock l.
Holders(held, p, l) ==
  {q \in DOMAIN held \ {p} : \E m \in held[q] : Conflicting(l, m)}

\* waits[p] is the set of transactions p waits for.  p is in a cycle when p
\* belongs to every set that contains what p waits for and is closed under
\* waiting.
InCycle(waits, p) ==
  \A S \in SUBSET DOMAIN waits :
    (waits[p] \subseteq S /\ \A q \in S : waits[q] \subseteq S) => p \in S
=============================================================================
