----------------------------- MODULE ReadCommitted -----------------------------
(***************************************************************************)
(* One PostgreSQL table as the code of EnerVision uses it: every service   *)
(* runs in one transaction of the default isolation level, READ COMMITTED. *)
(*                                                                         *)
(* Reads never wait and return the last committed version of a row, or the *)
(* reader's own uncommitted one.  Writing a row takes its lock until the   *)
(* transaction ends; a writer that finds the lock taken waits, and then    *)
(* works on the version the other transaction left behind.  The server is  *)
(* not part of the repository: this is the behaviour src/ relies on.       *)
(***************************************************************************)

CONSTANTS Keys,     \* the rows the table may hold, by primary key
          Txns,     \* the transactions, at most one per request in flight
          Nobody,   \* the holder of a row nobody is writing
          NoRow     \* what a key holds before its row is inserted

VARIABLES committed,  \* the last committed version of each row
          draft,      \* the version written by the transaction holding the row
          holder      \* the transaction that holds each row's lock

\* What a statement of transaction x reads in row k.
Sees(x, k) == IF holder[k] = x THEN draft[k] ELSE committed[k]

\* Transaction x can write row k without waiting.
Free(x, k) == holder[k] \in {x, Nobody}

\* Keys a new row can take.
Unused == {k \in Keys : holder[k] = Nobody /\ committed[k] = NoRow}

\* Transaction x writes every row of the function rows, and holds them all.
Write(x, rows) ==
  /\ \A k \in DOMAIN rows : Free(x, k)
  /\ draft' = [k \in Keys |-> IF k \in DOMAIN rows THEN rows[k] ELSE draft[k]]
  /\ holder' = [k \in Keys |-> IF k \in DOMAIN rows THEN x ELSE holder[k]]
  /\ UNCHANGED committed

\* The single-row UPDATE or INSERT.
WriteRow(x, k, row) == Write(x, [j \in {k} |-> row])

\* Locks are released, and the drafts are gone, when the transaction ends.
Release(x) ==
  /\ draft' = [k \in Keys |-> IF holder[k] = x THEN NoRow ELSE draft[k]]
  /\ holder' = [k \in Keys |-> IF holder[k] = x THEN Nobody ELSE holder[k]]

\* COMMIT publishes all the drafts of x in one step.
Publish(x) ==
  /\ committed' = [k \in Keys |-> Sees(x, k)]
  /\ Release(x)

\* ROLLBACK, and what the session does on any exception or lost connection.
Discard(x) ==
  /\ Release(x)
  /\ UNCHANGED committed

Untouched == UNCHANGED <<committed, draft, holder>>

\* A table holds drafts only for the rows whose lock is taken.
TableOK(Row) ==
  /\ committed \in [Keys -> Row \cup {NoRow}]
  /\ draft \in [Keys -> Row \cup {NoRow}]
  /\ holder \in [Keys -> Txns \cup {Nobody}]
  /\ \A k \in Keys : draft[k] = NoRow <=> holder[k] = Nobody
=============================================================================
