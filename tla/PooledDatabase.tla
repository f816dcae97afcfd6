---------------------------- MODULE PooledDatabase ----------------------------
(***************************************************************************)
(* The shared pool of PostgreSQL connections (getPool of packages/db) as a *)
(* caller of pool.query() sees it.  A transaction belongs to a connection, *)
(* and the pool runs each statement on whichever connection is idle:       *)
(* nothing ties the statements of one function to one connection.  Other   *)
(* requests keep some connections busy at any moment, so a statement may   *)
(* meet any of them.                                                       *)
(*                                                                         *)
(* READ COMMITTED: a statement sees committed rows and what its connection *)
(* wrote.  A row written or selected FOR UPDATE in a transaction stays     *)
(* locked until the transaction ends; a writer that meets the lock waits.  *)
(***************************************************************************)
EXTENDS Integers, FiniteSets

CONSTANTS
  Connections,  \* at most DB_POOL_MAX of them
  Rows          \* names of the rows

VARIABLES
  store,  \* [Rows -> value]: what is committed
  tx      \* [Connections -> transaction]

NoTx == [state |-> "none", writes |-> <<>>, locks |-> {}]

Sees(c, r) == IF r \in DOMAIN tx[c].writes THEN tx[c].writes[r] ELSE store[r]

\* No other connection's transaction has the row.
Unlocked(c, r) == \A d \in Connections \ {c} : r \notin tx[d].locks

\* BEGIN inside a transaction is a warning.
BeginTx(c) ==
  /\ tx' = [tx EXCEPT ![c].state = IF @ = "none" THEN "open" ELSE @]
  /\ UNCHANGED store

\* COMMIT of an aborted transaction rolls it back; outside a transaction it is a warning.
CommitTx(c) ==
  /\ store' = IF tx[c].state = "open" THEN [r \in Rows |-> Sees(c, r)] ELSE store
  /\ tx' = [tx EXCEPT ![c] = NoTx]

RollbackTx(c) == tx' = [tx EXCEPT ![c] = NoTx] /\ UNCHANGED store

\* Outside a transaction a statement is committed at once.
Write(c, r, value) ==
  /\ tx[c].state # "aborted" /\ Unlocked(c, r)
  /\ IF tx[c].state = "open"
     THEN /\ tx' = [tx EXCEPT
                     ![c].writes = [x \in DOMAIN @ \cup {r} |-> IF x = r THEN value ELSE @[x]],
                     ![c].locks = @ \cup {r}]
          /\ UNCHANGED store
     ELSE store' = [store EXCEPT ![r] = value] /\ UNCHANGED tx

\* SELECT ... FOR UPDATE: the lock lasts as long as the connection's transaction.
Lock(c, r) ==
  /\ tx' = [tx EXCEPT ![c].locks = IF tx[c].state = "open" THEN @ \cup {r} ELSE @]
  /\ UNCHANGED store

\* A statement that fails aborts the transaction it is in.
Abort(c) ==
  /\ tx' = [tx EXCEPT ![c] = IF @.state = "none" THEN NoTx ELSE [NoTx EXCEPT !.state = "aborted"]]
  /\ UNCHANGED store

Quiescent == \A c \in Connections : tx[c].state = "none"

=============================================================================
