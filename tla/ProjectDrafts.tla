----------------------------- MODULE ProjectDrafts -----------------------------
(***************************************************************************)
(* The drafts of one project in profile-project-service.  At most one of   *)
(* them is the primary draft: a partial unique index sees to that, and     *)
(* createDraft, updateDraft and setPrimaryDraft move it in transactions.   *)
(*                                                                         *)
(* A worker is one request of the project's owner.  Its transaction runs   *)
(* on a client of its own, so workers are the connections of               *)
(* PooledDatabase.  An UPDATE of all drafts is about the rows it sees when *)
(* it starts, locks them one by one and changes their newest versions.     *)
(***************************************************************************)
EXTENDS PooledDatabase

CONSTANTS
  MaxRequests,  \* bound: requests
  Faults        \* {"database"} or {}: may a statement fail, or the connection be lost?

Workers == Connections
Drafts  == Rows

ASSUME DraftsAssumption == MaxRequests \in Nat /\ Faults \subseteq {"database"}

VARIABLES
  req,       \* [Workers -> local variables]
  requests   \* requests so far

vars == <<store, tx, req, requests>>

Lifecycle == {"none", "active", "archived"}
Step == {"idle", "leaked", "count", "demote", "demoting", "insert", "promote", "read", "update",
         "unset", "candidate", "successor", "commit"}

\* op: the repository's function; draft: its draftId; goal: setPrimary or lifecycleState
\* of the request; was: isPrimary as it was read; left: rows an UPDATE has still to do;
\* sole (history): it looked for another active draft and saw none.
Idle == [op |-> "none", at |-> "idle", draft |-> "none", goal |-> "none", was |-> FALSE,
         left |-> {}, sole |-> FALSE]

\* Checked out by a request that is over: the pool has this client no more.
Leaked == [Idle EXCEPT !.at = "leaked"]

Absent == [state |-> "none", primary |-> FALSE]

Init ==
  /\ store = [d \in Drafts |-> Absent]
  /\ tx = [w \in Workers |-> NoTx]
  /\ req = [w \in Workers |-> Idle]
  /\ requests = 0

At(w, step) == req[w].at = step
Busy == {w \in Workers : ~ At(w, "idle") /\ ~ At(w, "leaked")}
Resume(w, r) == req' = [req EXCEPT ![w] = r] /\ UNCHANGED requests
Goto(w, step) == Resume(w, [req[w] EXCEPT !.at = step])

\* The rows a statement of w sees.
Visible(w) == {d \in Drafts : Sees(w, d).state # "none"}

\* A client is checked out, and BEGIN.  With none left, connect() fails after a while.
Begin(w, r) ==
  /\ At(w, "idle") /\ requests < MaxRequests
  /\ BeginTx(w)
  /\ req' = [req EXCEPT ![w] = r]
  /\ requests' = requests + 1

\* ROLLBACK, and the client is released.
GiveUp(w) == RollbackTx(w) /\ Resume(w, Idle)

\* The transaction is over, but nobody releases the client.
Leak(w) == RollbackTx(w) /\ Resume(w, Leaked)

-----------------------------------------------------------------------------
(* The partial unique index on is_primary.                                  *)

\* Another transaction has the row of a primary draft, as it was or as it will be: whoever
\* makes d primary waits until that one ends.
IndexWait(w, d) ==
  {v \in Workers \ {w} : \E e \in tx[v].locks \ {d} : store[e].primary \/ Sees(v, e).primary}

UniqueViolation(w, d) == \E e \in Drafts \ {d} : Sees(w, e).primary

\* Mutant: no unique index.
PutUnchecked(w, d, row) == Write(w, d, row) /\ Goto(w, "commit")

\* A statement that writes a row which may be primary; a violation rolls everything back.
PutRow(w, d, row) ==
  /\ Unlocked(w, d)
  /\ IF row.primary
     THEN /\ IndexWait(w, d) = {}
          /\ IF UniqueViolation(w, d) THEN RollbackTx(w) /\ Resume(w, Idle)
             ELSE Write(w, d, row) /\ Goto(w, "commit")
     ELSE Write(w, d, row) /\ Goto(w, "commit")

-----------------------------------------------------------------------------
(* createDraft and setPrimaryDraft.                                         *)

CreateDraft(w, d, goal) ==
  /\ store[d] = Absent /\ \A v \in Workers : req[v].draft # d
  /\ Begin(w, [Idle EXCEPT !.op = "create", !.at = "count", !.draft = d, !.goal = goal])

\* SELECT COUNT(*) .. is_primary = TRUE: the first draft becomes primary unasked.
CountPrimaries(w) ==
  /\ At(w, "count")
  /\ LET asked == req[w].goal = "primary" \/ \A d \in Drafts : ~ Sees(w, d).primary IN
     Resume(w, [req[w] EXCEPT !.was = asked, !.at = IF asked THEN "demote" ELSE "insert"])
  /\ UNCHANGED <<store, tx>>

\* UPDATE project_drafts SET is_primary = FALSE WHERE project_id = $1.
Demote(w) ==
  /\ At(w, "demote")
  /\ Resume(w, [req[w] EXCEPT !.at = "demoting", !.left = Visible(w)])
  /\ UNCHANGED <<store, tx>>

DemoteRow(w) ==
  /\ At(w, "demoting")
  /\ \E d \in req[w].left :
       /\ Write(w, d, [Sees(w, d) EXCEPT !.primary = FALSE])
       /\ Resume(w, [req[w] EXCEPT !.left = @ \ {d}])

EndDemote(w) ==
  /\ At(w, "demoting") /\ req[w].left = {}
  /\ Goto(w, IF req[w].op = "create" THEN "insert" ELSE "promote")
  /\ UNCHANGED <<store, tx>>

InsertDraft(w) ==
  /\ At(w, "insert")
  /\ PutRow(w, req[w].draft, [state |-> "active", primary |-> req[w].was])

SetPrimaryDraft(w, d) ==
  Begin(w, [Idle EXCEPT !.op = "setPrimary", !.at = "demote", !.draft = d])

\* UPDATE .. SET is_primary = TRUE .. AND lifecycle_state = 'active'; no row is a 404.
Promote(w) ==
  /\ At(w, "promote") /\ Unlocked(w, req[w].draft)
  /\ IF Sees(w, req[w].draft).state # "active" THEN RollbackTx(w) /\ Resume(w, Idle)
     ELSE PutRow(w, req[w].draft, [Sees(w, req[w].draft) EXCEPT !.primary = TRUE])

-----------------------------------------------------------------------------
(* updateDraft.                                                             *)

UpdateDraft(w, d, goal) ==
  Begin(w, [Idle EXCEPT !.op = "update", !.at = "read", !.draft = d, !.goal = goal])

\* SELECT: what the request leaves out stays as it is read here, without a lock.  A draft
\* that does not exist is a 404, sent after ROLLBACK with the client still checked out.
ReadDraft(w) ==
  /\ At(w, "read")
  /\ LET d == Sees(w, req[w].draft) IN
     IF d.state = "none" THEN Leak(w)
     ELSE /\ Resume(w, [req[w] EXCEPT !.at = "update", !.was = d.primary,
                                      !.goal = IF @ = "keep" THEN d.state ELSE @])
          /\ UNCHANGED <<store, tx>>

UpdateRow(w) ==
  /\ At(w, "update")
  /\ Write(w, req[w].draft, [Sees(w, req[w].draft) EXCEPT !.state = req[w].goal])
  /\ Goto(w, IF req[w].goal = "archived" /\ req[w].was THEN "unset" ELSE "commit")

\* Mutant: no other draft becomes primary.
UnsetOnly(w) ==
  /\ At(w, "unset")
  /\ Write(w, req[w].draft, [Sees(w, req[w].draft) EXCEPT !.primary = FALSE])
  /\ Goto(w, "commit")

Unset(w) ==
  /\ At(w, "unset")
  /\ Write(w, req[w].draft, [Sees(w, req[w].draft) EXCEPT !.primary = FALSE])
  /\ Goto(w, "candidate")

\* The active draft that was updated last, of the others.
ChooseSuccessor(w) ==
  /\ At(w, "candidate")
  /\ LET candidates == {d \in Drafts \ {req[w].draft} : Sees(w, d).state = "active"} IN
     IF candidates = {} THEN Resume(w, [req[w] EXCEPT !.at = "commit", !.sole = TRUE])
     ELSE \E d \in candidates : Resume(w, [req[w] EXCEPT !.at = "successor", !.left = {d}])
  /\ UNCHANGED <<store, tx>>

\* The same statement, once it has the row: it does not look at the state again.
PromoteSuccessor(w) ==
  /\ At(w, "successor")
  /\ \E d \in req[w].left : PutRow(w, d, [Sees(w, d) EXCEPT !.primary = TRUE])

-----------------------------------------------------------------------------

\* The answer is sent after COMMIT; updateDraft reads the draft once more for it.
Commit(w) ==
  /\ At(w, "commit")
  /\ CommitTx(w)
  /\ Resume(w, Idle)

\* Mutant: the client is released without ROLLBACK.
ThrowOpen(w) ==
  /\ "database" \in Faults /\ w \in Busy
  /\ Resume(w, Idle) /\ UNCHANGED <<store, tx>>

\* A statement fails: ROLLBACK.  With the connection lost that ROLLBACK fails as well, and
\* updateDraft, which releases the client after it and has no finally, leaves it checked out.
Throw(w) ==
  /\ "database" \in Faults /\ w \in Busy
  /\ GiveUp(w) \/ (req[w].op = "update" /\ Leak(w))

\* The transactions a statement of w waits for.
WaitsFor(w) ==
  LET rows == CASE At(w, "demoting") -> req[w].left
                [] At(w, "successor") -> req[w].left
                [] req[w].at \in {"insert", "promote", "update"} -> {req[w].draft}
                [] OTHER -> {}
      makes == (At(w, "insert") /\ req[w].was) \/ req[w].at \in {"promote", "successor"}
  IN {v \in Workers \ {w} : rows \cap tx[v].locks # {}}
       \cup IF makes THEN UNION {IndexWait(w, d) : d \in rows} ELSE {}

\* PostgreSQL aborts one of several transactions that wait for each other.
BreakDeadlock(w) ==
  /\ \E circle \in SUBSET Workers :
       w \in circle /\ \A v \in circle : WaitsFor(v) \cap circle # {}
  /\ GiveUp(w)

Proceed(w) ==
  \/ CountPrimaries(w) \/ Demote(w) \/ DemoteRow(w) \/ EndDemote(w)
  \/ InsertDraft(w) \/ Promote(w)
  \/ ReadDraft(w) \/ UpdateRow(w) \/ Unset(w) \/ ChooseSuccessor(w) \/ PromoteSuccessor(w)
  \/ Commit(w)
  \/ BreakDeadlock(w)

Arrival(w) ==
  \/ \E d \in Drafts, goal \in {"primary", "any"} : CreateDraft(w, d, goal)
  \/ \E d \in Drafts : SetPrimaryDraft(w, d)
  \/ \E d \in Drafts, goal \in {"active", "archived", "keep"} : UpdateDraft(w, d, goal)

Next == \E w \in Workers : Arrival(w) \/ Proceed(w) \/ Throw(w)

Spec == Init /\ [][Next]_vars

\* The database gets on with every statement that need not wait.
FairSpec == Spec /\ \A w \in Workers : WF_vars(Proceed(w))

-----------------------------------------------------------------------------

Primaries == {d \in Drafts : store[d].primary}

TypeOK ==
  /\ store \in [Drafts -> [state : Lifecycle, primary : BOOLEAN]]
  /\ \A w \in Workers :
       /\ req[w].at \in Step /\ req[w].left \subseteq Drafts
       /\ (w \notin Busy <=> tx[w] = NoTx)
       /\ DOMAIN tx[w].writes = tx[w].locks

\* However requests overlap, a project never shows two primary drafts.
OnePrimary == Cardinality(Primaries) <= 1

\* A project that has a primary draft keeps one, whatever overlaps, unless a request
\* archives the one it had, looked for another active draft and saw none.
PrimaryIsHandedOn ==
  [][Primaries # {} /\ Primaries' = {} =>
       \E w \in Workers : At(w, "commit") /\ req[w].op = "update" /\ req[w].draft \in Primaries
                          /\ store'[req[w].draft].state = "archived" /\ req[w].sole]_vars

\* No request that has got a client waits for ever: locks are released on every path, also
\* where the client is not, and deadlocks are broken.
RequestsEnd == \A w \in Workers : w \in Busy ~> w \notin Busy

=============================================================================
