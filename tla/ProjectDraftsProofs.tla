------------------------- MODULE ProjectDraftsProofs -------------------------
(***************************************************************************)
(* For any number of drafts, requests and connections, and any failures:   *)
(* a project shows at most one primary draft, and one that has a primary   *)
(* draft loses it only to a request that archives it and finds no other.   *)
(***************************************************************************)
EXTENDS ProjectDrafts, FiniteSetTheorems, TLAPS

-----------------------------------------------------------------------------
(* The inductive invariant.                                                 *)

Row == [state : Lifecycle, primary : BOOLEAN]

\* The uncommitted changes of a transaction: a value for each row it has written.
Writes == UNION {[S -> Row] : S \in SUBSET Drafts}

Transaction == [state : {"none", "open"}, writes : Writes, locks : SUBSET Drafts]

Request ==
  [op : {"none", "create", "setPrimary", "update"}, at : Step, draft : Drafts \cup {"none"},
   goal : Lifecycle \cup {"primary", "any", "keep"}, was : BOOLEAN, left : SUBSET Drafts,
   sole : BOOLEAN]

StateOK ==
  /\ store \in [Drafts -> Row]
  /\ tx \in [Workers -> Transaction]
  /\ req \in [Workers -> Request]
  /\ requests \in Nat
  /\ \A w \in Workers : DOMAIN tx[w].writes = tx[w].locks

\* w's transaction makes d primary, or keeps it so.
Marks(w, d) == d \in tx[w].locks /\ tx[w].writes[d].primary

\* A row has one writer; one draft is primary in the store, and one in all open
\* transactions; who marks a draft has the row of any other primary one.
RowsOK ==
  /\ \A v, w \in Workers : v # w => tx[v].locks \cap tx[w].locks = {}
  /\ \A d, e \in Drafts : store[d].primary /\ store[e].primary => d = e
  /\ \A v, w \in Workers, d, e \in Drafts : Marks(v, d) /\ Marks(w, e) => v = w /\ d = e
  /\ \A w \in Workers, d, e \in Drafts :
       Marks(w, d) /\ store[e].primary /\ e # d => e \in tx[w].locks

\* A transaction that is ready to commit makes a draft primary, archives the only one it
\* changed after it found no successor, or changes no row's primary flag.
Outcome(w) ==
  \/ \E d \in Drafts : Marks(w, d)
  \/ /\ req[w].op = "update" /\ tx[w].locks = {req[w].draft}
     /\ tx[w].writes[req[w].draft].state = "archived" /\ req[w].sole
  \/ \A d \in tx[w].locks : tx[w].writes[d].primary = store[d].primary

\* Where a function of each kind can be.
Path == [none       |-> {"idle", "leaked"},
         create     |-> {"count", "demote", "demoting", "insert", "commit"},
         setPrimary |-> {"demote", "demoting", "promote", "commit"},
         update     |-> {"read", "update", "unset", "candidate", "successor", "commit"}]

\* What a request knows at each of its steps.
RequestOK(w) ==
  LET r == req[w]
      t == tx[w]
  IN
  /\ r.at \in Path[r.op]
  /\ r.at \in {"idle", "leaked"} => t = NoTx
  /\ r.at \notin {"idle", "leaked"} => r.draft \in Drafts /\ t.state = "open"
  /\ r.op = "create" => store[r.draft] = Absent
  /\ r.at \in {"count", "demote", "read", "update"} => t.locks = {}
  /\ r.at = "insert" /\ ~ r.was => t.locks = {}
  /\ r.at \in {"demote", "demoting"} /\ r.op = "create" => r.was
  /\ r.at = "read" => r.goal \in {"active", "archived", "keep"}
  /\ r.at = "update" => r.goal \in {"active", "archived"} /\ store[r.draft].state # "none"
  /\ r.at \in {"demoting", "successor"} => \A d \in r.left : store[d].state # "none"
  /\ r.at \in {"unset", "candidate", "successor"} =>
       t.locks = {r.draft} /\ t.writes[r.draft].state = "archived"
  /\ r.at = "commit" => Outcome(w)
  /\ \A d \in t.locks :
       /\ t.writes[d].state # "none"
       /\ store[d].state # "none" \/ (r.op = "create" /\ r.draft = d)

\* A draft is created by one request.
OneCreator ==
  \A v, w \in Workers :
    req[v].op = "create" /\ req[w].op = "create" /\ req[v].draft = req[w].draft => v = w

IInv ==
  /\ StateOK
  /\ RowsOK
  /\ OneCreator
  /\ \A w \in Workers : RequestOK(w)

-----------------------------------------------------------------------------
(* What the statements of PooledDatabase do.                                *)

\* Lemma: an empty transaction.
LEMMA EmptyTx == NoTx \in Transaction /\ NoTx.locks = {} /\ DOMAIN NoTx.writes = {}
<1>1. <<>> \in [{} -> Row]
  OBVIOUS
<1>2. <<>> \in Writes
  BY <1>1 DEF Writes
<1> QED
  BY <1>1, <1>2 DEF NoTx, Transaction

\* Lemma: what a transaction has written is a row.
LEMMA WrittenIsRow ==
  ASSUME StateOK, NEW w \in Workers, NEW d \in tx[w].locks
  PROVE  tx[w].writes[d] \in Row /\ d \in Drafts
<1>1. tx[w] \in Transaction /\ DOMAIN tx[w].writes = tx[w].locks
  BY DEF StateOK
<1>2. PICK S \in SUBSET Drafts : tx[w].writes \in [S -> Row]
  BY <1>1 DEF Transaction, Writes
<1> QED
  BY <1>1, <1>2

\* Lemma: what a transaction sees.
LEMMA Seen ==
  ASSUME StateOK, NEW w \in Workers, NEW d \in Drafts
  PROVE  /\ Sees(w, d) \in Row
         /\ d \in tx[w].locks => Sees(w, d) = tx[w].writes[d]
         /\ d \notin tx[w].locks => Sees(w, d) = store[d]
<1>1. DOMAIN tx[w].writes = tx[w].locks /\ store[d] \in Row
  BY DEF StateOK
<1> QED
  BY <1>1, WrittenIsRow DEF Sees

\* Lemma: a statement that writes a row in an open transaction.
LEMMA Written ==
  ASSUME StateOK, NEW w \in Workers, NEW d \in Drafts, NEW row \in Row,
         tx[w].state = "open", Write(w, d, row)
  PROVE  /\ store' = store
         /\ tx' \in [Workers -> Transaction]
         /\ tx'[w].state = "open" /\ tx'[w].locks = tx[w].locks \cup {d}
         /\ DOMAIN tx'[w].writes = tx'[w].locks
         /\ tx'[w].writes[d] = row
         /\ \A e \in tx[w].locks \ {d} : tx'[w].writes[e] = tx[w].writes[e]
         /\ \A v \in Workers \ {w} : tx'[v] = tx[v]
         /\ \A v \in Workers \ {w} : d \notin tx[v].locks
<1>1. tx[w] \in Transaction /\ DOMAIN tx[w].writes = tx[w].locks /\ tx \in [Workers -> Transaction]
  BY DEF StateOK
<1> DEFINE new == [e \in DOMAIN tx[w].writes \cup {d} |-> IF e = d THEN row ELSE tx[w].writes[e]]
<1>2. /\ store' = store /\ Unlocked(w, d)
      /\ tx' = [tx EXCEPT ![w].writes = new, ![w].locks = @ \cup {d}]
  BY DEF Write
<1>4. new \in [tx[w].locks \cup {d} -> Row]
  BY <1>1, WrittenIsRow
<1>5. new \in Writes
  <2>1. tx[w].locks \cup {d} \in SUBSET Drafts
    BY <1>1 DEF Transaction
  <2> QED
    BY <1>4, <2>1 DEF Writes
<1>6. tx'[w] = [tx[w] EXCEPT !.writes = new, !.locks = @ \cup {d}] /\ \A v \in Workers \ {w} : tx'[v] = tx[v]
  BY <1>1, <1>2
<1>7. tx'[w] \in Transaction
  <2>1. tx'[w] = [state |-> tx[w].state, writes |-> new, locks |-> tx[w].locks \cup {d}]
    BY <1>1, <1>6 DEF Transaction
  <2> QED
    BY <1>1, <1>5, <2>1 DEF Transaction
<1> QED
  BY <1>1, <1>2, <1>4, <1>6, <1>7 DEF Unlocked, Workers, Transaction

-----------------------------------------------------------------------------
(* What a step of one request leaves as it is.                              *)

\* Lemma: what the other requests know, when the store does not change.
LEMMA OthersKnow ==
  ASSUME IInv, NEW w \in Workers, store' = store,
         \A v \in Workers \ {w} : tx'[v] = tx[v] /\ req'[v] = req[v]
  PROVE  \A v \in Workers \ {w} : RequestOK(v)'
<1> SUFFICES ASSUME NEW v \in Workers \ {w} PROVE RequestOK(v)'
  OBVIOUS
<1>1. RequestOK(v) /\ tx'[v] = tx[v] /\ req'[v] = req[v]
  BY DEF IInv
<1>2. Outcome(v) => Outcome(v)'
  BY <1>1 DEF Outcome, Marks
<1> QED
  BY <1>1, <1>2 DEF RequestOK

\* Lemma: a request's next step has a type.
LEMMA NextStep ==
  ASSUME StateOK, NEW w \in Workers, NEW r \in Request, Resume(w, r)
  PROVE  /\ req' \in [Workers -> Request] /\ requests' \in Nat
         /\ req'[w] = r /\ \A v \in Workers \ {w} : req'[v] = req[v]
BY DEF StateOK, Resume

\* Lemma: a request that stays what it is is no new creator.
LEMMA CreatorStays ==
  ASSUME OneCreator, NEW w \in Workers, \A v \in Workers \ {w} : req'[v] = req[v],
         req'[w].op = "create" => req[w].op = "create" /\ req'[w].draft = req[w].draft
  PROVE  OneCreator'
BY DEF OneCreator

\* Lemma: a step that reads or decides.
LEMMA Decides ==
  ASSUME IInv, NEW w \in Workers, NEW r \in Request, Resume(w, r), UNCHANGED <<store, tx>>,
         RequestOK(w)', r.op = "create" => req[w].op = "create" /\ r.draft = req[w].draft
  PROVE  IInv'
<1>1. /\ req' \in [Workers -> Request] /\ requests' \in Nat
      /\ req'[w] = r /\ \A v \in Workers \ {w} : req'[v] = req[v]
  BY NextStep DEF IInv
<1>2. StateOK'
  BY <1>1 DEF IInv, StateOK
<1>3. RowsOK'
  BY DEF IInv, RowsOK, Marks
<1>4. OneCreator'
  BY <1>1, CreatorStays DEF IInv
<1>5. \A v \in Workers \ {w} : RequestOK(v)'
  BY <1>1, OthersKnow
<1> QED
  BY <1>2, <1>3, <1>4, <1>5 DEF IInv

\* Lemma: a transaction that ends without effect.
LEMMA GivesUp ==
  ASSUME IInv, NEW w \in Workers, NEW r \in {Idle, Leaked}, RollbackTx(w), Resume(w, r)
  PROVE  IInv'
<1>1. r \in Request /\ r.op = "none" /\ r.at \in {"idle", "leaked"}
  <2>1. Idle \in Request /\ Idle.op = "none" /\ Idle.at = "idle"
    BY DEF Idle, Request, Step, Lifecycle
  <2>2. Leaked \in Request /\ Leaked.op = "none" /\ Leaked.at = "leaked"
    BY <2>1 DEF Leaked, Request, Step
  <2> QED
    BY <2>1, <2>2
<1>2. /\ req' \in [Workers -> Request] /\ requests' \in Nat
      /\ req'[w] = r /\ \A v \in Workers \ {w} : req'[v] = req[v]
  BY <1>1, NextStep DEF IInv
<1>3. /\ store' = store /\ tx'[w] = NoTx /\ \A v \in Workers \ {w} : tx'[v] = tx[v]
      /\ tx' \in [Workers -> Transaction]
  BY EmptyTx DEF RollbackTx, IInv, StateOK
<1>4. StateOK'
  BY <1>2, <1>3, EmptyTx DEF IInv, StateOK
<1>5. RowsOK'
  <2>1. \A v \in Workers, d \in Drafts : Marks(v, d)' => Marks(v, d)
    BY <1>3, EmptyTx DEF Marks
  <2>2. \A v \in Workers : v # w => tx'[v].locks = tx[v].locks
    BY <1>3
  <2>3. tx'[w].locks = {} /\ \A d \in Drafts : ~ Marks(w, d)'
    BY <1>3, EmptyTx DEF Marks
  <2> QED
    BY <1>3, <2>1, <2>2, <2>3 DEF IInv, RowsOK
<1>6. OneCreator'
  BY <1>1, <1>2, CreatorStays DEF IInv
<1>7. RequestOK(w)'
  BY <1>1, <1>2, <1>3, EmptyTx DEF RequestOK, Path
<1>8. \A v \in Workers \ {w} : RequestOK(v)'
  BY <1>2, <1>3, OthersKnow
<1> QED
  BY <1>4, <1>5, <1>6, <1>7, <1>8 DEF IInv

\* Whoever makes d primary had to wait for the index, or found it primary already.
MayBePrimary(w, d) ==
  \/ Sees(w, d).primary
  \/ IndexWait(w, d) = {} /\ ~ UniqueViolation(w, d)

\* Lemma: a draft made primary is the only one marked, and the store's primary draft is
\* in the hands of the same transaction.
LEMMA PrimaryIsAlone ==
  ASSUME IInv, NEW w \in Workers, NEW d \in Drafts, MayBePrimary(w, d), Unlocked(w, d)
  PROVE  /\ \A v \in Workers, e \in Drafts : Marks(v, e) => v = w /\ e = d
         /\ \A e \in Drafts : store[e].primary /\ e # d => e \in tx[w].locks
<1>1. StateOK /\ RowsOK /\ \A v \in Workers \ {w} : d \notin tx[v].locks
  BY DEF IInv, Unlocked, Workers
<1>2. CASE Sees(w, d).primary /\ d \in tx[w].locks
  <2>1. Marks(w, d)
    BY <1>1, <1>2, Seen DEF Marks
  <2> QED
    BY <1>1, <2>1 DEF RowsOK
<1>3. CASE Sees(w, d).primary /\ d \notin tx[w].locks
  <2>1. store[d].primary /\ \A v \in Workers : d \notin tx[v].locks
    BY <1>1, <1>3, Seen
  <2>2. \A v \in Workers, e \in Drafts : ~ Marks(v, e)
    BY <1>1, <2>1 DEF RowsOK, Marks
  <2> QED
    BY <1>1, <2>1, <2>2 DEF RowsOK
<1>4. CASE IndexWait(w, d) = {} /\ ~ UniqueViolation(w, d)
  <2>1. ASSUME NEW v \in Workers \ {w}, NEW e \in Drafts, Marks(v, e) PROVE FALSE
    <3>1. e \in tx[v].locks \ {d} /\ Sees(v, e).primary
      BY <1>1, <2>1, Seen DEF Marks
    <3> QED
      BY <1>4, <3>1 DEF IndexWait
  <2>2. ASSUME NEW e \in Drafts \ {d} PROVE ~ Sees(w, e).primary
    BY <1>4 DEF UniqueViolation
  <2>3. ASSUME NEW e \in Drafts, Marks(w, e) PROVE e = d
    BY <1>1, <2>2, <2>3, Seen DEF Marks
  <2>4. ASSUME NEW e \in Drafts, store[e].primary, e # d PROVE e \in tx[w].locks
    BY <1>1, <2>2, <2>4, Seen
  <2> QED
    BY <2>1, <2>3, <2>4
<1> QED
  BY <1>2, <1>3, <1>4 DEF MayBePrimary

\* Lemma: a statement that writes one row.
LEMMA WritesRow ==
  ASSUME IInv, NEW w \in Workers, NEW d \in Drafts, NEW row \in Row, NEW r \in Request,
         tx[w].state = "open", Write(w, d, row), Resume(w, r), RequestOK(w)',
         r.op = req[w].op, r.draft = req[w].draft,
         row.primary => MayBePrimary(w, d)
  PROVE  IInv'
<1>1. /\ req' \in [Workers -> Request] /\ requests' \in Nat
      /\ req'[w] = r /\ \A v \in Workers \ {w} : req'[v] = req[v]
  BY NextStep DEF IInv
<1>2. /\ store' = store
      /\ tx' \in [Workers -> Transaction]
      /\ tx'[w].locks = tx[w].locks \cup {d}
      /\ DOMAIN tx'[w].writes = tx'[w].locks
      /\ tx'[w].writes[d] = row
      /\ \A e \in tx[w].locks \ {d} : tx'[w].writes[e] = tx[w].writes[e]
      /\ \A v \in Workers \ {w} : tx'[v] = tx[v]
      /\ \A v \in Workers \ {w} : d \notin tx[v].locks
  BY Written DEF IInv
<1>3. StateOK'
  BY <1>1, <1>2 DEF IInv, StateOK
<1>4. RowsOK'
  <2>1. Unlocked(w, d) /\ RowsOK
    BY DEF Write, IInv
  <2>2. \A v \in Workers \ {w}, e \in Drafts : Marks(v, e)' <=> Marks(v, e)
    BY <1>2 DEF Marks
  <2>3. \A e \in Drafts \ {d} : Marks(w, e)' <=> Marks(w, e)
    BY <1>2 DEF Marks
  <2>4. Marks(w, d)' <=> row.primary
    BY <1>2 DEF Marks
  <2>5. CASE row.primary
    <3>1. /\ \A v \in Workers, e \in Drafts : Marks(v, e) => v = w /\ e = d
          /\ \A e \in Drafts : store[e].primary /\ e # d => e \in tx[w].locks
      BY <2>1, <2>5, PrimaryIsAlone
    <3>2. \A v \in Workers, e \in Drafts : Marks(v, e)' => v = w /\ e = d
      BY <2>2, <2>3, <3>1
    <3> QED
      BY <1>2, <2>1, <3>1, <3>2 DEF RowsOK
  <2>6. CASE ~ row.primary
    <3>1. \A v \in Workers, e \in Drafts : Marks(v, e)' => Marks(v, e)
      BY <2>2, <2>3, <2>4, <2>6
    <3>2. \A v \in Workers : tx[v].locks \subseteq tx'[v].locks
      BY <1>2
    <3>3. \A u, v \in Workers : u # v => tx'[u].locks \cap tx'[v].locks = {}
      BY <1>2, <2>1 DEF RowsOK
    <3> QED
      BY <1>2, <2>1, <3>1, <3>2, <3>3 DEF RowsOK
  <2> QED
    BY <2>5, <2>6
<1>5. OneCreator'
  BY <1>1, CreatorStays DEF IInv
<1>6. \A v \in Workers \ {w} : RequestOK(v)'
  BY <1>1, <1>2, OthersKnow
<1> QED
  BY <1>3, <1>4, <1>5, <1>6 DEF IInv

\* Lemma: COMMIT, and what the other requests know keeps being so.
LEMMA Commits ==
  ASSUME IInv, NEW w \in Workers, Commit(w)
  PROVE  IInv'
<1>1. StateOK /\ RowsOK /\ OneCreator /\ RequestOK(w) /\ tx[w].state = "open"
  BY DEF IInv, Commit, At, Busy, RequestOK
<1>2. Idle \in Request
  BY DEF Idle, Request, Step, Lifecycle
<1>3. /\ req' \in [Workers -> Request] /\ requests' \in Nat
      /\ req'[w] = Idle /\ \A v \in Workers \ {w} : req'[v] = req[v]
  BY <1>1, <1>2, NextStep DEF Commit
<1>4. /\ tx'[w] = NoTx /\ \A v \in Workers \ {w} : tx'[v] = tx[v]
      /\ tx' \in [Workers -> Transaction]
  BY <1>1, EmptyTx DEF Commit, CommitTx, StateOK
<1>5. store' = [d \in Drafts |-> Sees(w, d)]
  BY <1>1 DEF Commit, CommitTx, Drafts
<1>6. /\ \A d \in tx[w].locks : store'[d] = tx[w].writes[d]
      /\ \A d \in Drafts \ tx[w].locks : store'[d] = store[d]
      /\ store' \in [Drafts -> Row]
  BY <1>1, <1>5, Seen DEF StateOK, Transaction
<1>7. StateOK'
  BY <1>1, <1>3, <1>4, <1>6, EmptyTx DEF StateOK
<1>8. RowsOK'
  <2>1. /\ \A v \in Workers \ {w} : tx'[v].locks = tx[v].locks
        /\ \A v \in Workers \ {w}, d \in Drafts : Marks(v, d)' <=> Marks(v, d)
    BY <1>4 DEF Marks
  <2>2. tx'[w].locks = {} /\ \A d \in Drafts : ~ Marks(w, d)'
    BY <1>4, EmptyTx DEF Marks
  <2>3. \A d \in Drafts : store'[d].primary => Marks(w, d) \/ (d \notin tx[w].locks /\ store[d].primary)
    BY <1>6 DEF Marks
  <2>4. \A d, e \in Drafts : store'[d].primary /\ store'[e].primary => d = e
    BY <1>1, <2>3 DEF RowsOK
  <2>5. ASSUME NEW v \in Workers, NEW d \in Drafts, NEW e \in Drafts,
               Marks(v, d)', store'[e].primary, e # d
        PROVE  e \in tx'[v].locks
    <3>1. v # w /\ Marks(v, d)
      BY <2>1, <2>2, <2>5
    <3>2. ~ Marks(w, e)
      BY <1>1, <3>1, <2>5 DEF RowsOK
    <3> QED
      BY <1>1, <2>1, <2>3, <2>5, <3>1, <3>2 DEF RowsOK
  <2>6. \A u, v \in Workers : u # v => tx'[u].locks \cap tx'[v].locks = {}
    BY <1>1, <2>1, <2>2 DEF RowsOK
  <2>7. \A u, v \in Workers, d, e \in Drafts : Marks(u, d)' /\ Marks(v, e)' => u = v /\ d = e
    BY <1>1, <2>1, <2>2 DEF RowsOK
  <2> QED
    BY <2>4, <2>5, <2>6, <2>7 DEF RowsOK
<1>9. OneCreator'
  BY <1>1, <1>3, CreatorStays DEF Idle
<1>10. RequestOK(w)'
  BY <1>3, <1>4, EmptyTx DEF RequestOK, Idle, Path
<1>11. ASSUME NEW v \in Workers \ {w} PROVE RequestOK(v)'
  <2>1. RequestOK(v) /\ tx'[v] = tx[v] /\ req'[v] = req[v]
    BY <1>3, <1>4 DEF IInv
  <2>2. \A d \in tx[v].locks : d \in Drafts /\ store'[d] = store[d]
    BY <1>1, <1>6 DEF RowsOK, StateOK, Transaction
  <2>3. \A d \in Drafts : store[d].state # "none" => store'[d].state # "none"
    BY <1>1, <1>6 DEF RequestOK
  <2>4. Outcome(v) => Outcome(v)'
    BY <2>1, <2>2 DEF Outcome, Marks
  <2>5. req[v].op = "create" => store'[req[v].draft] = Absent
    <3> SUFFICES ASSUME req[v].op = "create" PROVE store'[req[v].draft] = Absent
      OBVIOUS
    <3>1. store[req[v].draft] = Absent /\ req[v].draft \in Drafts
      BY <2>1 DEF RequestOK, Path
    <3>2. req[v].draft \notin tx[w].locks
      BY <1>1, <3>1 DEF RequestOK, OneCreator, Absent
    <3> QED
      BY <1>6, <3>1, <3>2
  <2>6. req[v].left \subseteq Drafts /\ (req[v].at \notin {"idle", "leaked"} => req[v].draft \in Drafts)
    BY <1>1, <2>1 DEF StateOK, Request, RequestOK
  <2> QED
    BY <2>1, <2>2, <2>3, <2>4, <2>5, <2>6 DEF RequestOK
<1> QED
  BY <1>7, <1>8, <1>9, <1>10, <1>11 DEF IInv

-----------------------------------------------------------------------------
(* The actions.                                                             *)

\* Lemma: what a request at work is in, and knows.
LEMMA AtWork ==
  ASSUME IInv, NEW w \in Workers, w \in Busy
  PROVE  /\ StateOK /\ RequestOK(w) /\ req[w] \in Request
         /\ req[w].draft \in Drafts /\ tx[w].state = "open"
BY DEF IInv, StateOK, RequestOK, Busy, At

\* Lemma: which functions have a step, and where they go from there.
LEMMA Steps ==
  ASSUME NEW r \in Request, r.at \in Path[r.op]
  PROVE  /\ r.at \in {"count", "insert"} => r.op = "create"
         /\ r.at = "promote" => r.op = "setPrimary"
         /\ r.at \in {"demote", "demoting"} => r.op \in {"create", "setPrimary"}
         /\ r.at \in {"read", "update", "unset", "candidate", "successor"} => r.op = "update"
         /\ r.op = "create" => {"count", "demote", "demoting", "insert", "commit"} \subseteq Path[r.op]
         /\ r.op = "setPrimary" => {"demote", "demoting", "promote", "commit"} \subseteq Path[r.op]
         /\ r.op = "update" => {"update", "unset", "candidate", "successor", "commit"} \subseteq Path[r.op]
<1>1. r.op \in {"none", "create", "setPrimary", "update"}
  BY DEF Request
<1> QED
  BY <1>1 DEF Path

\* Lemma: a transaction begins for a draft nobody else creates.
LEMMA Begins ==
  ASSUME IInv, NEW w \in Workers, NEW r \in Request, Begin(w, r),
         r.op # "none", r.at \in Path[r.op] \cap {"count", "demote", "read"}, r.draft \in Drafts,
         r.at = "read" => r.goal \in {"active", "archived", "keep"},
         r.op = "create" => r.at = "count" /\ store[r.draft] = Absent /\ \A v \in Workers : req[v].draft # r.draft
  PROVE  IInv'
<1>1. StateOK /\ OneCreator /\ tx[w] = NoTx
  BY DEF IInv, Begin, At, Busy, RequestOK
<1>2. /\ req' \in [Workers -> Request] /\ requests' \in Nat /\ store' = store
      /\ req'[w] = r /\ \A v \in Workers \ {w} : req'[v] = req[v]
  BY <1>1 DEF Begin, StateOK, BeginTx
<1>3. /\ tx'[w] = [NoTx EXCEPT !.state = "open"] /\ \A v \in Workers \ {w} : tx'[v] = tx[v]
      /\ tx' = [tx EXCEPT ![w] = [NoTx EXCEPT !.state = "open"]]
  BY <1>1 DEF Begin, BeginTx, StateOK, NoTx
<1>4. /\ tx'[w].state = "open" /\ tx'[w].locks = {} /\ DOMAIN tx'[w].writes = {}
      /\ tx' \in [Workers -> Transaction]
  BY <1>1, <1>3, EmptyTx DEF StateOK, Transaction, NoTx
<1>5. StateOK'
  BY <1>1, <1>2, <1>3, <1>4 DEF StateOK
<1>6. RowsOK'
  <2>1. \A v \in Workers : tx'[v].locks = tx[v].locks
    BY <1>1, <1>3, <1>4 DEF NoTx
  <2>2. \A v \in Workers, d \in Drafts : Marks(v, d)' <=> Marks(v, d)
    BY <1>1, <1>3, <1>4, EmptyTx DEF Marks
  <2> QED
    BY <1>2, <2>1, <2>2 DEF IInv, RowsOK
<1>7. OneCreator'
  BY <1>1, <1>2 DEF OneCreator
<1>8. RequestOK(w)'
  BY <1>2, <1>4 DEF RequestOK, Path
<1>9. \A v \in Workers \ {w} : RequestOK(v)'
  BY <1>2, <1>3, OthersKnow
<1> QED
  BY <1>5, <1>6, <1>7, <1>8, <1>9 DEF IInv

\* Lemma: requests arrive.
LEMMA Arrives ==
  ASSUME IInv, NEW w \in Workers, Arrival(w)
  PROVE  IInv'
<1>1. ASSUME NEW d \in Drafts, NEW goal \in {"primary", "any"}, CreateDraft(w, d, goal)
      PROVE  IInv'
  <2> DEFINE r == [Idle EXCEPT !.op = "create", !.at = "count", !.draft = d, !.goal = goal]
  <2>1. r \in Request
    BY DEF Idle, Request, Step
  <2> QED
    BY <1>1, <2>1, Begins DEF CreateDraft, Idle, Path
<1>2. ASSUME NEW d \in Drafts, SetPrimaryDraft(w, d)
      PROVE  IInv'
  <2> DEFINE r == [Idle EXCEPT !.op = "setPrimary", !.at = "demote", !.draft = d]
  <2>1. r \in Request
    BY DEF Idle, Request, Step, Lifecycle
  <2> QED
    BY <1>2, <2>1, Begins DEF SetPrimaryDraft, Idle, Path
<1>3. ASSUME NEW d \in Drafts, NEW goal \in {"active", "archived", "keep"}, UpdateDraft(w, d, goal)
      PROVE  IInv'
  <2> DEFINE r == [Idle EXCEPT !.op = "update", !.at = "read", !.draft = d, !.goal = goal]
  <2>1. r \in Request
    BY DEF Idle, Request, Step, Lifecycle
  <2> QED
    BY <1>3, <2>1, Begins DEF UpdateDraft, Idle, Path
<1> QED
  BY <1>1, <1>2, <1>3 DEF Arrival

\* Lemma: the statements of createDraft and setPrimaryDraft before the last one.
LEMMA Demotes ==
  ASSUME IInv, NEW w \in Workers, CountPrimaries(w) \/ Demote(w) \/ DemoteRow(w) \/ EndDemote(w)
  PROVE  IInv'
<1>1. CASE CountPrimaries(w)
  <2>1. /\ StateOK /\ RequestOK(w) /\ req[w] \in Request /\ req[w].at = "count"
        /\ req[w].draft \in Drafts /\ tx[w].state = "open"
    BY <1>1, AtWork DEF CountPrimaries, At, Busy
  <2>2. PICK asked \in BOOLEAN :
          /\ Resume(w, [req[w] EXCEPT !.was = asked, !.at = IF asked THEN "demote" ELSE "insert"])
          /\ UNCHANGED <<store, tx>>
    BY <1>1 DEF CountPrimaries
  <2> DEFINE r == [req[w] EXCEPT !.was = asked, !.at = IF asked THEN "demote" ELSE "insert"]
  <2>3. r \in Request /\ r.at = (IF asked THEN "demote" ELSE "insert") /\ r.was = asked
        /\ r.op = req[w].op /\ r.draft = req[w].draft /\ r.left = req[w].left
    BY <2>1 DEF Request, Step
  <2>4. req'[w] = r
    BY <2>1, <2>2, <2>3, NextStep
  <2>5. r.op = "create" /\ r.at \in Path[r.op]
    BY <2>1, <2>3, Steps DEF RequestOK
  <2>6. RequestOK(w)'
    BY <2>1, <2>2, <2>3, <2>4, <2>5 DEF RequestOK
  <2> QED
    BY <2>2, <2>3, <2>6, Decides
<1>2. CASE Demote(w)
  <2>1. /\ StateOK /\ RequestOK(w) /\ req[w] \in Request /\ req[w].at = "demote"
        /\ req[w].draft \in Drafts /\ tx[w].state = "open" /\ tx[w].locks = {}
    BY <1>2, AtWork DEF Demote, At, Busy, RequestOK
  <2> DEFINE r == [req[w] EXCEPT !.at = "demoting", !.left = Visible(w)]
  <2>2. Resume(w, r) /\ UNCHANGED <<store, tx>>
    BY <1>2 DEF Demote
  <2>3. Visible(w) \subseteq Drafts /\ \A d \in Visible(w) : store[d].state # "none"
    BY <2>1, Seen DEF Visible
  <2>4. r \in Request /\ r.at = "demoting" /\ r.left = Visible(w) /\ r.op = req[w].op
        /\ r.draft = req[w].draft
    BY <2>1, <2>3 DEF Request, Step
  <2>5. req'[w] = r
    BY <2>1, <2>2, <2>4, NextStep
  <2>6. r.op \in {"create", "setPrimary"} /\ r.at \in Path[r.op]
    BY <2>1, <2>4, Steps DEF RequestOK
  <2>7. RequestOK(w)'
    BY <2>1, <2>2, <2>3, <2>4, <2>5, <2>6 DEF RequestOK
  <2> QED
    BY <2>2, <2>4, <2>7, Decides
<1>3. CASE DemoteRow(w)
  <2>1. /\ StateOK /\ RequestOK(w) /\ req[w] \in Request /\ req[w].at = "demoting"
        /\ req[w].draft \in Drafts /\ tx[w].state = "open"
    BY <1>3, AtWork DEF DemoteRow, At, Busy
  <2>2. PICK d \in req[w].left :
          /\ Write(w, d, [Sees(w, d) EXCEPT !.primary = FALSE])
          /\ Resume(w, [req[w] EXCEPT !.left = @ \ {d}])
    BY <1>3 DEF DemoteRow
  <2> DEFINE row == [Sees(w, d) EXCEPT !.primary = FALSE]
             r == [req[w] EXCEPT !.left = @ \ {d}]
  <2>3. d \in Drafts /\ store[d].state # "none"
    BY <2>1 DEF Request, RequestOK
  <2>4. Sees(w, d) \in Row /\ Sees(w, d).state # "none"
    BY <2>1, <2>3, Seen DEF RequestOK
  <2>5. row \in Row /\ row.state = Sees(w, d).state /\ ~ row.primary
    BY <2>4 DEF Row
  <2>6. r \in Request /\ r.at = "demoting" /\ r.left \subseteq req[w].left /\ r.op = req[w].op
        /\ r.draft = req[w].draft
    BY <2>1 DEF Request
  <2>7. /\ store' = store /\ tx'[w].state = "open" /\ tx'[w].locks = tx[w].locks \cup {d}
        /\ tx'[w].writes[d] = row
        /\ \A e \in tx[w].locks \ {d} : tx'[w].writes[e] = tx[w].writes[e]
    BY <2>1, <2>2, <2>3, <2>5, Written
  <2>8. req'[w] = r
    BY <2>1, <2>2, <2>6, NextStep
  <2>9. RequestOK(w)'
    <3>1. r.op \in {"create", "setPrimary"} /\ r.at \in Path[r.op] /\ r.was = req[w].was
      BY <2>1, <2>6, Steps DEF RequestOK, Request
    <3>2. \A e \in tx'[w].locks :
            /\ tx'[w].writes[e].state # "none"
            /\ store'[e].state # "none" \/ (r.op = "create" /\ r.draft = e)
      <4> SUFFICES ASSUME NEW e \in tx[w].locks \cup {d}
                   PROVE  /\ tx'[w].writes[e].state # "none"
                          /\ store[e].state # "none" \/ (req[w].op = "create" /\ req[w].draft = e)
        BY <2>6, <2>7
      <4>1. CASE e = d
        BY <2>3, <2>4, <2>5, <2>7, <4>1
      <4>2. CASE e # d
        BY <2>1, <2>7, <4>2 DEF RequestOK
      <4> QED
        BY <4>1, <4>2
    <3>3. \A e \in r.left : store'[e].state # "none"
      BY <2>1, <2>6, <2>7 DEF RequestOK
    <3> QED
      BY <2>1, <2>6, <2>7, <2>8, <3>1, <3>2, <3>3 DEF RequestOK
  <2> QED
    BY <2>1, <2>2, <2>3, <2>5, <2>6, <2>9, WritesRow
<1>4. CASE EndDemote(w)
  <2>1. /\ StateOK /\ RequestOK(w) /\ req[w] \in Request /\ req[w].at = "demoting"
        /\ req[w].draft \in Drafts /\ tx[w].state = "open"
    BY <1>4, AtWork DEF EndDemote, At, Busy
  <2> DEFINE step == IF req[w].op = "create" THEN "insert" ELSE "promote"
             r == [req[w] EXCEPT !.at = step]
  <2>2. Resume(w, r) /\ UNCHANGED <<store, tx>>
    BY <1>4 DEF EndDemote, Goto
  <2>3. r \in Request /\ r.at = step /\ r.op = req[w].op /\ r.draft = req[w].draft /\ r.left = req[w].left
        /\ r.was = req[w].was
    BY <2>1 DEF Request, Step
  <2>4. req'[w] = r
    BY <2>1, <2>2, <2>3, NextStep
  <2>5. /\ req[w].op \in {"create", "setPrimary"} /\ r.at \in Path[r.op]
        /\ r.op = "create" => r.was
    BY <2>1, <2>3, Steps DEF RequestOK
  <2>6. RequestOK(w)'
    BY <2>1, <2>2, <2>3, <2>4, <2>5 DEF RequestOK
  <2> QED
    BY <2>2, <2>3, <2>6, Decides
<1> QED
  BY <1>1, <1>2, <1>3, <1>4

\* Lemma: the statement that may make a draft primary, the last before COMMIT.
LEMMA Puts ==
  ASSUME IInv, NEW w \in Workers, NEW d \in Drafts, NEW row \in Row,
         w \in Busy, PutRow(w, d, row), row.state # "none",
         req[w].op \in {"create", "setPrimary", "update"},
         store[d].state # "none" \/ (req[w].op = "create" /\ req[w].draft = d),
         ~ row.primary => tx[w].locks = {} /\ ~ store[d].primary
  PROVE  IInv'
<1>1. /\ StateOK /\ RequestOK(w) /\ req[w] \in Request
      /\ req[w].draft \in Drafts /\ tx[w].state = "open"
  BY AtWork
<1>2. CASE row.primary /\ UniqueViolation(w, d)
  BY <1>2, GivesUp DEF PutRow
<1>3. CASE ~ (row.primary /\ UniqueViolation(w, d))
  <2> DEFINE r == [req[w] EXCEPT !.at = "commit"]
  <2>1. Write(w, d, row) /\ Resume(w, r) /\ (row.primary => MayBePrimary(w, d))
    BY <1>3 DEF PutRow, Goto, MayBePrimary
  <2>2. r \in Request /\ r.at = "commit" /\ r.op = req[w].op /\ r.draft = req[w].draft
    BY <1>1 DEF Request, Step
  <2>3. req'[w] = r
    BY <1>1, <2>1, <2>2, NextStep
  <2>4. /\ store' = store /\ tx'[w].state = "open" /\ tx'[w].locks = tx[w].locks \cup {d}
        /\ tx'[w].writes[d] = row
        /\ \A e \in tx[w].locks \ {d} : tx'[w].writes[e] = tx[w].writes[e]
    BY <1>1, <2>1, Written
  <2>5. Outcome(w)'
    <3>1. CASE row.primary
      BY <2>4, <3>1 DEF Outcome, Marks
    <3>2. CASE ~ row.primary
      <4>1. tx'[w].locks = {d} /\ row.primary = store[d].primary
        BY <1>1, <2>4, <3>2 DEF StateOK, Row
      <4> QED
        BY <2>4, <4>1 DEF Outcome
    <3> QED
      BY <3>1, <3>2
  <2>6. \A e \in tx'[w].locks :
          /\ tx'[w].writes[e].state # "none"
          /\ store'[e].state # "none" \/ (req[w].op = "create" /\ req[w].draft = e)
    <3> SUFFICES ASSUME NEW e \in tx[w].locks \cup {d}
                 PROVE  /\ tx'[w].writes[e].state # "none"
                        /\ store[e].state # "none" \/ (req[w].op = "create" /\ req[w].draft = e)
      BY <2>4
    <3>1. CASE e = d
      BY <2>4, <3>1
    <3>2. CASE e # d
      BY <1>1, <2>4, <3>2 DEF RequestOK
    <3> QED
      BY <3>1, <3>2
  <2>7. "commit" \in Path[req[w].op]
    BY DEF Path
  <2>8. RequestOK(w)'
    BY <1>1, <2>2, <2>3, <2>4, <2>5, <2>6, <2>7 DEF RequestOK
  <2> QED
    BY <1>1, <2>1, <2>2, <2>8, WritesRow
<1> QED
  BY <1>2, <1>3

\* Lemma: the last statements of createDraft and setPrimaryDraft.
LEMMA Promotes ==
  ASSUME IInv, NEW w \in Workers, InsertDraft(w) \/ Promote(w) \/ PromoteSuccessor(w)
  PROVE  IInv'
<1>1. CASE InsertDraft(w)
  <2> DEFINE row == [state |-> "active", primary |-> req[w].was]
  <2>1. /\ StateOK /\ RequestOK(w) /\ req[w] \in Request /\ req[w].at = "insert"
        /\ req[w].draft \in Drafts /\ w \in Busy
    BY <1>1, AtWork DEF InsertDraft, At, Busy
  <2>2. req[w].op = "create" /\ store[req[w].draft] = Absent /\ (~ req[w].was => tx[w].locks = {})
    BY <2>1, Steps DEF RequestOK
  <2>3. row \in Row /\ row.state # "none" /\ row.primary = req[w].was
    BY <2>1 DEF Row, Lifecycle, Request
  <2> QED
    BY <1>1, <2>1, <2>2, <2>3, Puts DEF InsertDraft, Absent
<1>2. CASE Promote(w)
  <2> DEFINE d == req[w].draft
             row == [Sees(w, d) EXCEPT !.primary = TRUE]
  <2>1. /\ StateOK /\ RequestOK(w) /\ req[w] \in Request /\ req[w].at = "promote"
        /\ d \in Drafts /\ w \in Busy
    BY <1>2, AtWork DEF Promote, At, Busy
  <2>2. CASE Sees(w, d).state # "active"
    BY <1>2, <2>2, GivesUp DEF Promote
  <2>3. CASE Sees(w, d).state = "active"
    <3>1. req[w].op = "setPrimary" /\ Sees(w, d) \in Row
      BY <2>1, Steps, Seen DEF RequestOK
    <3>2. row \in Row /\ row.state = "active" /\ row.primary
      BY <2>3, <3>1 DEF Row
    <3>3. store[d].state # "none"
      BY <2>1, <2>3, <3>1, Seen DEF RequestOK
    <3> QED
      BY <1>2, <2>1, <2>3, <3>1, <3>2, <3>3, Puts DEF Promote
  <2> QED
    BY <2>2, <2>3
<1>3. CASE PromoteSuccessor(w)
  <2>1. /\ StateOK /\ RequestOK(w) /\ req[w] \in Request /\ req[w].at = "successor"
        /\ w \in Busy
    BY <1>3, AtWork DEF PromoteSuccessor, At, Busy
  <2>2. PICK d \in req[w].left : PutRow(w, d, [Sees(w, d) EXCEPT !.primary = TRUE])
    BY <1>3 DEF PromoteSuccessor
  <2> DEFINE row == [Sees(w, d) EXCEPT !.primary = TRUE]
  <2>3. d \in Drafts /\ store[d].state # "none" /\ req[w].op = "update"
    BY <2>1, Steps DEF Request, RequestOK
  <2>4. Sees(w, d) \in Row /\ Sees(w, d).state # "none"
    BY <2>1, <2>3, Seen DEF RequestOK
  <2>5. row \in Row /\ row.state # "none" /\ row.primary
    BY <2>4 DEF Row
  <2> QED
    BY <2>1, <2>2, <2>3, <2>5, Puts
<1> QED
  BY <1>1, <1>2, <1>3

\* Lemma: the statements of updateDraft.
LEMMA Updates ==
  ASSUME IInv, NEW w \in Workers, ReadDraft(w) \/ UpdateRow(w) \/ Unset(w) \/ ChooseSuccessor(w)
  PROVE  IInv'
<1> DEFINE d == req[w].draft
<1>1. CASE ReadDraft(w)
  <2>1. /\ StateOK /\ RequestOK(w) /\ req[w] \in Request /\ req[w].at = "read"
        /\ d \in Drafts /\ tx[w].state = "open" /\ tx[w].locks = {}
    BY <1>1, AtWork DEF ReadDraft, At, Busy, RequestOK
  <2>2. CASE Sees(w, d).state = "none"
    BY <1>1, <2>2, GivesUp DEF ReadDraft, Leak
  <2>3. CASE Sees(w, d).state # "none"
    <3>1. Sees(w, d) = store[d] /\ store[d] \in Row
      BY <2>1, Seen
    <3> DEFINE r == [req[w] EXCEPT !.at = "update", !.was = store[d].primary,
                                   !.goal = IF @ = "keep" THEN store[d].state ELSE @]
    <3>2. Resume(w, r) /\ UNCHANGED <<store, tx>>
      BY <1>1, <2>3, <3>1 DEF ReadDraft
    <3>3. req[w].op = "update" /\ req[w].goal \in {"active", "archived", "keep"}
      BY <2>1, Steps DEF RequestOK
    <3>4. r \in Request /\ r.at = "update" /\ r.op = req[w].op /\ r.draft = d
          /\ r.goal \in {"active", "archived"}
      BY <2>1, <2>3, <3>1, <3>3 DEF Request, Row, Step, Lifecycle
    <3>5. req'[w] = r /\ "update" \in Path["update"]
      BY <2>1, <3>2, <3>4, NextStep DEF Path
    <3>6. RequestOK(w)'
      BY <2>1, <2>3, <3>1, <3>2, <3>3, <3>4, <3>5 DEF RequestOK
    <3> QED
      BY <3>2, <3>3, <3>4, <3>6, Decides
  <2> QED
    BY <2>2, <2>3
<1>2. CASE UpdateRow(w)
  <2>1. /\ StateOK /\ RequestOK(w) /\ req[w] \in Request /\ req[w].at = "update"
        /\ d \in Drafts /\ tx[w].state = "open" /\ tx[w].locks = {}
    BY <1>2, AtWork DEF UpdateRow, At, Busy, RequestOK
  <2>2. /\ req[w].op = "update" /\ req[w].goal \in {"active", "archived"}
        /\ store[d].state # "none" /\ store[d] \in Row /\ Sees(w, d) = store[d]
    BY <2>1, Steps, Seen DEF RequestOK
  <2> DEFINE row  == [store[d] EXCEPT !.state = req[w].goal]
             step == IF req[w].goal = "archived" /\ req[w].was THEN "unset" ELSE "commit"
             r    == [req[w] EXCEPT !.at = step]
  <2>3. Write(w, d, row) /\ Resume(w, r)
    BY <1>2, <2>2 DEF UpdateRow, Goto
  <2>4. row \in Row /\ row.state = req[w].goal /\ row.primary = store[d].primary
    BY <2>2 DEF Row, Lifecycle
  <2>5. r \in Request /\ r.at = step /\ r.op = req[w].op /\ r.draft = d
    BY <2>1 DEF Request, Step
  <2>6. req'[w] = r
    BY <2>1, <2>3, <2>5, NextStep
  <2>7. /\ store' = store /\ tx'[w].state = "open" /\ tx'[w].locks = {d} /\ tx'[w].writes[d] = row
    BY <2>1, <2>3, <2>4, Written
  <2>8. Outcome(w)'
    BY <2>4, <2>7 DEF Outcome
  <2>9. r.at \in Path[r.op]
    BY <2>2, <2>5 DEF Path
  <2>10. RequestOK(w)'
    <3>1. /\ req'[w].op = "update" /\ req'[w].draft = d /\ req'[w].at \in {"unset", "commit"}
          /\ req'[w].at = "unset" => req[w].goal = "archived"
          /\ req'[w].at \in Path[req'[w].op]
      BY <2>2, <2>5, <2>6, <2>9
    <3>2. /\ tx'[w].state = "open" /\ tx'[w].locks = {d} /\ tx'[w].writes[d].state = req[w].goal
          /\ store'[d].state # "none"
      BY <2>2, <2>4, <2>7
    <3> QED
      BY <2>1, <2>2, <2>8, <3>1, <3>2 DEF RequestOK
  <2>11. row.primary => MayBePrimary(w, d)
    BY <2>2, <2>4 DEF MayBePrimary
  <2> QED
    BY <2>1, <2>3, <2>4, <2>5, <2>10, <2>11, WritesRow
<1>3. CASE Unset(w)
  <2>1. /\ StateOK /\ RequestOK(w) /\ req[w] \in Request /\ req[w].at = "unset"
        /\ d \in Drafts /\ tx[w].state = "open" /\ tx[w].locks = {d} /\ tx[w].writes[d].state = "archived"
    BY <1>3, AtWork DEF Unset, At, Busy, RequestOK
  <2>2. /\ req[w].op = "update" /\ Sees(w, d) = tx[w].writes[d] /\ Sees(w, d) \in Row
        /\ store[d].state # "none"
    BY <2>1, Steps, Seen DEF RequestOK
  <2> DEFINE row == [Sees(w, d) EXCEPT !.primary = FALSE]
             r   == [req[w] EXCEPT !.at = "candidate"]
  <2>3. Write(w, d, row) /\ Resume(w, r)
    BY <1>3 DEF Unset, Goto
  <2>4. row \in Row /\ row.state = "archived" /\ ~ row.primary
    BY <2>1, <2>2 DEF Row
  <2>5. r \in Request /\ r.at = "candidate" /\ r.op = req[w].op /\ r.draft = d
    BY <2>1 DEF Request, Step
  <2>6. req'[w] = r
    BY <2>1, <2>3, <2>5, NextStep
  <2>7. /\ store' = store /\ tx'[w].state = "open" /\ tx'[w].locks = {d} /\ tx'[w].writes[d] = row
    BY <2>1, <2>3, <2>4, Written
  <2>8. r.at \in Path[r.op]
    BY <2>2, <2>5 DEF Path
  <2>9. RequestOK(w)'
    <3>1. /\ req'[w].op = "update" /\ req'[w].draft = d /\ req'[w].at = "candidate"
          /\ req'[w].at \in Path[req'[w].op]
      BY <2>2, <2>5, <2>6, <2>8
    <3>2. /\ tx'[w].state = "open" /\ tx'[w].locks = {d} /\ tx'[w].writes[d].state = "archived"
          /\ store'[d].state # "none"
      BY <2>2, <2>4, <2>7
    <3> QED
      BY <2>1, <3>1, <3>2 DEF RequestOK
  <2> QED
    BY <2>1, <2>3, <2>4, <2>5, <2>9, WritesRow
<1>4. CASE ChooseSuccessor(w)
  <2>1. /\ StateOK /\ RequestOK(w) /\ req[w] \in Request /\ req[w].at = "candidate"
        /\ d \in Drafts /\ tx[w].state = "open" /\ tx[w].locks = {d} /\ tx[w].writes[d].state = "archived"
    BY <1>4, AtWork DEF ChooseSuccessor, At, Busy, RequestOK
  <2>2. req[w].op = "update"
    BY <2>1, Steps DEF RequestOK
  <2>3. UNCHANGED <<store, tx>>
    BY <1>4 DEF ChooseSuccessor
  <2>4. CASE Resume(w, [req[w] EXCEPT !.at = "commit", !.sole = TRUE])
    <3> DEFINE r == [req[w] EXCEPT !.at = "commit", !.sole = TRUE]
    <3>1. Resume(w, r)
      BY <2>4
    <3>2. r \in Request /\ r.at = "commit" /\ r.op = req[w].op /\ r.draft = d /\ r.sole
      BY <2>1 DEF Request, Step
    <3>3. req'[w] = r /\ "commit" \in Path["update"]
      BY <2>1, <3>1, <3>2, NextStep DEF Path
    <3>4. Outcome(w)'
      BY <2>1, <2>2, <2>3, <3>2, <3>3 DEF Outcome
    <3>5. RequestOK(w)'
      BY <2>1, <2>2, <2>3, <3>2, <3>3, <3>4 DEF RequestOK
    <3> QED
      BY <2>3, <3>1, <3>2, <3>5, Decides
  <2>5. ASSUME NEW e \in Drafts \ {d}, Sees(w, e).state = "active",
               Resume(w, [req[w] EXCEPT !.at = "successor", !.left = {e}])
        PROVE  IInv'
    <3> DEFINE r == [req[w] EXCEPT !.at = "successor", !.left = {e}]
    <3>1. r \in Request /\ r.at = "successor" /\ r.op = req[w].op /\ r.draft = d /\ r.left = {e}
      BY <2>1 DEF Request, Step
    <3>2. req'[w] = r /\ "successor" \in Path["update"]
      BY <2>1, <2>5, <3>1, NextStep DEF Path
    <3>3. store[e].state # "none"
      BY <2>1, <2>5, Seen
    <3>4. RequestOK(w)'
      BY <2>1, <2>2, <2>3, <3>1, <3>2, <3>3 DEF RequestOK
    <3> QED
      BY <2>3, <2>5, <3>1, <3>4, Decides
  <2> QED
    BY <1>4, <2>4, <2>5 DEF ChooseSuccessor
<1> QED
  BY <1>1, <1>2, <1>3, <1>4

-----------------------------------------------------------------------------
(* The theorems.                                                            *)

\* The conjunction of what holds in every reachable state is inductive.
THEOREM Invariance == Spec => []IInv
<1>1. Init => IInv
  <2> SUFFICES ASSUME Init PROVE IInv
    OBVIOUS
  <2>1. Absent \in Row /\ Idle \in Request /\ ~ Absent.primary
    BY DEF Absent, Row, Idle, Request, Step, Lifecycle
  <2>2. StateOK
    BY <2>1, EmptyTx DEF Init, StateOK
  <2>3. \A w \in Workers : tx[w].locks = {} /\ req[w] = Idle /\ tx[w] = NoTx
    BY EmptyTx DEF Init
  <2>4. RowsOK
    BY <2>1, <2>3 DEF Init, RowsOK, Marks
  <2>5. OneCreator
    BY <2>3 DEF OneCreator, Idle
  <2>6. \A w \in Workers : RequestOK(w)
    BY <2>3 DEF RequestOK, Idle, Path
  <2> QED
    BY <2>2, <2>4, <2>5, <2>6 DEF IInv
<1>2. IInv /\ [Next]_vars => IInv'
  <2> SUFFICES ASSUME IInv, [Next]_vars PROVE IInv'
    OBVIOUS
  <2>1. CASE UNCHANGED vars
    BY <2>1 DEF vars, IInv, StateOK, RowsOK, OneCreator, RequestOK, Outcome, Marks
  <2>2. ASSUME NEW w \in Workers, Arrival(w) PROVE IInv'
    BY <2>2, Arrives
  <2>3. ASSUME NEW w \in Workers, Proceed(w) PROVE IInv'
    <3>1. CASE BreakDeadlock(w)
      BY <3>1, GivesUp DEF BreakDeadlock, GiveUp
    <3> QED
      BY <2>3, <3>1, Demotes, Promotes, Updates, Commits DEF Proceed
  <2>4. ASSUME NEW w \in Workers, Throw(w) PROVE IInv'
    BY <2>4, GivesUp DEF Throw, GiveUp, Leak
  <2> QED
    BY <2>1, <2>2, <2>3, <2>4 DEF Next
<1> QED
  BY <1>1, <1>2, PTL DEF Spec

\* The rows, transactions and requests have the types that TypeOK gives them.
THEOREM TypeCorrect == Spec => []TypeOK
<1>1. IInv => TypeOK
  <2> SUFFICES ASSUME IInv PROVE TypeOK
    OBVIOUS
  <2>1. ASSUME NEW w \in Workers
        PROVE  /\ req[w].at \in Step /\ req[w].left \subseteq Drafts
               /\ (w \notin Busy <=> tx[w] = NoTx)
               /\ DOMAIN tx[w].writes = tx[w].locks
    BY DEF IInv, StateOK, Request, RequestOK, At, Busy, NoTx
  <2> QED
    BY <2>1 DEF TypeOK, IInv, StateOK, Row
<1> QED
  BY <1>1, Invariance, PTL

\* However many createDraft, updateDraft and setPrimaryDraft overlap, whatever fails: a
\* project shows at most one primary draft.
THEOREM AtMostOnePrimary == Spec => []OnePrimary
<1>1. IInv => OnePrimary
  <2> SUFFICES ASSUME IInv PROVE OnePrimary
    OBVIOUS
  <2>1. \A d, e \in Primaries : d = e
    BY DEF IInv, RowsOK, Primaries
  <2>2. CASE Primaries = {}
    BY <2>2, FS_EmptySet DEF OnePrimary
  <2>3. CASE Primaries # {}
    <3>1. PICK d : Primaries = {d}
      BY <2>1, <2>3
    <3> QED
      BY <3>1, FS_Singleton DEF OnePrimary
  <2> QED
    BY <2>2, <2>3
<1> QED
  BY <1>1, Invariance, PTL

\* A project that has a primary draft loses it only in the COMMIT of an updateDraft that
\* archives it, and that looked for another active draft and saw none.
THEOREM PrimaryIsNotLost == Spec => PrimaryIsHandedOn
<1> DEFINE Keeps == Primaries # {} /\ Primaries' = {} =>
              \E w \in Workers : At(w, "commit") /\ req[w].op = "update" /\ req[w].draft \in Primaries
                                 /\ store'[req[w].draft].state = "archived" /\ req[w].sole
<1>1. IInv /\ [Next]_vars => [Keeps]_vars
  <2> SUFFICES ASSUME IInv, [Next]_vars, Primaries # {}, Primaries' = {} PROVE Keeps
    OBVIOUS
  <2>1. store' # store
    BY DEF Primaries
  <2>2. PICK w \in Workers : Arrival(w) \/ Proceed(w) \/ Throw(w)
    BY <2>1 DEF Next, vars
  <2>3. Commit(w)
    <3>1. ~ Throw(w) /\ ~ BreakDeadlock(w)
      BY <2>1 DEF Throw, BreakDeadlock, GiveUp, Leak, RollbackTx
    <3>2. ~ Arrival(w)
      BY <2>1 DEF Arrival, CreateDraft, SetPrimaryDraft, UpdateDraft, Begin, BeginTx
    <3>3. ASSUME NEW d \in Drafts, NEW row, Write(w, d, row), w \in Busy PROVE FALSE
      BY <2>1, <3>3, AtWork DEF Write
    <3>4. ASSUME NEW d \in Drafts, NEW row, PutRow(w, d, row), w \in Busy PROVE FALSE
      BY <2>1, <3>3, <3>4 DEF PutRow, RollbackTx
    <3>5. ~ DemoteRow(w)
      BY <3>3, AtWork DEF DemoteRow, At, Busy, Request
    <3>6. ~ InsertDraft(w) /\ ~ Promote(w) /\ ~ UpdateRow(w) /\ ~ Unset(w)
      BY <2>1, <3>3, <3>4, AtWork DEF InsertDraft, Promote, UpdateRow, Unset, At, Busy, RollbackTx
    <3>7. ~ PromoteSuccessor(w)
      BY <3>4, AtWork DEF PromoteSuccessor, At, Busy, Request
    <3>8. /\ ~ CountPrimaries(w) /\ ~ Demote(w) /\ ~ EndDemote(w) /\ ~ ReadDraft(w)
          /\ ~ ChooseSuccessor(w)
      BY <2>1 DEF CountPrimaries, Demote, EndDemote, ReadDraft, ChooseSuccessor, Leak, RollbackTx
    <3> QED
      BY <2>2, <3>1, <3>2, <3>5, <3>6, <3>7, <3>8 DEF Proceed
  <2>4. /\ StateOK /\ RowsOK /\ RequestOK(w) /\ tx[w].state = "open" /\ req[w].at = "commit"
        /\ Outcome(w)
    BY <2>3, AtWork DEF Commit, At, Busy, IInv, RequestOK
  <2>5. /\ \A d \in tx[w].locks : d \in Drafts /\ store'[d] = tx[w].writes[d]
        /\ \A d \in Drafts \ tx[w].locks : store'[d] = store[d]
    <3>1. store' = [d \in Drafts |-> Sees(w, d)]
      BY <2>3, <2>4 DEF Commit, CommitTx, Drafts
    <3> QED
      BY <2>4, <3>1, Seen DEF StateOK, Transaction
  <2>6. \A d \in Drafts : ~ Marks(w, d)
    BY <2>5 DEF Primaries, Marks
  <2>7. PICK d \in Primaries : d \in tx[w].locks /\ tx[w].writes[d].primary # store[d].primary
    BY <2>5 DEF Primaries
  <2>8. /\ req[w].op = "update" /\ tx[w].locks = {req[w].draft}
        /\ tx[w].writes[req[w].draft].state = "archived" /\ req[w].sole
    BY <2>4, <2>6, <2>7 DEF Outcome
  <2> QED
    BY <2>4, <2>5, <2>7, <2>8 DEF At, Busy
<1>2. [Keeps]_vars => [Primaries # {} /\ Primaries' = {} =>
         \E w \in Workers : At(w, "commit") /\ req[w].op = "update" /\ req[w].draft \in Primaries
                            /\ store'[req[w].draft].state = "archived" /\ req[w].sole]_vars
  OBVIOUS
<1> QED
  BY <1>1, <1>2, Invariance, PTL DEF Spec, PrimaryIsHandedOn

=============================================================================
