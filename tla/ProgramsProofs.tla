----------------------------- MODULE ProgramsProofs -----------------------------
(***************************************************************************)
(* For any number of workers and connections and any faults, what          *)
(* programs-service records as sent was accepted by the receiver of its    *)
(* notifications, however the statements of several functions mix in       *)
(* transactions.                                                           *)
(***************************************************************************)
EXTENDS Programs, TLAPS

-----------------------------------------------------------------------------
(* The inductive invariant.                                                 *)

Job == [status : JobStatus, attempts : Nat]

\* What each row can be, in the store or uncommitted.
Value == [app |-> AppStatus, job |-> Job, member |-> MemberStatus, integration |-> Integration,
          log |-> BOOLEAN, cohort |-> BOOLEAN, session |-> BOOLEAN, attendee |-> BOOLEAN,
          sessionlog |-> BOOLEAN, windows |-> BOOLEAN]

\* A value of row r that records something as sent does so truthfully.
Holds(r, v, sent) ==
  /\ v \in Value[r]
  /\ r = "job" /\ v.status = "succeeded" => "crm" \in sent
  /\ r = "log" /\ v => "reminder" \in sent
  /\ r = "sessionlog" /\ v => "session" \in sent

\* The uncommitted changes of a connection: a value for each row it has written.
Writes == UNION {[S -> UNION {Value[r] : r \in Rows}] : S \in SUBSET Rows}

Transaction == [state : {"none", "open", "aborted"}, writes : Writes, locks : SUBSET Rows]

\* Only an open transaction has changes, each to a row it has locked.
Proper(t, sent) ==
  /\ t.state # "open" => t.writes = <<>> /\ t.locks = {}
  /\ DOMAIN t.writes \subseteq t.locks
  /\ \A r \in DOMAIN t.writes : Holds(r, t.writes[r], sent)

\* Committed or not, a row that tells of an event tells the truth.
DataOK ==
  /\ store = [r \in Rows |-> store[r]]
  /\ \A r \in Rows : Holds(r, store[r], events)
  /\ tx \in [Connections -> Transaction]
  /\ \A c \in Connections : Proper(tx[c], events)

\* Where a function of each kind can be.
Path == [none      |-> {"idle"},
         review    |-> {"notify"},
         create    |-> {"begin", "first", "second", "third", "commit", "rollback"},
         crm       |-> {"begin", "select", "update", "commit", "rollback", "publish",
                        "complete", "reread", "fail"},
         remind    |-> {"check", "publish", "mark"},
         integrate |-> {"upsert"}]

\* What a function knows: who is about to record an event has its acceptance.
Knows(q, sent) ==
  /\ q.at \in Path[q.op]
  /\ q.op = "create" => q.kind \in Kinds
  /\ q.op = "remind" => q.kind \in {"app", "session"}
  /\ q.op = "integrate" => q.kind \in {"asks", "other"}
  /\ q.at = "third" => q.kind = "session"
  /\ q.at = "complete" => "crm" \in sent
  /\ q.at = "mark" => About[q.kind] \in sent

RequestsOK == req \in [Workers -> Request] /\ \A w \in Workers : Knows(req[w], events)

IInv ==
  /\ DataOK
  /\ RequestsOK
  /\ events \subseteq Event /\ decided \in AppStatus
  /\ calm \in BOOLEAN /\ clock \in {"early", "window", "late"}

-----------------------------------------------------------------------------
(* What the statements of PooledDatabase do to the data.                    *)

\* Lemma: an empty transaction.
LEMMA EmptyTx ==
  ASSUME NEW s \in {"none", "aborted"}, NEW sent
  PROVE  /\ [NoTx EXCEPT !.state = s] \in Transaction
         /\ Proper([NoTx EXCEPT !.state = s], sent)
<1>1. <<>> \in [{} -> UNION {Value[r] : r \in Rows}]
  OBVIOUS
<1>2. <<>> \in Writes
  BY <1>1 DEF Writes
<1>3. NoTx \in Transaction
  BY <1>2 DEF NoTx, Transaction
<1>4. [NoTx EXCEPT !.state = s] \in Transaction
  BY <1>3 DEF Transaction
<1>5. [NoTx EXCEPT !.state = s].writes = <<>> /\ [NoTx EXCEPT !.state = s].locks = {}
  BY DEF NoTx
<1> QED
  BY <1>4, <1>5 DEF Proper

\* Lemma: a statement sees a proper value.
LEMMA Seen ==
  ASSUME DataOK, NEW c \in Connections, NEW r \in Rows
  PROVE  Holds(r, Sees(c, r), events)
BY DEF DataOK, Proper, Sees

\* Lemma: what was recorded truthfully stays so.
LEMMA StaysTruthful ==
  ASSUME NEW sent, NEW more, sent \subseteq more
  PROVE  /\ \A r, v : Holds(r, v, sent) => Holds(r, v, more)
         /\ \A t : Proper(t, sent) => Proper(t, more)
BY DEF Holds, Proper

\* Lemma: the data as they are, when more events are accepted.
LEMMA SameData ==
  ASSUME DataOK, events \subseteq events', UNCHANGED <<store, tx>>
  PROVE  DataOK'
BY StaysTruthful DEF DataOK

\* Lemma: a statement changes one transaction.
LEMMA ChangesTx ==
  ASSUME DataOK, UNCHANGED events, NEW c \in Connections, NEW t \in Transaction,
         Proper(t, events), tx' = [tx EXCEPT ![c] = t], UNCHANGED store
  PROVE  DataOK'
BY DEF DataOK

\* Lemma: a statement that writes a proper value.
LEMMA WriteKeeps ==
  ASSUME DataOK, UNCHANGED events, NEW c \in Connections, NEW r \in Rows, NEW v,
         Holds(r, v, events), Write(c, r, v)
  PROVE  DataOK'
<1>1. CASE tx[c].state = "open"
  <2> DEFINE new == [x \in DOMAIN tx[c].writes \cup {r} |-> IF x = r THEN v ELSE tx[c].writes[x]]
             t   == [state |-> "open", writes |-> new, locks |-> tx[c].locks \cup {r}]
  <2>1. tx[c] \in Transaction /\ Proper(tx[c], events)
    BY DEF DataOK
  <2>2. store' = store /\ tx' = [tx EXCEPT ![c].writes = new, ![c].locks = @ \cup {r}]
    BY <1>1 DEF Write
  <2> HIDE DEF new
  <2>3. tx' = [tx EXCEPT ![c] = t]
    <3>1. tx'[c] = [tx[c] EXCEPT !.writes = new, !.locks = @ \cup {r}]
          /\ \A d \in Connections \ {c} : tx'[d] = tx[d]
      BY <2>2 DEF DataOK
    <3>2. tx'[c] = t
      BY <1>1, <2>1, <3>1 DEF Transaction
    <3> QED
      BY <2>2, <3>1, <3>2 DEF DataOK
  <2> USE DEF new
  <2>4. DOMAIN new \in SUBSET Rows /\ \A x \in DOMAIN new : Holds(x, new[x], events)
    BY <2>1 DEF Proper, Transaction
  <2>5. new \in [DOMAIN new -> UNION {Value[x] : x \in Rows}]
    BY <2>4 DEF Holds
  <2>6. new \in Writes
    BY <2>4, <2>5 DEF Writes
  <2>7. t \in Transaction /\ DOMAIN new \subseteq t.locks
    BY <2>1, <2>6 DEF Proper, Transaction
  <2>8. Proper(t, events)
    BY <2>4, <2>7 DEF Proper
  <2> HIDE DEF t
  <2> QED
    BY <2>2, <2>3, <2>7, <2>8, ChangesTx
<1>2. CASE tx[c].state # "open"
  BY <1>2 DEF Write, DataOK
<1> QED
  BY <1>1, <1>2

\* Lemma: BEGIN, COMMIT, ROLLBACK and a statement that fails keep the data proper.
LEMMA ControlKeeps ==
  ASSUME DataOK, UNCHANGED events, NEW c \in Connections,
         BeginTx(c) \/ CommitTx(c) \/ RollbackTx(c) \/ Abort(c)
  PROVE  DataOK'
<1>1. /\ NoTx = [NoTx EXCEPT !.state = "none"]
      /\ NoTx \in Transaction /\ Proper(NoTx, events)
  <2>1. NoTx = [NoTx EXCEPT !.state = "none"]
    BY DEF NoTx
  <2> QED
    BY <2>1, EmptyTx
<1>2. tx[c] \in Transaction /\ Proper(tx[c], events) /\ tx \in [Connections -> Transaction]
  BY DEF DataOK
<1>3. CASE BeginTx(c)
  <2> DEFINE t == [tx[c] EXCEPT !.state = IF @ = "none" THEN "open" ELSE @]
  <2>1. tx' = [tx EXCEPT ![c] = t] /\ store' = store
    BY <1>3 DEF BeginTx
  <2>2. t = [state |-> IF tx[c].state = "none" THEN "open" ELSE tx[c].state,
             writes |-> tx[c].writes, locks |-> tx[c].locks]
    BY <1>2 DEF Transaction
  <2>3. t \in Transaction /\ Proper(t, events)
    BY <1>2, <2>2 DEF Transaction, Proper
  <2> HIDE DEF t
  <2> QED
    BY <2>1, <2>3, ChangesTx
<1>4. CASE CommitTx(c)
  <2>1. tx' \in [Connections -> Transaction] /\ \A d \in Connections : Proper(tx'[d], events')
    BY <1>1, <1>2, <1>4 DEF CommitTx, DataOK
  <2>2. store' = [r \in Rows |-> store'[r]] /\ \A r \in Rows : Holds(r, store'[r], events')
    BY <1>4, Seen DEF CommitTx, DataOK
  <2> QED
    BY <2>1, <2>2 DEF DataOK
<1>5. CASE RollbackTx(c)
  BY <1>1, <1>5, ChangesTx DEF RollbackTx
<1>6. CASE Abort(c)
  <2> DEFINE t == IF tx[c].state = "none" THEN NoTx ELSE [NoTx EXCEPT !.state = "aborted"]
  <2>1. tx' = [tx EXCEPT ![c] = t] /\ store' = store
    BY <1>6 DEF Abort
  <2>2. t \in Transaction /\ Proper(t, events)
    BY <1>1, EmptyTx
  <2> HIDE DEF t
  <2> QED
    BY <2>1, <2>2, ChangesTx
<1> QED
  BY <1>3, <1>4, <1>5, <1>6

\* Lemma: SELECT ... FOR UPDATE.
LEMMA LockKeeps ==
  ASSUME DataOK, UNCHANGED events, NEW c \in Connections, NEW r \in Rows, Lock(c, r)
  PROVE  DataOK'
<1> DEFINE t == [tx[c] EXCEPT !.locks = IF tx[c].state = "open" THEN @ \cup {r} ELSE @]
<1>1. tx[c] \in Transaction /\ Proper(tx[c], events)
  BY DEF DataOK
<1>2. tx' = [tx EXCEPT ![c] = t] /\ store' = store
  BY DEF Lock
<1>3. t = [state |-> tx[c].state, writes |-> tx[c].writes,
           locks |-> IF tx[c].state = "open" THEN tx[c].locks \cup {r} ELSE tx[c].locks]
  BY <1>1 DEF Transaction
<1>4. t \in Transaction /\ Proper(t, events)
  BY <1>1, <1>3 DEF Transaction, Proper
<1> HIDE DEF t
<1> QED
  BY <1>2, <1>4, ChangesTx

-----------------------------------------------------------------------------
(* One lemma for each kind of step.                                         *)

\* Lemma: a step in which one function goes on to q.
LEMMA GoesOn ==
  ASSUME IInv, NEW w \in Workers, NEW q \in Request, Resume(w, q), Knows(q, events'),
         events \subseteq events', events' \subseteq Event, decided' \in AppStatus, DataOK'
  PROVE  IInv'
<1>1. /\ req' = [req EXCEPT ![w] = q] /\ UNCHANGED <<calm, clock>>
      /\ req' \in [Workers -> Request]
  BY DEF IInv, RequestsOK, Resume
<1>2. \A v \in Workers : Knows(req'[v], events')
  <2>1. ASSUME NEW v \in Workers \ {w} PROVE Knows(req'[v], events')
    <3>1. req'[v] = req[v] /\ Knows(req[v], events)
      BY <1>1 DEF IInv, RequestsOK
    <3> QED
      BY <3>1 DEF Knows
  <2>2. Knows(req'[w], events')
    <3>1. req'[w] = q
      BY <1>1 DEF IInv, RequestsOK
    <3> QED
      BY <3>1 DEF Knows
  <2> QED
    BY <2>1, <2>2
<1> QED
  BY <1>1, <1>2 DEF IInv, RequestsOK

\* Lemma: a step that moves no function.
LEMMA NobodyMoves ==
  ASSUME IInv, UNCHANGED <<events, req>>, decided' \in AppStatus, calm' \in BOOLEAN,
         clock' \in {"early", "window", "late"}, DataOK'
  PROVE  IInv'
<1>1. \A v \in Workers : Knows(req'[v], events')
  BY DEF IInv, RequestsOK, Knows
<1> QED
  BY <1>1 DEF IInv, RequestsOK

\* Lemma: a function that returns.
LEMMA Returns == Idle \in Request /\ \A sent : Knows(Idle, sent)
BY DEF Idle, Request, Op, Step, Integration, Knows, Path

\* Lemma: what a function knows, and its next place.
LEMMA Place ==
  ASSUME IInv, NEW w \in Workers
  PROVE  /\ req[w] \in Request /\ Knows(req[w], events)
         /\ \A s \in Step : [req[w] EXCEPT !.at = s] \in Request
BY DEF IInv, RequestsOK, Request

\* Lemma: a statement that fails leads out of the function or to a place it may be at.
LEMMA Caught ==
  ASSUME IInv, NEW w \in Workers, ~ At(w, "idle"), events \subseteq events'
  PROVE  Catch(req[w]) \in Request /\ Knows(Catch(req[w]), events')
<1>1. req[w] \in Request /\ Knows(req[w], events) /\ \A s \in Step : [req[w] EXCEPT !.at = s] \in Request
  BY Place
<1>2. CASE req[w].at \in {"first", "second", "third", "commit", "select", "update"}
  <2>1. Catch(req[w]) = [req[w] EXCEPT !.at = "rollback"]
    BY <1>2 DEF Catch
  <2> QED
    BY <1>1, <1>2, <2>1 DEF Knows, Path, Request, Op, Step
<1>3. CASE req[w].at \in {"publish", "complete"} /\ req[w].op = "crm"
  <2>1. Catch(req[w]) = [req[w] EXCEPT !.at = "reread"]
    BY <1>3 DEF Catch
  <2> QED
    BY <1>1, <1>3, <2>1 DEF Knows, Path, Request, Op, Step
<1>4. CASE ~ (req[w].at \in {"first", "second", "third", "commit", "select", "update"})
           /\ ~ (req[w].at \in {"publish", "complete"} /\ req[w].op = "crm")
  <2>1. Catch(req[w]) = Idle
    BY <1>4 DEF Catch
  <2> QED
    BY <2>1, Returns
<1> QED
  BY <1>2, <1>3, <1>4

\* Lemma: the process, the clock and failing calls.
LEMMA Disturbed ==
  ASSUME IInv, Crash \/ CalmDown \/ TimePasses \/ \E w \in Workers : FailedCall(w)
  PROVE  IInv'
<1>1. CASE Crash
  <2>1. tx' = [c \in Connections |-> NoTx] /\ UNCHANGED <<store, events, decided, calm, clock>>
    BY <1>1 DEF Crash
  <2>2. NoTx \in Transaction /\ Proper(NoTx, events)
    <3>1. NoTx = [NoTx EXCEPT !.state = "none"]
      BY DEF NoTx
    <3> QED
      BY <3>1, EmptyTx
  <2>3. DataOK'
    BY <2>1, <2>2 DEF IInv, DataOK
  <2>4. req' = [w \in Workers |-> Idle]
    BY <1>1 DEF Crash
  <2>5. req' \in [Workers -> Request] /\ \A w \in Workers : Knows(req'[w], events')
    <3>1. \A w \in Workers : req'[w] = Idle
      BY <2>4
    <3> QED
      BY <2>4, <3>1, Returns DEF Knows
  <2> QED
    BY <2>1, <2>3, <2>5 DEF IInv, RequestsOK
<1>2. CASE CalmDown
  BY <1>2, SameData, NobodyMoves DEF CalmDown, IInv
<1>3. CASE TimePasses
  <2>1. clock' \in {"early", "window", "late"}
    BY <1>3 DEF TimePasses, IInv
  <2> QED
    BY <1>3, <2>1, SameData, NobodyMoves DEF TimePasses, IInv
<1>4. ASSUME NEW w \in Workers, FailedCall(w) PROVE IInv'
  <2>1. /\ ~ At(w, "idle") /\ Resume(w, Catch(req[w])) /\ UNCHANGED <<events, decided>>
        /\ UNCHANGED <<store, tx>> \/ \E c \in Connections : RollbackTx(c)
    BY <1>4 DEF FailedCall, At
  <2>2. DataOK'
    BY <2>1, SameData, ControlKeeps DEF IInv
  <2>3. Catch(req[w]) \in Request /\ Knows(Catch(req[w]), events')
    BY <2>1, Caught
  <2> QED
    BY <2>1, <2>2, <2>3, GoesOn DEF IInv
<1> QED
  BY <1>1, <1>2, <1>3, <1>4

\* Lemma: an event is accepted, and the function goes on to record that, or misses the answer.
LEMMA Published ==
  ASSUME IInv, NEW w \in Workers, NEW event \in Event, NEW s \in {"complete", "mark"},
         Publish(w, event, [req[w] EXCEPT !.at = s]),
         s = "complete" => req[w].op = "crm" /\ event = "crm",
         s = "mark" => req[w].op = "remind" /\ event = About[req[w].kind]
  PROVE  IInv'
<1> DEFINE q == [req[w] EXCEPT !.at = s]
<1>1. req[w] \in Request /\ Knows(req[w], events) /\ q \in Request
  BY Place DEF Step
<1>2. ~ At(w, "idle") /\ events' = events \cup {event} /\ UNCHANGED <<store, tx, decided>>
  BY DEF Publish, At
<1>3. DataOK'
  BY <1>2, SameData DEF IInv
<1>4. q.at = s /\ q.op = req[w].op /\ q.kind = req[w].kind
  BY <1>1 DEF Request
<1>5. Knows(q, events')
  BY <1>1, <1>2, <1>4 DEF Knows, Path
<1>6. Catch(req[w]) \in Request /\ Knows(Catch(req[w]), events')
  BY <1>2, Caught
<1> HIDE DEF q
<1>7. Resume(w, q) \/ Resume(w, Catch(req[w]))
  BY DEF Publish, q
<1> QED
  BY <1>1, <1>2, <1>3, <1>5, <1>6, <1>7, GoesOn DEF IInv

\* Lemma: a publication that is refused leads to the catch block.
LEMMA RefusedKeeps ==
  ASSUME IInv, NEW w \in Workers, Refused(w)
  PROVE  IInv'
<1>1. ~ At(w, "idle") /\ Resume(w, Catch(req[w])) /\ UNCHANGED <<store, tx, events, decided>>
  BY DEF Refused, Reading, At
<1>2. DataOK'
  BY <1>1, SameData DEF IInv
<1>3. Catch(req[w]) \in Request /\ Knows(Catch(req[w]), events')
  BY <1>1, Caught
<1> QED
  BY <1>1, <1>2, <1>3, GoesOn DEF IInv

\* Lemma: a statement that writes a row and lets its function go on.
LEMMA WritesOn ==
  ASSUME IInv, NEW w \in Workers, NEW c \in Connections, NEW r \in Rows, NEW v,
         Holds(r, v, events), Write(c, r, v), UNCHANGED events, decided' \in AppStatus,
         NEW q \in Request, Knows(q, events), Resume(w, q)
  PROVE  IInv'
<1>1. DataOK'
  BY WriteKeeps DEF IInv
<1> QED
  BY <1>1, GoesOn DEF IInv

\* Lemma: a statement that writes a row and is the only one of its function.
LEMMA WritesOnce ==
  ASSUME IInv, NEW c \in Connections, NEW r \in Rows, NEW v,
         Holds(r, v, events), Write(c, r, v), decided' \in AppStatus, Answered
  PROVE  IInv'
<1>1. DataOK'
  BY WriteKeeps DEF IInv, Answered
<1> QED
  BY <1>1, NobodyMoves DEF IInv, Answered

\* Lemma: a statement that reads.
LEMMA Reads ==
  ASSUME IInv, NEW w \in Workers, NEW q \in Request, Knows(q, events), Resume(w, q), Reading
  PROVE  IInv'
<1>1. DataOK' /\ UNCHANGED <<events, decided>>
  BY SameData DEF IInv, Reading
<1> QED
  BY <1>1, GoesOn DEF IInv

\* Lemma: the next place of a function.
LEMMA GoesTo ==
  ASSUME IInv, NEW w \in Workers, NEW s \in Path[req[w].op] \ {"complete", "mark"}, s \in Step,
         s = "third" => req[w].kind = "session"
  PROVE  /\ [req[w] EXCEPT !.at = s] \in Request
         /\ Knows([req[w] EXCEPT !.at = s], events)
<1> DEFINE q == [req[w] EXCEPT !.at = s]
<1>1. req[w] \in Request /\ Knows(req[w], events) /\ q \in Request
  BY Place
<1>2. q.at = s /\ q.op = req[w].op /\ q.kind = req[w].kind
  BY <1>1 DEF Request
<1> HIDE DEF q
<1>3. Knows(q, events)
  BY <1>1, <1>2 DEF Knows
<1> QED
  BY <1>1, <1>3 DEF q

\* Lemma: a function that begins.
LEMMA Starts ==
  ASSUME NEW op \in Op, NEW s \in Path[op] \cap Step, s \notin {"third", "complete", "mark"},
         NEW kind \in Kinds \cup Integration \cup {"app", "session"},
         op = "create" => kind \in Kinds,
         op = "remind" => kind \in {"app", "session"},
         op = "integrate" => kind \in {"asks", "other"}
  PROVE  /\ [Idle EXCEPT !.op = op, !.at = s, !.kind = kind] \in Request
         /\ Knows([Idle EXCEPT !.op = op, !.at = s, !.kind = kind], events)
<1> DEFINE q == [Idle EXCEPT !.op = op, !.at = s, !.kind = kind]
<1>1. Idle \in Request
  BY Returns
<1>2. q \in Request
  BY <1>1 DEF Request
<1>3. q.op = op /\ q.at = s /\ q.kind = kind
  BY <1>1 DEF Request
<1> HIDE DEF q
<1>4. Knows(q, events)
  BY <1>3 DEF Knows
<1> QED
  BY <1>2, <1>4 DEF q

\* Lemma: what arrives.
LEMMA Arrives ==
  ASSUME IInv, NEW w \in Workers, Arrival(w)
  PROVE  IInv'
<1> DEFINE Q(op, s, kind) == [Idle EXCEPT !.op = op, !.at = s, !.kind = kind]
<1>0. {"app", "job", "log", "cohort", "member", "session", "attendee", "integration"} \subseteq Rows
  BY ProgramsAssumption
<1>1. ASSUME NEW kind \in Kinds, Create(w, kind) PROVE IInv'
  <2>1. Resume(w, Q("create", "begin", kind)) /\ Reading
    BY <1>1 DEF Create, Begin
  <2>2. Q("create", "begin", kind) \in Request /\ Knows(Q("create", "begin", kind), events)
    BY Starts DEF Op, Step, Path
  <2> QED
    BY <2>1, <2>2, Reads
<1>2. CASE Dispatch(w)
  <2>1. Resume(w, [Idle EXCEPT !.op = "crm", !.at = "begin"]) /\ Reading
    BY <1>2 DEF Dispatch, Begin
  <2>2. /\ [Idle EXCEPT !.op = "crm", !.at = "begin"] \in Request
        /\ Knows([Idle EXCEPT !.op = "crm", !.at = "begin"], events)
    BY DEF Idle, Request, Op, Step, Integration, Knows, Path
  <2> QED
    BY <2>1, <2>2, Reads
<1>3. ASSUME NEW c \in Connections, CreateProgramApplication(w, c) PROVE IInv'
  <2>1. Holds("app", "submitted", events) /\ "submitted" \in AppStatus
    BY DEF Holds, Value, AppStatus
  <2> QED
    BY <1>0, <1>3, <2>1, WritesOnce DEF CreateProgramApplication
<1>4. ASSUME NEW c \in Connections, QueueProgramCrmSyncJob(w, c) PROVE IInv'
  <2>1. Holds("job", [status |-> "queued", attempts |-> 0], events)
    BY DEF Holds, Value, Job, JobStatus
  <2> QED
    BY <1>0, <1>4, <2>1, WritesOnce DEF QueueProgramCrmSyncJob, IInv
<1>5. ASSUME NEW c \in Connections, ReviewProgramApplication(w, c) PROVE IInv'
  <2>1. Holds("app", "decided", events) /\ "decided" \in AppStatus
    BY DEF Holds, Value, AppStatus
  <2>2. /\ [Idle EXCEPT !.op = "review", !.at = "notify"] \in Request
        /\ Knows([Idle EXCEPT !.op = "review", !.at = "notify"], events)
    BY DEF Idle, Request, Op, Step, Integration, Knows, Path
  <2> QED
    BY <1>0, <1>5, <2>1, <2>2, WritesOn DEF ReviewProgramApplication, Begin
<1>6. ASSUME NEW c \in Connections, UpsertSessionAttendance(w, c) PROVE IInv'
  <2>1. Holds("attendee", TRUE, events)
    BY DEF Holds, Value
  <2> QED
    BY <1>0, <1>6, <2>1, WritesOnce DEF UpsertSessionAttendance, IInv
<1>7. ASSUME NEW c \in Connections, UpdateProgramSessionIntegration(w, c) PROVE IInv'
  <2>1. PICK offsets \in {"asks", "other", Sees(c, "integration")} \ {"none"} :
          Resume(w, Q("integrate", "upsert", offsets))
    BY <1>7 DEF UpdateProgramSessionIntegration, Begin
  <2>2. Sees(c, "integration") \in Integration
    BY <1>0, Seen DEF IInv, Holds, Value
  <2>3. offsets \in {"asks", "other"} /\ offsets \in Integration
    BY <2>2 DEF Integration
  <2>4. Q("integrate", "upsert", offsets) \in Request /\ Knows(Q("integrate", "upsert", offsets), events)
    BY <2>3, Starts DEF Op, Step, Path
  <2> HIDE DEF Q
  <2> QED
    BY <1>7, <2>1, <2>4, Reads DEF UpdateProgramSessionIntegration
<1>8. ASSUME NEW kind \in {"app", "session"}, Remind(w, kind) PROVE IInv'
  <2>1. Resume(w, Q("remind", "check", kind)) /\ Reading
    BY <1>8 DEF Remind, Begin
  <2>2. Q("remind", "check", kind) \in Request /\ Knows(Q("remind", "check", kind), events)
    BY Starts DEF Op, Step, Path
  <2> QED
    BY <2>1, <2>2, Reads
<1>9. ASSUME NEW c \in Connections, RunCohortTransitionJob(w, c) PROVE IInv'
  <2>1. Holds("member", "completed", events)
    BY DEF Holds, Value, MemberStatus
  <2> QED
    BY <1>0, <1>9, <2>1, WritesOnce DEF RunCohortTransitionJob, IInv
<1>10. ASSUME \E kind \in {"cohort", "session", "windows"} : Create(w, kind) PROVE IInv'
  BY <1>1, <1>10 DEF Create
<1> QED
  BY <1>2, <1>3, <1>4, <1>5, <1>6, <1>7, <1>8, <1>9, <1>10
  DEF Arrival, CreateProgramCohort, CreateProgramSession, ReplaceAvailabilityWindows,
      ListApplicationReminderCandidates, ListSessionReminderCandidates

\* Lemma: which rows a function writes, and what they can be.
LEMMA Tables ==
  /\ First["cohort"] = "cohort" /\ First["session"] = "session" /\ First["windows"] = "windows"
  /\ Second["cohort"] = "member" /\ Second["session"] = "attendee" /\ Second["windows"] = "windows"
  /\ Log["app"] = "log" /\ Log["session"] = "sessionlog"
  /\ About["app"] = "reminder" /\ About["session"] = "session"
  /\ Value["member"] = MemberStatus
  /\ \A r \in {"log", "sessionlog", "cohort", "session", "attendee", "windows"} : Value[r] = BOOLEAN
<1>1. /\ First["cohort"] = "cohort" /\ First["session"] = "session" /\ First["windows"] = "windows"
      /\ Second["cohort"] = "member" /\ Second["session"] = "attendee" /\ Second["windows"] = "windows"
  BY DEF First, Second
<1>2. /\ Log["app"] = "log" /\ Log["session"] = "sessionlog"
      /\ About["app"] = "reminder" /\ About["session"] = "session"
  BY DEF Log, About
<1>3. /\ Value["member"] = MemberStatus
      /\ \A r \in {"log", "sessionlog", "cohort", "session", "attendee", "windows"} : Value[r] = BOOLEAN
  BY DEF Value
<1> QED
  BY <1>1, <1>2, <1>3

\* Lemma: the statements of the multi-statement creations and their transactions.
LEMMA Creates ==
  ASSUME IInv, NEW w \in Workers, NEW c \in Connections,
         \/ BeginTransaction(w, c) \/ FirstStatement(w, c) \/ SecondStatement(w, c)
         \/ ThirdStatement(w, c) \/ Commit(w, c) \/ Rollback(w, c)
  PROVE  IInv'
<1>0. Rows = {"app", "job", "log", "cohort", "member", "session", "attendee", "integration",
              "sessionlog", "windows"}
      /\ Kinds \subseteq {"cohort", "session", "windows"}
  BY ProgramsAssumption
<1>1. req[w] \in Request /\ Knows(req[w], events) /\ DataOK /\ decided \in AppStatus /\ events \subseteq Event
  BY Place DEF IInv
<1> DEFINE to(s) == [req[w] EXCEPT !.at = s]
           kind  == req[w].kind
<1>2. ASSUME req[w].op = "create", NEW s \in {"second", "third", "commit", "rollback"},
             s = "third" => kind = "session"
      PROVE  to(s) \in Request /\ Knows(to(s), events)
  BY <1>2, GoesTo DEF Path, Step
<1>3. At(w, "first") \/ At(w, "second") \/ At(w, "third") => req[w].op = "create" /\ kind \in Kinds
  BY <1>1 DEF At, Knows, Path, Request, Op
<1>4. CASE BeginTransaction(w, c)
  <2> DEFINE s == IF req[w].op = "crm" THEN "select" ELSE "first"
  <2>1. req[w].op \in {"crm", "create"}
    BY <1>1, <1>4 DEF BeginTransaction, At, Knows, Path, Request, Op
  <2>2. to(s) \in Request /\ Knows(to(s), events)
    BY <2>1, GoesTo DEF Path, Step
  <2>3. DataOK'
    BY <1>1, <1>4, ControlKeeps DEF BeginTransaction
  <2>4. Resume(w, to(s)) /\ UNCHANGED <<events, decided>>
    BY <1>4 DEF BeginTransaction, Goto
  <2> QED
    BY <1>1, <2>2, <2>3, <2>4, GoesOn
<1>5. CASE FirstStatement(w, c)
  <2>1. kind \in Kinds /\ req[w].op = "create"
    BY <1>3, <1>5 DEF FirstStatement
  <2>2. First[kind] \in Rows /\ Holds(First[kind], kind # "windows", events)
    <3>1. First[kind] \in {"cohort", "session", "windows"}
      BY <1>0, <2>1, Tables
    <3> QED
      BY <1>0, <3>1, Tables DEF Holds
  <2>3. to("second") \in Request /\ Knows(to("second"), events)
    BY <1>2, <2>1
  <2> QED
    BY <1>1, <1>5, <2>2, <2>3, WritesOn DEF FirstStatement, Goto
<1>6. ASSUME NEW k \in {"cohort", "session", "windows"}, NEW row \in Rows, NEW v,
             Holds(row, v, events), req[w].op = "create",
             NEW next \in {"third", "commit"}, next = "third" => kind = "session",
             Insert(w, c, k, row, v, next), UNCHANGED <<events, decided>>
      PROVE  IInv'
  <2>1. CASE tx[c].state # "aborted" /\ Abort(c) /\ Goto(w, "rollback")
    <3>1. DataOK'
      BY <1>1, <1>6, <2>1, ControlKeeps
    <3>2. to("rollback") \in Request /\ Knows(to("rollback"), events)
      BY <1>2, <1>6
    <3> QED
      BY <1>1, <1>6, <2>1, <3>1, <3>2, GoesOn DEF Goto
  <2>2. CASE Write(c, row, v) /\ Goto(w, next)
    <3>1. to(next) \in Request /\ Knows(to(next), events)
      BY <1>2, <1>6
    <3> QED
      BY <1>1, <1>6, <2>2, <3>1, WritesOn DEF Goto
  <2> QED
    BY <1>6, <2>1, <2>2 DEF Insert
<1>7. CASE SecondStatement(w, c)
  <2> DEFINE next  == IF kind = "session" THEN "third" ELSE "commit"
             value == IF kind = "cohort" THEN "active" ELSE TRUE
  <2>1. kind \in {"cohort", "session", "windows"} /\ req[w].op = "create"
    BY <1>0, <1>3, <1>7 DEF SecondStatement
  <2>2. Second[kind] \in Rows /\ Holds(Second[kind], value, events)
    <3>1. CASE kind = "cohort"
      BY <1>0, <3>1, Tables DEF Holds, MemberStatus
    <3>2. CASE kind \in {"session", "windows"}
      <4>1. Second[kind] \in {"attendee", "windows"} /\ value = TRUE
        BY <3>2, Tables
      <4> QED
        BY <1>0, <4>1, Tables DEF Holds
    <3> QED
      BY <2>1, <3>1, <3>2
  <2>3. next \in {"third", "commit"} /\ (next = "third" => kind = "session")
    OBVIOUS
  <2>4. CASE Insert(w, c, kind, Second[kind], value, next)
    BY <1>6, <1>7, <2>1, <2>2, <2>3, <2>4 DEF SecondStatement
  <2>5. CASE Goto(w, next) /\ UNCHANGED <<store, tx>>
    <3>1. to(next) \in Request /\ Knows(to(next), events)
      BY <1>2, <2>1, <2>3
    <3> QED
      BY <1>7, <2>5, <3>1, Reads DEF SecondStatement, Goto, Reading
  <2> QED
    BY <1>7, <2>4, <2>5 DEF SecondStatement
<1>8. CASE ThirdStatement(w, c)
  <2>1. "integration" \in Rows /\ Holds("integration", "asks", events)
    BY <1>0 DEF Holds, Value, Integration
  <2>2. req[w].op = "create"
    BY <1>3, <1>8 DEF ThirdStatement
  <2> QED
    BY <1>6, <1>8, <2>1, <2>2 DEF ThirdStatement
<1>9. CASE Commit(w, c)
  <2>1. DataOK' /\ UNCHANGED <<events, decided>>
    BY <1>1, <1>9, ControlKeeps DEF Commit
  <2>2. CASE req[w].op = "crm"
    <3>1. to("publish") \in Request /\ Knows(to("publish"), events)
      BY <2>2, GoesTo DEF Path, Step
    <3> QED
      BY <1>1, <1>9, <2>1, <3>1, Returns, GoesOn DEF Commit, Goto
  <2>3. CASE req[w].op # "crm"
    BY <1>1, <1>9, <2>1, <2>3, Returns, GoesOn DEF Commit
  <2> QED
    BY <2>2, <2>3
<1>10. CASE Rollback(w, c)
  <2>1. DataOK'
    BY <1>1, <1>10, ControlKeeps DEF Rollback
  <2> QED
    BY <1>1, <1>10, <2>1, Returns, GoesOn DEF Rollback
<1> QED
  BY <1>4, <1>5, <1>7, <1>8, <1>9, <1>10

\* Lemma: the CRM queue, the reminders and the integrations.
LEMMA Works ==
  ASSUME IInv, NEW w \in Workers, NEW c \in Connections,
         \/ UpsertIntegration(w, c) \/ SelectJob(w, c) \/ ClaimJob(w, c) \/ CompleteJob(w, c)
         \/ ReadAttempts(w, c) \/ FailJob(w, c)
         \/ HasReminderBeenSent(w, c) \/ MarkReminderSent(w, c)
  PROVE  IInv'
<1>0. Rows = {"app", "job", "log", "cohort", "member", "session", "attendee", "integration",
              "sessionlog", "windows"}
  BY ProgramsAssumption
<1>1. req[w] \in Request /\ Knows(req[w], events) /\ DataOK /\ decided \in AppStatus /\ events \subseteq Event
  BY Place DEF IInv
<1> DEFINE job == Sees(c, "job")
<1>2. Holds("job", job, events) /\ job \in Job
  BY <1>0, <1>1, Seen DEF Holds, Value
<1>3. ASSUME NEW status \in JobStatus, status = "succeeded" => "crm" \in events
      PROVE  Holds("job", [job EXCEPT !.status = status], events)
  BY <1>2, <1>3 DEF Holds, Value, Job
<1>4. CASE UpsertIntegration(w, c)
  <2>1. req[w].kind \in {"asks", "other"}
    BY <1>1, <1>4 DEF UpsertIntegration, At, Knows, Path, Request, Op
  <2>2. Holds("integration", req[w].kind, events)
    BY <2>1 DEF Holds, Value, Integration
  <2> QED
    BY <1>0, <1>1, <1>4, <2>2, Returns, WritesOn DEF UpsertIntegration
<1>5. CASE SelectJob(w, c)
  <2>1. req[w].op = "crm"
    BY <1>1, <1>5 DEF SelectJob, At, Knows, Path, Request, Op
  <2>2. CASE Lock(c, "job") /\ Resume(w, [req[w] EXCEPT !.at = "update", !.n = 1])
    <3> DEFINE q == [req[w] EXCEPT !.at = "update", !.n = 1]
    <3>1. DataOK'
      BY <1>0, <1>1, <1>5, <2>2, LockKeeps DEF SelectJob
    <3>2. q \in Request /\ q.at = "update" /\ q.op = "crm"
      BY <1>1, <2>1 DEF Request, Step
    <3> HIDE DEF q
    <3>3. Knows(q, events)
      BY <3>2 DEF Knows, Path
    <3>4. Resume(w, q)
      BY <2>2 DEF q
    <3> QED
      BY <1>1, <1>5, <3>1, <3>2, <3>3, <3>4, GoesOn DEF SelectJob
  <2>3. CASE Goto(w, "commit") /\ UNCHANGED <<store, tx>>
    <3>1. [req[w] EXCEPT !.at = "commit"] \in Request /\ Knows([req[w] EXCEPT !.at = "commit"], events)
      BY <2>1, GoesTo DEF Path, Step
    <3> QED
      BY <1>5, <2>3, <3>1, Reads DEF SelectJob, Goto, Reading
  <2> QED
    BY <1>5, <2>2, <2>3 DEF SelectJob
<1>6. CASE ClaimJob(w, c)
  <2>1. Holds("job", [status |-> "running", attempts |-> job.attempts + 1], events)
    <3>1. job.attempts + 1 \in Nat
      BY <1>2 DEF Job
    <3> QED
      BY <3>1 DEF Holds, Value, Job, JobStatus
  <2>2. req[w].op = "crm"
    BY <1>1, <1>6 DEF ClaimJob, At, Knows, Path, Request, Op
  <2>3. [req[w] EXCEPT !.at = "commit"] \in Request /\ Knows([req[w] EXCEPT !.at = "commit"], events)
    BY <2>2, GoesTo DEF Path, Step
  <2> QED
    BY <1>0, <1>1, <1>6, <2>1, <2>3, WritesOn DEF ClaimJob, Goto
<1>7. CASE CompleteJob(w, c)
  <2>1. "crm" \in events
    BY <1>1, <1>7 DEF CompleteJob, At, Knows
  <2>2. Holds("job", [job EXCEPT !.status = "succeeded"], events)
    BY <1>3, <2>1 DEF JobStatus
  <2> QED
    BY <1>0, <1>1, <1>7, <2>2, Returns, WritesOn DEF CompleteJob
<1>8. CASE ReadAttempts(w, c)
  <2> DEFINE q == [req[w] EXCEPT !.at = "fail", !.n = job.attempts]
  <2>1. q \in Request /\ q.at = "fail" /\ q.op = req[w].op
    BY <1>1, <1>2 DEF Request, Step, Job
  <2>2. req[w].op = "crm"
    BY <1>1, <1>8 DEF ReadAttempts, At, Knows, Path, Request, Op
  <2> HIDE DEF q
  <2>3. Knows(q, events)
    BY <2>1, <2>2 DEF Knows, Path
  <2>4. Resume(w, q) /\ Reading
    BY <1>8 DEF ReadAttempts, q
  <2> QED
    BY <2>1, <2>3, <2>4, Reads
<1>9. CASE FailJob(w, c)
  <2> DEFINE status == IF req[w].n >= MaxAttempts THEN "dead_letter" ELSE "failed"
  <2>1. Holds("job", [job EXCEPT !.status = status], events)
    BY <1>3 DEF JobStatus
  <2> HIDE DEF status
  <2>2. Write(c, "job", [job EXCEPT !.status = status]) /\ Resume(w, Idle) /\ UNCHANGED <<events, decided>>
    BY <1>9 DEF FailJob, status
  <2> QED
    BY <1>0, <1>1, <2>1, <2>2, Returns, WritesOn
<1>10. CASE HasReminderBeenSent(w, c)
  <2>1. req[w].op = "remind"
    BY <1>1, <1>10 DEF HasReminderBeenSent, At, Knows, Path, Request, Op
  <2>2. [req[w] EXCEPT !.at = "publish"] \in Request /\ Knows([req[w] EXCEPT !.at = "publish"], events)
    BY <2>1, GoesTo DEF Path, Step
  <2> QED
    BY <1>10, <2>2, Returns, Reads DEF HasReminderBeenSent, Goto
<1>11. CASE MarkReminderSent(w, c)
  <2> DEFINE row == Log[req[w].kind]
  <2>1. req[w].kind \in {"app", "session"} /\ About[req[w].kind] \in events
    BY <1>1, <1>11 DEF MarkReminderSent, At, Knows, Path, Request, Op
  <2>2. row \in Rows /\ Holds(row, TRUE, events)
    <3>1. CASE req[w].kind = "app"
      BY <1>0, <2>1, <3>1, Tables DEF Holds
    <3>2. CASE req[w].kind = "session"
      BY <1>0, <2>1, <3>2, Tables DEF Holds
    <3> QED
      BY <2>1, <3>1, <3>2
  <2>3. \/ UNCHANGED <<store, tx>>
        \/ Write(c, row, TRUE)
    BY <1>11 DEF MarkReminderSent
  <2>4. Resume(w, Idle) /\ UNCHANGED <<events, decided>>
    BY <1>11 DEF MarkReminderSent
  <2> HIDE DEF row
  <2> QED
    BY <1>1, <2>2, <2>3, <2>4, Returns, WritesOn, Reads DEF Reading
<1> QED
  BY <1>4, <1>5, <1>6, <1>7, <1>8, <1>9, <1>10, <1>11

-----------------------------------------------------------------------------
(* The theorems about any number of workers and connections.                *)

\* Lemma: the initial state.
LEMMA Starting ==
  ASSUME Init
  PROVE  IInv
<1>0. Rows = {"app", "job", "log", "cohort", "member", "session", "attendee", "integration",
              "sessionlog", "windows"}
  BY ProgramsAssumption
<1>1. /\ \A r \in {"app", "member", "integration"} : store[r] = "none"
      /\ store["job"] = NoJob
      /\ \A r \in {"log", "cohort", "session", "attendee", "sessionlog"} : store[r] = FALSE
      /\ store["windows"] = TRUE
  BY <1>0 DEF Init
<1>2. \A r \in {"app", "member", "integration"} : Holds(r, store[r], events)
  BY <1>1 DEF Holds, Value, AppStatus, MemberStatus, Integration
<1>3. Holds("job", store["job"], events)
  BY <1>1 DEF Holds, Value, NoJob, Job, JobStatus
<1>4. \A r \in {"log", "cohort", "session", "attendee", "sessionlog", "windows"} : Holds(r, store[r], events)
  <2>1. ASSUME NEW r \in {"log", "cohort", "session", "attendee", "sessionlog"} PROVE Holds(r, store[r], events)
    <3>1. store[r] = FALSE /\ Value[r] = BOOLEAN /\ r # "job"
      BY <1>1, Tables
    <3> QED
      BY <3>1, Zenon DEF Holds
  <2>2. Holds("windows", store["windows"], events)
    <3>1. store["windows"] = TRUE /\ Value["windows"] = BOOLEAN
      BY <1>1, Tables
    <3> QED
      BY <3>1 DEF Holds
  <2> QED
    BY <2>1, <2>2
<1>5. \A r \in Rows : Holds(r, store[r], events)
  BY <1>0, <1>2, <1>3, <1>4
<1>6. store = [r \in Rows |-> store[r]]
  BY DEF Init
<1>7. NoTx \in Transaction /\ Proper(NoTx, events)
  <2>1. NoTx = [NoTx EXCEPT !.state = "none"]
    BY DEF NoTx
  <2> QED
    BY <2>1, EmptyTx
<1>8. DataOK
  BY <1>5, <1>6, <1>7 DEF DataOK, Init
<1>9. RequestsOK
  BY Returns DEF Init, RequestsOK
<1> QED
  BY <1>8, <1>9 DEF Init, IInv, AppStatus

\* Lemma: every step keeps the invariant.
LEMMA Keeping ==
  ASSUME IInv, [Next]_vars
  PROVE  IInv'
<1>1. ASSUME NEW w \in Workers, Proceed(w) PROVE IInv'
  <2>1. req[w] \in Request /\ Knows(req[w], events)
    BY Place
  <2>2. CASE NotifyDecision(w)
    BY <2>2, Returns, Reads DEF NotifyDecision
  <2>3. CASE req[w].op = "crm" /\ Publish(w, "crm", [req[w] EXCEPT !.at = "complete"])
    BY <2>3, Published DEF Event
  <2>4. CASE req[w].op = "remind" /\ Publish(w, About[req[w].kind], [req[w] EXCEPT !.at = "mark"])
    <3>1. About[req[w].kind] \in Event
      BY <2>1, <2>4, Tables DEF Knows, Event
    <3> QED
      BY <2>4, <3>1, Published
  <2> QED
    BY <1>1, <2>2, <2>3, <2>4, RefusedKeeps, Creates, Works DEF Proceed
<1>2. CASE UNCHANGED vars
  BY <1>2, SameData, NobodyMoves DEF vars, IInv
<1> QED
  BY <1>1, <1>2, Arrives, Disturbed DEF Next

\* Theorem: in every reachable state every row and every change not yet committed is
\* proper, and a function that is about to record an event has its acceptance.
THEOREM Invariance == Spec => []IInv
<1>1. Init => IInv
  BY Starting
<1>2. IInv /\ [Next]_vars => IInv'
  BY Keeping
<1> QED
  BY <1>1, <1>2, PTL DEF Spec

\* Theorem: every row, transaction and local variable keeps its type.
THEOREM TypeCorrect == Spec => []TypeOK
<1>1. IInv => TypeOK
  <2> SUFFICES ASSUME IInv PROVE TypeOK
    OBVIOUS
  <2>0. Rows = {"app", "job", "log", "cohort", "member", "session", "attendee", "integration",
                "sessionlog", "windows"}
    BY ProgramsAssumption
  <2>1. /\ store["app"] \in AppStatus /\ store["job"] \in Job
        /\ store["member"] \in MemberStatus /\ store["integration"] \in Integration
    <3>1. \A r \in Rows : store[r] \in Value[r]
      BY DEF IInv, DataOK, Holds
    <3> QED
      BY <2>0, <3>1 DEF Value
  <2>2. \A r \in Rows \ {"app", "job", "member", "integration"} : store[r] \in BOOLEAN
    BY <2>0, Tables DEF IInv, DataOK, Holds
  <2>3. ASSUME NEW c \in Connections
        PROVE  /\ tx[c].state \in {"none", "open", "aborted"}
               /\ DOMAIN tx[c].writes \subseteq tx[c].locks /\ tx[c].locks \subseteq Rows
               /\ tx[c].state # "open" => tx[c] = [NoTx EXCEPT !.state = tx[c].state]
    <3>1. tx[c] \in Transaction /\ Proper(tx[c], events)
      BY DEF IInv, DataOK
    <3>2. ASSUME tx[c].state # "open" PROVE tx[c] = [NoTx EXCEPT !.state = tx[c].state]
      <4>1. tx[c].state \in {"none", "aborted"} /\ tx[c].writes = <<>> /\ tx[c].locks = {}
        BY <3>1, <3>2 DEF Transaction, Proper
      <4> DEFINE empty == [NoTx EXCEPT !.state = tx[c].state]
      <4>2. empty \in Transaction /\ empty.state = tx[c].state /\ empty.writes = <<>> /\ empty.locks = {}
        BY <4>1, EmptyTx DEF NoTx
      <4> HIDE DEF empty
      <4>3. tx[c] = [state |-> tx[c].state, writes |-> <<>>, locks |-> {}]
        BY <3>1, <4>1 DEF Transaction
      <4>4. empty = [state |-> tx[c].state, writes |-> <<>>, locks |-> {}]
        BY <4>2 DEF Transaction
      <4> QED
        BY <4>3, <4>4 DEF empty
    <3> QED
      BY <3>1, <3>2 DEF Transaction, Proper
  <2> QED
    BY <2>1, <2>2, <2>3 DEF IInv, RequestsOK, TypeOK, Job
<1> QED
  BY <1>1, Invariance, PTL

\* Theorem: whatever transactions the statements are part of, and whatever fails, a job is
\* recorded as succeeded and a reminder as sent only if notification-service accepted the event.
THEOREM OnlySentIsRecorded == Spec => []RecordedWasSent
<1>1. IInv => RecordedWasSent
  BY ProgramsAssumption DEF IInv, DataOK, Holds, RecordedWasSent
<1> QED
  BY <1>1, Invariance, PTL

=============================================================================
