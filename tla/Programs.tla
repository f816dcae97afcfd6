------------------------------- MODULE Programs -------------------------------
(***************************************************************************)
(* programs-service: writers apply to a program, admins review them, form  *)
(* cohorts and hold sessions; a scheduler sends reminders and works off a  *)
(* queue of CRM jobs, both by events to notification-service.              *)
(*                                                                         *)
(* A running async function is a worker, as in CoverageOrders; each of its *)
(* statements goes to the pool (PooledDatabase), BEGIN and COMMIT too.     *)
(* One program, application, CRM job, cohort and session stand for the     *)
(* rows: no statement relates two of a kind.  Of the session's reminders   *)
(* one is followed: the default one, an hour ahead.                        *)
(***************************************************************************)
EXTENDS PooledDatabase

CONSTANTS
  Workers,      \* requests and scheduler jobs under way at the same time
  Kinds,        \* which of the multi-statement creations are tried
  MaxAttempts,  \* max_attempts of the CRM job, 5 by default
  MaxClaims,    \* bound: claims of the CRM job
  TokenAsked,   \* TRUE: /internal/events of notification-service, which asks for a service
                \* token; FALSE: a receiver that does not, like that of the tests
  Faults        \* which of "database", "notify" and "crash" may happen

ASSUME ProgramsAssumption ==
  /\ Kinds \subseteq {"cohort", "session", "windows"}
  /\ MaxAttempts \in Nat \ {0} /\ MaxClaims \in Nat
  /\ TokenAsked \in BOOLEAN
  /\ Faults \subseteq {"database", "notify", "crash"}
  /\ Rows = {"app", "job", "log", "cohort", "member", "session", "attendee", "integration",
             "sessionlog", "windows"}

VARIABLES
  events,   \* what the receiver of the notifications has accepted
  decided,  \* the status the application was last given by an answered statement
  req,      \* [Workers -> Request]
  calm,     \* from some point on no call fails and the process runs
  clock     \* "early", "window" while the session's reminder is due, "late" when the
            \* cohort has ended

vars == <<store, tx, events, decided, req, calm, clock>>

\* "submitted" is also under_review; no statement here tells the decisions apart.
AppStatus == {"none", "submitted", "decided"}
JobStatus == {"none", "queued", "running", "succeeded", "failed", "dead_letter"}
MemberStatus == {"none", "active", "completed"}
\* Whether the offsets of a session's integration include the reminder's.
Integration == {"none", "asks", "other"}
Event == {"crm", "reminder", "session"}
Op   == {"none", "review", "create", "crm", "remind", "integrate"}
Step == {"idle", "notify", "begin", "first", "second", "third", "commit", "rollback", "select",
         "update", "publish", "complete", "reread", "fail", "check", "mark", "upsert"}

\* The local variables of a running function: the kind of thing it creates or reminds of
\* or what it writes, whether the claim found a job, and the attempts it read when it
\* was to record a failure.
Request == [op : Op, at : Step, kind : Kinds \cup Integration \cup {"app", "session"}, n : Nat]
Idle == [op |-> "none", at |-> "idle", kind |-> "none", n |-> 0]

NoJob == [status |-> "none", attempts |-> 0]

Init ==
  /\ store = [r \in Rows |-> CASE r \in {"app", "member", "integration"} -> "none"
                               [] r = "job" -> NoJob
                               [] OTHER -> r = "windows"]
  /\ tx = [c \in Connections |-> NoTx]
  /\ events = {}
  /\ decided = "none"
  /\ req = [w \in Workers |-> Idle]
  /\ calm = FALSE
  /\ clock = "early"

-----------------------------------------------------------------------------
Resume(w, q)  == req' = [req EXCEPT ![w] = q] /\ UNCHANGED <<calm, clock>>
Goto(w, step) == Resume(w, [req[w] EXCEPT !.at = step])
At(w, step)   == req[w].at = step
Begin(w, q)   == At(w, "idle") /\ Resume(w, q)

\* The one statement of a function that answers then, or goes on to its next row.
Answered == UNCHANGED <<events, req, calm, clock>>

\* A read or a pause between statements touches nothing.
Reading == UNCHANGED <<store, tx, events, decided>>

\* Where a failed statement leads: to ROLLBACK inside the try of a transaction, to
\* failProgramCrmSyncJob inside the dispatcher's, else out of the function.
Catch(q) ==
  CASE q.at \in {"first", "second", "third", "commit", "select", "update"} -> [q EXCEPT !.at = "rollback"]
    [] q.at \in {"publish", "complete"} /\ q.op = "crm" -> [q EXCEPT !.at = "reread"]
    [] OTHER -> Idle

\* A statement fails: its connection is lost with its transaction or had it aborted before.
FailedCall(w) ==
  /\ ~calm
  /\ req[w].at \notin {"idle", "publish", "notify"}
  /\ \E c \in Connections :
       \/ /\ tx[c].state = "aborted" /\ req[w].at \notin {"begin", "commit", "rollback"}
          /\ UNCHANGED <<store, tx>>
       \/ "database" \in Faults /\ RollbackTx(c)
  /\ Resume(w, Catch(req[w]))
  /\ UNCHANGED <<events, decided>>

\* The process ends; the server rolls back what its connections had open.
Crash ==
  /\ "crash" \in Faults /\ ~calm
  /\ req # [w \in Workers |-> Idle]
  /\ req' = [w \in Workers |-> Idle]
  /\ tx' = [c \in Connections |-> NoTx]
  /\ UNCHANGED <<store, events, decided, calm, clock>>

CalmDown == ~calm /\ calm' = TRUE /\ UNCHANGED <<store, tx, events, decided, req, clock>>

TimePasses ==
  /\ clock' \in CASE clock = "early" -> {"window"} [] clock = "window" -> {"late"} [] OTHER -> {}
  /\ UNCHANGED <<store, tx, events, decided, req, calm>>

\* The receiver stores the event; its answer may be lost.  publishNotification sends no
\* service token, so one that asks for it never gets here.
Publish(w, event, next) ==
  /\ At(w, "publish") /\ ~TokenAsked
  /\ events' = events \cup {event}
  /\ \/ Resume(w, next)
     \/ "notify" \in Faults /\ ~calm /\ Resume(w, Catch(req[w]))
  /\ UNCHANGED <<store, tx, decided>>

\* The receiver answers 403, or another status from 400 on: publishNotification throws.
Refused(w) ==
  /\ At(w, "publish")
  /\ Resume(w, Catch(req[w]))
  /\ Reading

-----------------------------------------------------------------------------
(* Applications.  Each is one statement that answers the request.           *)

\* INSERT ... ON CONFLICT DO UPDATE while the program is open: a decision is undone.
CreateProgramApplication(w, c) ==
  /\ At(w, "idle")
  /\ Write(c, "app", "submitted")
  /\ decided' = "submitted"
  /\ Answered

ReviewProgramApplication(w, c) ==
  /\ Sees(c, "app") # "none"
  /\ Begin(w, [Idle EXCEPT !.op = "review", !.at = "notify"])
  /\ Write(c, "app", "decided")
  /\ decided' = "decided"
  /\ UNCHANGED events

\* The writer is told or not: a failure is swallowed, and nothing depends on it.
NotifyDecision(w) == At(w, "notify") /\ Resume(w, Idle) /\ Reading

-----------------------------------------------------------------------------
(* Several statements meant as one transaction: a cohort and its member; a  *)
(* session, its attendee and its integration; the windows of a program,     *)
(* deleted and inserted.                                                    *)

First  == [cohort |-> "cohort", session |-> "session", windows |-> "windows"]
Second == [cohort |-> "member", session |-> "attendee", windows |-> "windows"]

Create(w, kind) ==
  /\ kind \in Kinds
  /\ kind = "windows" \/ ~store[First[kind]]
  /\ Begin(w, [Idle EXCEPT !.op = "create", !.at = "begin", !.kind = kind])
  /\ Reading

CreateProgramCohort(w)        == Create(w, "cohort")
CreateProgramSession(w)       == Create(w, "session")
ReplaceAvailabilityWindows(w) == Create(w, "windows")

BeginTransaction(w, c) ==
  /\ At(w, "begin")
  /\ BeginTx(c)
  /\ Goto(w, IF req[w].op = "crm" THEN "select" ELSE "first")
  /\ UNCHANGED <<events, decided>>

FirstStatement(w, c) ==
  LET kind == req[w].kind IN
  /\ At(w, "first")
  /\ Write(c, First[kind], kind # "windows")
  /\ Goto(w, "second")
  /\ UNCHANGED <<events, decided>>

\* The foreign key is checked with what this connection sees of the first row.
Insert(w, c, kind, row, value, next) ==
  IF kind # "windows" /\ ~Sees(c, First[kind])
  THEN tx[c].state # "aborted" /\ Abort(c) /\ Goto(w, "rollback")
  ELSE Write(c, row, value) /\ Goto(w, next)

\* An application that is not found is passed over; none may have been named, and no attendee.
SecondStatement(w, c) ==
  LET kind == req[w].kind
      next == IF kind = "session" THEN "third" ELSE "commit"
  IN
  /\ At(w, "second")
  /\ \/ /\ kind = "cohort" => Sees(c, "app") # "none"
        /\ Insert(w, c, kind, Second[kind], IF kind = "cohort" THEN "active" ELSE TRUE, next)
     \/ /\ kind # "windows"
        /\ tx[c].state # "aborted"
        /\ Goto(w, next) /\ UNCHANGED <<store, tx>>
  /\ UNCHANGED <<events, decided>>

ThirdStatement(w, c) ==
  /\ At(w, "third")
  /\ Insert(w, c, "session", "integration", "asks", "commit")
  /\ UNCHANGED <<events, decided>>

\* Mutant: the claimed job is completed without being published.
CommitThenComplete(w, c) ==
  /\ At(w, "commit")
  /\ CommitTx(c)
  /\ IF req[w].op = "crm" /\ req[w].n = 1 THEN Goto(w, "complete") ELSE Resume(w, Idle)
  /\ UNCHANGED <<events, decided>>

Commit(w, c) ==
  /\ At(w, "commit")
  /\ CommitTx(c)
  /\ IF req[w].op = "crm" /\ req[w].n = 1 THEN Goto(w, "publish") ELSE Resume(w, Idle)
  /\ UNCHANGED <<events, decided>>

Rollback(w, c) ==
  /\ At(w, "rollback")
  /\ RollbackTx(c)
  /\ Resume(w, Idle)
  /\ UNCHANGED <<events, decided>>

-----------------------------------------------------------------------------
(* Sessions and cohorts in progress.                                        *)

UpsertSessionAttendance(w, c) ==
  /\ At(w, "idle") /\ Sees(c, "session")
  /\ Write(c, "attendee", TRUE)
  /\ Answered /\ UNCHANGED decided

\* The update gives the offsets or keeps the ones it reads; they are written back later.
UpdateProgramSessionIntegration(w, c) ==
  /\ tx[c].state # "aborted" /\ Sees(c, "session")
  /\ \E offsets \in {"asks", "other", Sees(c, "integration")} \ {"none"} :
       Begin(w, [Idle EXCEPT !.op = "integrate", !.at = "upsert", !.kind = offsets])
  /\ Reading

UpsertIntegration(w, c) ==
  /\ At(w, "upsert")
  /\ Write(c, "integration", req[w].kind)
  /\ Resume(w, Idle)
  /\ UNCHANGED <<events, decided>>

\* One UPDATE of every active member of a cohort that has ended.
RunCohortTransitionJob(w, c) ==
  /\ At(w, "idle") /\ clock = "late"
  /\ Sees(c, "cohort") /\ Sees(c, "member") = "active"
  /\ Write(c, "member", "completed")
  /\ Answered /\ UNCHANGED decided

-----------------------------------------------------------------------------
(* The CRM queue.                                                           *)

QueueProgramCrmSyncJob(w, c) ==
  /\ At(w, "idle") /\ Sees(c, "job") = NoJob /\ store["job"] = NoJob
  /\ Write(c, "job", [status |-> "queued", attempts |-> 0])
  /\ Answered /\ UNCHANGED decided

Dispatch(w) ==
  /\ Begin(w, [Idle EXCEPT !.op = "crm", !.at = "begin"])
  /\ Reading

\* Mutant: a failed job is not selected again.
SelectQueued(w, c) ==
  /\ At(w, "select")
  /\ tx[c].state # "aborted"
  /\ IF Unlocked(c, "job") /\ Sees(c, "job").status = "queued"
     THEN Lock(c, "job") /\ Resume(w, [req[w] EXCEPT !.at = "update", !.n = 1])
     ELSE Goto(w, "commit") /\ UNCHANGED <<store, tx>>
  /\ UNCHANGED <<events, decided>>

\* SELECT ... FOR UPDATE SKIP LOCKED LIMIT 1; next_attempt_at may have passed.
SelectJob(w, c) ==
  /\ At(w, "select")
  /\ tx[c].state # "aborted"
  /\ IF Unlocked(c, "job") /\ Sees(c, "job").status \in {"queued", "failed"}
     THEN Lock(c, "job") /\ Resume(w, [req[w] EXCEPT !.at = "update", !.n = 1])
     ELSE Goto(w, "commit") /\ UNCHANGED <<store, tx>>
  /\ UNCHANGED <<events, decided>>

ClaimJob(w, c) ==
  /\ At(w, "update") /\ Sees(c, "job").attempts < MaxClaims
  /\ Write(c, "job", [status |-> "running", attempts |-> Sees(c, "job").attempts + 1])
  /\ Goto(w, "commit")
  /\ UNCHANGED <<events, decided>>

\* Mutant: a status that the CHECK constraint does not list.
CompleteUnlisted(w, c) ==
  /\ At(w, "complete")
  /\ Write(c, "job", [Sees(c, "job") EXCEPT !.status = "completed"])
  /\ Resume(w, Idle)
  /\ UNCHANGED <<events, decided>>

CompleteJob(w, c) ==
  /\ At(w, "complete")
  /\ Write(c, "job", [Sees(c, "job") EXCEPT !.status = "succeeded"])
  /\ Resume(w, Idle)
  /\ UNCHANGED <<events, decided>>

\* The attempts are read by a statement of their own, and the UPDATE trusts them.
ReadAttempts(w, c) ==
  /\ At(w, "reread")
  /\ tx[c].state # "aborted"
  /\ Resume(w, [req[w] EXCEPT !.at = "fail", !.n = Sees(c, "job").attempts])
  /\ Reading

FailJob(w, c) ==
  LET status == IF req[w].n >= MaxAttempts THEN "dead_letter" ELSE "failed" IN
  /\ At(w, "fail")
  /\ Write(c, "job", [Sees(c, "job") EXCEPT !.status = status])
  /\ Resume(w, Idle)
  /\ UNCHANGED <<events, decided>>

-----------------------------------------------------------------------------
(* Reminders: candidates are listed, then each is checked, published and    *)
(* logged.                                                                  *)

Log   == [app |-> "log", session |-> "sessionlog"]
About == [app |-> "reminder", session |-> "session"]

Remind(w, kind) ==
  /\ Begin(w, [Idle EXCEPT !.op = "remind", !.at = "check", !.kind = kind])
  /\ Reading

ListApplicationReminderCandidates(w, c) ==
  /\ tx[c].state # "aborted"
  /\ Sees(c, "app") = "submitted" /\ ~Sees(c, "log")
  /\ Remind(w, "app")

\* The time is taken once, before the loop over the candidates.
ListSessionReminderCandidates(w, c) ==
  /\ tx[c].state # "aborted"
  /\ Sees(c, "session") /\ Sees(c, "attendee") /\ Sees(c, "integration") = "asks"
  /\ clock = "window"
  /\ Remind(w, "session")

HasReminderBeenSent(w, c) ==
  /\ At(w, "check")
  /\ tx[c].state # "aborted"
  /\ IF Sees(c, Log[req[w].kind]) THEN Resume(w, Idle) ELSE Goto(w, "publish")
  /\ Reading

\* INSERT ... ON CONFLICT (dedupe_key) DO NOTHING.
MarkReminderSent(w, c) ==
  LET row == Log[req[w].kind] IN
  /\ At(w, "mark")
  /\ IF Sees(c, row) /\ tx[c].state # "aborted" THEN UNCHANGED <<store, tx>>
                                                ELSE Write(c, row, TRUE)
  /\ Resume(w, Idle)
  /\ UNCHANGED <<events, decided>>

-----------------------------------------------------------------------------
Arrival(w) ==
  \/ CreateProgramCohort(w) \/ CreateProgramSession(w) \/ ReplaceAvailabilityWindows(w)
  \/ Dispatch(w)
  \/ \E c \in Connections :
       \/ CreateProgramApplication(w, c) \/ QueueProgramCrmSyncJob(w, c)
       \/ ReviewProgramApplication(w, c)
       \/ UpsertSessionAttendance(w, c) \/ UpdateProgramSessionIntegration(w, c)
       \/ ListApplicationReminderCandidates(w, c) \/ ListSessionReminderCandidates(w, c)
       \/ RunCohortTransitionJob(w, c)

Proceed(w) ==
  \/ NotifyDecision(w) \/ Refused(w)
  \/ req[w].op = "crm" /\ Publish(w, "crm", [req[w] EXCEPT !.at = "complete"])
  \/ req[w].op = "remind" /\ Publish(w, About[req[w].kind], [req[w] EXCEPT !.at = "mark"])
  \/ \E c \in Connections :
       \/ BeginTransaction(w, c) \/ FirstStatement(w, c) \/ SecondStatement(w, c)
       \/ ThirdStatement(w, c) \/ UpsertIntegration(w, c) \/ Commit(w, c) \/ Rollback(w, c)
       \/ SelectJob(w, c) \/ ClaimJob(w, c) \/ CompleteJob(w, c)
       \/ ReadAttempts(w, c) \/ FailJob(w, c)
       \/ HasReminderBeenSent(w, c) \/ MarkReminderSent(w, c)

Next ==
  \/ Crash \/ CalmDown \/ TimePasses
  \/ \E w \in Workers : Arrival(w) \/ Proceed(w) \/ FailedCall(w)

Spec == Init /\ [][Next]_vars

\* Node runs every pending continuation, failures come to an end, and the timer of
\* startProgramsScheduler fires again and again, every half hour in the minute of the
\* cohorts too, and finds time for its jobs.
FairSpec ==
  /\ Spec
  /\ WF_vars(CalmDown)
  /\ \A w \in Workers :
       /\ WF_vars(Proceed(w))
       /\ SF_vars(Dispatch(w))
       /\ SF_vars(\E c \in Connections : ListApplicationReminderCandidates(w, c))
       /\ SF_vars(\E c \in Connections : RunCohortTransitionJob(w, c))

-----------------------------------------------------------------------------
(* Properties.                                                              *)

TypeOK ==
  /\ store["app"] \in AppStatus
  /\ store["job"] \in [status : JobStatus, attempts : Nat]
  /\ store["member"] \in MemberStatus /\ store["integration"] \in Integration
  /\ \A r \in Rows \ {"app", "job", "member", "integration"} : store[r] \in BOOLEAN
  /\ \A c \in Connections :
       /\ tx[c].state \in {"none", "open", "aborted"}
       /\ DOMAIN tx[c].writes \subseteq tx[c].locks /\ tx[c].locks \subseteq Rows
       /\ tx[c].state # "open" => tx[c] = [NoTx EXCEPT !.state = tx[c].state]
  /\ events \subseteq Event
  /\ decided \in AppStatus /\ calm \in BOOLEAN /\ clock \in {"early", "window", "late"}
  /\ req \in [Workers -> Request]

\* A job is recorded as succeeded, and a reminder as sent, only if the receiver has
\* accepted the event, whatever transactions the statements of other functions have put
\* them in: after a 403 neither ever is.
RecordedWasSent ==
  /\ store["job"].status = "succeeded" => "crm" \in events
  /\ store["log"] => "reminder" \in events
  /\ store["sessionlog"] => "session" \in events

\* A decision whose statement was answered is what the application has from then on,
\* whenever no transaction is open; likewise a submission.
DecisionKept == Quiescent => store["app"] = decided

\* After failures and restarts, what is due is done.  A CRM job that waits is carried through
\* or given up for good, and the member of a cohort that ended is completed.  The reminder
\* of an undecided application is tried again and again until it is logged as sent: whether
\* the receiver takes it is not claimed.
Reminding == \E w \in Workers : /\ req[w].op = "remind" /\ req[w].kind = "app"
                                /\ At(w, "publish")
DueIsDone ==
  /\ calm /\ store["job"].status \in {"queued", "failed"}
       ~> store["job"].status \in {"succeeded", "dead_letter"}
  /\ store["app"] = "submitted" ~> store["log"] \/ store["app"] = "decided" \/ Reminding
  /\ clock = "late" /\ store["member"] = "active" ~> store["member"] = "completed"

=============================================================================
