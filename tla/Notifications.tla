----------------------------- MODULE Notifications -----------------------------
(***************************************************************************)
(* notification-service and the publisher the other services share: events *)
(* are sent to the Kafka topic notification-events and every instance of   *)
(* the service consumes them, as one group, into the table                 *)
(* notification_events.                                                    *)
(*                                                                         *)
(* Kafka and its client are external: a partition is a log, the group has  *)
(* a committed offset and an owner for each, and the client retries what   *)
(* was not answered and restarts from the committed offset when a handler  *)
(* throws.                                                                 *)
(***************************************************************************)
EXTENDS Integers, Sequences, FiniteSets

CONSTANTS
  Events,       \* the events services publish, each with its event_id
  Malformed,    \* those whose message the service's schema rejects
  Partitions,
  PartitionOf,  \* [Events -> Partitions]: the hash of the key, targetUserId
  Consumers,    \* the instances of notification-service
  Faults,       \* which faults may happen, each at most once; a start may fail every time
  MaxFaults,    \* bound: how many different ones
  None

FaultKind == {"broker", "ack", "restart", "start", "database", "answer", "session", "crash"}

ASSUME NotificationsAssumption ==
  /\ PartitionOf \in [Events -> Partitions]
  /\ Faults \subseteq FaultKind /\ MaxFaults \in Nat
  /\ None \notin Consumers

VARIABLES
  producer,   \* the publishing process's producer: "none", "unconnected", "connected"
  request,    \* [Events -> how far publishNotificationEvent is with it]
  log,        \* [Partitions -> Seq(Events)]
  committed,  \* [Partitions -> the group's committed offset]
  since,      \* [Partitions -> where the group last began without a committed offset]
  owner,      \* [Partitions -> the consumer it is assigned to]
  position,   \* [Partitions -> the offset up to which its owner is done]
  hand,       \* [Consumers -> the message whose eachMessage is running]
  feed,       \* the rows of notification_events, oldest first
  faults      \* the faults that happened

groupVars == <<committed, since, owner, position>>
vars == <<producer, request, log, groupVars, hand, feed, faults>>

NoOffset == -1
Hand == [at : {"down", "off", "idle", "push", "failed"}, p : Partitions \cup {None}, i : Nat]
Free(at) == [at |-> at, p |-> None, i |-> 0]

Init ==
  /\ producer = "none"
  /\ request = [e \in Events |-> "new"]
  /\ log = [p \in Partitions |-> <<>>]
  /\ committed = [p \in Partitions |-> NoOffset]
  /\ since = [p \in Partitions |-> 0]
  /\ owner = [p \in Partitions |-> None]
  /\ position = [p \in Partitions |-> 0]
  /\ hand = [c \in Consumers |-> Free("down")]
  /\ feed = <<>>
  /\ faults = {}

Stored == {feed[n] : n \in DOMAIN feed}

Fault(kind) ==
  /\ kind \in Faults \ faults /\ Cardinality(faults) < MaxFaults
  /\ faults' = faults \cup {kind}

-----------------------------------------------------------------------------
(* publishNotificationEvent.  Its callers catch and log what it throws.     *)

Step(e, from, to) == request[e] = from /\ request' = [request EXCEPT ![e] = to]

\* getProducer: only the first caller connects, and the variable is set before it has.
GetProducer(e) ==
  /\ Step(e, "new", IF producer = "none" THEN "connect" ELSE "send")
  /\ producer' = IF producer = "none" THEN "unconnected" ELSE producer
  /\ UNCHANGED <<log, groupVars, hand, feed, faults>>

\* connect() resolves, or throws and leaves the variable set.
Connect(e) ==
  /\ \/ Step(e, "connect", "send") /\ producer' = "connected" /\ UNCHANGED faults
     \/ Step(e, "connect", "lost") /\ UNCHANGED producer /\ Fault("broker")
  /\ UNCHANGED <<log, groupVars, hand, feed>>

Appended(e) == [log EXCEPT ![PartitionOf[e]] = Append(@, e)]

\* send() throws on a producer that is not connected.  An answer may be lost on the
\* way, and then the client sends the message again.
Send(e) ==
  /\ \/ producer = "connected" /\ Step(e, "send", "sent") /\ log' = Appended(e) /\ UNCHANGED faults
     \/ producer = "connected" /\ Step(e, "send", "send") /\ log' = Appended(e) /\ Fault("ack")
     \/ producer = "connected" /\ Step(e, "send", "lost") /\ UNCHANGED log /\ Fault("broker")
     \/ producer # "connected" /\ Step(e, "send", "lost") /\ UNCHANGED <<log, faults>>
  /\ UNCHANGED <<producer, groupVars, hand, feed>>

\* The publishing process restarts; what it was about to send is lost.
Restart ==
  /\ producer # "none" /\ producer' = "none"
  /\ request' = [e \in Events |-> IF request[e] \in {"connect", "send"} THEN "lost" ELSE request[e]]
  /\ Fault("restart")
  /\ UNCHANGED <<log, groupVars, hand, feed>>

-----------------------------------------------------------------------------
(* The group.                                                               *)

Owned(c) == {p \in Partitions : owner[p] = c}
Released(c) == [p \in Partitions |-> IF owner[p] = c THEN None ELSE owner[p]]

\* connect, subscribe and run; when they throw that is logged, and this instance answers
\* requests but never consumes.
StartConsumer(c) ==
  /\ hand[c].at = "down"
  /\ \/ hand' = [hand EXCEPT ![c] = Free("idle")]
     \/ hand' = [hand EXCEPT ![c] = Free("off")] /\ "start" \in Faults
  /\ UNCHANGED <<producer, request, log, groupVars, feed, faults>>

\* Mutant: nobody asks whether there is a committed offset.
AssignAtOffset(c, p) ==
  /\ hand[c].at = "idle" /\ owner[p] = None
  /\ owner' = [owner EXCEPT ![p] = c]
  /\ position' = [position EXCEPT ![p] = committed[p]]
  /\ UNCHANGED <<producer, request, log, committed, since, hand, feed, faults>>

\* The new owner begins at the committed offset, or at the end of the log when there
\* is none yet (fromBeginning: false).
Assign(c, p) ==
  /\ hand[c].at = "idle" /\ owner[p] = None
  /\ owner' = [owner EXCEPT ![p] = c]
  /\ IF committed[p] = NoOffset
       THEN /\ position' = [position EXCEPT ![p] = Len(log[p])]
            /\ since' = [since EXCEPT ![p] = Len(log[p])]
       ELSE /\ position' = [position EXCEPT ![p] = committed[p]]
            /\ UNCHANGED since
  /\ UNCHANGED <<producer, request, log, committed, hand, feed, faults>>

\* What the group would begin with again: it is settled up to here.
Settled(p) == IF committed[p] = NoOffset THEN since[p] ELSE committed[p]

Resolved(p) == position[p] > Settled(p)

\* Mutant: the message that comes next is committed with those before.
CommitFetched(c, p) ==
  /\ owner[p] = c /\ position[p] < Len(log[p])
  /\ committed' = [committed EXCEPT ![p] = position[p] + 1]
  /\ UNCHANGED <<producer, request, log, since, owner, position, hand, feed, faults>>

\* The client commits what eachMessage has returned from, at the end of a batch.
Commit(c, p) ==
  /\ owner[p] = c /\ hand[c].at = "idle" /\ Resolved(p)
  /\ committed' = [committed EXCEPT ![p] = position[p]]
  /\ UNCHANGED <<producer, request, log, since, owner, position, hand, feed, faults>>

\* The session of a consumer times out: its partitions are given away, but a message
\* it is working on it finishes.
Leave(c) ==
  /\ Owned(c) # {} /\ Fault("session")
  /\ owner' = Released(c)
  /\ UNCHANGED <<producer, request, log, committed, since, position, hand, feed>>

Crash(c) ==
  /\ hand[c].at # "down" /\ Fault("crash")
  /\ hand' = [hand EXCEPT ![c] = Free("down")]
  /\ owner' = Released(c)
  /\ UNCHANGED <<producer, request, log, committed, since, position, feed>>

-----------------------------------------------------------------------------
(* eachMessage.                                                             *)

Done(c, p) ==
  /\ hand' = [hand EXCEPT ![c] = Free("idle")]
  /\ position' = IF owner[p] = c THEN [position EXCEPT ![p] = @ + 1] ELSE position
Take(c, p, at) ==
  hand' = [hand EXCEPT ![c] = [at |-> at, p |-> p, i |-> position[p] + 1]] /\ UNCHANGED position
Fail(c) == hand' = [hand EXCEPT ![c].at = "failed"] /\ UNCHANGED position

\* Mutant: parsing is not inside the try block.
ParseOrThrow(c, p) ==
  /\ hand[c].at = "idle" /\ owner[p] = c /\ position[p] < Len(log[p])
  /\ Take(c, p, IF log[p][position[p] + 1] \in Malformed THEN "failed" ELSE "push")
  /\ UNCHANGED <<producer, request, log, committed, since, owner, feed, faults>>

\* What the schema rejects is logged and skipped; anything else is to be stored.
EachMessage(c, p) ==
  /\ hand[c].at = "idle" /\ owner[p] = c /\ position[p] < Len(log[p])
  /\ \/ log[p][position[p] + 1] \in Malformed /\ Done(c, p)
     \/ log[p][position[p] + 1] \notin Malformed /\ Take(c, p, "push")
  /\ UNCHANGED <<producer, request, log, committed, since, owner, feed, faults>>

\* INSERT INTO notification_events: the UNIQUE event_id rejects an event that is there.
Insert(e) == e \notin Stored /\ feed' = Append(feed, e)

\* Mutant: pushEvent is inside the try block, too, whose catch skips the message.
PushOrSkip(c) ==
  /\ hand[c].at = "push" /\ Done(c, hand[c].p)
  /\ \/ Insert(log[hand[c].p][hand[c].i]) /\ UNCHANGED faults
     \/ UNCHANGED feed /\ Fault("database")
  /\ UNCHANGED <<producer, request, log, committed, since, owner>>

\* pushEvent: the INSERT is carried out, or rejected, or fails; or it is carried out and
\* the answer is lost.
PushEvent(c) ==
  /\ hand[c].at = "push"
  /\ LET e == log[hand[c].p][hand[c].i] IN
     \/ Insert(e) /\ Done(c, hand[c].p) /\ UNCHANGED faults
     \/ e \in Stored /\ Fail(c) /\ UNCHANGED <<feed, faults>>
     \/ Fault("database") /\ Fail(c) /\ UNCHANGED feed
     \/ Fault("answer") /\ Insert(e) /\ Fail(c)
  /\ UNCHANGED <<producer, request, log, committed, since, owner>>

\* eachMessage threw: the client commits the messages before and tries this one again
\* where it is, or leaves the group and joins it once more.
Retry(c) ==
  /\ hand[c].at = "failed"
  /\ hand' = [hand EXCEPT ![c] = Free("idle")]
  /\ committed' = [p \in Partitions |->
                     IF owner[p] = c /\ Resolved(p) THEN position[p] ELSE committed[p]]
  /\ owner' = owner \/ owner' = Released(c)
  /\ UNCHANGED <<producer, request, log, since, position, feed, faults>>

-----------------------------------------------------------------------------
Next ==
  \/ \E e \in Events : GetProducer(e) \/ Connect(e) \/ Send(e)
  \/ Restart
  \/ \E c \in Consumers :
       \/ StartConsumer(c) \/ PushEvent(c) \/ Retry(c) \/ Leave(c) \/ Crash(c)
       \/ \E p \in Partitions : Assign(c, p) \/ EachMessage(c, p) \/ Commit(c, p)

Spec == Init /\ [][Next]_vars

\* Running processes go on, and a client that restarts joins its group again: it is given
\* the free partitions although it is busy in between.  Nobody has to publish, and which
\* partition of a consumer comes next is not promised.
FairSpec ==
  /\ Spec
  /\ \A e \in Events : WF_vars(Connect(e)) /\ WF_vars(Send(e))
  /\ \A p \in Partitions : SF_vars(\E c \in Consumers : Assign(c, p))
  /\ \A c \in Consumers :
       /\ WF_vars(StartConsumer(c)) /\ WF_vars(PushEvent(c)) /\ WF_vars(Retry(c))
       /\ WF_vars(\E p \in Partitions : EachMessage(c, p))
       /\ WF_vars(\E p \in Partitions : Commit(c, p))

-----------------------------------------------------------------------------
(* Properties.                                                              *)

TypeOK ==
  /\ producer \in {"none", "unconnected", "connected"}
  /\ request \in [Events -> {"new", "connect", "send", "sent", "lost"}]
  /\ log \in [Partitions -> Seq(Events)]
  /\ committed \in [Partitions -> Nat \cup {NoOffset}]
  /\ since \in [Partitions -> Nat] /\ position \in [Partitions -> Nat]
  /\ owner \in [Partitions -> Consumers \cup {None}]
  /\ hand \in [Consumers -> Hand]
  /\ feed \in Seq(Events)
  /\ faults \subseteq Faults

\* From where the group began on, the messages up to the n-th are stored, or rejected
\* by the schema.
Through(p, n) == \A k \in (since[p] + 1)..n : log[p][k] \in Stored \cup Malformed

\* What the group has committed is stored: no message is passed over for good, whoever
\* crashes, fails or loses its partitions in the middle of it.
NothingSkipped == \A p \in Partitions : Through(p, committed[p])

\* The events of one user appear in the order in which they were sent: when one is
\* stored, so is what was sent before it (first: a send may be repeated), from where the
\* group began on.
StoredInOrder ==
  \A p \in Partitions : \A i \in DOMAIN log[p] :
    log[p][i] \in Stored /\ (\A k \in 1..(i - 1) : log[p][k] # log[p][i]) => Through(p, i)

\* The partition waits at a message whose event is in the table, which its INSERT rejects.
Poisoned(p) == Settled(p) < Len(log[p]) /\ log[p][Settled(p) + 1] \in Stored

\* The consumer of p has q as well.
SharesConsumer(p, q) == owner[p] # None /\ owner[p] = owner[q]

NobodyConsumes == \A c \in Consumers : hand[c].at = "off"

Sent(e) == \E i \in DOMAIN log[PartitionOf[e]] : log[PartitionOf[e]][i] = e

\* It was sent before the group began, and there was no committed offset to begin with.
PassedOver(e) ==
  LET p == PartitionOf[e] IN \A i \in DOMAIN log[p] : log[p][i] = e => i <= since[p]

\* Every well-formed event of the topic is stored, with three exceptions: the group began
\* behind it, without a committed offset; or a message that was delivered twice stays in
\* front of this or another partition of the same consumer for ever; or the instances have
\* all failed to start their consumer, which none of them tries again.
StoredOrHeldUp ==
  \A e \in Events \ Malformed :
    \/ []<>(Sent(e) => e \in Stored \/ PassedOver(e))
    \/ \E q \in Partitions : <>[]Poisoned(q) /\ []<>SharesConsumer(PartitionOf[e], q)
    \/ <>[]NobodyConsumes

=============================================================================
