-------------------------- MODULE NotificationsProofs --------------------------
(***************************************************************************)
(* For any number of events, partitions and consumers and any faults: what *)
(* the group has committed is stored, and the events of a partition are    *)
(* stored in the order in which they were sent.                            *)
(*                                                                         *)
(* A consumer that lost its partition finishes its INSERT although another *)
(* one works there, so the invariant says of every consumer, owner or not, *)
(* that the messages before the one in its hand are stored; and that only  *)
(* the owner's answer moves the position.                                  *)
(***************************************************************************)
EXTENDS Notifications, TLAPS

-----------------------------------------------------------------------------
(* The inductive invariant.                                                 *)

\* Whatever is in the table was sent to its partition.
StoredWasSent == \A e \in Stored : \E k \in DOMAIN log[PartitionOf[e]] : log[PartitionOf[e]][k] = e

\* A partition has only the events of its keys; what its owner has done is stored, and
\* the offsets lie within the log.
PartitionOK(p) ==
  /\ \A k \in DOMAIN log[p] : PartitionOf[log[p][k]] = p
  /\ since[p] <= Len(log[p]) /\ committed[p] <= Len(log[p]) /\ position[p] <= Len(log[p])
  /\ Through(p, committed[p]) /\ Through(p, position[p])

\* The messages before the one being stored are stored.
HandOK(c) ==
  hand[c].at = "push" =>
    LET p == hand[c].p
        i == hand[c].i
    IN /\ p \in Partitions /\ i \in 1..Len(log[p])
       /\ Through(p, i - 1)
       /\ owner[p] = c => position[p] = i - 1

IInv ==
  /\ TypeOK
  /\ StoredWasSent
  /\ \A p \in Partitions : PartitionOK(p)
  /\ \A c \in Consumers : HandOK(c)
  /\ StoredInOrder

-----------------------------------------------------------------------------
(* What no step takes back.                                                 *)

\* The table and the logs only grow, and the group never begins further in front.
Lasting ==
  /\ Stored \subseteq Stored'
  /\ \A p \in Partitions :
       /\ Len(log[p]) <= Len(log'[p])
       /\ \A k \in 1..Len(log[p]) : log'[p][k] = log[p][k]
       /\ since[p] <= since'[p]

\* Lemma: what was stored up to the n-th message stays so.
LEMMA ThroughLasts ==
  ASSUME TypeOK, TypeOK', Lasting, NEW p \in Partitions, NEW n \in Int,
         n <= Len(log[p]), Through(p, n)
  PROVE  Through(p, n)'
<1> SUFFICES ASSUME NEW k \in (since'[p] + 1)..n PROVE log'[p][k] \in Stored' \cup Malformed
  BY DEF Through
<1>1. since[p] \in Nat /\ since'[p] \in Nat /\ since[p] <= since'[p] /\ log[p] \in Seq(Events)
  BY DEF TypeOK, Lasting
<1>2. k \in (since[p] + 1)..n /\ k \in 1..Len(log[p])
  BY <1>1
<1>3. log[p][k] \in Stored \cup Malformed
  BY <1>2 DEF Through
<1> QED
  BY <1>2, <1>3 DEF Lasting

\* Lemma: a row more in the table.
LEMMA OneMore ==
  ASSUME feed \in Seq(Events), NEW e \in Events, feed' = Append(feed, e)
  PROVE  feed' \in Seq(Events) /\ Stored' = Stored \cup {e}
<1>1. DOMAIN feed' = 1..(Len(feed) + 1) /\ DOMAIN feed = 1..Len(feed) /\ Len(feed) \in Nat
  OBVIOUS
<1>2. /\ \A n \in 1..Len(feed) : feed'[n] = feed[n]
      /\ feed'[Len(feed) + 1] = e
  OBVIOUS
<1>3. feed' \in Seq(Events)
  OBVIOUS
<1> QED
  BY <1>1, <1>2, <1>3 DEF Stored

\* Lemma: what Append does.
LEMMA AppendOne ==
  ASSUME NEW S, NEW s \in Seq(S), NEW e \in S
  PROVE  /\ Append(s, e) \in Seq(S)
         /\ Len(Append(s, e)) = Len(s) + 1
         /\ \A k \in 1..Len(s) : Append(s, e)[k] = s[k]
         /\ Append(s, e)[Len(s) + 1] = e
OBVIOUS

\* Lemma: one message more in a log.
LEMMA Longer ==
  ASSUME NotificationsAssumption, log \in [Partitions -> Seq(Events)], NEW e \in Events, log' = Appended(e)
  PROVE  /\ log' \in [Partitions -> Seq(Events)]
         /\ PartitionOf[e] \in Partitions
         /\ \A p \in Partitions :
              /\ Len(log'[p]) = IF p = PartitionOf[e] THEN Len(log[p]) + 1 ELSE Len(log[p])
              /\ \A k \in 1..Len(log[p]) : log'[p][k] = log[p][k]
              /\ p = PartitionOf[e] => log'[p][Len(log[p]) + 1] = e
<1>1. PartitionOf[e] \in Partitions
  BY DEF NotificationsAssumption
<1>2. \A p \in Partitions : log'[p] = IF p = PartitionOf[e] THEN Append(log[p], e) ELSE log[p]
  BY <1>1 DEF Appended
<1>3. log' \in [Partitions -> Seq(Events)]
  BY <1>1 DEF Appended
<1>4. ASSUME NEW p \in Partitions
      PROVE  /\ Len(log'[p]) = IF p = PartitionOf[e] THEN Len(log[p]) + 1 ELSE Len(log[p])
             /\ \A k \in 1..Len(log[p]) : log'[p][k] = log[p][k]
             /\ p = PartitionOf[e] => log'[p][Len(log[p]) + 1] = e
  <2>1. log[p] \in Seq(Events)
    OBVIOUS
  <2>2. CASE p = PartitionOf[e]
    <3>1. log'[p] = Append(log[p], e)
      BY <1>2, <2>2
    <3> QED
      BY <2>1, <2>2, <3>1, AppendOne
  <2>3. CASE p # PartitionOf[e]
    BY <1>2, <2>1, <2>3
  <2> QED
    BY <2>2, <2>3
<1> QED
  BY <1>1, <1>3, <1>4

-----------------------------------------------------------------------------
(* Type correctness.                                                        *)

\* Lemma: a consumer that works on nothing.
LEMMA FreeIsHand ==
  /\ \A at \in {"down", "off", "idle", "push", "failed"} : Free(at) \in Hand
  /\ \A at \in {"down", "off", "idle", "push", "failed"}, p \in Partitions, i \in Nat :
       [at |-> at, p |-> p, i |-> i] \in Hand
  /\ \A h \in Hand : [h EXCEPT !.at = "failed"] \in Hand
BY DEF Free, Hand

\* Lemma: the message in a consumer's hand is an event.
LEMMA InHand ==
  ASSUME TypeOK, NEW c \in Consumers, HandOK(c), hand[c].at = "push"
  PROVE  hand[c].p \in Partitions /\ log[hand[c].p][hand[c].i] \in Events
<1>1. hand[c].p \in Partitions /\ hand[c].i \in 1..Len(log[hand[c].p])
  BY DEF HandOK
<1>2. log[hand[c].p] \in Seq(Events)
  BY <1>1 DEF TypeOK
<1> QED
  BY <1>1, <1>2

\* Lemma: the parts of eachMessage keep the types.
LEMMA HandTypes ==
  ASSUME TypeOK, NEW c \in Consumers, NEW p \in Partitions, NEW at \in {"push", "failed"},
         Done(c, p) \/ Take(c, p, at) \/ Fail(c)
  PROVE  hand' \in [Consumers -> Hand] /\ position' \in [Partitions -> Nat]
<1>1. hand \in [Consumers -> Hand] /\ position \in [Partitions -> Nat]
  BY DEF TypeOK
<1>2. position[p] + 1 \in Nat
  BY <1>1
<1>3. CASE Done(c, p)
  <2>1. Free("idle") \in Hand
    BY FreeIsHand
  <2> QED
    BY <1>1, <1>2, <1>3, <2>1 DEF Done
<1>4. CASE Take(c, p, at)
  <2>1. [at |-> at, p |-> p, i |-> position[p] + 1] \in Hand
    BY <1>2, FreeIsHand
  <2> QED
    BY <1>1, <1>4, <2>1 DEF Take
<1>5. CASE Fail(c)
  <2>1. [hand[c] EXCEPT !.at = "failed"] \in Hand
    BY <1>1, FreeIsHand
  <2> QED
    BY <1>1, <1>5, <2>1 DEF Fail
<1> QED
  BY <1>3, <1>4, <1>5

\* Every variable keeps its type.
LEMMA TypeNext == NotificationsAssumption /\ IInv /\ [Next]_vars => TypeOK'
<1> SUFFICES ASSUME NotificationsAssumption, IInv, [Next]_vars PROVE TypeOK'
  OBVIOUS
<1>0. TypeOK /\ \A c \in Consumers : HandOK(c)
  BY DEF IInv
<1> USE DEF TypeOK, groupVars
<1>1. ASSUME NEW e \in Events, GetProducer(e) PROVE TypeOK'
  BY <1>0, <1>1 DEF GetProducer, Step
<1>2. ASSUME NEW e \in Events, Connect(e) PROVE TypeOK'
  BY <1>0, <1>2 DEF Connect, Step, Fault
<1>3. ASSUME NEW e \in Events, Send(e) PROVE TypeOK'
  <2>1. log' = Appended(e) \/ log' = log
    BY <1>0, <1>3 DEF Send
  <2>2. log' \in [Partitions -> Seq(Events)]
    BY <1>0, <2>1, Longer
  <2>3. request' \in [Events -> {"new", "connect", "send", "sent", "lost"}] /\ faults' \subseteq Faults
    BY <1>0, <1>3 DEF Send, Step, Fault
  <2> QED
    BY <1>0, <1>3, <2>2, <2>3 DEF Send
<1>4. CASE Restart
  BY <1>0, <1>4 DEF Restart, Fault
<1>5. ASSUME NEW c \in Consumers, StartConsumer(c) PROVE TypeOK'
  <2>1. Free("idle") \in Hand /\ Free("off") \in Hand
    BY FreeIsHand
  <2>2. hand' \in [Consumers -> Hand]
    BY <1>0, <1>5, <2>1 DEF StartConsumer
  <2>3. faults' \subseteq Faults
    BY <1>0, <1>5 DEF StartConsumer, Fault
  <2> QED
    BY <1>0, <1>5, <2>2, <2>3 DEF StartConsumer
<1>6. ASSUME NEW c \in Consumers, PushEvent(c) PROVE TypeOK'
  <2>1. hand[c].p \in Partitions /\ log[hand[c].p][hand[c].i] \in Events
    BY <1>0, <1>6, InHand DEF PushEvent
  <2>2. feed' \in Seq(Events)
    <3>1. feed' = feed \/ feed' = Append(feed, log[hand[c].p][hand[c].i])
      BY <1>6 DEF PushEvent, Insert
    <3> QED
      BY <1>0, <2>1, <3>1, OneMore
  <2>3. Done(c, hand[c].p) \/ Fail(c)
    BY <1>6 DEF PushEvent
  <2>4. hand' \in [Consumers -> Hand] /\ position' \in [Partitions -> Nat]
    BY <1>0, <2>1, <2>3, HandTypes
  <2>5. faults' \subseteq Faults
    BY <1>0, <1>6 DEF PushEvent, Fault
  <2> QED
    BY <1>0, <1>6, <2>2, <2>4, <2>5 DEF PushEvent
<1>7. ASSUME NEW c \in Consumers, Retry(c) PROVE TypeOK'
  <2>1. hand' \in [Consumers -> Hand]
    BY <1>0, <1>7, FreeIsHand DEF Retry
  <2> QED
    BY <1>0, <1>7, <2>1 DEF Retry, Resolved, Released
<1>8. ASSUME NEW c \in Consumers, Leave(c) PROVE TypeOK'
  BY <1>0, <1>8 DEF Leave, Released, Fault
<1>9. ASSUME NEW c \in Consumers, Crash(c) PROVE TypeOK'
  BY <1>0, <1>9, FreeIsHand DEF Crash, Released, Fault
<1>10. ASSUME NEW c \in Consumers, NEW p \in Partitions, Assign(c, p) PROVE TypeOK'
  <2>1. committed[p] # NoOffset => committed[p] \in Nat
    BY <1>0
  <2>2. Len(log[p]) \in Nat
    BY <1>0
  <2>3. since' \in [Partitions -> Nat] /\ position' \in [Partitions -> Nat]
    <3>1. CASE committed[p] = NoOffset
      <4>1. position' = [position EXCEPT ![p] = Len(log[p])] /\ since' = [since EXCEPT ![p] = Len(log[p])]
        BY <1>10, <3>1 DEF Assign
      <4>2. position' \in [Partitions -> Nat]
        BY <1>0, <2>2, <4>1
      <4>3. since' \in [Partitions -> Nat]
        BY <1>0, <2>2, <4>1
      <4> QED
        BY <4>2, <4>3
    <3>2. CASE committed[p] # NoOffset
      BY <1>0, <1>10, <2>1, <3>2 DEF Assign
    <3> QED
      BY <3>1, <3>2
  <2>4. owner' \in [Partitions -> Consumers \cup {None}]
    BY <1>0, <1>10 DEF Assign
  <2> QED
    BY <1>0, <1>10, <2>3, <2>4 DEF Assign
<1>11. ASSUME NEW c \in Consumers, NEW p \in Partitions, EachMessage(c, p) PROVE TypeOK'
  <2>1. Done(c, p) \/ Take(c, p, "push")
    BY <1>11 DEF EachMessage
  <2>2. hand' \in [Consumers -> Hand] /\ position' \in [Partitions -> Nat]
    BY <1>0, <2>1, HandTypes
  <2> QED
    BY <1>0, <1>11, <2>2 DEF EachMessage
<1>12. ASSUME NEW c \in Consumers, NEW p \in Partitions, Commit(c, p) PROVE TypeOK'
  BY <1>0, <1>12 DEF Commit
<1>13. CASE UNCHANGED vars
  BY <1>0, <1>13 DEF vars, Hand
<1> QED
  BY <1>1, <1>2, <1>3, <1>4, <1>5, <1>6, <1>7, <1>8, <1>9, <1>10, <1>11, <1>12, <1>13 DEF Next

-----------------------------------------------------------------------------
(* What a step keeps of the invariant where it does not disturb it.         *)

\* Lemma: nothing is lost while one row, or one message, is added or none.
LEMMA StepLasts ==
  ASSUME NotificationsAssumption, IInv,
         feed' = feed \/ \E e \in Events : feed' = Append(feed, e),
         log' = log \/ \E e \in Events : log' = Appended(e),
         \A p \in Partitions : since[p] <= since'[p]
  PROVE  Lasting
<1>1. feed \in Seq(Events) /\ log \in [Partitions -> Seq(Events)]
  BY DEF IInv, TypeOK
<1>2. Stored \subseteq Stored'
  <2>1. CASE feed' = feed
    BY <2>1 DEF Stored
  <2>2. CASE \E e \in Events : feed' = Append(feed, e)
    BY <1>1, <2>2, OneMore
  <2> QED
    BY <2>1, <2>2
<1>3. ASSUME NEW p \in Partitions
      PROVE  Len(log[p]) <= Len(log'[p]) /\ \A k \in 1..Len(log[p]) : log'[p][k] = log[p][k]
  <2>1. Len(log[p]) \in Nat
    BY <1>1
  <2>2. CASE log' = log
    BY <2>1, <2>2
  <2>3. CASE \E e \in Events : log' = Appended(e)
    <3>1. PICK e \in Events : log' = Appended(e)
      BY <2>3
    <3>2. /\ Len(log'[p]) = IF p = PartitionOf[e] THEN Len(log[p]) + 1 ELSE Len(log[p])
          /\ \A k \in 1..Len(log[p]) : log'[p][k] = log[p][k]
      BY <1>1, <3>1, Longer
    <3> QED
      BY <2>1, <3>2
  <2> QED
    BY <2>2, <2>3
<1> QED
  BY <1>2, <1>3 DEF Lasting

\* Lemma: a message that was sent stays in its log.
LEMMA SentStays ==
  ASSUME NotificationsAssumption, TypeOK, TypeOK', Lasting, NEW e \in Events,
         \E k \in DOMAIN log[PartitionOf[e]] : log[PartitionOf[e]][k] = e
  PROVE  \E k \in DOMAIN log'[PartitionOf[e]] : log'[PartitionOf[e]][k] = e
<1> DEFINE p == PartitionOf[e]
<1>1. p \in Partitions
  BY DEF NotificationsAssumption
<1>2. log[p] \in Seq(Events) /\ log'[p] \in Seq(Events)
  BY <1>1 DEF TypeOK
<1>3. DOMAIN log[p] = 1..Len(log[p]) /\ DOMAIN log'[p] = 1..Len(log'[p]) /\ Len(log[p]) \in Nat /\ Len(log'[p]) \in Nat
  BY <1>2
<1>4. PICK k \in 1..Len(log[p]) : log[p][k] = e
  BY <1>3
<1>5. k \in 1..Len(log'[p]) /\ log'[p][k] = e
  BY <1>1, <1>3, <1>4 DEF Lasting
<1> QED
  BY <1>3, <1>5

\* Lemma: no row is added.
LEMMA RowsStay ==
  ASSUME NotificationsAssumption, IInv, TypeOK', Lasting, Stored' = Stored
  PROVE  StoredWasSent'
<1> SUFFICES ASSUME NEW e \in Stored
             PROVE  \E k \in DOMAIN log'[PartitionOf[e]] : log'[PartitionOf[e]][k] = e
  BY DEF StoredWasSent
<1>1. feed \in Seq(Events) /\ e \in Events
  BY DEF IInv, TypeOK, Stored
<1> QED
  BY <1>1, SentStays DEF IInv, StoredWasSent

\* Lemma: neither a row nor a message is added.
LEMMA OrderStays ==
  ASSUME IInv, TypeOK', Lasting, Stored' = Stored, log' = log
  PROVE  StoredInOrder'
<1> SUFFICES ASSUME NEW p \in Partitions, NEW i \in DOMAIN log[p],
                    log[p][i] \in Stored, \A k \in 1..(i - 1) : log[p][k] # log[p][i]
             PROVE  Through(p, i)'
  BY DEF StoredInOrder
<1>1. log[p] \in Seq(Events) /\ TypeOK
  BY DEF IInv, TypeOK
<1>2. i \in Int /\ i <= Len(log[p])
  BY <1>1
<1>3. Through(p, i)
  BY DEF IInv, StoredInOrder
<1> QED
  BY <1>1, <1>2, <1>3, ThroughLasts

\* Lemma: at most an offset becomes the owner's position.
LEMMA PartitionStays ==
  ASSUME IInv, TypeOK', Lasting, NEW p \in Partitions, log'[p] = log[p],
         since'[p] <= Len(log[p]),
         committed'[p] = committed[p] \/ committed'[p] = position[p],
         \/ position'[p] = position[p]
         \/ position'[p] <= Len(log[p]) /\ Through(p, position[p])'
  PROVE  PartitionOK(p)'
<1>1. TypeOK /\ PartitionOK(p)
  BY DEF IInv
<1>2. committed[p] \in Int /\ position[p] \in Int
  BY <1>1 DEF TypeOK, NoOffset
<1>3. Through(p, committed[p])' /\ committed'[p] <= Len(log[p])
  <2>1. /\ committed'[p] \in Int /\ committed'[p] <= Len(log[p])
        /\ Through(p, committed'[p])
    BY <1>1, <1>2 DEF PartitionOK
  <2>2. PICK n \in Int : n = committed'[p]
    BY <2>1
  <2>3. Through(p, n)'
    BY <1>1, <2>1, <2>2, ThroughLasts
  <2> QED
    BY <2>1, <2>2, <2>3
<1>4. Through(p, position[p])' /\ position'[p] <= Len(log[p])
  <2>1. CASE position'[p] = position[p]
    <3>1. PICK n \in Int : n = position[p]
      BY <1>2
    <3>2. n <= Len(log[p]) /\ Through(p, n)
      BY <1>1, <3>1 DEF PartitionOK
    <3>3. Through(p, n)'
      BY <1>1, <3>2, ThroughLasts
    <3> QED
      BY <2>1, <3>1, <3>2, <3>3 DEF Through
  <2>2. CASE position'[p] <= Len(log[p]) /\ Through(p, position[p])'
    BY <2>2
  <2> QED
    BY <2>1, <2>2
<1> QED
  BY <1>1, <1>3, <1>4 DEF PartitionOK

\* Lemma: a consumer goes on with what it has in hand.
LEMMA HandStays ==
  ASSUME IInv, TypeOK', Lasting, NEW c \in Consumers, hand'[c] = hand[c],
         \A p \in Partitions : owner'[p] = c => owner[p] = c /\ (hand[c].at = "push" => position'[p] = position[p])
  PROVE  HandOK(c)'
<1>1. TypeOK /\ HandOK(c)
  BY DEF IInv
<1> SUFFICES ASSUME hand[c].at = "push" PROVE HandOK(c)'
  BY DEF HandOK
<1>2. PICK p \in Partitions : p = hand[c].p
  BY <1>1 DEF HandOK
<1>3. PICK i \in 1..Len(log[p]) : i = hand[c].i
  BY <1>1, <1>2 DEF HandOK
<1>4. Through(p, i - 1) /\ (owner[p] = c => position[p] = i - 1)
  BY <1>1, <1>2, <1>3 DEF HandOK
<1>5. Len(log[p]) \in Nat /\ Len(log'[p]) \in Nat /\ Len(log[p]) <= Len(log'[p])
  BY <1>1 DEF TypeOK, Lasting
<1>6. Through(p, i - 1)'
  <2>1. i - 1 \in Int /\ i - 1 <= Len(log[p])
    BY <1>5
  <2>2. PICK n \in Int : n = i - 1
    BY <2>1
  <2>3. Through(p, n)'
    BY <1>1, <1>4, <2>1, <2>2, ThroughLasts
  <2> QED
    BY <2>2, <2>3
<1>7. i \in 1..Len(log'[p])
  BY <1>5
<1>8. owner'[p] = c => position'[p] = i - 1
  BY <1>4
<1> QED
  BY <1>2, <1>3, <1>6, <1>7, <1>8 DEF HandOK

-----------------------------------------------------------------------------
(* The steps.                                                               *)

\* Lemma: what a step adds to the table or to a log.
LEMMA NextLasts == NotificationsAssumption /\ IInv /\ [Next]_vars => Lasting
<1> SUFFICES ASSUME NotificationsAssumption, IInv, [Next]_vars PROVE Lasting
  OBVIOUS
<1>1. /\ log \in [Partitions -> Seq(Events)] /\ since \in [Partitions -> Nat]
      /\ \A c \in Consumers : hand[c].at = "push" => log[hand[c].p][hand[c].i] \in Events
  BY InHand DEF IInv, TypeOK
<1>2. feed' = feed \/ \E e \in Events : feed' = Append(feed, e)
  <2>1. ASSUME NEW c \in Consumers, PushEvent(c) PROVE feed' = feed \/ \E e \in Events : feed' = Append(feed, e)
    BY <1>1, <2>1 DEF PushEvent, Insert
  <2>2. CASE feed' = feed
    BY <2>2
  <2>3. CASE UNCHANGED vars
    BY <2>3 DEF vars
  <2> QED
    BY <2>1, <2>2, <2>3 DEF Next, GetProducer, Connect, Send, Restart, StartConsumer, Retry, Leave,
                            Crash, Assign, EachMessage, Commit
<1>3. log' = log \/ \E e \in Events : log' = Appended(e)
  BY DEF Next, GetProducer, Connect, Send, Restart, StartConsumer, PushEvent, Retry, Leave, Crash,
         Assign, EachMessage, Commit, vars
<1>4. since' = since \/ \E p \in Partitions : since' = [since EXCEPT ![p] = Len(log[p])]
  BY DEF Next, GetProducer, Connect, Send, Restart, StartConsumer, PushEvent, Retry, Leave, Crash,
         Assign, EachMessage, Commit, vars, groupVars
<1>5. ASSUME NEW p \in Partitions PROVE since[p] <= since'[p]
  <2>1. since[p] <= Len(log[p]) /\ since[p] \in Nat /\ Len(log[p]) \in Nat
    BY <1>1 DEF IInv, PartitionOK
  <2>2. CASE since' = since
    BY <2>1, <2>2
  <2>3. ASSUME NEW q \in Partitions, since' = [since EXCEPT ![q] = Len(log[q])] PROVE since[p] <= since'[p]
    BY <1>1, <2>1, <2>3
  <2> QED
    BY <1>4, <2>2, <2>3
<1> QED
  BY <1>2, <1>3, <1>5, StepLasts

\* The invariant is inductive.
LEMMA Inductive == NotificationsAssumption /\ IInv /\ [Next]_vars => IInv'
<1> SUFFICES ASSUME NotificationsAssumption, IInv, [Next]_vars PROVE IInv'
  OBVIOUS
<1> USE DEF groupVars
<1>1. TypeOK /\ TypeOK' /\ Lasting
  BY TypeNext, NextLasts DEF IInv
<1>2. \A p \in Partitions : PartitionOK(p) /\ since[p] <= Len(log[p])
  BY DEF IInv, PartitionOK
<1>3. ASSUME feed' = feed PROVE Stored' = Stored
  BY <1>3 DEF Stored
<1>4. ASSUME UNCHANGED <<log, groupVars, hand, feed>> PROVE IInv'
  <2>1. ASSUME NEW p \in Partitions PROVE PartitionOK(p)'
    BY <1>1, <1>2, <1>4, PartitionStays
  <2>2. ASSUME NEW c \in Consumers PROVE HandOK(c)'
    BY <1>1, <1>4, HandStays
  <2> QED
    BY <1>1, <1>3, <1>4, <2>1, <2>2, RowsStay, OrderStays DEF IInv
<1>5. ASSUME NEW e \in Events, log' = Appended(e), UNCHANGED <<groupVars, hand, feed>> PROVE IInv'
  <2>1. ASSUME NEW p \in Partitions PROVE PartitionOK(p)'
    <3>1. /\ log[p] \in Seq(Events) /\ log'[p] \in Seq(Events)
          /\ Len(log'[p]) = IF p = PartitionOf[e] THEN Len(log[p]) + 1 ELSE Len(log[p])
          /\ \A k \in 1..Len(log[p]) : log'[p][k] = log[p][k]
          /\ p = PartitionOf[e] => log'[p][Len(log[p]) + 1] = e
      BY <1>1, <1>5, Longer DEF TypeOK
    <3>2. \A k \in DOMAIN log'[p] : PartitionOf[log'[p][k]] = p
      <4>1. Len(log[p]) \in Nat /\ DOMAIN log[p] = 1..Len(log[p]) /\ DOMAIN log'[p] = 1..Len(log'[p])
        BY <3>1
      <4>2. \A k \in 1..Len(log[p]) : PartitionOf[log[p][k]] = p
        BY <1>2, <4>1 DEF PartitionOK
      <4> QED
        BY <3>1, <4>1, <4>2
    <3>3. /\ since[p] <= Len(log'[p]) /\ committed[p] <= Len(log'[p]) /\ position[p] <= Len(log'[p])
      <4>1. since[p] <= Len(log[p]) /\ committed[p] <= Len(log[p]) /\ position[p] <= Len(log[p])
        BY <1>2 DEF PartitionOK
      <4>2. /\ since[p] \in Int /\ committed[p] \in Int /\ position[p] \in Int
            /\ Len(log[p]) \in Nat /\ Len(log'[p]) \in Nat
        <5>1. since[p] \in Nat /\ position[p] \in Nat
          BY <1>1 DEF TypeOK
        <5>2. committed[p] \in Int
          BY <1>1 DEF TypeOK, NoOffset
        <5> QED
          BY <3>1, <5>1, <5>2
      <4>3. Len(log[p]) <= Len(log'[p])
        BY <3>1, <4>2
      <4> QED
        BY <4>1, <4>2, <4>3
    <3>4. committed[p] \in Int /\ position[p] \in Int
      BY <1>1 DEF TypeOK, NoOffset
    <3>5. Through(p, committed[p])' /\ Through(p, position[p])'
      <4>1. PICK n \in Int, m \in Int : n = committed[p] /\ m = position[p]
        BY <3>4
      <4>2. Through(p, n)' /\ Through(p, m)'
        BY <1>1, <1>2, <4>1, ThroughLasts DEF PartitionOK
      <4> QED
        BY <1>5, <4>1, <4>2
    <3> QED
      BY <1>5, <3>2, <3>3, <3>5 DEF PartitionOK
  <2>2. ASSUME NEW c \in Consumers PROVE HandOK(c)'
    BY <1>1, <1>5, HandStays
  <2>3. StoredInOrder'
    <3> SUFFICES ASSUME NEW p \in Partitions, NEW i \in DOMAIN log'[p],
                        log'[p][i] \in Stored, \A k \in 1..(i - 1) : log'[p][k] # log'[p][i]
                 PROVE  Through(p, i)'
      BY <1>3, <1>5 DEF StoredInOrder
    <3>0. log \in [Partitions -> Seq(Events)] /\ log' \in [Partitions -> Seq(Events)]
      BY <1>1 DEF TypeOK
    <3>a. p \in Partitions /\ PartitionOf[e] \in Partitions
      BY DEF NotificationsAssumption
    <3>1. /\ log[p] \in Seq(Events) /\ log'[p] \in Seq(Events)
          /\ Len(log'[p]) = IF p = PartitionOf[e] THEN Len(log[p]) + 1 ELSE Len(log[p])
          /\ \A k \in 1..Len(log[p]) : log'[p][k] = log[p][k]
          /\ p = PartitionOf[e] => log'[p][Len(log[p]) + 1] = e
      BY <1>5, <3>0, <3>a, Longer
    <3>2. Len(log[p]) \in Nat /\ DOMAIN log[p] = 1..Len(log[p]) /\ i \in 1..Len(log'[p])
      BY <3>1
    <3>3. CASE i \in 1..Len(log[p])
      <4>1. log[p][i] \in Stored /\ \A k \in 1..(i - 1) : log[p][k] # log[p][i]
        BY <3>1, <3>2, <3>3
      <4>2. Through(p, i)
        BY <3>2, <3>3, <4>1 DEF IInv, StoredInOrder
      <4> QED
        BY <1>1, <3>2, <3>3, <4>2, ThroughLasts
    <3>4. CASE i \notin 1..Len(log[p])
      <4>1. p = PartitionOf[e] /\ i = Len(log[p]) + 1 /\ log'[p][i] = e
        BY <3>1, <3>2, <3>4
      <4>2. PICK k \in DOMAIN log[p] : log[p][k] = e
        BY <4>1 DEF IInv, StoredWasSent
      <4>3. k \in 1..(i - 1) /\ log'[p][k] = e
        BY <3>1, <3>2, <4>1, <4>2
      <4> QED
        BY <4>1, <4>3
    <3> QED
      BY <3>3, <3>4
  <2> QED
    BY <1>1, <1>3, <1>5, <2>1, <2>2, <2>3, RowsStay DEF IInv
<1>6. ASSUME NEW c \in Consumers, StartConsumer(c) \/ Leave(c) \/ Crash(c) PROVE IInv'
  <2>1. /\ UNCHANGED <<log, committed, since, position, feed>>
        /\ owner' = owner \/ owner' = Released(c)
        /\ hand' = hand \/ \E at \in {"idle", "off", "down"} : hand' = [hand EXCEPT ![c] = Free(at)]
    BY <1>6 DEF StartConsumer, Leave, Crash
  <2>2. ASSUME NEW p \in Partitions PROVE PartitionOK(p)'
    BY <1>1, <1>2, <2>1, PartitionStays
  <2>3. ASSUME NEW d \in Consumers PROVE HandOK(d)'
    <3>1. \A p \in Partitions : owner'[p] = d => owner[p] = d
      BY <2>1 DEF Released, NotificationsAssumption
    <3>2. CASE hand'[d] = hand[d]
      BY <1>1, <2>1, <3>1, <3>2, HandStays
    <3>3. CASE hand'[d] # hand[d]
      BY <1>1, <2>1, <3>3 DEF HandOK, Free, TypeOK
    <3> QED
      BY <3>2, <3>3
  <2> QED
    BY <1>1, <1>3, <2>1, <2>2, <2>3, RowsStay, OrderStays DEF IInv
<1>7. ASSUME NEW c \in Consumers, Retry(c) PROVE IInv'
  <2>1. /\ UNCHANGED <<log, since, position, feed>> /\ hand[c].at = "failed"
        /\ owner' = owner \/ owner' = Released(c)
        /\ hand' = [hand EXCEPT ![c] = Free("idle")]
        /\ \A p \in Partitions : committed'[p] = committed[p] \/ committed'[p] = position[p]
    BY <1>7 DEF Retry
  <2>2. ASSUME NEW p \in Partitions PROVE PartitionOK(p)'
    BY <1>1, <1>2, <2>1, PartitionStays
  <2>3. ASSUME NEW d \in Consumers PROVE HandOK(d)'
    <3>1. \A p \in Partitions : owner'[p] = d => owner[p] = d
      BY <2>1 DEF Released, NotificationsAssumption
    <3>2. CASE d # c
      BY <1>1, <2>1, <3>1, <3>2, HandStays DEF TypeOK
    <3>3. CASE d = c
      BY <1>1, <2>1, <3>3 DEF HandOK, Free, TypeOK
    <3> QED
      BY <3>2, <3>3
  <2> QED
    BY <1>1, <1>3, <2>1, <2>2, <2>3, RowsStay, OrderStays DEF IInv
<1>8. ASSUME NEW c \in Consumers, NEW q \in Partitions, Commit(c, q) PROVE IInv'
  <2>1. /\ UNCHANGED <<log, since, position, owner, hand, feed>>
        /\ \A p \in Partitions : committed'[p] = committed[p] \/ committed'[p] = position[p]
    BY <1>1, <1>8 DEF Commit, TypeOK
  <2>2. ASSUME NEW p \in Partitions PROVE PartitionOK(p)'
    BY <1>1, <1>2, <2>1, PartitionStays
  <2>3. ASSUME NEW d \in Consumers PROVE HandOK(d)'
    BY <1>1, <2>1, HandStays
  <2> QED
    BY <1>1, <1>3, <2>1, <2>2, <2>3, RowsStay, OrderStays DEF IInv
<1>9. ASSUME NEW c \in Consumers, NEW q \in Partitions, Assign(c, q) PROVE IInv'
  <2>1. /\ UNCHANGED <<log, committed, hand, feed>> /\ hand[c].at = "idle"
        /\ owner' = [owner EXCEPT ![q] = c]
    BY <1>9 DEF Assign
  <2>2. \A p \in Partitions \ {q} : since'[p] = since[p] /\ position'[p] = position[p] /\ owner'[p] = owner[p]
    BY <1>1, <1>9 DEF Assign, TypeOK
  <2>3. \/ since'[q] = Len(log[q]) /\ position'[q] = Len(log[q])
        \/ since'[q] = since[q] /\ position'[q] = committed[q] /\ committed[q] \in Nat
    <3>1. committed[q] # NoOffset => committed[q] \in Nat
      BY <1>1 DEF TypeOK
    <3>2. since \in [Partitions -> Nat] /\ position \in [Partitions -> Nat]
      BY <1>1 DEF TypeOK
    <3>3. \/ since' = [since EXCEPT ![q] = Len(log[q])] /\ position' = [position EXCEPT ![q] = Len(log[q])]
          \/ since' = since /\ position' = [position EXCEPT ![q] = committed[q]] /\ committed[q] # NoOffset
      BY <1>9 DEF Assign
    <3> QED
      BY <3>1, <3>2, <3>3
  <2>4. ASSUME NEW p \in Partitions PROVE PartitionOK(p)'
    <3>1. Len(log[p]) \in Nat
      BY <1>1 DEF TypeOK
    <3>2. CASE p # q
      BY <1>1, <1>2, <2>1, <2>2, <3>2, PartitionStays
    <3>3. CASE p = q /\ since'[q] = Len(log[q]) /\ position'[q] = Len(log[q])
      <4>1. (position[p] <= Len(log[p]) /\ Through(p, position[p]))'
        BY <2>1, <3>1, <3>3 DEF Through
      <4> QED
        BY <1>1, <2>1, <3>1, <3>3, <4>1, PartitionStays
    <3>4. CASE p = q /\ since'[q] = since[q] /\ position'[q] = committed[q] /\ committed[q] \in Nat
      <4>1. committed[p] <= Len(log[p]) /\ Through(p, committed[p])
        BY <1>2 DEF PartitionOK
      <4>2. PICK n \in Int : n = committed[p]
        BY <3>4
      <4>3. Through(p, n)'
        BY <1>1, <4>1, <4>2, ThroughLasts
      <4>4. (position[p] <= Len(log[p]) /\ Through(p, position[p]))'
        BY <2>1, <3>4, <4>1, <4>2, <4>3 DEF Through
      <4> QED
        BY <1>1, <1>2, <2>1, <3>4, <4>4, PartitionStays
    <3> QED
      BY <2>3, <3>2, <3>3, <3>4
  <2>5. ASSUME NEW d \in Consumers PROVE HandOK(d)'
    <3>1. CASE d = c
      BY <2>1, <3>1 DEF HandOK
    <3>2. CASE d # c
      <4>1. \A p \in Partitions : owner'[p] = d => p # q
        BY <1>1, <2>1, <3>2 DEF TypeOK
      <4> QED
        BY <1>1, <2>1, <2>2, <4>1, HandStays
    <3> QED
      BY <3>1, <3>2
  <2> QED
    BY <1>1, <1>3, <2>1, <2>4, <2>5, RowsStay, OrderStays DEF IInv
<1>10. ASSUME NEW c \in Consumers, NEW q \in Partitions, EachMessage(c, q) PROVE IInv'
  <2>1. /\ UNCHANGED <<log, committed, since, owner, feed>>
        /\ owner[q] = c /\ position[q] < Len(log[q])
    BY <1>10 DEF EachMessage
  <2>2. position[q] \in Nat /\ Len(log[q]) \in Nat /\ position[q] + 1 \in 1..Len(log[q])
    <3>1. position[q] \in Nat /\ log[q] \in Seq(Events)
      BY <1>1 DEF TypeOK
    <3> QED
      BY <2>1, <3>1
  <2>3. PICK n \in Nat : n = position[q]
    BY <2>2
  <2>4. Through(q, n)'
    <3>1. Through(q, n) /\ n \in Int /\ n <= Len(log[q])
      BY <1>2, <2>2, <2>3 DEF PartitionOK
    <3> QED
      BY <1>1, <3>1, ThroughLasts
  <2>5. ASSUME NEW p \in Partitions, position'[p] = position[p] PROVE PartitionOK(p)'
    BY <1>1, <1>2, <2>1, <2>5, PartitionStays
  <2>6. ASSUME NEW d \in Consumers \ {c},
               hand'[d] = hand[d], \A p \in Partitions \ {q} : position'[p] = position[p]
        PROVE  HandOK(d)'
    BY <1>1, <2>1, <2>6, HandStays
  <2>7. CASE log[q][n + 1] \in Malformed /\ Done(c, q)
    <3>1. /\ hand' = [hand EXCEPT ![c] = Free("idle")]
          /\ position' = [position EXCEPT ![q] = n + 1]
      BY <2>1, <2>3, <2>7 DEF Done
    <3>2. (position[q] <= Len(log[q]) /\ Through(q, position[q]))'
      <4>1. position'[q] = n + 1 /\ position'[q] <= Len(log[q])
        BY <1>1, <2>2, <2>3, <3>1 DEF TypeOK
      <4>2. ASSUME NEW k \in (since'[q] + 1)..(n + 1) PROVE log'[q][k] \in Stored' \cup Malformed
        <5>1. since'[q] \in Nat
          BY <1>1 DEF TypeOK
        <5>2. CASE k = n + 1
          BY <2>1, <2>7, <5>2
        <5>3. CASE k # n + 1
          <6>1. k \in (since'[q] + 1)..n
            BY <5>1, <5>3
          <6> QED
            BY <2>4, <6>1 DEF Through
        <5> QED
          BY <5>2, <5>3
      <4> QED
        BY <2>1, <4>1, <4>2 DEF Through
    <3>3. ASSUME NEW p \in Partitions PROVE PartitionOK(p)'
      <4>1. CASE p = q
        BY <1>1, <1>2, <2>1, <3>2, <4>1, PartitionStays
      <4>2. CASE p # q
        BY <1>1, <2>5, <3>1, <4>2 DEF TypeOK
      <4> QED
        BY <4>1, <4>2
    <3>4. ASSUME NEW d \in Consumers PROVE HandOK(d)'
      <4>1. CASE d = c
        BY <1>1, <3>1, <4>1 DEF HandOK, Free, TypeOK
      <4>2. CASE d # c
        BY <1>1, <2>6, <3>1, <4>2 DEF TypeOK
      <4> QED
        BY <4>1, <4>2
    <3> QED
      BY <1>1, <1>3, <2>1, <3>3, <3>4, RowsStay, OrderStays DEF IInv
  <2>8. CASE Take(c, q, "push")
    <3>1. /\ hand' = [hand EXCEPT ![c] = [at |-> "push", p |-> q, i |-> n + 1]]
          /\ position' = position
      BY <2>3, <2>8 DEF Take
    <3>2. ASSUME NEW d \in Consumers PROVE HandOK(d)'
      <4>1. CASE d = c
        <5>1. hand'[c].p = q /\ hand'[c].i = n + 1 /\ (n + 1) - 1 = n
          BY <1>1, <3>1 DEF TypeOK
        <5> QED
          BY <2>1, <2>2, <2>3, <2>4, <3>1, <4>1, <5>1 DEF HandOK
      <4>2. CASE d # c
        BY <1>1, <2>6, <3>1, <4>2 DEF TypeOK
      <4> QED
        BY <4>1, <4>2
    <3> QED
      BY <1>1, <1>3, <2>1, <2>5, <3>1, <3>2, RowsStay, OrderStays DEF IInv
  <2> QED
    BY <1>10, <2>3, <2>7, <2>8 DEF EachMessage
<1>11. ASSUME NEW c \in Consumers, PushEvent(c) PROVE IInv'
  <2>1. PICK p \in Partitions : p = hand[c].p
    BY <1>11 DEF PushEvent, IInv, HandOK
  <2>2. PICK i \in 1..Len(log[p]) : i = hand[c].i
    BY <1>11, <2>1 DEF PushEvent, IInv, HandOK
  <2>3. PICK e \in Events : e = log[p][i] /\ PartitionOf[e] = p
    <3>1. log[p] \in Seq(Events)
      BY <1>1 DEF TypeOK
    <3>2. log[p][i] \in Events /\ i \in DOMAIN log[p]
      BY <3>1
    <3> QED
      BY <1>2, <3>2 DEF PartitionOK
  <2>4. Through(p, i - 1) /\ (owner[p] = c => position[p] = i - 1) /\ hand[c].at = "push"
    BY <1>11, <2>1, <2>2 DEF PushEvent, IInv, HandOK
  <2>5. UNCHANGED <<log, committed, since, owner>>
    BY <1>11 DEF PushEvent
  <2>6. \/ feed' = feed /\ Fail(c)
        \/ feed' = Append(feed, e) /\ (Done(c, p) \/ Fail(c))
    BY <1>11, <2>1, <2>2, <2>3 DEF PushEvent, Insert
  <2>7. /\ hand'[c].at # "push"
        /\ \A d \in Consumers \ {c} : hand'[d] = hand[d]
        /\ \A q \in Partitions :
             \/ position'[q] = position[q]
             \/ q = p /\ owner[p] = c /\ position'[p] = i /\ feed' = Append(feed, e)
    <3>1. hand \in [Consumers -> Hand] /\ position \in [Partitions -> Nat]
      BY <1>1 DEF TypeOK
    <3>2. CASE Fail(c)
      BY <3>1, <3>2 DEF Fail
    <3>3. CASE Done(c, p) /\ feed' = Append(feed, e)
      <4>1. hand' = [hand EXCEPT ![c] = Free("idle")] /\ Free("idle").at = "idle"
        BY <3>3 DEF Done, Free
      <4>2. CASE owner[p] = c
        <5>1. position' = [position EXCEPT ![p] = @ + 1] /\ position[p] = i - 1
          BY <2>4, <3>3, <4>2 DEF Done
        <5> QED
          BY <3>1, <3>3, <4>1, <4>2, <5>1
      <4>3. CASE owner[p] # c
        BY <3>1, <3>3, <4>1, <4>3 DEF Done
      <4> QED
        BY <4>2, <4>3
    <3> QED
      BY <2>6, <3>2, <3>3
  <2>8. ASSUME NEW d \in Consumers PROVE HandOK(d)'
    <3>1. CASE d = c
      BY <2>7, <3>1 DEF HandOK
    <3>2. CASE d # c
      BY <1>1, <2>5, <2>7, <3>2, HandStays
    <3> QED
      BY <3>1, <3>2
  <2>9. CASE feed' = feed
    <3>1. ASSUME NEW q \in Partitions PROVE PartitionOK(q)'
      <4>1. feed' # Append(feed, e)
        <5>1. feed \in Seq(Events)
          BY <1>1 DEF TypeOK
        <5>2. Len(Append(feed, e)) = Len(feed) + 1 /\ Len(feed) \in Nat
          BY <5>1, AppendOne
        <5> QED
          BY <2>9, <5>2
      <4> QED
        BY <1>1, <1>2, <2>5, <2>7, <4>1, PartitionStays
    <3> QED
      BY <1>1, <1>3, <2>5, <2>8, <2>9, <3>1, RowsStay, OrderStays DEF IInv
  <2>10. CASE feed' = Append(feed, e)
    <3>1. Stored' = Stored \cup {e}
      BY <1>1, <2>10, OneMore DEF TypeOK
    <3>2. Through(p, i)'
      <4>1. PICK n \in Int : n = i - 1 /\ n <= Len(log[p])
        BY <1>1 DEF TypeOK
      <4>2. Through(p, n)'
        BY <1>1, <2>4, <4>1, ThroughLasts
      <4>3. ASSUME NEW k \in (since'[p] + 1)..i PROVE log'[p][k] \in Stored' \cup Malformed
        <5>1. since'[p] \in Nat
          BY <1>1 DEF TypeOK
        <5>2. CASE k = i
          BY <2>3, <2>5, <3>1, <5>2
        <5>3. CASE k # i
          <6>1. k \in (since'[p] + 1)..n
            BY <4>1, <5>1, <5>3
          <6> QED
            BY <4>2, <6>1 DEF Through
        <5> QED
          BY <5>2, <5>3
      <4> QED
        BY <4>3 DEF Through
    <3>3. ASSUME NEW q \in Partitions PROVE PartitionOK(q)'
      <4>1. CASE position'[q] = position[q]
        BY <1>1, <1>2, <2>5, <4>1, PartitionStays
      <4>2. CASE q = p /\ position'[p] = i
        <5>1. i <= Len(log[p]) /\ i \in Int
          BY <1>1 DEF TypeOK
        <5>2. (position[q] <= Len(log[q]) /\ Through(q, position[q]))'
          BY <2>5, <3>2, <4>2, <5>1 DEF Through
        <5> QED
          BY <1>1, <1>2, <2>5, <5>2, PartitionStays
      <4> QED
        BY <2>7, <4>1, <4>2
    <3>4. StoredWasSent'
      <4>1. i \in DOMAIN log[p]
        BY <1>1 DEF TypeOK
      <4>2. \E k \in DOMAIN log[PartitionOf[e]] : log[PartitionOf[e]][k] = e
        BY <2>3, <4>1
      <4> QED
        BY <2>5, <3>1, <4>2 DEF IInv, StoredWasSent
    <3>5. StoredInOrder'
      <4> SUFFICES ASSUME NEW q \in Partitions, NEW j \in DOMAIN log[q],
                          log[q][j] \in Stored \cup {e}, \A k \in 1..(j - 1) : log[q][k] # log[q][j]
                   PROVE  Through(q, j)'
        BY <2>5, <3>1 DEF StoredInOrder
      <4>0. log[q] \in Seq(Events)
        BY <1>1 DEF TypeOK
      <4>1. log[q] \in Seq(Events) /\ j \in 1..Len(log[q]) /\ Len(log[q]) \in Nat
        BY <4>0
      <4>2. CASE log[q][j] \in Stored
        <5>1. Through(q, j)
          BY <4>2 DEF IInv, StoredInOrder
        <5> QED
          BY <1>1, <4>1, <5>1, ThroughLasts
      <4>3. CASE log[q][j] = e
        <5>1. q = p
          BY <1>2, <2>3, <4>3 DEF PartitionOK
        <5>2. i \notin 1..(j - 1)
          BY <2>3, <4>3, <5>1
        <5>3. j <= i
          BY <4>1, <5>1, <5>2
        <5>4. \A k \in (since'[q] + 1)..j : k \in (since'[p] + 1)..i
          <6>1. since'[q] \in Nat
            BY <1>1 DEF TypeOK
          <6> QED
            BY <4>1, <5>1, <5>3, <6>1
        <5> QED
          BY <3>2, <5>1, <5>4 DEF Through
      <4> QED
        BY <4>2, <4>3
    <3> QED
      BY <1>1, <2>8, <3>3, <3>4, <3>5 DEF IInv
  <2> QED
    BY <2>6, <2>9, <2>10
<1> QED
  BY <1>4, <1>5, <1>6, <1>7, <1>8, <1>9, <1>10, <1>11
     DEF Next, vars, GetProducer, Connect, Send, Restart

-----------------------------------------------------------------------------
(* The theorems.                                                            *)

\* The invariant holds at the start.
LEMMA Initially == NotificationsAssumption /\ Init => IInv
<1> SUFFICES ASSUME NotificationsAssumption, Init PROVE IInv
  OBVIOUS
<1>1. Stored = {}
  BY DEF Init, Stored
<1>2. TypeOK
  BY FreeIsHand DEF Init, TypeOK, NoOffset
<1>3. ASSUME NEW p \in Partitions PROVE PartitionOK(p)
  BY DEF Init, PartitionOK, Through, NoOffset
<1>4. ASSUME NEW c \in Consumers PROVE HandOK(c)
  BY DEF Init, HandOK, Free
<1> QED
  BY <1>1, <1>2, <1>3, <1>4 DEF IInv, StoredWasSent, StoredInOrder

\* In every reachable state the table, the logs, the offsets and what every consumer has
\* in hand fit together, whoever crashed, failed or lost partitions.
THEOREM Invariance == Spec => []IInv
<1>1. Init => IInv
  BY Initially, NotificationsAssumption
<1>2. IInv /\ [Next]_vars => IInv'
  BY Inductive, NotificationsAssumption
<1> QED
  BY <1>1, <1>2, PTL DEF Spec

\* Every variable keeps its type.
THEOREM TypeCorrect == Spec => []TypeOK
<1>1. IInv => TypeOK
  BY DEF IInv
<1> QED
  BY <1>1, Invariance, PTL

\* What the group has committed is stored.
THEOREM NothingIsSkipped == Spec => []NothingSkipped
<1>1. IInv => NothingSkipped
  BY DEF IInv, NothingSkipped, PartitionOK
<1> QED
  BY <1>1, Invariance, PTL

\* The events of a partition are stored in the order in which they were sent.
THEOREM EventsInOrder == Spec => []StoredInOrder
<1>1. IInv => StoredInOrder
  BY DEF IInv
<1> QED
  BY <1>1, Invariance, PTL

===============================================================================
