---------------------------- MODULE EventDelivery ----------------------------
(***************************************************************************)
(* An event's way from the transaction that produced it to one subscriber: *)
(* the transactional outbox, the publication by its producer and by the    *)
(* dispatchers, the subscriber's RabbitMQ queue and the consumer loops     *)
(* with their retries, transient requeues and dead letters.                *)
(*                                                                         *)
(* Publishing is not a transaction: it is confirmed, refused, or accepted  *)
(* by the broker without the producer learning of it.                      *)
(***************************************************************************)
EXTENDS Integers, FiniteSets

CONSTANTS
  Events,        \* events, known by their outbox and message identity
  Dispatchers,   \* processes that run the outbox dispatch loop
  Workers,       \* consumer loops of the subscriber
  MaxRetries,    \* rabbitmq_consumer_max_retries
  MaxRequeues,   \* rabbitmq_transient_max_requeues
  MaxCopies,     \* bound: copies of one message in the broker
  None

ASSUME BoundsAssumption ==
  MaxRetries \in Nat /\ MaxRequeues \in Nat /\ MaxCopies \in Nat \ {0}

\* A subscriber runs finitely many consumer loops.
ASSUME WorkersAssumption == IsFiniteSet(Workers)

Messages == [event : Events, requeues : 0..MaxRequeues]

ASSUME NamesAssumption ==
  None \notin Dispatchers \cup Events \cup Messages

VARIABLES
  malformed,  \* messages of foreign producers that cannot be decoded; never changes
  row,        \* resolution_outbox rows
  sender,     \* the producer's own publication, beside the outbox
  lock,       \* holder of the advisory lock of the dispatch
  dispatch,   \* what a dispatcher holds in its local variables
  ready,      \* the queue: number of ready copies by event and requeue header
  worker,     \* what a consumer loop holds, and its cache of processed messages
  cancelled,  \* kaims:cancelled-processing
  settled     \* events handled, dead-lettered or cancelled, at one delivery or more

outboxVars == <<malformed, row, sender, lock, dispatch>>
vars == <<outboxVars, ready, worker, cancelled, settled>>

Published == {"confirmed", "unconfirmed", "refused"}  \* of a publication
Arrived == {"confirmed", "unconfirmed"}

RowState == [stored : BOOLEAN,
             published : BOOLEAN,   \* published_at is set; if not, pending or retry
             due : BOOLEAN]         \* next_attempt_at has passed
SenderState == {"idle", "publishing", "confirmed", "refused"}
DispatcherRow == [at : {"idle", "publishing", "marking"}, batch : SUBSET Events,
                  event : Events \cup {None}, confirmed : BOOLEAN]
WorkerRow == [at : {"idle", "checking", "handling", "requeueing", "failing",
                    "deadLettering", "quarantining", "acking"},
              message : Messages \cup {None}, tries : 0..MaxRetries,
              cache : SUBSET Events]

TypeOK ==
  /\ malformed \subseteq Events
  /\ row \in [Events -> RowState]
  /\ sender \in [Events -> SenderState]
  /\ lock \in Dispatchers \cup {None}
  /\ dispatch \in [Dispatchers -> DispatcherRow]
  /\ ready \in [Messages -> 0..MaxCopies]
  /\ worker \in [Workers -> WorkerRow]
  /\ cancelled \subseteq Events
  /\ settled \subseteq Events

Idle == [at |-> "idle", batch |-> {}, event |-> None, confirmed |-> FALSE]

Init ==
  /\ malformed \in SUBSET Events
  /\ row = [e \in Events |-> [stored |-> FALSE, published |-> FALSE, due |-> FALSE]]
  /\ sender = [e \in Events |-> "idle"]
  /\ lock = None
  /\ dispatch = [d \in Dispatchers |-> Idle]
  /\ ready = [m \in Messages |-> IF m.event \in malformed /\ m.requeues = 0 THEN 1 ELSE 0]
  /\ worker = [w \in Workers |->
                 [at |-> "idle", message |-> None, tries |-> 0, cache |-> {}]]
  /\ cancelled = {}
  /\ settled = {}

-----------------------------------------------------------------------------
(* The broker.                                                             *)

Holders(m) == {w \in Workers : worker[w].message = m}

Copies(e) ==
  Cardinality({c \in Messages \X (1..MaxCopies) :
    c[1].event = e /\ c[2] <= ready[c[1]] + Cardinality(Holders(c[1]))})

\* A persistent message is published to a durable queue, with publisher confirms.
Publish(e, requeues, result) ==
  /\ result \in Published
  /\ IF result \in Arrived
       THEN /\ Copies(e) < MaxCopies
            /\ ready' = [ready EXCEPT ![[event |-> e, requeues |-> requeues]] = @ + 1]
       ELSE ready' = ready

-----------------------------------------------------------------------------
(* The outbox, its producer and its dispatchers.                           *)

Pending(r) == r.stored /\ ~r.published /\ r.due

MarkPublished(r) == [r EXCEPT !.published = TRUE]
FaultMarkRetry(r) == MarkPublished(r)
MarkRetry(r) == [r EXCEPT !.due = FALSE]

\* The event's row commits together with the state it announces.  Some producers
\* leave the publication to the dispatchers, some publish at once as well and
\* keep the dispatchers away from the row for a while.
Enqueue(e, direct, due) ==
  /\ e \notin malformed
  /\ ~row[e].stored
  /\ row' = [row EXCEPT ![e] = [stored |-> TRUE, published |-> FALSE, due |-> due]]
  /\ sender' = [sender EXCEPT ![e] = IF direct THEN "publishing" ELSE "idle"]
  /\ UNCHANGED <<malformed, lock, dispatch, ready, worker, cancelled, settled>>

DirectPublish(e, result) ==
  /\ sender[e] = "publishing"
  /\ Publish(e, 0, result)
  /\ sender' = [sender EXCEPT ![e] = IF result = "confirmed" THEN "confirmed" ELSE "refused"]
  /\ UNCHANGED <<malformed, row, lock, dispatch, worker, cancelled, settled>>

DirectMark(e) ==
  /\ sender[e] \in {"confirmed", "refused"}
  /\ row' = [row EXCEPT ![e] = IF sender[e] = "confirmed" THEN MarkPublished(@)
                                                          ELSE MarkRetry(@)]
  /\ sender' = [sender EXCEPT ![e] = "idle"]
  /\ UNCHANGED <<malformed, lock, dispatch, ready, worker, cancelled, settled>>

SenderDies(e) ==
  /\ sender[e] # "idle"
  /\ sender' = [sender EXCEPT ![e] = "idle"]
  /\ UNCHANGED <<malformed, row, lock, dispatch, ready, worker, cancelled, settled>>

BackoffElapses(e) ==
  /\ row[e].stored /\ ~row[e].due
  /\ row' = [row EXCEPT ![e].due = TRUE]
  /\ UNCHANGED <<malformed, sender, lock, dispatch, ready, worker, cancelled, settled>>

\* The lock is pinned to the connection that the batch is read and marked with.
BeginDispatch(d) ==
  LET batch == {e \in Events : Pending(row[e])} IN
  /\ dispatch[d].at = "idle"
  /\ lock = None
  /\ batch # {}
  /\ lock' = d
  /\ dispatch' = [dispatch EXCEPT ![d] = [Idle EXCEPT !.at = "publishing", !.batch = batch]]
  /\ UNCHANGED <<malformed, row, sender, ready, worker, cancelled, settled>>

\* The rows are not read again: the producer may have published one meanwhile.
DispatchPublish(d, result) ==
  /\ dispatch[d].at = "publishing"
  /\ \E e \in dispatch[d].batch :
       /\ Publish(e, 0, result)
       /\ dispatch' = [dispatch EXCEPT
            ![d].at = "marking", ![d].event = e, ![d].confirmed = (result = "confirmed")]
  /\ UNCHANGED <<malformed, row, sender, lock, worker, cancelled, settled>>

\* One commit per event; at the end of the batch the lock is given back.
DispatchMark(d) ==
  LET e == dispatch[d].event
      left == dispatch[d].batch \ {e}
  IN
  /\ dispatch[d].at = "marking"
  /\ lock = d
  /\ row' = [row EXCEPT ![e] = IF dispatch[d].confirmed THEN MarkPublished(@)
                                                        ELSE MarkRetry(@)]
  /\ dispatch' = [dispatch EXCEPT
       ![d] = IF left = {} THEN Idle ELSE [Idle EXCEPT !.at = "publishing", !.batch = left]]
  /\ lock' = IF left = {} THEN None ELSE lock
  /\ UNCHANGED <<malformed, sender, ready, worker, cancelled, settled>>

\* The connection is gone, and with it the lock.  The dispatcher learns of it when
\* it marks; the publication under way goes on.
LoseLock ==
  /\ lock # None
  /\ lock' = None
  /\ UNCHANGED <<malformed, row, sender, dispatch, ready, worker, cancelled, settled>>

\* A persistence error propagates, or the process dies: the rows stay as they are.
DispatchFails(d) ==
  /\ dispatch[d].at # "idle"
  /\ dispatch' = [dispatch EXCEPT ![d] = Idle]
  /\ lock' = IF lock = d THEN None ELSE lock
  /\ UNCHANGED <<malformed, row, sender, ready, worker, cancelled, settled>>

-----------------------------------------------------------------------------
(* The consumer loops.                                                     *)

EventOf(w) == worker[w].message.event

Goto(w, at) == worker' = [worker EXCEPT ![w].at = at]

\* The loop remembers the message and acknowledges it.
Remember(w) ==
  worker' = [worker EXCEPT ![w].at = "acking", ![w].cache = @ \cup {EventOf(w)}]

Settle(e) == settled' = settled \cup {e}

Rest(loop) == [loop EXCEPT !.at = "idle", !.message = None, !.tries = 0]

\* The broker has the unacknowledged message ready again, beside what was published.
GiveBack(w, published) ==
  /\ ready' = [m \in Messages |-> ready[m] + (IF m = worker[w].message THEN 1 ELSE 0)
                                          + (IF m \in published THEN 1 ELSE 0)]
  /\ worker' = [worker EXCEPT ![w] = Rest(@)]

Take(w, m) ==
  /\ worker[w].at = "idle"
  /\ ready[m] > 0
  /\ ready' = [ready EXCEPT ![m] = @ - 1]
  /\ worker' = [worker EXCEPT
       ![w].at = IF m.event \in malformed THEN "quarantining" ELSE "checking",
       ![w].message = m]
  /\ UNCHANGED <<outboxVars, cancelled, settled>>

\* Malformed input is acknowledged only after its bytes are quarantined.
Quarantine(w, result) ==
  /\ worker[w].at = "quarantining"
  /\ IF result \in Arrived THEN Settle(EventOf(w)) ELSE UNCHANGED settled
  /\ IF result = "confirmed" THEN Goto(w, "acking") /\ UNCHANGED ready
                             ELSE GiveBack(w, {})
  /\ UNCHANGED <<outboxVars, cancelled>>

\* The cancellation set is read through a cache and fails open: Admit may miss it.
SkipCancelled(w) ==
  /\ worker[w].at = "checking"
  /\ EventOf(w) \in cancelled
  /\ Settle(EventOf(w))
  /\ Goto(w, "acking")
  /\ UNCHANGED <<outboxVars, ready, cancelled>>

SkipDuplicate(w) ==
  /\ worker[w].at = "checking"
  /\ EventOf(w) \in worker[w].cache
  /\ Goto(w, "acking")
  /\ UNCHANGED <<outboxVars, ready, cancelled, settled>>

Admit(w) ==
  /\ worker[w].at = "checking"
  /\ EventOf(w) \notin worker[w].cache
  /\ Goto(w, "handling")
  /\ UNCHANGED <<outboxVars, ready, cancelled, settled>>

\* The handler succeeds, or run_handler has found the event cancelled when it was
\* given capacity and returns without calling it.
HandlerReturns(w) ==
  /\ worker[w].at = "handling"
  /\ Settle(EventOf(w))
  /\ Remember(w)
  /\ UNCHANGED <<outboxVars, ready, cancelled>>

FaultRetryable(tries) == tries <= MaxRetries + 1
Retryable(tries) == tries <= MaxRetries

\* A failure is retried in place; the last one decides between a transient requeue
\* and the dead-letter queue.
HandlerFails(w, transient) ==
  LET tries == worker[w].tries + 1 IN
  /\ worker[w].at = "handling"
  /\ worker' = [worker EXCEPT
       ![w].tries = IF Retryable(tries) THEN tries ELSE 0,
       ![w].at = IF Retryable(tries) THEN "handling"
                 ELSE IF transient /\ worker[w].message.requeues < MaxRequeues
                 THEN "requeueing" ELSE "failing"]
  /\ UNCHANGED <<outboxVars, ready, cancelled, settled>>

FaultRequeued(m) == m
Requeued(m) == [m EXCEPT !.requeues = @ + 1]

\* The copy is published to this queue before the original is acknowledged.
Requeue(w, result) ==
  LET copy == Requeued(worker[w].message) IN
  /\ worker[w].at = "requeueing"
  /\ result \in Arrived => Copies(EventOf(w)) < MaxCopies
  /\ IF result = "confirmed"
       THEN Goto(w, "acking") /\ ready' = [ready EXCEPT ![copy] = @ + 1]
       ELSE GiveBack(w, IF result = "unconfirmed" THEN {copy} ELSE {})
  /\ UNCHANGED <<outboxVars, cancelled, settled>>

\* The service persists the terminal state first; if it cannot, the delivery stays.
RecordFailure(w, persisted) ==
  /\ worker[w].at = "failing"
  /\ IF persisted THEN Goto(w, "deadLettering") /\ UNCHANGED ready ELSE GiveBack(w, {})
  /\ UNCHANGED <<outboxVars, cancelled, settled>>

DeadLetter(w, result) ==
  /\ worker[w].at = "deadLettering"
  /\ IF result \in Arrived THEN Settle(EventOf(w)) ELSE UNCHANGED settled
  /\ IF result = "confirmed" THEN Remember(w) /\ UNCHANGED ready ELSE GiveBack(w, {})
  /\ UNCHANGED <<outboxVars, cancelled>>

Ack(w) ==
  /\ worker[w].at = "acking"
  /\ worker' = [worker EXCEPT ![w] = Rest(@)]
  /\ UNCHANGED <<outboxVars, ready, cancelled, settled>>

\* The channel is lost: the loop starts again and keeps its cache.
Reconnect(w) ==
  /\ worker[w].message # None
  /\ GiveBack(w, {})
  /\ UNCHANGED <<outboxVars, cancelled, settled>>

\* The process dies with a message in hand, and the cache with it.
WorkerDies(w) ==
  /\ worker[w].message # None
  /\ ready' = [ready EXCEPT ![worker[w].message] = @ + 1]
  /\ worker' = [worker EXCEPT ![w] = [Rest(@) EXCEPT !.cache = {}]]
  /\ UNCHANGED <<outboxVars, cancelled, settled>>

\* Entries are dropped after an hour, or when there are too many.
Forget(w, e) ==
  /\ e \in worker[w].cache
  /\ worker' = [worker EXCEPT ![w].cache = @ \ {e}]
  /\ UNCHANGED <<outboxVars, ready, cancelled, settled>>

\* An operator stops the processing of an event's alert.
Cancel(e) ==
  /\ e \notin malformed \cup cancelled
  /\ cancelled' = cancelled \cup {e}
  /\ UNCHANGED <<outboxVars, ready, worker, settled>>

-----------------------------------------------------------------------------

DispatcherStep(d) ==
  \/ BeginDispatch(d)
  \/ \E r \in Published : DispatchPublish(d, r)
  \/ DispatchMark(d)

WorkerStep(w) ==
  \/ \E m \in Messages : Take(w, m)
  \/ SkipCancelled(w) \/ SkipDuplicate(w) \/ Admit(w)
  \/ HandlerReturns(w)
  \/ \E transient \in BOOLEAN : HandlerFails(w, transient)
  \/ \E persisted \in BOOLEAN : RecordFailure(w, persisted)
  \/ \E r \in Published : Quarantine(w, r) \/ Requeue(w, r) \/ DeadLetter(w, r)
  \/ Ack(w)

Next ==
  \/ \E e \in Events :
       \/ \E direct, due \in BOOLEAN : Enqueue(e, direct, due)
       \/ \E r \in Published : DirectPublish(e, r)
       \/ DirectMark(e) \/ SenderDies(e) \/ BackoffElapses(e) \/ Cancel(e)
  \/ LoseLock
  \/ \E d \in Dispatchers : DispatcherStep(d) \/ DispatchFails(d)
  \/ \E w \in Workers :
       \/ WorkerStep(w) \/ Reconnect(w) \/ WorkerDies(w)
       \/ \E e \in Events : Forget(w, e)

Spec == Init /\ [][Next]_vars

\* Steps in which the broker, a connection, the database or a process fails.
Breakdown ==
  \/ LoseLock
  \/ \E d \in Dispatchers :
       DispatchFails(d) \/ \E r \in Published \ {"confirmed"} : DispatchPublish(d, r)
  \/ \E w \in Workers :
       \/ Reconnect(w) \/ WorkerDies(w) \/ RecordFailure(w, FALSE)
       \/ \E r \in Published \ {"confirmed"} :
            Quarantine(w, r) \/ Requeue(w, r) \/ DeadLetter(w, r)

\* Loops poll for ever and time passes; breakdowns end.  Handlers may fail for ever.
Fairness ==
  /\ \A d \in Dispatchers : WF_vars(DispatcherStep(d))
  /\ \A d \in Dispatchers : WF_vars(lock # d /\ DispatchFails(d))
  /\ \A w \in Workers : WF_vars(WorkerStep(w))
  /\ \A e \in Events : WF_vars(BackoffElapses(e))
  /\ <>[][~Breakdown]_vars

FairSpec == Spec /\ Fairness

-----------------------------------------------------------------------------
(* Correctness.                                                            *)

Accepted == malformed \cup {e \in Events : row[e].stored}

Held(m) == ready[m] > 0 \/ Holders(m) # {}

InBroker(e) == \E m \in Messages : m.event = e /\ Held(m)

\* An accepted event that has no outcome yet is held by somebody: its row is still
\* to be published, or the broker has a copy, ready or in a consumer's hand.
NeverLost ==
  \A e \in Accepted \ settled : InBroker(e) \/ (row[e].stored /\ ~row[e].published)

\* Outbox, broker and consumers implement the promise of Delivery: every accepted
\* event is handled, dead-lettered or cancelled in the end.
Promise == INSTANCE Delivery WITH accepted <- Accepted
KeepsPromise == Promise!Spec
=============================================================================
