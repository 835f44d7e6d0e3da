# TLA+ models of KaiMS

KaiMS takes an incident from an alert to its repair: context and evidence are
collected, a root-cause analysis (RCA) is written, a plan is compiled and approved,
the remediation is executed by Jenkins under a Temporal workflow, and the recovery is
validated, closed and learnt from. The services are Python (FastAPI and asyncio); they
share one MySQL database, reached through `IncidentRepository`, and talk through
RabbitMQ topics, HTTP and Temporal.

This directory holds specifications of the parts of it that are hard to test:

| module | what it is |
|---|---|
| `WorkQueue` | what a queue of leased jobs promises, abstractly |
| `EvidenceCollection` | durable collection of evidence for one incident; it implements `WorkQueue` |
| `EvidenceCollection_proofs` | theorems about it, checked by TLAPS |
| `GovernedExecution` | execution of approved remediations on one target |
| `GovernedExecution_proofs` | theorems about it, checked by TLAPS |
| `Delivery` | what the durable event path promises, abstractly |
| `EventDelivery` | outbox, publication, queue and consumers; it implements `Delivery` |
| `EventDelivery_proofs` | theorems about it, checked by TLAPS |
| `AnswerBook` | what the analyses of an incident promise, abstractly |
| `AnalysisRequests` | from an operator's request to one recommendation, its version and its receipt; it implements `AnswerBook` |
| `AnalysisRequests_proofs` | theorems about it, checked by TLAPS |
| `IncidentClosure` | from a finished action to a closed incident |
| `IncidentClosure_proofs` | theorems about it, checked by TLAPS |
| `AlertIntake` | from a firing alert to one incident under investigation |
| `AlertIntake_proofs` | theorems about it, checked by TLAPS |
| `MC...` and `*.cfg` | small instances for TLC |
| `PROJECT.json` | which definition stands for which lines, runs, seeded bugs, hazards, findings, theorems |

    tlc -workers 2 -config EvidenceCollection.cfg MCEvidenceCollection.tla
    tlapm EvidenceCollection_proofs.tla

## 1. Inventory

Paths are relative to the repository. "State" is what outlives one request.

| component | state | operations | hard behaviour | what makes it correct |
|---|---|---|---|---|
| evidence collection: `context-agent/app.py`, the enrichment part of `common/repository.py`, `queue_lifecycle.py`, `enrichment_scheduler.py`, `investigation_gaps.py` | requirement and job rows, leases, bindings, canonical evidence, snapshots, outbox | schedule, claim, persist, finish, requeue, reconcile, maintain, retire | several workers and processes, lapsing leases, crashes, retries, RCA versions that supersede each other, late results | leases respected, budgets never exceeded nor reset, evidence never lost, no requirement orphaned, jobs end |
| analysis requests: `api-gateway/app.py:1811`, the handlers of `context-agent` and `resolution-agent`, `repository.py:3250-3650` | request rows, version reservations, bindings, snapshots | submit, publish, poll, collect, refresh, commit, announce | deadlines racing with answers, repeated deliveries, snapshots that supersede each other, coalescing | versions unique, committed answers never change, every request answered or refused |
| resolution agent: `resolution-agent/` | RCA versions, hypotheses, bindings, plans | analyse, persist an RCA, plan evidence | a new analysis while evidence for the old one is on its way | each RCA cites evidence of its own snapshot; earlier versions stay as they were |
| approval service: `approval-service/app.py` | approvals, pending decisions | approve, reject, ask for evidence, supersede | decisions racing with newer RCAs; commit first, publish later | an approval binds exactly one plan and evidence snapshot |
| remediation engine: `remediation-engine/app.py`, `plugins.py` | action rows, their approval and receipt, remediation events | execute, dispatch, reconcile, time out, report failure, emergency stop, watchdog | two incidents on one target; Jenkins's answer lost; retries of what was done; a watchdog racing a late poll | a target held by one incident, one build per approval, outcomes as Jenkins saw them, targets released |
| remediation workflow: `temporal-pilot/` | Temporal history | run activities, retry, poll until the deadline | at-least-once activities, timeouts, worker restarts | each activity idempotent; the workflow ends with the action's outcome |
| resolution lifecycle: `common/resolution_lifecycle.py` | state and history inside a plan or an action | validate and apply a transition | retries after a partial failure | only listed transitions; a terminal state is final |
| incident lifecycle: `common/incident_lifecycle.py`, `repository.py:10806` | projection, lifecycle events | transition with prerequisites and an idempotency key | the same event twice, or two stages at once | stages in order, none before its evidence, no stage unreachable |
| incident status: `common/incident_status.py` | none | derive one status from several | conflicting inputs | terminal outcomes win; the order of the inputs does not matter |
| outbox: `repository.py:2932`, `outbox_dispatch.py` | outbox rows with a claim | enqueue, claim, publish, mark | a crash between publish and mark, a claim that lapses | enqueued events are published at least once, none before its commit |
| message delivery: `common/rabbitmq.py`, `message_processing.py` | queues, retry counts, cache of processed messages | consume, retry, defer, dead-letter | duplicates, reordering, a lost connection | each message handled, or dead-lettered with its reason; retries bounded |
| reconciliation lease: `repository.py:9141` | run rows | begin, heartbeat, finish, interrupt | two reconcilers, a lapsed lease | one active run; the last one to finish is the one that held it |
| admission: `alert_processing_budget.py`, `queue_backpressure.py`, `analysis_admission.py` | counters in the process and in the database | admit, release, pause, resume | releases lost with a crash, hysteresis | bounds respected, slots returned, intake resumes |
| circuit breakers, advisory locks: `resilience.py`, `advisory_lock.py` | failure counters, named locks | allow, record, lock, unlock | all callers probing at once | an open circuit rejects calls until its recovery time |
| closure and recovery: `closure-service/` | assessments, observations | validate, reassess, close | stale observations, events that come twice | no closure without fresh evidence of recovery |
| alert intake: `monitoring-adapter/`, `alert-intelligence/`, `stalled_investigation.py` | landing-pad files, recent deliveries, occurrences, ownership, incidents | land, claim, publish, correlate, merge, recover | a request racing with the watcher, a crash between commit and publish, duplicates handled at once, late onsets | what is answered was accepted, one incident per problem at a time, what keeps firing is investigated |
| knowledge: `knowledge-development-worker/`, `rag_governance.py` | candidates, reviews | claim, draft, review | two workers with one candidate | nothing is learnt that was not reviewed |
| the rest: API gateway, orchestrator, notification, audit, onboarding, discovery, connector hub, monitoring configuration agents, model router, evaluation | rows of their own | request-response | little | left aside, see section 11 |

How they interact: alert intake publishes an enriched alert, or enqueues the recovery of
a stalled investigation; the context agent collects a first snapshot and the resolution
agent analyses it. The agent's persisted RCA (a binding in one transaction, its
requirements and the jobs for them in the next) is what evidence collection works on. An accepted result commits evidence, a new snapshot and an outbox event
together; that event makes the resolution agent analyse again and so raises the next
RCA version. An approved plan is a request to the remediation engine, which starts a
Temporal workflow that calls back into the engine; the engine's terminal action is saved
and its event enqueued afterwards, and the event drives closure. Requests to Jenkins,
Temporal and RabbitMQ are outside every database transaction, and most hazards are there.

Which module covers which link:

    alert --AlertIntake--> incident --AnalysisRequests--> RCA --EvidenceCollection--> evidence
      RCA --(compiled plan, approval)--> GovernedExecution --> finished action
      finished action --IncidentClosure--> closed incident
      every arrow over the bus --EventDelivery, which implements Delivery
      the versions and answers of AnalysisRequests --kept as AnswerBook says
      the jobs of EvidenceCollection --held and decided as WorkQueue says

The modules compose through what they promise: `EventDelivery` shows at-least-once
delivery, and the other modules take nothing more from the bus than that (a message may
come again, late and out of order, but comes or is dead-lettered).

## 2. EvidenceCollection

State and code:

| variable | code |
|---|---|
| `incidentOpen` | status of the incident row, closed/resolved/cancelled or not |
| `bound` | newest RCA version with an investigation binding |
| `req` | `evidence_requirements` rows by (question, RCA version): status, satisfying evidence |
| `job` | `context_enrichment_jobs` rows by (requirement, connector): status, attempt_count, lease owner, lease, backoff |
| `worker` | what a coroutine of the context agent holds in its local variables |
| `ledger`, `snapshot`, `outbox` | canonical evidence, the accepted evidence that the latest context snapshot cites, context-enriched events |

Each action is one transaction: `BindRca`, `PersistRca`, `Recollect`, `Reconcile`, `Claim`,
`Accept` (persist_enrichment_result_atomically), `Reject`, `LostLease`, `Maintain`,
`RetireClosed`. An RCA takes two: `BindRca` commits its binding with a final snapshot
(`_commit_investigation_recommendation`), `PersistRca(v)` cancels and raises requirements
and schedules them (`_persist_resolution_event`). In between the process may crash; the
redelivered message plans the bound RCA then, perhaps after newer ones are bound, or a
second time. So `PersistRca(v)` may happen at any time for any bound version.
The latest snapshot has three writers. `HandOff` adds the accepted record to it; snapshot
and event are named by the list of evidence, and neither is written again when that list
was handed off before. `BindRca` keeps its parent's evidence. `Recollect`
(`save_context_snapshot`) puts a snapshot on top that cites no accepted evidence; the
requirements stay collected, so until a later accept the latest snapshot lacks evidence
the ledger has. The worker's error and deadline paths read the job without a row lock,
look at its owner and write it by primary key later; they are the two steps `ErrorRead`
and `ErrorWrite` (or `BusyWrite`, when the database was contended and the attempt is
given back). `Crash`, `LeaseLapses`, `BackoffElapses` and `CloseIncident` are the
environment.

Abstractions:
- Time is two facts per job: is the lease lapsed, is the backoff over.
- Concurrent accepts lock the same rows; InnoDB makes one wait or fail and retry, so an
  accept is atomic and the failure is the "busy" path.
- All jobs of one question look at the same observation window, so predecessors of
  other windows do not occur.
- A context that is supplied with a request, or taken from the cache, may carry evidence
  collected earlier; `BindRca` may cite any of the ledger on top of its parent's.
- Maintenance handles all rows in one step where the code takes a page of them per pass;
  a planning pass plans one gap per step.
- The lease's expiry is not looked at when a result is accepted, in the model as in the
  code: only its owner.
- `PausesPossible` says whether a lease (120 s) may lapse under a running worker. The
  collection deadline of 90 s excludes it in normal operation, a suspended process does
  not. Properties that need it FALSE say so in their own text or in the run's bounds.

What the runs check:

| run | instance | distinct states | what it shows |
|---|---|---|---|
| `collection_safety` | 1 question, 2 sources, 2 workers, 2 RCA versions, 2 attempts, no pauses, fair | 118k | types, `LeaseDiscipline`, `PendingHasBudget`, `RunningHoldsLease`, `ScheduledHasWork`, `AnswersCiteLedger`, `KeepsQueue`, `LiveLeaseRespected`, and `JobsSettle`: every job ends |
| `collection_paused` | 2 questions, 1 source, 2 workers, 1 version, 2 attempts, pauses | 1.1M | `CollectedIsHandedOff`, `EvidenceFromHolder` |

`WorkQueue` is the promise of the jobs and leases: who holds a job alone decides it, what
nobody holds planning may give up but never take as collected, a decision is final, and a
result is kept exactly when its holder delivers it. `KeepsQueue` is its specification
under the mapping outcome <- the final status of a row, or open; holder <- the owner of a
live lease; kept <- `ledger`. Planning, repair and closure are its `Plan`; `Accept`,
`Reject`, `ErrorWrite` and `BusyWrite` its `Finish`; attempts, backoff, requirements and
the worker's own variables are below it. `FinalJobsStay` is a consequence.
A lapsed lease has no holder, so with pauses a late `Accept` is no step of `WorkQueue`, and
`KeepsQueue` is not claimed.

`LiveLeaseRespected` fails once pauses are possible, and `AnsweredStays` and
`RetryBudgetCarried`, which the module also states, fail without them: section 8.

Bounds. Two workers are enough for a late one and a current one, two versions for a job
and the one that supersedes it, two sources for a fallback, two attempts for a retry and
its exhaustion. With pauses, two workers and two versions are out of reach:
`collection_paused` has the late worker and the one that took its job over (one version,
two attempts). `AnswersCiteLedger` is run on two revisions of one question, where evidence
asked for by one version answers the other; two questions with two revisions each, one
worker, one attempt and pauses were checked apart (1.5M states), as was a question that
each RCA cancels (`Inapplicable`), with the same result. Deadlock is not checked: a closed incident with nothing queued rests.

Fairness (`Fairness`): worker loops poll for ever, time passes (`LeaseLapses`,
`BackoffElapses`), the scheduler runs maintenance and retirement periodically, and
database contention ends for good at some time; without the last, a job that returns its
attempt each time could go on for ever. Nothing is assumed of planning, closing or
crashing.

## 3. GovernedExecution

All incidents of an instance act on the same target. State and code:

| variable | code |
|---|---|
| `approval` | `approvals` rows: valid or expired (signature, scope and fingerprint checks are one fact) |
| `row` | `actions` rows: the status column and, apart from it, the payload that the engine reads back |
| `build` | Jenkins queue items and builds, external |
| `workflow` | the run of `KaiOpsRemediationWorkflow` for an approval: its activity, attempts, and whether it waits for an answer |
| `call` | requests in flight in the engine: where they are, and their private copy of the action |
| `outbox` | remediation events enqueued for the broker |

The steps of a request are database transactions and requests to Jenkins or Temporal,
in the code's order: `Execute`, `Reserve`, `Start`, `Persist` are POST /execute;
`Dispatch`, `Reserve`, `Submit`, `Persist` are dispatch-direct; `Ask`, `Observe`, then
`Persist` or `Finalize` and `Announce` are reconcile-direct and timeout-direct;
`ReportFailure`, `Finalize`, `Announce` are execution-failed; `Stop`, `Halt`, `Persist`
are the emergency stop. `DispatchAnswered`, `AskInVain` and `ReserveFails` are their
early returns. `Answered` and `Retried` are the workflow's reactions and retry policies,
`Watchdog` is `_reconcile_stale_remediating`.

What may go wrong is a constant, `Faults`: *crash* (the engine dies in a call),
*unreachable* (Jenkins or Temporal fails a request), *expiry* (an approval expires),
*overlap* (two calls about one incident are in flight together: an activity attempt that
was given up goes on, operators race with the workflow), *stale* (a row stays unchanged
for the watchdog's twenty minutes). Runs differ in what they allow, and say so; a
property is claimed only for the faults of its run.

Abstractions: the Jenkins executor with Temporal enabled, as docker-compose configures
it; plans do not authorize automatic rollback; the incident projection, reconsideration
messages and direct publishing beside the outbox are left out; runbook governance is part
of an approval's validity; Jenkins's own concurrency guards are external and may be
absent. A call lasts less than the watchdog's timeout. SQLAlchemy sends no UPDATE for an
identical payload, so polls of a build that stays as it is do not hold off the watchdog.

What the runs check:

| run | instance | distinct states | what it shows |
|---|---|---|---|
| `execution_serial` | 2 incidents, 1 approval each, crash, unreachable, expiry | 590k | types, `TargetExclusive`, `EventsAreTrue`, `SuccessStays` |
| `execution_overlap` | 1 incident, 2 approvals, overlap, every end of a build | 1.2M | `OutcomesAreObserved`, `NewerApprovalKeepsAction` |
| `execution_released` | 1 incident, 2 approvals, stale, fair | 49k | `TargetReleased` |
| `duplicate_build` | 1 approval, 2 builds, crash | finds a violation | a second build of the same approval |

A call is `fresh` until a row has its action's id: a save that inserts under a new id
collides with the plan's idempotency key if another call was first, while the first save
of a call makes the row its own, so that its later saves (the acknowledgement of POST
/execute, the announcement) replace what others have written under the same approval.
A late save is refused only when a newer approval's action is stored.

`TargetExclusive` is claimed without the watchdog's fault; with it, and `TargetReleased`
with *expiry*, the code breaks them (section 8). `SuccessStays` is claimed for calls that
do not overlap, and overlapping calls do break it (see the hazards at
`remediation-engine/app.py:1566`).

Bounds. Two slots let two calls interleave at every step; two incidents compete for a
target; two approvals are a superseded and a superseding one; `MaxTries` 2 has a retry
and its exhaustion (the workflow's 3 in the liveness runs); one build per approval is a
bound except in `duplicate_build`, whose question it is. `execution_overlap` does not
tell states apart by the outbox (`NoOutbox`), which none of its properties and no guard
reads. Deadlock is not checked:
everything may be done.

Fairness: weak for each step of a request in flight, for Jenkins starting and ending
builds and for the workflow's deadline; strong for activities and the watchdog, because
operators' requests come and go and would otherwise keep them waiting for ever. People
and failures are not assumed to do anything.

## 4. EventDelivery and Delivery

`EventDelivery` follows events on the durable path from the transaction that produces
them to one subscriber:

| variable | code |
|---|---|
| `row` | `resolution_outbox` rows: pending or published, and whether the next attempt is due |
| `sender` | a producer that also publishes by itself, beside the outbox (api-gateway, context agent) |
| `lock`, `dispatch` | the advisory lock of the dispatch loop and what each dispatcher holds |
| `ready` | the subscriber's queue by event and value of the transient-requeue header |
| `worker` | a consumer loop: its delivery, its tries, the cache of processed messages |
| `malformed`, `cancelled`, `settled` | messages of foreign producers, cancelled processing, what has an outcome |

`Enqueue`, `DirectPublish`, `DirectMark`, `BeginDispatch`, `DispatchPublish` and
`DispatchMark` are the producer's and the dispatchers' steps; `Take`, `SkipCancelled`,
`SkipDuplicate`, `Admit`, `HandlerReturns`, `HandlerFails`, `Requeue`, `RecordFailure`,
`DeadLetter`, `Quarantine` and `Ack` are `consume_forever`. Publishing is confirmed,
refused, or accepted without the producer learning of it, at each place that publishes.
Producers, dispatchers and workers die at every step, connections are lost, the advisory
lock ends with its connection while its holder goes on.

`Delivery` is the promise: what was accepted is settled (handled, dead-lettered or
cancelled), perhaps more than once. `KeepsPromise` is `Delivery`'s specification under
the refinement mapping accepted <- rows committed and foreign messages.

| run | instance | distinct states | what it shows |
|---|---|---|---|
| `delivery` | 1 event, 2 dispatchers, 1 worker, 1 retry, 1 requeue, 2 copies | 54k | types, `NeverLost`, `KeepsPromise` with its liveness |

Two copies of a message are what a producer and a dispatcher, or a requeue and its
original, put into the queue. Two events with one copy each were checked once (984k
states) with the same result; events share only the lock and the batch. Fairness: loops
poll for ever, time passes and breakdowns end; handlers may fail for ever, since a
message that keeps failing ends in the dead-letter queue. Assumed: the dead-letter
exchange is configured and messages carry an identity, as `message_processing.py`
gives them. An operator who purges queues is not modelled.

## 5. AnalysisRequests and AnswerBook

One incident, requests of operators (with a row in `analysis_requests`) and background
analyses that an enriched snapshot asks for. State: the rows, their deadline and their
polls; copies of commands and context events under way; snapshots by version and which
was collected last (`newest`, `freshest`); version reservations and bindings; what the
context agent's and the resolution agent's consumers hold. `Submit` to `GatewayDies` are
`_publish_analysis_regeneration_command`, `Poll` and `PollExpires` the receipt's polling,
`TakeCommand` to `CollectorRecords` the context agent, `Receive` to `AnalystRecords` the
resolution agent with `run_with_snapshot_refresh`. Reads that a later write relies on
without a lock are steps of their own.

| run | instance | distinct states | what it shows |
|---|---|---|---|
| `analysis` | 1 request, 2 background analyses, 1 collector, 2 analysts; four scenes | 162k | `VersionsUnique`, `CompleteIsBound`, `CoalescedIsCovered`, `ReceiptsDoNotReopen`, `KeepsBook`, `RequestsSettle`, `AnswersAnnounced` |

A scene is the requests of one history and its faults: the request and a background
analysis with repeated deliveries; with a deadline, a refused publication and failing
handlers; with the incident's end and failing handlers; and two background analyses of
which the newer may take the older one's place, or which a governed recovery retires, with
repeated deliveries. All faults but the
recovery together (188k states) and two explicit requests without faults (59k) were checked once.
Two analysts are needed for one request investigated twice at once, two attempts for a
refresh and its exhaustion. Fairness: consumers work on what they are given, and
deliveries are repeated finitely often (retries are bounded). The gateway is not assumed
to do anything: it may die.

A background analysis is retired (`Coalesce`) for a newer snapshot, or while a recovery
governs the incident: the plan of a committed recommendation is selected or executed
(`governed_recovery_recommendation_id`). Selections and executions are not part of this
module, so a recovery governs or not at any moment after a commit (`Governed`).
`CoalescedIsCovered` says what is left of the retired evidence's claim to an analysis: a newer
analysis that is not retired, or a committed recommendation that it gave way to.

`AnswerBook` is the promise: a request draws the next free number, keeps it, and is
answered at most once, under its number and on a snapshot that commits with the answer.
`KeepsBook` is its specification under the mapping number <- `reserved`, answer <-
`binding`, latest <- `newest`. Every step of the gateway, the context agent and the
delivery is a stutter or an observation there; what has to be shown is that a refresh, a
second analyst or a repeated delivery neither draws again nor leaves a gap nor answers
twice. `BindingsStay` (an answer never changes) is a part of it and has a theorem of its own.

`ReceiptsDoNotReopen` excepts the gateway itself, which writes *queued* with a status it
read before (`api-gateway/app.py:1895-1905`). The poll's deadline also reads before it
writes; a late answer then has a request that timed out, which the code means.

## 6. IncidentClosure

One incident from its first recommendation to its closure. State: the incident row with
the lifecycle in its metadata, the projection, recommendations in their order, compiled
plans, approvals and actions, finished actions on the bus (delivered any number of times,
in any order), what the recovery observers see, the reports that validators have made
and not yet recorded, durable reports, a copy of the incident in an alert handler's hands,
a manual closure under way, a recovery assessment and its evaluations.

`Recommend` to `Diagnose` are the rest of the system; `Consume` and `Replay` validate an
action outside any lock, as the consumer and the reconciliation loop do; `Record` and
`Discard` are `_persist_closure_event` under the incident's lock with its staleness
checks; `ManualCheck`, `ManualClose`, `ManualRefused` the operator's closure;
`RequestAssessment` to `RefuseAssessed` the assessments; `TakeCopy`, `SaveCopy` a handler
that saves what it read earlier; `Approve`, `Decline` a decision.

| run | instance | distinct states | what it shows |
|---|---|---|---|
| `incident_closure` | two plans, a consumer and a reconciler, in five scenes | 148k | `ClosureJustified`, `ProjectionNotAhead`, `ClosedStays`, `LifecycleForward`, `StabilityAwaited`, `RecoveryCloses` |
| `superseded_controls` | a repair and a watch-only plan | finds a violation | a superseded watch-only plan closes the incident |

A *scene* is the plans of one history and who else writes to the incident: two repairs; a
repair and a watch-only plan with further decisions, with an alert handler, or with an
operator; a repair with an assessment. Two plans are a superseded and a superseding one,
two validators one that is overtaken and one that overtakes. Fairness: the reconciliation
loop runs for ever and transactions end; nothing is assumed of consumers or people.

The event of a failed validation and that of a closure have one event type, hence one
idempotency key per incident, and `save_incident_event` drops the second before it moves
the projection. `Projected` keeps that: `ClosureEvents` are the events already stored,
closures by operators among them, and a closure after any of them leaves the projection
open. `ProjectionNotAhead` says that this is the only way for the two to differ, and that
the projection is never closed without its incident; that the two agree at all times,
`ClosedTogether`, is false (section 8).

What the properties leave out, because the code does it:
- A decision reopens a closed incident unconditionally (`repository.py:2759`), which then
  keeps its closed lifecycle; `ClosedStays` excepts `Decide`.
- A stale save of an alert or a Jira result replaces status and lifecycle of an incident
  that is not closed (`alert-intelligence/app.py:413`, `:623`); `LifecycleForward`
  excepts it. `StabilityAwaited` excepts histories with one: when the save takes the
  incident back to an earlier lifecycle, a report that was overtaken opens the stability
  window again, after an operator's check that saw none.
- An assessment bound to an incident that decisions changed and changed back is accepted.
- A pending window after a failed report stays pending for ever; a second failed
  validation is suppressed as a duplicate of the first.

Not modelled: the projection's order by timestamps, which may also keep the closure's event
from it (`repository.py:6752`), its separate column `lifecycle_state`, which an assessed
closure writes besides the event, related incidents, `superseded_execution_attempt`, the Jira ticket
that is updated before the closing transaction, closing from the projection of an
assessment, and the demonstration paths. No producer of the repository completes a
diagnostic plan that is not watch-only.

## 7. AlertIntake

One problem (tenant, project, environment, service, fingerprint) whose outages begin at
times 1, 2, ...; from Alertmanager's notification to the investigation of an incident.

| variable | code |
|---|---|
| `notice` | a notification: its onset, its landing-pad file, the request that handles it |
| `keys` | `_ALERTMANAGER_RECENT_DELIVERIES`, in the adapter's memory |
| `raw` | its message on raw-alerts |
| `occurrence`, `owner`, `incident` | `incident_occurrences`, `incident_correlation_ownership` by generation, incident rows |
| `handler` | what a handler of alert-intelligence holds: its delivery and the snapshot of its first read |
| `investigated`, `aged` | investigations published or enqueued, incidents older than five minutes |

`Notify`, `Claim`, `PublishRaw`, `Answer`, `ClaimLost`, `TakenByWatcher`,
`RecoverStaleClaim` are the adapter; `Take`, `Open`, `Join`, `Retry`, `Conflict`,
`PublishEnriched`, `Acknowledge` the handlers. A handler's transaction sees occurrences
and incidents as of its first read (InnoDB's repeatable reads) and the ownership row,
which it locks, as it is now; `Conflict` is the transaction that finds the two apart.

| run | instance | distinct states | what it shows |
|---|---|---|---|
| `alert_intake` | 2 outages, 2 handlers, four scenes | 153k | `OneOwner`, `SuppressedIsAccepted`, `FiringIsInvestigated` |
| `answered_unaccepted` | 2 notifications, watcher | finds a violation | a request answers 200 and nothing was published |

Scenes: two notifications with the watcher; one with failing publications, dying
processes, redelivery and dead letters; one with decisions on the closed incident; two
notifications of outages further apart than the correlation window. Larger ones were
checked once for safety: two notifications with each of the faults (up to 897k states),
three outages with the watcher (418k). Fairness: Alertmanager repeats what fires,
requests and handlers go on, time passes, the watcher clears what is left, and breakdowns
and stolen files end.

Remarks. The watcher's theft is made good by the next repeat, once the key is removed
(`ClaimLost`), so `FiringIsInvestigated` holds although `AnsweredIsAccepted` does not;
file names longer than 32 characters are cut in the record, not found by the watcher's
check, and then published by it. A crash between the incident's commit and its
publication is recovered by an alert that arrives more than five minutes later
(`stalled_investigation.py`), and by nothing else. An alert of an earlier outage that is
late joins the latest incident. Decisions that reopen a closed incident leave its
ownership terminal, so the next outage opens a second open incident; `OneOwner` excepts
them. Each request is assumed to last less than the keys' time to live and than the age
of a stale claim; one adapter process is modelled, a second has keys of its own, which is
a key that has expired.

## 8. Disagreements between the code and its own text

Three are runs that expect a violation; `PROJECT.json` quotes the text.

1. `duplicate_build`: no trace of a submitted build is saved before its answer is; a
   retry submits again (`remediation-engine/app.py:1127`).
2. `superseded_controls`: the late report of a superseded watch-only plan closes the
   incident while the repair that took its place governs (`closure-service/app.py:593`).
   "Historical blocks, actions, and approvals remain visible in the timeline but cannot
   control a superseding plan" (`docs/architecture/resolution-lifecycle-v4.md:110`).
3. `answered_unaccepted`: "HTTP 200 means the durable feed and message bus have actually
   accepted it" (`monitoring-adapter/app.py:5344-5347`), and the watcher may have archived
   the file without publishing it.

The rest were found with the same modules, on small instances with the settings named:

4. `remediation-engine/app.py:1513`: the last save of a first execution, which comes after
   its workflow was started, may write *dispatching* without a receipt over the row in
   which the workflow has put the build of the same approval; only a row of a newer
   approval is kept from it. "Retain terminal receipts; reconcile an accepted action"
   (`docs/AUTONOMOUS_OPERATIONS_EVOLUTION_PLAN.md:267`). `ReceiptsRetained` of
   `GovernedExecution` with one approval and Faults {overlap}.
5. `repository.py:6883`: the second closure event of an incident has the key of the first
   and is dropped, so after a failed validation and a recovery the incident is closed
   and its projection is not. "Summary, detail, Jira projection, and audit timeline show
   one consistent state" (`docs/architecture/resolution-lifecycle-v4.md:144`).
   `ClosedTogether` of `IncidentClosure` with Scenes {{a}}.
6. `repository.py:2999`: a background analysis is retired because a recovery governs the
   incident, with no newer snapshot and no successor. "Retire only
   enrichment-generated work fully covered by a durable successor" (`repository.py:2994`).
   `RetiredForSuccessor` of `AnalysisRequests` with Scenes {{b1, b2, "recovery"}}.
7. `repository.py:11015`: a requirement satisfied by an older job's evidence is reopened
   when its own job fails. "Lock the newest equivalent requirement and satisfy both
   revisions" (`repository.py:9923`). `AnsweredStays` in the instance of
   `collection_safety`.
8. `repository.py:9621`: the retry budget is not carried over from a job in flight. "A new
   RCA version must not reset the retry budget/backoff" (`repository.py:9605`).
   `RetryBudgetCarried` in the instance of `collection_safety`.
9. `context-agent/app.py:867`: an unlocked check of the owner, then a write, clears the
   lease another worker has taken since. `LiveLeaseRespected` with `PausesPossible` TRUE.
10. `remediation-engine/app.py:89` and `plugins.py:971`: nothing can record the outcome
    under an expired approval, and the watchdog does not know executor_accepted, though
    "the existing watchdog expires abandoned work" (`remediation-engine/app.py:2091`).
    `TargetReleased` with Faults {expiry, stale}.
11. `remediation-engine/app.py:119`: the watchdog writes the status column and not the
    payload; a later poll writes the old status back while another incident has reserved
    the target. `TargetExclusive` with Faults {stale}.
12. `repository.py:3886`: an analysis refreshes to the snapshot collected last, its commit
    wants the one with the highest version. "Refresh to whatever snapshot is actually
    latest right now" (`resolution-agent/app.py:1716`). `RefreshedIsLatest` of
    `AnalysisRequests` in the instance of `analysis`.
13. `api-gateway/app.py:1895-1905` and the poll's deadline write a receipt they read
    before; "Delayed receipts cannot reopen terminal states"
    (`docs/architecture/rca-root-cause-fix-2026-09-13.md`). `ReceiptsDoNotReopen` names
    the gateway as its exception.
14. An incident may be closed by hand while an action executes, against
    `docs/architecture/resolution-lifecycle-v4.md:96-98`; `StabilityAwaited` claims only
    what the code keeps.
15. `stalled_investigation.py:54` says "Correlation holds the canonical incident's
    transaction lock"; a delivery that is retried takes no lock (`Retry` of
    `AlertIntake`).

## 9. What is proved

The theorems hold for every value of the constants that satisfies the named assumptions
of the module (`AttemptsAssumption`, `FaultsAssumption`, ...: bounds are positive naturals,
the sets of faults and results are those of the model, None is none of the values). Sets of
questions, events, plans, incidents or slots may be infinite. Requests, collectors and
analysts of one incident, and the consumer loops of one subscriber, are finite
(`FiniteAssumption`, `WorkersAssumption`): a process runs finitely many of them, and the
bounds on copies and snapshots count them. Each proof has the form
Init => I, I /\ [Next]_vars => I', I => P. TLC checked each I on a small instance first.

`EvidenceCollection_proofs`:

| theorem | states | needs |
|---|---|---|
| `TypesAndLeases` | `TypeOK` and `LeaseDiscipline` | - |
| `HandedOff` | `CollectedIsHandedOff` | - |
| `QueuedJobsCanRun` | `PendingHasBudget` | ~PausesPossible |
| `RunningWorkersHoldLeases` | `RunningHoldsLease` | ~PausesPossible |
| `FinishedStaysFinished` | `FinalJobsStay` | ~PausesPossible |
| `LeasesAreRespected` | `LiveLeaseRespected` | ~PausesPossible |
| `KeepsTheQueue` | `KeepsQueue`: Spec implements `WorkQueue!Spec` | ~PausesPossible |
| `TypesHold` | `TypeOK` | - |
| `OnlyHoldersAddEvidence` | `EvidenceFromHolder` | - |
| `AnswersRestOnLedger` | `AnswersCiteLedger` | - |
| `ScheduledIsWorkedOn` | `ScheduledHasWork` | - |

The inductive invariant of the five that need ~PausesPossible is `HoldersInv`. `PendingHasBudget` is not
inductive by itself: the error path writes a job by its key from what it read before, so
one needs to know that the job is still the worker's own when it writes
(`RunningHoldsLease`), and that in turn needs to know that no second worker could claim
it, which is a fact about the job's status and lease. `TablesNow` is what types and
leases rest on. What planning, repair and retirement may do to the rows is dealt with
once (`Quiet`): they leave leased rows alone, leave queued rows a budget and never
change how a finished row ended. For the refinement it matters that they do not touch who
holds what (`QuietKeepsHolder`), and that a worker which ends its turn still holds its job
(`EndKeepsQueue`, from `HoldersInv`). With pauses these five are not claimed, and
`LiveLeaseRespected` is then false (section 8).

The last four of the table hold with pauses too, when a late worker writes over rows of
another. `Cites` says of requirements what `AnswersCiteLedger` says of answers, so that a
status may change and its citations stay. `ServedNow` is `ScheduledHasWork` over all
tables that a transaction passes through: each of its writes (superseded jobs retired, a
requirement identified, a job inserted or carried over, a fallback scheduled, a repair) leaves
every current requirement its job or takes its *scheduled* away (`ServedMoves`). It needs
that the cutoff below which requirements are superseded only grows (`CutoffGrows`), and so
that a bounded non-empty set of versions has a greatest one (`BoundedHasMax`), which comes
from the well-foundedness of the naturals by way of a minimal element, without an
induction theorem.

`GovernedExecution_proofs`:

| theorem | states | needs |
|---|---|---|
| `TypesHold` | `TypeOK` | - |
| `OutcomesHold` | `OutcomesAreObserved` | - |
| `EventsHold` | `EventsAreTrue` | - |
| `NewerApprovalKeeps` | `NewerApprovalKeepsAction` | - |
| `TargetsAreExclusive` | `TargetExclusive` | no *overlap*, no *stale* |
| `SuccessIsFinal` | `SuccessStays` | no *overlap* |

The first four follow from `Truth`: what an action record claims of a build (whose it is,
how it ended) is true of the build, in the rows, in the private copies that calls carry
and in the events. That is inductive under every interleaving because builds only go
forward (`Forward`): a call may save an old copy over a newer one, but never a false one.
`TargetExclusive` alone says nothing of the calls in flight; `HoldInv` adds that a call
which may write an active status has the target reserved already (`Held`), that the
column and the payload agree (`Columns`; the watchdog breaks this, section 8) and that nobody else is working on the incident (`Alone`). For
`SuccessIsFinal`, `SuccessInv` says that a call which meets a recorded success either
announces it or is of a superseded approval and cannot save (`Kept`); that needs
`Started`, that a workflow begins only once the row is its approval's, which rules out an
activity that finds the success of an earlier approval.

`EventDelivery_proofs`:

| theorem | states | needs |
|---|---|---|
| `EventNeverLost` | `NeverLost` | - |
| `ImplementsDelivery` | Spec implements `Delivery!Steps` under the refinement mapping | - |
| `TypesHold` | `TypeOK` | finitely many workers |

for any number of events, dispatchers and workers, any bounds on retries, requeues and
copies, and every breakdown at every step. `NeverLost` says that an event without an
outcome is held by somebody; what makes it inductive (`IInv`) is what each actor knows
when it lets go (`LetGo`): a row is marked published, a dispatcher marks, a producer
believes its publication confirmed, a worker acknowledges, only when the event is already
settled or in the broker. An acknowledgement after a requeue is the delicate case: the
copy that was published carries a higher value of the header than the original, so it
is another message, and is still held by somebody. `Positions` ties each actor's place in its loop to what it
holds, `OnlyAccepted` says that nothing is on its way that was not accepted, which is
what the refinement needs to show that an event is settled only after it was accepted.
A step settles one event at most, so each step is a step of `Delivery` or a stutter. That
`Delivery`'s fairness follows from `EventDelivery`'s is left to TLC (`KeepsPromise`).

`TypesHold` is more than types: the queue never has more copies of a message than the
bound. Alone that is not inductive, since a connection that is lost gives back what
consumers hold; `Counted` adds the copies in consumers' hands to those that are ready.
Steps that move a copy between them (`CopiesMove`), publish one more (`RoomForCopies`) or
give all back (`GiveBackCounted`) keep the sum.

`AnalysisRequests_proofs`, for finite sets of requests, collectors and analysts:

| theorem | states |
|---|---|
| `VersionsAreUnique`, `CompleteHasAnswer`, `RetiredIsCovered` | `VersionsUnique`, `CompleteIsBound`, `CoalescedIsCovered` |
| `AnswersAreImmutable`, `EndsAreFinal` | `BindingsStay`, `ReceiptsDoNotReopen` |
| `VersionsHaveNoGaps` | every version up to the highest is reserved by a request, and there are no more of them than requests |
| `KeepsTheBook` | `KeepsBook`: Spec implements `AnswerBook!Spec` |
| `TypesHold` | `TypeOK` |

The invariant `IInv` says what an analyst may rely on when it writes what it decided
earlier. `Numbered`: who investigates has a reservation, reservations differ, and an answer
bears the one of its request. `Topped`: some background snapshot is the newest of all, and
it covers whatever was retired for a newer one; `CoalescedIsCovered` by itself is not inductive, because the
analysis that covers a retired one may be retired next. `Evidenced`: what is delivered or
worked on has its snapshot. For the refinement `Gapless` is added: the next version is then
one above the number of those reserved, which is what `AnswerBook` draws; this is a
bijection between the requests that have drawn and 1..n. `TypesHold` needs `Bounded`,
which counts: snapshots are one for each request that has one and one for each answer
(`Census`), and copies with those in a consumer's hand keep the broker's bound
(`Commands`, `Contexts`).

`IncidentClosure_proofs`:

| theorem | states |
|---|---|
| `TypesHold`, `ClosuresAreJustified`, `ProjectionFollows` | `TypeOK`, `ClosureJustified`, `ProjectionNotAhead` |
| `ClosureIsKept`, `LifecyclesGoForward`, `StabilityIsAwaited` | `ClosedStays`, `LifecycleForward`, `StabilityAwaited` |

`IInv` adds to the invariants that every lifecycle at hand, in the incident, in an alert
handler's copy or on an operator's desk, is one that validations can produce (`Lifecycles`),
and that a report's outcome is one of its plan (`Reports`). `StabilityAwaited` needs
`Windows`: a validator that settles a plan has overtaken every one that would still open
its window (`Overtaken`), a recorded failure makes those validators late (`FailureKnown`), and
so what an operator saw when checking is still true when closing (`CheckHolds`). The last two are
false with stale saves of alerts: the attempt to prove them without that exception is how
the exception was found.

`AlertIntake_proofs`:

| theorem | states |
|---|---|
| `TypesHold`, `OneIncidentAtATime`, `SuppressionIsEarned` | `TypeOK`, `OneOwner`, `SuppressedIsAccepted` |

`OneOwner` rests on what a handler knows when it writes: its snapshot is of generations that
exist, an ownership's onsets are in order, and an ownership that is closed has a closed
incident (`Agreed`, decisions excepted), so that whoever opens the next generation, with a
snapshot however old, does so for a reason that is still true. `Landed` ties files,
messages and requests together; `SuppressedIsAccepted` follows from it whichever of
request and watcher had the file.

## 10. What is only model-checked

Every safety invariant and action property of the passing runs is a theorem of section 9.
Liveness under fairness (`JobsSettle`, `TargetReleased`, the fairness in `KeepsPromise`,
`RequestsSettle`, `AnswersAnnounced`, `RecoveryCloses`, `FiringIsInvestigated`) and
everything about ENABLED are outside TLAPS and are checked on small instances. Five theorems of
`EvidenceCollection` need ~PausesPossible, two of `GovernedExecution` need faults to be
absent, as the tables say; where the code breaks a property otherwise, section 8 has it.
Findings are counterexamples on instances; nothing general is claimed of them.

## 11. What is not modelled

`PROJECT.json` lists every component with its reason. In short: the language-model
reasoning, connectors, scoring and rendering are data that these properties do not
distinguish; onboarding, discovery, configuration agents, notification and audit
are request-response over rows of their own; the replacement prototype under
`replacement/`, the frontend, deployment files, fault lab and samples are not the deployed
core. In the modelled parts: evidence categories a person answers, orphaned requirement
paths, concurrent planning passes, automatic rollback, runbook governance, the incident
projection beside an action, the Azure Service Bus transport, other providers' webhooks,
warnings, noise and resolved notifications, the routing of alerts by Jira candidates, and
the list of alert ids on an incident.

## 12. Plan

Each module is written so that it can be proved about (no RECURSIVE operators, one action
per operation, invariants in named parts). Done: `WorkQueue` and
`EvidenceCollection`, `GovernedExecution`, `Delivery` and `EventDelivery`, `AnswerBook` and `AnalysisRequests`,
`IncidentClosure`, `AlertIntake`, each with its proofs. Left, in this order:

1. An abstract specification of `GovernedExecution` (a lock on the target and a record of
   what was observed) beside `Delivery`, `AnswerBook` and `WorkQueue`, and a proof that the
   module implements it.
2. `IncidentLifecycle`: transitions with prerequisites, idempotency keys and locks, on
   1 incident with 2 concurrent requests; stages never out of order, a key applied once,
   every open stage reachable. `IncidentStatus`: the derivation as operators against a
   reference definition.
3. `ReconciliationLease`, `AdmissionBudget`, `CircuitBreaker`: small, with safety and
   recovery properties; the rollback part of `GovernedExecution`.
4. `CollectionScheduling` (two planners between check and insert), human answers and
   snapshots, knowledge review.
