-------------------------- MODULE EvidenceCollection --------------------------
(***************************************************************************)
(* Durable evidence collection for ONE incident: requirements raised by    *)
(* successive RCA versions, the collection jobs scheduled for them, the    *)
(* workers that lease those jobs, the reconciler and the queue maintenance *)
(* that repair them, and the evidence ledger, context snapshot and outbox  *)
(* a successful collection commits.                                        *)
(*                                                                         *)
(* One step is one database transaction, except in the worker's error and  *)
(* deadline paths, which read the job without a row lock and write it      *)
(* later: those are two steps.  Time is abstracted to two facts per job,   *)
(* whether its lease has lapsed and whether its backoff has elapsed.       *)
(* Requirements are technical ones: the categories a person answers        *)
(* (ownership, business_impact) take another path.                         *)
(*                                                                         *)
(* An operator named Fault... is a seeded bug: the definition after it as  *)
(* a plausible mistake would have it.  No action uses one.                 *)
(***************************************************************************)
EXTENDS Integers, FiniteSets, FiniteSetsExt

CONSTANTS
  Keys,            \* requirement keys: one per (category, question)
  Inapplicable,    \* the keys every RCA cancels (external synthetic probes)
  Connectors,      \* authorized collection sources
  Workers,         \* collection workers, one coroutine per process and lane
  MaxVersion,      \* bound on RCA versions
  MaxAttempts,     \* MAX_COLLECTION_ATTEMPTS
  PausesPossible,  \* can a lease lapse while its worker is still running?
  None             \* no owner, no job, no connector

ASSUME VersionAssumption == MaxVersion \in Nat \ {0}
ASSUME AttemptsAssumption == MaxAttempts \in Nat \ {0}
ASSUME PausesAssumption == PausesPossible \in BOOLEAN
ASSUME KeysAssumption == Inapplicable \subseteq Keys
ASSUME NoneAssumption == None \notin Workers \cup Connectors

VARIABLES
  incidentOpen,  \* the incident's status is not closed/resolved/cancelled
  bound,         \* latest RCA version with an investigation binding, 0 if none
  req,           \* requirement rows, by <<key, RCA version>>
  job,           \* collection job rows, by <<requirement, connector>>
  worker,        \* what each worker coroutine is doing
  ledger,        \* canonical evidence records, named by the job that found them
  snapshot,      \* accepted evidence the latest context snapshot cites
  outbox         \* context-enriched events, identified by their evidence set

vars == <<incidentOpen, bound, req, job, worker, ledger, snapshot, outbox>>

Versions == 1..MaxVersion
Reqs == Keys \X Versions
Jobs == Reqs \X Connectors

KeyOf(r) == r[1]
VersionOf(r) == r[2]
ReqOf(j) == j[1]
ConnectorOf(j) == j[2]

Pending == {"scheduled", "retry"}
Live == Pending \cup {"collecting"}
\* "superseded" is status cancelled with last_error SUPERSEDED_EVIDENCE_REQUIREMENT.
Final == {"collected", "dead_letter", "cancelled", "superseded"}
JobStatus == {"absent"} \cup Live \cup Final
ReqStatus == {"absent", "identified", "scheduled", "blocked", "collected", "cancelled"}
ReqClosed == {"collected", "cancelled"}

ReqRow == [status : ReqStatus, evidence : SUBSET Jobs]
JobRow == [status : JobStatus, attempts : 0..MaxAttempts,
           owner : Workers \cup {None}, lease : {"none", "live", "lapsed"},
           due : BOOLEAN]
WorkerRow == [pc : {"idle", "collecting", "failed", "busy"},
              job : Jobs \cup {None}, attempts : 0..MaxAttempts]

TypeOK ==
  /\ incidentOpen \in BOOLEAN
  /\ bound \in 0..MaxVersion
  /\ req \in [Reqs -> ReqRow]
  /\ job \in [Jobs -> JobRow]
  /\ worker \in [Workers -> WorkerRow]
  /\ \A w \in Workers : worker[w].pc # "idle" => worker[w].job \in Jobs
  /\ ledger \subseteq Jobs
  /\ snapshot \subseteq Jobs
  /\ outbox \subseteq SUBSET Jobs

Idle == [pc |-> "idle", job |-> None, attempts |-> 0]
NoJob == [status |-> "absent", attempts |-> 0, owner |-> None,
          lease |-> "none", due |-> TRUE]

Init ==
  /\ incidentOpen = TRUE
  /\ bound = 0
  /\ req = [r \in Reqs |-> [status |-> "absent", evidence |-> {}]]
  /\ job = [j \in Jobs |-> NoJob]
  /\ worker = [w \in Workers |-> Idle]
  /\ ledger = {}
  /\ snapshot = {}
  /\ outbox = {}

-----------------------------------------------------------------------------
(* What the transactions are built from.                                   *)

SetStatus(f, x, s) == [f EXCEPT ![x].status = s]

FaultReleasedKeepsOwner(row, s) == [row EXCEPT !.status = s, !.lease = "none"]

\* A job that leaves its worker: no owner, no lease.
Released(row, s) == [row EXCEPT !.status = s, !.owner = None, !.lease = "none"]

FaultUnleasedIgnoresLease(j) == job[j].status \in Live

\* The lease predicate shared by claim, maintenance and retirement.
Unleased(j) == job[j].status \in Pending
               \/ (job[j].status = "collecting" /\ job[j].lease # "live")

\* Work below the cutoff is obsolete: a newer binding AND its requirement set exist.
Cutoff(b, R) ==
  LET present == {VersionOf(r) : r \in {q \in Reqs : R[q].status # "absent"}}
  IN Min({b, Max(present \cup {0})})

\* retire_superseded_collection_jobs: queued work only, requirements untouched.
RetireSuperseded(J, R, b) ==
  [j \in Jobs |->
     IF J[j].status \in Pending /\ VersionOf(ReqOf(j)) < Cutoff(b, R)
     THEN Released(J[j], "superseded") ELSE J[j]]

\* Upsert of one technical requirement: only a missing row changes.
Identify(R, r) ==
  IF R[r].status = "absent" THEN SetStatus(R, r, "identified") ELSE R

\* Earlier jobs whose retry budget and backoff a new job continues.
Predecessors(J, r, c) ==
  {j \in Jobs : /\ KeyOf(ReqOf(j)) = KeyOf(r)
                /\ VersionOf(ReqOf(j)) < VersionOf(r)
                /\ ConnectorOf(j) = c
                /\ J[j].status \in {"retry", "dead_letter", "superseded"}}

\* The rows a new job may be created from: the first predecessor by attempts.
Budgets(J, r, c) ==
  LET P == Predecessors(J, r, c)
  IN IF P = {} THEN {[attempts |-> 0, due |-> TRUE]}
     ELSE {[attempts |-> J[j].attempts, due |-> J[j].due] :
             j \in {p \in P : \A q \in P : J[p].attempts >= J[q].attempts}}

FaultNewJobAlwaysQueued(h) ==
  [status |-> "scheduled", attempts |-> h.attempts, owner |-> None,
   lease |-> "none", due |-> h.due]

NewJob(h) ==
  [status |-> IF h.attempts >= MaxAttempts THEN "dead_letter" ELSE "scheduled",
   attempts |-> h.attempts, owner |-> None, lease |-> "none", due |-> h.due]

FaultScheduleAnew(J, R, r, c) ==
  \E h \in Budgets(J, r, c) :
    job' = [J EXCEPT ![<<r, c>>] = NewJob(h)] /\ req' = SetStatus(R, r, "scheduled")

\* schedule_context_enrichment_job from the tables J, R: any row for this
\* source wins; else a new one, and the requirement follows it unconditionally.
Schedule(J, R, r, c) ==
  IF J[<<r, c>>].status # "absent"
  THEN job' = J /\ req' = R
  ELSE \E h \in Budgets(J, r, c) :
         /\ job' = [J EXCEPT ![<<r, c>>] = NewJob(h)]
         /\ req' = SetStatus(R, r, IF NewJob(h).status = "dead_letter"
                                   THEN "blocked" ELSE "scheduled")

\* create_human_evidence_request, automatic fallback of a technical category:
\* no person is asked, an open requirement is blocked on its source.
BlockTechnical(R, r) ==
  IF R[r].status \in ReqClosed THEN R ELSE SetStatus(R, r, "blocked")

ScheduleOrBlock(J, R, r, c) ==
  \/ c # None /\ Schedule(J, R, r, c)
  \/ c = None /\ job' = J /\ req' = BlockTechnical(R, r)

-----------------------------------------------------------------------------
(* The resolution agent and the reconciler plan work.                      *)

\* Answers of other versions do not satisfy RCA version v; its own rows and open
\* work of any version do.
BlocksRecollection(R, k, v) ==
  \E r \in Reqs : /\ KeyOf(r) = k /\ R[r].status # "absent"
                 /\ (VersionOf(r) = v \/ R[r].status \notin ReqClosed)

CancelInapplicable(R) ==
  [r \in Reqs |-> IF KeyOf(r) \in Inapplicable
                     /\ R[r].status \notin {"absent"} \cup ReqClosed
                  THEN [R[r] EXCEPT !.status = "cancelled"] ELSE R[r]]

\* The resolution agent commits an RCA: its binding, on a final snapshot that keeps
\* its parent's evidence and any its context had from a supplied payload.
BindRca ==
  /\ bound < MaxVersion
  /\ bound' = bound + 1
  /\ \E supplied \in SUBSET ledger : snapshot' = snapshot \cup supplied
  /\ UNCHANGED <<incidentOpen, req, job, worker, ledger, outbox>>

\* A transaction of its own plans the gaps of a bound RCA: at once, at a redelivery
\* after a crash, when newer RCAs are bound, or never.  It cancels what is
\* inapplicable and gives a gap k the RCA still has its requirement and a job or a block.
PersistRca(v) ==
  /\ v <= bound
  /\ LET R0 == CancelInapplicable(req) IN
     \/ /\ req' = R0
        /\ UNCHANGED job
     \/ \E k \in Keys, c \in Connectors \cup {None} :
          LET r == <<k, v>>
              R1 == Identify(R0, r)
          IN /\ ~BlocksRecollection(R0, k, v)
             /\ ScheduleOrBlock(RetireSuperseded(job, R1, bound), R1, r, c)
  /\ UNCHANGED <<incidentOpen, bound, worker, ledger, snapshot, outbox>>

\* The context agent collects context anew (a refresh, a repeated decision): its
\* snapshot becomes the latest and cites no accepted evidence.
Recollect ==
  /\ snapshot' = {}
  /\ UNCHANGED <<incidentOpen, bound, req, job, worker, ledger, outbox>>

Covered(r) == \E j \in ledger : ReqOf(j) = r

\* reconcile_requirement_coverage_from_ledger
FromLedger ==
  [r \in Reqs |-> IF Covered(r)
                  THEN [status |-> "collected",
                        evidence |-> {j \in ledger : ReqOf(j) = r}]
                  ELSE req[r]]

JobsOf(r) == {j \in Jobs : ReqOf(j) = r /\ job[j].status # "absent"}
Active(r) == \E j \in JobsOf(r) : job[j].status \in Live \cup {"collected"}
HasDeadLetter(r) == \E j \in JobsOf(r) : job[j].status = "dead_letter"

\* An authorized source this requirement has not tried, while nothing is active.
Untried(r) ==
  IF Active(r) THEN {} ELSE {c \in Connectors : job[<<r, c>>].status = "absent"}

\* What the reconciler plans for a gap of the bound RCA: a source, or a block.
Planned(r, c) ==
  /\ ~Covered(r)
  /\ \/ /\ ~HasDeadLetter(r)
        /\ req[r].status \notin {"collected", "scheduled"}
        /\ c \in Untried(r) \/ (c = None /\ JobsOf(r) = {} /\ req[r].status # "blocked")
     \/ HasDeadLetter(r) /\ c \in Untried(r)
     \/ HasDeadLetter(r) /\ c = None /\ ~Active(r) /\ req[r].status # "collected"

Reconcile ==
  /\ incidentOpen
  /\ bound > 0
  /\ \/ req' = FromLedger /\ UNCHANGED job
     \/ \E k \in Keys, c \in Connectors \cup {None} :
          LET r == <<k, bound>>
              R1 == Identify(FromLedger, r)
          IN /\ Planned(r, c)
             /\ ScheduleOrBlock(RetireSuperseded(job, R1, bound), R1, r, c)
  /\ UNCHANGED <<incidentOpen, bound, worker, ledger, snapshot, outbox>>

-----------------------------------------------------------------------------
(* A worker leases a job, asks the connector and commits the outcome.      *)

FaultClaimableBeyondBudget(j) ==
  Unleased(j) /\ (job[j].status \in Pending => job[j].due)

Claimable(j) ==
  /\ job[j].attempts < MaxAttempts
  /\ Unleased(j)
  /\ job[j].status \in Pending => job[j].due

Claim(w, j) ==
  /\ worker[w].pc = "idle"
  /\ incidentOpen
  /\ Claimable(j)
  /\ job' = [job EXCEPT ![j] = [status |-> "collecting",
                                attempts |-> job[j].attempts + 1, owner |-> w,
                                lease |-> "live", due |-> job[j].due]]
  /\ worker' = [worker EXCEPT ![w] = [pc |-> "collecting", job |-> j, attempts |-> 0]]
  /\ UNCHANGED <<incidentOpen, bound, req, ledger, snapshot, outbox>>

FaultOwnsAnyLease(w, j) == job[j].status = "collecting"

Owns(w, j) == job[j].status = "collecting" /\ job[j].owner = w

FaultEarliestEquivalent(r) ==
  LET same == {q \in Reqs : KeyOf(q) = KeyOf(r) /\ req[q].status # "absent"}
  IN <<KeyOf(r), Min({VersionOf(q) : q \in same \cup {r}})>>

\* The newest requirement for the same question.
LatestEquivalent(r) ==
  LET same == {q \in Reqs : KeyOf(q) = KeyOf(r) /\ req[q].status # "absent"}
  IN <<KeyOf(r), Max({VersionOf(q) : q \in same \cup {r}})>>

FaultHandOffOldSnapshot(j) ==
  /\ ledger' = ledger \cup {j}
  /\ snapshot' = snapshot \cup {j}
  /\ outbox' = outbox \cup {snapshot}

\* The record, a snapshot that adds it to the latest one's evidence, and the event
\* announcing that.  Snapshot and event are named by the evidence list: if the list was
\* handed off before (in this order, which the sets here do not say), neither is new.
HandOff(j) ==
  LET enriched == snapshot \cup {j} IN
  /\ ledger' = ledger \cup {j}
  /\ snapshot' = enriched \/ (enriched \in outbox /\ UNCHANGED snapshot)
  /\ outbox' = outbox \cup {enriched}

\* persist_enrichment_result_atomically with accepted records.
Accept(w) ==
  LET j == worker[w].job
      r == ReqOf(j)
      e == LatestEquivalent(r)
  IN /\ worker[w].pc = "collecting"
     /\ Owns(w, j)
     /\ HandOff(j)
     /\ req' = [req EXCEPT
                  ![e] = [status |-> "collected", evidence |-> @.evidence \cup {j}],
                  ![r] = [status |-> "collected", evidence |-> {j}]]
     /\ job' = [job EXCEPT ![j] = Released(@, "collected")]
     /\ worker' = [worker EXCEPT ![w] = Idle]
     /\ UNCHANGED <<incidentOpen, bound>>

\* finish_context_enrichment_job, not collected, with a attempts on the row it
\* read and at most limit allowed.
FinishJob(J, j, a, limit) ==
  IF a < limit
  THEN [J EXCEPT ![j] = [Released(@, "retry") EXCEPT !.due = FALSE]]
  ELSE [J EXCEPT ![j] = Released(@, "dead_letter")]

FaultFinishReqStaysScheduled(R, j, a, limit) == SetStatus(R, ReqOf(j), "scheduled")

FinishReq(R, j, a, limit) ==
  SetStatus(R, ReqOf(j), IF a < limit THEN "scheduled" ELSE "blocked")

\* No record was accepted: the job row is locked, so this is one transaction.
\* A dead letter falls back to the next source the requirement lists, if any.
Reject(w) ==
  LET j == worker[w].job IN
  /\ worker[w].pc = "collecting"
  /\ Owns(w, j)
  /\ \E limit \in {1, MaxAttempts} :
       LET a == job[j].attempts
           J1 == FinishJob(job, j, a, limit)
           R1 == FinishReq(req, j, a, limit)
       IN IF a < limit THEN job' = J1 /\ req' = R1
          ELSE \E c \in (Connectors \ {ConnectorOf(j)}) \cup {None} :
                 ScheduleOrBlock(J1, R1, ReqOf(j), c)
  /\ worker' = [worker EXCEPT ![w] = Idle]
  /\ UNCHANGED <<incidentOpen, bound, ledger, snapshot, outbox>>

\* The lease was lost: persisting raises, and the error path finds nothing to do.
LostLease(w) ==
  /\ worker[w].pc = "collecting"
  /\ ~Owns(w, worker[w].job)
  /\ worker' = [worker EXCEPT ![w] = Idle]
  /\ UNCHANGED <<incidentOpen, bound, req, job, ledger, snapshot, outbox>>

\* Connector error or deadline ("failed"), or database contention ("busy"):
\* the error path reads the row and finds itself the owner...
ErrorRead(w) ==
  LET j == worker[w].job IN
  /\ worker[w].pc = "collecting"
  /\ Owns(w, j)
  /\ \E kind \in {"failed", "busy"} :
       worker' = [worker EXCEPT ![w] = [pc |-> kind, job |-> j,
                                        attempts |-> job[j].attempts]]
  /\ UNCHANGED <<incidentOpen, bound, req, job, ledger, snapshot, outbox>>

\* ...and later writes its decision over whatever the row is by then.
ErrorWrite(w) ==
  LET j == worker[w].job
      a == worker[w].attempts
  IN /\ worker[w].pc = "failed"
     /\ job' = FinishJob(job, j, a, MaxAttempts)
     /\ req' = FinishReq(req, j, a, MaxAttempts)
     /\ worker' = [worker EXCEPT ![w] = Idle]
     /\ UNCHANGED <<incidentOpen, bound, ledger, snapshot, outbox>>

\* Contention is not a failed source: the attempt is given back.
BusyWrite(w) ==
  LET j == worker[w].job
      a == worker[w].attempts
  IN /\ worker[w].pc = "busy"
     /\ job' = [job EXCEPT ![j] = [Released(@, "retry") EXCEPT
                                     !.due = FALSE,
                                     !.attempts = IF a = 0 THEN 0 ELSE a - 1]]
     /\ worker' = [worker EXCEPT ![w] = Idle]
     /\ UNCHANGED <<incidentOpen, bound, req, ledger, snapshot, outbox>>

\* The process dies, or the handler deadline cancels the coroutine.
Crash(w) ==
  /\ worker[w].pc # "idle"
  /\ worker' = [worker EXCEPT ![w] = Idle]
  /\ UNCHANGED <<incidentOpen, bound, req, job, ledger, snapshot, outbox>>

-----------------------------------------------------------------------------
(* Time, closure and repair.                                               *)

Running(w, j) == worker[w].pc # "idle" /\ worker[w].job = j

\* Without pauses the 90 s collection deadline ends before the 120 s lease.
LeaseLapses(j) ==
  /\ job[j].lease = "live"
  /\ PausesPossible \/ ~Running(job[j].owner, j)
  /\ job' = [job EXCEPT ![j].lease = "lapsed"]
  /\ UNCHANGED <<incidentOpen, bound, req, worker, ledger, snapshot, outbox>>

BackoffElapses(j) ==
  /\ ~job[j].due
  /\ job' = [job EXCEPT ![j].due = TRUE]
  /\ UNCHANGED <<incidentOpen, bound, req, worker, ledger, snapshot, outbox>>

CloseIncident ==
  /\ incidentOpen
  /\ incidentOpen' = FALSE
  /\ UNCHANGED <<bound, req, job, worker, ledger, snapshot, outbox>>

FaultExhaustedLate(row) == row.attempts > MaxAttempts
Exhausted(row) == row.attempts >= MaxAttempts

\* maintain_incident_jobs, one row: the first reason that applies.
MaintainJob(j) ==
  LET row == job[j]
      r == ReqOf(j)
  IN IF ~Unleased(j) THEN row
     ELSE IF ~incidentOpen \/ req[r].status \in ReqClosed THEN Released(row, "cancelled")
     ELSE IF VersionOf(r) < Cutoff(bound, req) THEN Released(row, "superseded")
     ELSE IF Exhausted(row) THEN Released(row, "dead_letter")
     ELSE IF row.status = "collecting" THEN [Released(row, "retry") EXCEPT !.due = TRUE]
     ELSE row

Maintain ==
  /\ job' = [j \in Jobs |-> MaintainJob(j)]
  /\ req' = [r \in Reqs |->
               IF \E j \in Jobs : /\ ReqOf(j) = r
                                  /\ job[j].status \in Live
                                  /\ job'[j].status = "dead_letter"
               THEN [req[r] EXCEPT !.status = "blocked"] ELSE req[r]]
  /\ job' # job
  /\ UNCHANGED <<incidentOpen, bound, worker, ledger, snapshot, outbox>>

\* retire_closed_incident_collection_jobs
RetireClosed ==
  LET retired == {j \in Jobs : Unleased(j)} IN
  /\ ~incidentOpen
  /\ retired # {}
  /\ job' = [j \in Jobs |-> IF j \in retired THEN Released(job[j], "cancelled")
                            ELSE job[j]]
  /\ req' = [r \in Reqs |->
               IF /\ \E j \in retired : ReqOf(j) = r
                  /\ ~\E j \in Jobs \ retired : ReqOf(j) = r /\ job[j].status \in Live
                  /\ req[r].status \in {"identified", "scheduled", "blocked"}
               THEN [req[r] EXCEPT !.status = "cancelled"] ELSE req[r]]
  /\ UNCHANGED <<incidentOpen, bound, worker, ledger, snapshot, outbox>>

-----------------------------------------------------------------------------
WorkerStep(w) ==
  \/ \E j \in Jobs : Claim(w, j)
  \/ Accept(w)
  \/ Reject(w)
  \/ LostLease(w)
  \/ ErrorRead(w)
  \/ ErrorWrite(w)
  \/ BusyWrite(w)

Next ==
  \/ BindRca
  \/ \E v \in Versions : PersistRca(v)
  \/ Recollect
  \/ Reconcile
  \/ \E w \in Workers : WorkerStep(w) \/ Crash(w)
  \/ \E j \in Jobs : LeaseLapses(j) \/ BackoffElapses(j)
  \/ CloseIncident
  \/ Maintain
  \/ RetireClosed

Spec == Init /\ [][Next]_vars
-----------------------------------------------------------------------------
(* Safety.                                                                 *)

\* A job row is leased exactly while it is collecting, and then it has an owner
\* (claim, persist, finish, retirement and maintenance clear all three columns).
LeaseDiscipline ==
  \A j \in Jobs :
    /\ job[j].status = "collecting" <=> job[j].owner # None
    /\ job[j].status = "collecting" <=> job[j].lease # "none"

\* No job is left queued with its retry budget spent: claim filters on
\* attempt_count, so such a job would never run again and never dead-letter.
PendingHasBudget ==
  \A j \in Jobs : job[j].status \in Pending => job[j].attempts < MaxAttempts

\* Without pauses a worker that is still running, even between the two halves
\* of its error path, holds the live lease of its job and has read it right.
RunningHoldsLease ==
  PausesPossible \/
  \A w \in Workers : worker[w].pc # "idle" =>
    /\ worker[w].job \in Jobs
    /\ Owns(w, worker[w].job)
    /\ job[worker[w].job].lease = "live"
    /\ worker[w].pc # "collecting" => worker[w].attempts = job[worker[w].job].attempts

\* What was collected was handed to RCA, and nothing else was: a collected job's
\* evidence is in the ledger, the ledger holds what the announced snapshots cite and
\* no more, and the latest snapshot, which a new collection or RCA may have replaced
\* since, cites nothing that is not in it.
CollectedIsHandedOff ==
  /\ \A j \in Jobs : job[j].status = "collected" => j \in ledger
  /\ UNION outbox = ledger
  /\ snapshot \subseteq ledger

\* q asks what r asks, in r's revision or one before it.
Precedes(q, r) == KeyOf(q) = KeyOf(r) /\ VersionOf(q) <= VersionOf(r)

\* A requirement marked collected rests on evidence in the ledger that was collected for
\* its own question, by its own revision or an older one: an answer satisfies the newest
\* revision too, but never another question and never a revision before its own.
AnswersCiteLedger ==
  \A r \in Reqs : req[r].status = "collected" =>
    /\ req[r].evidence # {}
    /\ req[r].evidence \subseteq ledger
    /\ \A j \in req[r].evidence : Precedes(ReqOf(j), r)

\* A current requirement shown as scheduled has a job still working for it: the
\* reconciler skips scheduled requirements, so without one the gap is orphaned.
ScheduledHasWork ==
  \A r \in Reqs :
    (/\ incidentOpen
     /\ req[r].status = "scheduled"
     /\ VersionOf(r) >= Cutoff(bound, req))
    => \E j \in Jobs : ReqOf(j) = r /\ job[j].status \in Live

-----------------------------------------------------------------------------
(* What a step may never do.                                               *)

\* Finished work stays finished: a collected, cancelled or dead-lettered job is
\* never put back in the queue by a late worker, the scheduler or maintenance.
FinalJobsStay ==
  [][\A j \in Jobs : job[j].status \in Final => job'[j].status = job[j].status]_vars

\* Evidence enters the ledger only from the worker that holds the job's current
\* claim, which was committed before: late results of a lost claim are refused.
EvidenceFromHolder ==
  [][\A j \in ledger' \ ledger : \E w \in Workers :
        /\ Running(w, j) /\ job[j].owner = w
        /\ job[j].status = "collecting" /\ job[j].lease # "none"]_vars

\* A live lease ends only by its holder's own step or by lapsing: claims,
\* retirement, maintenance and other workers' late writes leave it alone.
LiveLeaseRespected ==
  [][\A j \in Jobs : \A w \in Workers :
        (job[j].lease = "live" /\ job[j].owner = w /\ job'[j].owner # w)
        => Running(w, j) /\ worker'[w] = Idle]_vars

\* A collected requirement is not reopened: later failures of other jobs for
\* the same question leave the answer alone.
AnsweredStays ==
  [][\A r \in Reqs : req[r].status = "collected" => req'[r].status = "collected"]_vars

\* A new RCA version never resets the retry budget of the same question and
\* source: its job starts with at least the attempts any unfinished or failed
\* older job has spent.
RetryBudgetCarried ==
  [][\A j, old \in Jobs :
        (/\ job[j].status = "absent" /\ job'[j].status # "absent"
         /\ KeyOf(ReqOf(old)) = KeyOf(ReqOf(j)) /\ ConnectorOf(old) = ConnectorOf(j)
         /\ VersionOf(ReqOf(old)) < VersionOf(ReqOf(j))
         /\ job[old].status \in Live \cup {"dead_letter", "superseded"})
        => job'[j].attempts >= job[old].attempts]_vars

\* Without pauses, leases and statuses implement WorkQueue: one holder at a time, whose
\* decision nobody else takes or undoes, and evidence exactly of what a holder delivered.
Outcome == [j \in Jobs |-> IF job[j].status \in Final THEN job[j].status ELSE "open"]
Holder == [j \in Jobs |-> IF job[j].lease = "live" THEN job[j].owner ELSE None]
Queue == INSTANCE WorkQueue
           WITH Outcomes <- Final, outcome <- Outcome, holder <- Holder, kept <- ledger
KeepsQueue == Queue!Spec

-----------------------------------------------------------------------------
(* Liveness.                                                               *)

\* Worker loops, the reconciliation loop and time never stop for good; database
\* contention does (otherwise a job returns its attempt for ever).  No fairness
\* on planning, closing or crashing.
Fairness ==
  /\ \A w \in Workers : WF_vars(WorkerStep(w))
  /\ \A j \in Jobs : WF_vars(LeaseLapses(j)) /\ WF_vars(BackoffElapses(j))
  /\ WF_vars(Maintain)
  /\ WF_vars(RetireClosed)
  /\ <>[][\A w \in Workers : ~BusyWrite(w)]_vars

FairSpec == Spec /\ Fairness

\* Every scheduled job ends: collected, dead-lettered or cancelled, whatever
\* workers crash, leases lapse or RCA versions supersede it on the way.
JobsSettle ==
  \A j \in Jobs : job[j].status \in Live ~> job[j].status \in Final
=============================================================================
