--------------------------- MODULE GovernedExecution ---------------------------
(***************************************************************************)
(* Executing approved remediations on ONE target: the action row each      *)
(* incident keeps (its plan has one idempotency key), the remediation      *)
(* engine's calls that reserve the target, submit a Jenkins build, observe *)
(* it and record what became of it, the Temporal workflow that makes those *)
(* calls and retries them, the operator's emergency stop and the watchdog. *)
(*                                                                         *)
(* A call is a request in flight in the remediation engine.  Each step of  *)
(* it is one database transaction or one request to Jenkins or Temporal,   *)
(* and it carries a private copy of the action between its steps.  Plans   *)
(* here do not authorize automatic rollback, and the incident projection   *)
(* kept beside the action row is left out.                                 *)
(*                                                                         *)
(* An operator named Fault... is a seeded bug: the definition after it as  *)
(* a plausible mistake would have it.  No action uses one.                 *)
(***************************************************************************)
EXTENDS Integers, FiniteSets

CONSTANTS
  Incidents,     \* incidents whose plans act on the same target
  Slots,         \* calls the engine serves at once
  MaxApprovals,  \* bound on the approvals of one incident
  MaxBuilds,     \* bound on the builds submitted under one approval
  MaxTries,      \* activity attempts (3 in the workflow)
  Results,       \* how a build may end
  Faults,        \* what may go wrong: see FaultsAssumption
  None           \* no build

ASSUME ApprovalsAssumption == MaxApprovals \in Nat \ {0}
ASSUME BuildsAssumption == MaxBuilds \in Nat \ {0}
ASSUME TriesAssumption == MaxTries \in Nat \ {0}
ASSUME ResultsAssumption == Results \subseteq {"passed", "unproved", "broke"}
\* crash: the engine dies; unreachable: Jenkins or Temporal fails a request;
\* expiry: an approval expires; overlap: two calls about one incident are in flight
\* together; stale: an action row stays unchanged for the watchdog's timeout.
ASSUME FaultsAssumption ==
  Faults \subseteq {"crash", "unreachable", "expiry", "overlap", "stale"}

VARIABLES
  approval,  \* persisted approvals, by <<incident, n>>; a higher n is newer
  row,       \* the action row of each incident
  build,     \* Jenkins builds, by <<approval, k>>
  workflow,  \* the remediation workflow of each approval
  call,      \* calls in flight, by slot
  outbox     \* remediation events enqueued for the broker

vars == <<approval, row, build, workflow, call, outbox>>

Approvals == Incidents \X (1..MaxApprovals)
Builds == Approvals \X (1..MaxBuilds)
IncidentOf(a) == a[1]
NumberOf(a) == a[2]
ApprovalOf(b) == b[1]

\* ACTIVE_EXECUTION_STATUSES, those written on this path.
Active == {"pending", "dispatching", "executor_accepted", "running"}
FaultExpirable == {"pending", "running"}
\* What the watchdog may expire: executor_accepted is not in its list.
Expirable == {"pending", "dispatching", "running"}
Failed == {"failed", "policy_blocked", "execution_failed", "dispatch_failed",
           "validation_failed", "timed_out"}
Terminal == Failed \cup {"succeeded", "cancelled"}
Status == Active \cup Terminal

\* ready: the resolution lifecycle the action carries was READY_TO_EXECUTE, not yet
\* EXECUTING, when the action was built.
Action == [app : 0..MaxApprovals, status : Status, receipt : Builds \cup {None},
           ready : BOOLEAN]
\* A call's action is fresh as long as no row has its id.
\* col is the indexed status column; action is the payload the engine reads back.
Row == [col : {"absent"} \cup Status, action : Action]
BuildState == {"absent", "queued", "running", "passed", "unproved", "broke", "cancelled"}
Finished == {"passed", "unproved", "broke", "cancelled"}
Kinds == {"execute", "dispatch", "poll", "timeout", "refuse", "giveup", "stop"}
Call == [kind : Kinds \cup {"idle"}, app : Approvals \cup {None},
         pc : {"read", "reserve", "start", "submit", "observe", "halt",
               "persist", "finalize", "announce"},
         action : Action, fresh : BOOLEAN, awaited : BOOLEAN]
\* Before it ends a workflow is named after the activity it is at.
Steps == {"dispatch", "refuse", "giveup", "poll", "timeout"}
Workflow == [pc : {"none", "done", "failed"} \cup Steps,
             tries : 0..MaxTries, waiting : BOOLEAN]
Event == [incident : Incidents, status : Terminal, app : 1..MaxApprovals,
          receipt : Builds \cup {None}]

TypeOK ==
  /\ approval \in [Approvals -> {"none", "valid", "expired"}]
  /\ row \in [Incidents -> Row]
  /\ build \in [Builds -> BuildState]
  /\ workflow \in [Approvals -> Workflow]
  /\ call \in [Slots -> Call]
  /\ \A s \in Slots : call[s].kind # "idle" => call[s].app \in Approvals
  /\ outbox \subseteq Event

NoAction == [app |-> 0, status |-> "pending", receipt |-> None, ready |-> TRUE]
Idle == [kind |-> "idle", app |-> None, pc |-> "read", action |-> NoAction,
         fresh |-> FALSE, awaited |-> FALSE]

Init ==
  /\ approval = [a \in Approvals |-> "none"]
  /\ row = [i \in Incidents |-> [col |-> "absent", action |-> NoAction]]
  /\ build = [b \in Builds |-> "absent"]
  /\ workflow = [a \in Approvals |-> [pc |-> "none", tries |-> 0, waiting |-> FALSE]]
  /\ call = [s \in Slots |-> Idle]
  /\ outbox = {}

-----------------------------------------------------------------------------
(* What the calls are built from.                                          *)

Exists(i) == row[i].col # "absent"
InFlight(i) == \E s \in Slots : call[s].kind # "idle" /\ IncidentOf(call[s].app) = i
\* A call may begin: a free slot, and nothing else about the incident when
\* calls do not overlap.
MayCall(s, i) == call[s].kind = "idle" /\ ("overlap" \in Faults \/ ~InFlight(i))

Begin(s, kind, a, pc, action, awaited) ==
  call' = [call EXCEPT ![s] = [kind |-> kind, app |-> a, pc |-> pc, action |-> action,
                               fresh |-> ~Exists(IncidentOf(a)), awaited |-> awaited]]

FaultNewAction(a, status) ==
  [app |-> NumberOf(a), status |-> status, ready |-> status # "dispatching",
   receipt |-> IF Exists(IncidentOf(a)) THEN row[IncidentOf(a)].action.receipt ELSE None]
\* build_action: a new attempt, without a receipt.  Only dispatch-direct moves its
\* lifecycle on to EXECUTING.
NewAction(a, status) == [app |-> NumberOf(a), status |-> status, receipt |-> None,
                         ready |-> status # "dispatching"]

\* _advance_action_lifecycle cannot record once more a failure first recorded before
\* anything was dispatched: BLOCKED_RETRYABLE does not go to FAILED_RETRYABLE.
Unrepeatable(action) ==
  /\ action.ready /\ action.receipt = None
  /\ action.status \in {"failed", "dispatch_failed", "timed_out", "execution_failed"}

FaultTargetBusy(i) ==
  \E k \in Incidents \ {i} : row[k].col \in {"pending", "dispatching", "running"}
\* Another incident's action is active on the target, by the status column.
TargetBusy(i) == \E k \in Incidents \ {i} : row[k].col \in Active

FaultSavable(c) == ~(c.fresh /\ Exists(IncidentOf(c.app)))
\* save_action under the row lock: a new row must not collide with the unique
\* idempotency key, an old one must not go back to an earlier approval.
Savable(c) ==
  LET i == IncidentOf(c.app)
  IN IF Exists(i) THEN ~c.fresh /\ c.action.app >= row[i].action.app ELSE TRUE

Saved(c) == [row EXCEPT ![IncidentOf(c.app)] =
               [col |-> c.action.status, action |-> c.action]]

FaultRetried(w, again) ==
  IF w.tries <= MaxTries
  THEN [pc |-> again, tries |-> w.tries + 1, waiting |-> FALSE]
  ELSE [pc |-> "failed", tries |-> 0, waiting |-> FALSE]
\* One more attempt of the same activity, or the workflow fails.
Retried(w, again) ==
  IF w.tries + 1 < MaxTries
  THEN [pc |-> again, tries |-> w.tries + 1, waiting |-> FALSE]
  ELSE [pc |-> "failed", tries |-> 0, waiting |-> FALSE]

\* The dispatch activity also reports its refusals: one activity, one retry.
Again(w) == IF w.pc \in {"refuse", "giveup"} THEN "dispatch" ELSE w.pc

\* How a workflow goes on from what its activity got back: a status, "refused"
\* (an HTTP 4xx), "error" (an HTTP 5xx) or "lost" (no answer).
Answered(w, answer) ==
  CASE answer \in Terminal -> [pc |-> "done", tries |-> 0, waiting |-> FALSE]
    [] answer \in Active -> [pc |-> "poll", tries |-> 0, waiting |-> FALSE]
    [] w.pc = "dispatch" /\ answer = "refused" -> [w EXCEPT !.pc = "refuse", !.waiting = FALSE]
    [] w.pc = "dispatch" /\ answer = "error" /\ w.tries + 1 >= MaxTries ->
         [w EXCEPT !.pc = "giveup", !.waiting = FALSE]
    [] OTHER -> Retried(w, Again(w))

\* A call ends; the workflow hears of it if it still waits for this call.
Return(s, answer) ==
  /\ call' = [call EXCEPT ![s] = Idle]
  /\ workflow' = IF call[s].awaited
                 THEN [workflow EXCEPT ![call[s].app] = Answered(@, answer)]
                 ELSE workflow

Goto(s, pc) == call' = [call EXCEPT ![s].pc = pc]
\* Once saved, the row has the id the call carries on with.
SavedGoto(s, pc) == call' = [call EXCEPT ![s].pc = pc, ![s].fresh = FALSE]
Carry(s, pc, status) ==
  call' = [call EXCEPT ![s].pc = pc, ![s].action.status = status]
At(s, pc) == call[s].kind # "idle" /\ call[s].pc = pc

-----------------------------------------------------------------------------
(* People: approvals, and POST /execute.                                   *)

\* A person approves the incident's plan: a new approval, newer than the others.
Approve(i) ==
  /\ \E n \in 1..MaxApprovals :
       /\ approval[<<i, n>>] = "none"
       /\ \A m \in 1..(n - 1) : approval[<<i, m>>] # "none"
       /\ approval' = [approval EXCEPT ![<<i, n>>] = "valid"]
  /\ UNCHANGED <<row, build, workflow, call, outbox>>

\* An approval expires with its plan, fifteen minutes after it was compiled.
Expire(a) ==
  /\ "expiry" \in Faults
  /\ approval[a] = "valid"
  /\ approval' = [approval EXCEPT ![a] = "expired"]
  /\ UNCHANGED <<row, build, workflow, call, outbox>>

FaultSettled(a) ==
  LET old == row[IncidentOf(a)].action
  IN /\ Exists(IncidentOf(a))
     /\ old.app = NumberOf(a) /\ old.status \in Failed \cup Active
\* The row already tells what became of this approval, or of the incident.
Settled(a) ==
  LET old == row[IncidentOf(a)].action
  IN Exists(IncidentOf(a)) /\ (old.status = "succeeded"
       \/ (old.app = NumberOf(a) /\ old.status \in Failed \cup Active))

\* POST /execute for an approval that has not run: reads the row, goes on to reserve.
Execute(s, a) ==
  /\ approval[a] = "valid"
  /\ ~Settled(a)
  /\ MayCall(s, IncidentOf(a))
  /\ Begin(s, "execute", a, "reserve", NewAction(a, "pending"), FALSE)
  /\ UNCHANGED <<approval, row, build, workflow, outbox>>

\* The check and the save of _reserve_target_execution, under the target's lock.
Reserve(s) ==
  /\ At(s, "reserve")
  /\ ~TargetBusy(IncidentOf(call[s].app))
  /\ Savable(call[s])
  /\ row' = Saved(call[s])
  /\ SavedGoto(s, IF call[s].kind = "execute" THEN "start" ELSE "submit")
  /\ UNCHANGED <<approval, build, workflow, outbox>>

\* The target is busy (409), or the action cannot be saved (500).
ReserveFails(s) ==
  /\ At(s, "reserve")
  /\ \/ TargetBusy(IncidentOf(call[s].app)) /\ Return(s, "refused")
     \/ /\ ~TargetBusy(IncidentOf(call[s].app))
        /\ ~Savable(call[s])
        /\ Return(s, "error")
  /\ UNCHANGED <<approval, row, build, outbox>>

\* A workflow id can be used again only when its last run did not complete.
Startable(a) == workflow[a].pc \in {"none", "failed"}

Launched(a) ==
  IF Startable(a)
  THEN [workflow EXCEPT ![a] = [pc |-> "dispatch", tries |-> 0, waiting |-> FALSE]]
  ELSE workflow

\* start_workflow is acknowledged, or the workflow was already started.
Start(s) ==
  /\ At(s, "start")
  /\ workflow' = Launched(call[s].app)
  /\ Carry(s, "persist", "dispatching")
  /\ UNCHANGED <<approval, row, build, outbox>>

\* Temporal does not answer, having started the workflow or not: the action stays
\* pending, marked submission_failed.
StartFails(s) ==
  /\ "unreachable" \in Faults
  /\ At(s, "start")
  /\ workflow' = Launched(call[s].app) \/ workflow' = workflow
  /\ Goto(s, "persist")
  /\ UNCHANGED <<approval, row, build, outbox>>

\* The last write of a call, and its answer.
Persist(s) ==
  /\ At(s, "persist")
  /\ IF Savable(call[s])
     THEN row' = Saved(call[s]) /\ Return(s, call[s].action.status)
     ELSE row' = row /\ Return(s, "error")
  /\ UNCHANGED <<approval, build, outbox>>

-----------------------------------------------------------------------------
(* The workflow's activities and the engine's calls for them.              *)

Ready(a) == workflow[a].pc \in Steps /\ ~workflow[a].waiting
Await(a) == workflow' = [workflow EXCEPT ![a].waiting = TRUE]
Answer(a, answer) == workflow' = [workflow EXCEPT ![a] = Answered(@, answer)]

\* dispatch-direct knows this execution: its build was accepted, and it is this
\* approval's or still active.
Known(a) ==
  LET old == row[IncidentOf(a)].action
  IN Exists(IncidentOf(a)) /\ old.receipt # None
     /\ (old.app = NumberOf(a) \/ old.status \in Active)

\* dispatch-direct answered from what is persisted: no approval (409), or a known build.
DispatchAnswered(s, a) ==
  /\ Ready(a) /\ workflow[a].pc = "dispatch" /\ MayCall(s, IncidentOf(a))
  /\ \/ approval[a] # "valid" /\ Answer(a, "refused")
     \/ /\ approval[a] = "valid"
        /\ Known(a)
        /\ Answer(a, row[IncidentOf(a)].action.status)
  /\ UNCHANGED <<approval, row, build, call, outbox>>

\* dispatch-direct for a new attempt: reserve, submit, persist.
Dispatch(s, a) ==
  /\ Ready(a) /\ workflow[a].pc = "dispatch" /\ MayCall(s, IncidentOf(a))
  /\ approval[a] = "valid"
  /\ ~Known(a)
  /\ Begin(s, "dispatch", a, "reserve", NewAction(a, "dispatching"), TRUE)
  /\ Await(a)
  /\ UNCHANGED <<approval, row, build, outbox>>

\* Jenkins queues a build; its location may not reach the engine, and the request
\* may be refused, by Jenkins or by the connector's list of operations.
Submit(s) ==
  /\ At(s, "submit")
  /\ \/ \E b \in Builds :
          /\ ApprovalOf(b) = call[s].app
          /\ build[b] = "absent"
          /\ build' = [build EXCEPT ![b] = "queued"]
          /\ \/ /\ call' = [call EXCEPT ![s].pc = "persist",
                              ![s].action.status = "executor_accepted",
                              ![s].action.receipt = b]
                /\ UNCHANGED workflow
             \/ "unreachable" \in Faults /\ Return(s, "error")
     \/ "unreachable" \in Faults /\ build' = build /\ Return(s, "error")
     \/ /\ \E status \in {"dispatch_failed", "policy_blocked"} : Carry(s, "persist", status)
        /\ UNCHANGED <<build, workflow>>
  /\ UNCHANGED <<approval, row, outbox>>

\* How reconcile, timeout and execution-failed find the action: every one of them
\* first rebuilds it from the approval, which fails (500) once that has expired.
Found(a) ==
  /\ approval[a] = "valid"
  /\ Exists(IncidentOf(a))
  /\ row[IncidentOf(a)].action.app = NumberOf(a)

\* The action cannot be worked on: the approval has expired (500), the lifecycle
\* cannot take the recorded failure again (500), or there is no row or another
\* approval's (404, 409).
AskInVain(s, a) ==
  /\ Ready(a) /\ workflow[a].pc # "dispatch" /\ MayCall(s, IncidentOf(a))
  /\ \/ approval[a] # "valid" /\ Answer(a, "error")
     \/ Found(a) /\ Unrepeatable(row[IncidentOf(a)].action) /\ Answer(a, "error")
     \/ /\ approval[a] = "valid" /\ ~Found(a)
        /\ Exists(IncidentOf(a)) \/ workflow[a].pc \in {"poll", "timeout"}
        /\ Answer(a, "refused")
  /\ UNCHANGED <<approval, row, build, call, outbox>>

Reason == [refuse |-> "policy_blocked", giveup |-> "failed"]

\* execution-failed with nothing accepted: the failure itself is the outcome.
ReportFailure(s, a) ==
  /\ Ready(a) /\ workflow[a].pc \in {"refuse", "giveup"} /\ MayCall(s, IncidentOf(a))
  /\ approval[a] = "valid"
  /\ LET failure == Reason[workflow[a].pc]
         old == row[IncidentOf(a)].action
     IN \/ /\ ~Exists(IncidentOf(a))
           /\ Begin(s, workflow[a].pc, a, "finalize", NewAction(a, failure), TRUE)
        \/ /\ Found(a) /\ old.status \in Active /\ old.receipt = None
           /\ Begin(s, workflow[a].pc, a, "finalize", [old EXCEPT !.status = failure], TRUE)
  /\ Await(a)
  /\ UNCHANGED <<approval, row, build, outbox>>

\* reconcile-direct or timeout-direct, and execution-failed once a build was
\* accepted: a terminal action is only announced, an active one is observed.
Ask(s, a) ==
  /\ Ready(a) /\ workflow[a].pc # "dispatch" /\ MayCall(s, IncidentOf(a))
  /\ Found(a)
  /\ LET old == row[IncidentOf(a)].action
     IN /\ ~Unrepeatable(old)
        /\ old.status \in Terminal \/ old.receipt # None \/ workflow[a].pc \in {"poll", "timeout"}
        /\ Begin(s, workflow[a].pc, a,
                 IF old.status \in Terminal THEN "finalize" ELSE "observe", old, TRUE)
  /\ Await(a)
  /\ UNCHANGED <<approval, row, build, outbox>>

FaultSeen == [absent |-> "dispatch_failed", queued |-> "executor_accepted",
              running |-> "running", passed |-> "succeeded",
              unproved |-> "succeeded", broke |-> "execution_failed",
              cancelled |-> "execution_failed"]
\* What one look at Jenkins says of a build.
Seen == [absent |-> "dispatch_failed", queued |-> "executor_accepted",
         running |-> "running", passed |-> "succeeded",
         unproved |-> "validation_failed", broke |-> "execution_failed",
         cancelled |-> "cancelled"]

Observed(action) ==
  IF action.receipt = None THEN "dispatch_failed" ELSE Seen[build[action.receipt]]

\* One observation.  At the deadline an execution that is still active has timed out.
Observe(s) ==
  /\ At(s, "observe")
  /\ \/ "unreachable" \in Faults /\ Return(s, "error")
     \/ LET seen == Observed(call[s].action)
            status == IF call[s].kind = "timeout" /\ seen \in Active
                      THEN "timed_out" ELSE seen
        IN /\ Carry(s, IF status \in Terminal THEN "finalize" ELSE "persist", status)
           /\ UNCHANGED workflow
  /\ UNCHANGED <<approval, row, build, outbox>>

\* _finalize_api_execution saves a terminal action first ...
Finalize(s) ==
  /\ At(s, "finalize")
  /\ IF Savable(call[s])
     THEN row' = Saved(call[s]) /\ SavedGoto(s, "announce") /\ UNCHANGED workflow
     ELSE row' = row /\ Return(s, "error")
  /\ UNCHANGED <<approval, build, outbox>>

\* The event's id is the action's id and status: a second one is dropped.
Enqueued(c) ==
  LET i == IncidentOf(c.app)
  IN IF \E e \in outbox : e.incident = i /\ e.status = c.action.status THEN outbox
     ELSE outbox \cup {[incident |-> i, status |-> c.action.status,
                         app |-> c.action.app, receipt |-> c.action.receipt]}

\* ... and then once more, together with its event.
Announce(s) ==
  /\ At(s, "announce")
  /\ IF Savable(call[s])
     THEN /\ row' = Saved(call[s])
          /\ outbox' = Enqueued(call[s])
          /\ Return(s, call[s].action.status)
     ELSE row' = row /\ outbox' = outbox /\ Return(s, "error")
  /\ UNCHANGED <<approval, build>>

\* The executor's deadline passes while the workflow sleeps between polls.
Deadline(a) ==
  /\ Ready(a) /\ workflow[a].pc = "poll"
  /\ workflow' = [workflow EXCEPT ![a] = [pc |-> "timeout", tries |-> 0, waiting |-> FALSE]]
  /\ UNCHANGED <<approval, row, build, call, outbox>>

-----------------------------------------------------------------------------
(* The emergency stop, the watchdog, Jenkins and what goes wrong.          *)

\* An operator stops an active action whose build Jenkins has accepted.
Stop(s, i) ==
  LET old == row[i].action IN
  /\ MayCall(s, i)
  /\ Exists(i) /\ old.status \in Active /\ old.receipt # None
  /\ Begin(s, "stop", <<i, old.app>>, "halt", old, FALSE)
  /\ UNCHANGED <<approval, row, build, workflow, outbox>>

\* A build known to run is aborted, an item still queued is cancelled; one that has
\* left the queue since, or an unreachable Jenkins, fails the request.  The action
\* dispatched for the workflow does not name it, so the workflow is not cancelled.
Halt(s) ==
  LET b == call[s].action.receipt
      stops == [queued |-> "cancelled", running |-> "broke"]
  IN
  /\ At(s, "halt")
  /\ \/ /\ call[s].action.status = "running" \/ build[b] = "queued"
        /\ build' = IF build[b] \in Finished THEN build
                    ELSE [build EXCEPT ![b] = stops[@]]
        /\ Carry(s, "persist", "cancelled")
        /\ UNCHANGED workflow
     \/ /\ "unreachable" \in Faults \/ build[b] # "queued"
        /\ build' = build
        /\ Return(s, "error")
  /\ UNCHANGED <<approval, row, outbox>>

\* The watchdog marks the status column of a row unchanged for twenty minutes; no
\* call about it lasts that long.
Watchdog(i) ==
  /\ "stale" \in Faults
  /\ row[i].col \in Expirable
  /\ ~InFlight(i)
  /\ row' = [row EXCEPT ![i].col = "timed_out"]
  /\ UNCHANGED <<approval, build, workflow, call, outbox>>

BuildStarts(b) ==
  /\ build[b] = "queued"
  /\ build' = [build EXCEPT ![b] = "running"]
  /\ UNCHANGED <<approval, row, workflow, call, outbox>>

\* A build ends: passed with the evidence to prove it, passed without, or failed.
BuildEnds(b) ==
  /\ build[b] = "running"
  /\ \E result \in Results : build' = [build EXCEPT ![b] = result]
  /\ UNCHANGED <<approval, row, workflow, call, outbox>>

\* The engine dies with a call in flight.
Crash(s) ==
  /\ "crash" \in Faults
  /\ call[s].kind # "idle"
  /\ Return(s, "lost")
  /\ UNCHANGED <<approval, row, build, outbox>>

\* An activity attempt gives up on a call that goes on.
AttemptTimesOut(s) ==
  /\ "overlap" \in Faults
  /\ call[s].kind # "idle" /\ call[s].awaited
  /\ call' = [call EXCEPT ![s].awaited = FALSE]
  /\ Answer(call[s].app, "lost")
  /\ UNCHANGED <<approval, row, build, outbox>>

Engine(s) ==
  \/ Reserve(s) \/ ReserveFails(s) \/ Start(s) \/ StartFails(s) \/ Submit(s)
  \/ Observe(s) \/ Persist(s) \/ Finalize(s) \/ Announce(s) \/ Halt(s)

Activity(s, a) ==
  \/ Dispatch(s, a) \/ DispatchAnswered(s, a)
  \/ Ask(s, a) \/ AskInVain(s, a) \/ ReportFailure(s, a)

Next ==
  \/ \E i \in Incidents : Approve(i) \/ Watchdog(i)
  \/ \E a \in Approvals : Expire(a) \/ Deadline(a)
  \/ \E s \in Slots : Engine(s) \/ Crash(s) \/ AttemptTimesOut(s)
  \/ \E s \in Slots, a \in Approvals : Execute(s, a) \/ Activity(s, a)
  \/ \E s \in Slots, i \in Incidents : Stop(s, i)
  \/ \E b \in Builds : BuildStarts(b) \/ BuildEnds(b)

Spec == Init /\ [][Next]_vars

\* Temporal and the engine keep working, Jenkins ends its builds and the deadline and
\* the watchdog come; people and failures may do anything or nothing.  Operators'
\* requests come and go: those keep no activity and no watchdog pass out for ever.
Fairness ==
  /\ \A s \in Slots : WF_vars(Engine(s))
  /\ \A a \in Approvals : SF_vars(\E s \in Slots : Activity(s, a)) /\ WF_vars(Deadline(a))
  /\ \A i \in Incidents : SF_vars(Watchdog(i))
  /\ \A b \in Builds : WF_vars(BuildStarts(b)) /\ WF_vars(BuildEnds(b))

FairSpec == Spec /\ Fairness

-----------------------------------------------------------------------------
(* Correctness.                                                            *)

\* Two incidents never hold the same target: at most one action row is active.
TargetExclusive ==
  \A i, k \in Incidents : row[i].col \in Active /\ row[k].col \in Active => i = k

\* An approval is submitted to Jenkins once.
OneBuildPerApproval ==
  \A b, c \in Builds : build[b] # "absent" /\ build[c] # "absent"
                       /\ ApprovalOf(b) = ApprovalOf(c) => b = c

\* A recorded outcome is what Jenkins said of this approval's own build, whichever
\* calls raced to record it: nobody reads success off another attempt.
OutcomesAreObserved ==
  \A i \in Incidents :
    LET action == row[i].action IN
    /\ action.receipt # None => ApprovalOf(action.receipt) = <<i, action.app>>
    /\ action.status = "succeeded" => action.receipt # None /\ build[action.receipt] = "passed"
    /\ action.status = "validation_failed" =>
         action.receipt # None /\ build[action.receipt] = "unproved"
    /\ action.status = "execution_failed" =>
         action.receipt # None /\ build[action.receipt] = "broke"

\* The same of every event the broker is given.
EventsAreTrue ==
  \A e \in outbox :
    /\ e.receipt # None => ApprovalOf(e.receipt) = <<e.incident, e.app>>
    /\ e.status = "succeeded" => e.receipt # None /\ build[e.receipt] = "passed"
    /\ e.status = "execution_failed" => e.receipt # None /\ build[e.receipt] = "broke"

\* A late call of a superseded approval never takes the action back from a newer one.
NewerApprovalKeepsAction ==
  [][\A i \in Incidents : row'[i].action.app >= row[i].action.app]_vars

\* "Retain terminal receipts; reconcile an accepted action": what Jenkins accepted or
\* completed under an approval stays recorded for as long as that approval's attempt.
ReceiptsRetained ==
  [][\A i \in Incidents :
       LET old == row[i].action
           new == row'[i].action
       IN old.receipt # None /\ new.app = old.app => new.receipt = old.receipt]_vars

\* Success is for ever: no retry, callback or stop replaces it.
SuccessStays ==
  [][\A i \in Incidents : row[i].action.status = "succeeded" =>
       row'[i].action.status = "succeeded"]_vars

\* A reserved target is released in the end.
TargetReleased ==
  \A i \in Incidents : row[i].col \in Active ~> row[i].col \notin Active
=============================================================================
