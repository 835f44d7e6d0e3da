--------------------------- MODULE IncidentClosure ---------------------------
(***************************************************************************)
(* How one incident is closed. The closure service validates a finished    *)
(* action outside any lock, from the bus or from its reconciliation loop,  *)
(* and then records the outcome under the incident's row lock: report,     *)
(* incident, event and outbox message commit together. An operator may     *)
(* close the incident by hand, or request an assessment of a repair made   *)
(* outside the system. Meanwhile approvals, alerts and later plans write   *)
(* to the same incident.                                                   *)
(*                                                                         *)
(* The recovery observers are configured, and the observer's registry is   *)
(* the same for the whole history.                                         *)
(***************************************************************************)
EXTENDS Naturals, Sequences, SequencesExt

CONSTANTS
  Repairs,     \* recommendations with an executable plan; each has one action
  Watches,     \* recommendations with a diagnostic plan under a watch-only policy
  Consumers,   \* consumers of remediation events
  Replayers,   \* tasks of the reconciliation loop
  Operators,   \* manual closures under way
  Assessors,   \* evaluations of the recovery assessment under way
  Scenes,      \* bound: the plans of one history and who else writes to the incident
  None

Plans == Repairs \cup Watches
Validators == Consumers \cup Replayers

ASSUME PlansAssumption ==
  /\ Repairs \cap Watches = {}
  /\ None \notin Plans
  /\ Consumers \cap Replayers = {}

\* Decisions after the first approval, stale saves of alerts, operators, assessments.
Writers == {"decision", "alert", "operator", "assessment"}

ASSUME ScenesAssumption == Scenes \subseteq SUBSET (Plans \cup Writers)

VARIABLES
  scene,        \* the plans and the other writers of this history; never changes
  incident,     \* incidents row: status, the lifecycle in its metadata, linked alerts
  projection,   \* incident_projections row: closed or not, recommendation_id
  proposed,     \* recommendations in the order they were generated
  selected,     \* recommendations with a compiled execution plan of the catalog
  approved,     \* recommendations with an approval
  action,       \* status of each recommendation's action
  created,      \* the executed action created last
  updated,      \* the action whose row was updated last
  messages,     \* finished actions on the bus: delivered any number of times
  observation,  \* what the recovery observers see of each executed plan
  work,         \* a validator's report that waits for the incident's lock
  recorded,     \* outcomes with a report and a stored event; closures by operators
  copy,         \* the incident as an alert handler holds it
  desk,         \* the lifecycle an operator's manual closure was checked against
  assessment,   \* the recovery assessment
  evaluation    \* where each evaluation of it stands

planVars == <<proposed, selected, approved, action, created, updated, messages, observation>>
otherVars == <<scene, copy, desk, assessment, evaluation>>
vars == <<incident, projection, planVars, work, recorded, otherVars>>

Outcomes == {"pending", "recovered", "failed", "watched"}
\* Fault: a repair whose stability window is open closes the incident.
FaultClosing == {"recovered", "watched", "pending"}

Closing == {"recovered", "watched"}

\* A closure by an operator, by hand or through an assessment.
ByOperator == <<None, "closed">>

\* Version of a lifecycle that the remediation engine hands over: awaiting approval,
\* ready, executing, validating.
Handed == 4

MaxAlerts == 2

Lifecycle ==
  [plan : Plans \cup {None},
   state : {"diagnostic_only", "pending_stability", "recovered", "failed_retryable", "closed"},
   version : 1..(Handed + 3), actor : {"remediation", "closure", "operator"}]

Incident ==
  [status : {"investigating", "approved", "validating", "failed", "closed"},
   lifecycle : Lifecycle \cup {None}, alerts : 1..MaxAlerts]

Report ==
  [plan : Plans, outcome : Outcomes, later : SUBSET Validators, behind : BOOLEAN]

Context ==
  [status : {"investigating", "approved", "validating", "failed"},
   lifecycle : Lifecycle \cup {None}, alerts : 1..MaxAlerts, plan : Plans \cup {None},
   actions : [Plans -> {"absent", "executing", "execution_failed", "succeeded", "skipped"}]]

ASSUME NoneAssumption ==
  None \notin Lifecycle \cup Incident \cup Report \cup [lifecycle : Lifecycle \cup {None}]

TypeOK ==
  /\ scene \in Scenes
  /\ incident \in Incident
  /\ projection \in [closed : BOOLEAN, plan : Plans \cup {None}]
  /\ proposed \in Seq(Plans) /\ IsInjective(proposed)
  /\ selected \subseteq Repairs /\ approved \subseteq selected
  /\ action \in [Plans -> {"absent", "executing", "execution_failed", "succeeded", "skipped"}]
  /\ created \in Repairs \cup {None}
  /\ updated \in Plans \cup {None}
  /\ messages \subseteq Plans
  /\ observation \in [Repairs -> {"warming", "passed", "failed"}]
  /\ work \in [Validators -> Report \cup {None}]
  /\ recorded \subseteq (Plans \X Outcomes) \cup {ByOperator}
  /\ copy \in Incident \cup {None}
  /\ desk \in [Operators -> [lifecycle : Lifecycle \cup {None}] \cup {None}]
  /\ assessment.status \in {"none", "pending_stability", "closed", "expired", "superseded"}
  /\ assessment.overdue \in BOOLEAN
  /\ assessment.binding \in Context \cup {None}
  /\ evaluation \in [Assessors -> {"idle", "collecting", "verified"}]

New == [status |-> "investigating", lifecycle |-> None, alerts |-> 1]

\* An incident has been opened; the message that asks for its ticket still carries it
\* as it was then.
Init ==
  /\ scene \in Scenes
  /\ incident = New
  /\ projection = [closed |-> FALSE, plan |-> None]
  /\ proposed = <<>>
  /\ selected = {} /\ approved = {} /\ messages = {} /\ recorded = {}
  /\ action = [p \in Plans |-> "absent"]
  /\ created = None /\ updated = None
  /\ observation = [p \in Repairs |-> "warming"]
  /\ work = [w \in Validators |-> None]
  /\ copy = IF "alert" \in scene THEN New ELSE None
  /\ desk = [m \in Operators |-> None]
  /\ assessment = [status |-> "none", overdue |-> FALSE, binding |-> None]
  /\ evaluation = [e \in Assessors |-> "idle"]

-----------------------------------------------------------------------------
(* The plans of the incident, as the resolution, approval and remediation  *)
(* services write them.                                                    *)

\* The recommendation that outranks new analyses: the one executed last, unless its
\* execution failed; before any execution, the projected one if its plan is compiled.
Governing ==
  IF created # None
  THEN IF action[created] \in {"executing", "succeeded"} THEN created ELSE None
  ELSE IF projection.plan \in selected THEN projection.plan ELSE None

\* The recommendation that an approval must name.
Current ==
  IF Governing # None THEN Governing ELSE IF proposed = <<>> THEN None ELSE Last(proposed)

\* A recommendation is generated; its event moves the projection unless that is closed
\* or another plan governs. An analysis that was asked for outranks a plan that has not
\* been executed.
Recommend(p) ==
  /\ p \in scene /\ p \notin Range(proposed)
  /\ proposed' = Append(proposed, p)
  /\ \E asked \in BOOLEAN :
       LET outranked == /\ Governing \notin {None, p}
                        /\ asked => action[Governing] # "absent"
       IN projection' = IF projection.closed \/ outranked THEN projection
                        ELSE [projection EXCEPT !.plan = p]
  /\ UNCHANGED <<incident, selected, approved, action, created, updated, messages,
                 observation, work, recorded, otherVars>>

\* A catalog option is selected for the projected recommendation, and compiled.
Select(p) ==
  /\ p \in Repairs \ selected /\ p = projection.plan
  /\ selected' = selected \cup {p}
  /\ UNCHANGED <<incident, projection, proposed, approved, action, created, updated,
                 messages, observation, work, recorded, otherVars>>

\* Fault: a decision after the closure reaches the incident only.
FaultDecided(p, status) ==
  /\ incident' = [incident EXCEPT !.status = status]
  /\ projection' = [projection EXCEPT !.plan = p]
  /\ UNCHANGED <<proposed, selected, action, created, updated, messages, observation,
                 work, recorded, otherVars>>

\* A decision sets the status of incident and projection, whatever they were.
Decided(p, status) ==
  /\ incident' = [incident EXCEPT !.status = status]
  /\ projection' = [closed |-> FALSE, plan |-> p]
  /\ UNCHANGED <<proposed, selected, action, created, updated, messages, observation,
                 work, recorded, otherVars>>

\* Fault: a plan need not be compiled to be approved.
FaultApprove(p) ==
  /\ p \in Repairs /\ p = Current
  /\ p \in approved => "decision" \in scene
  /\ approved' = approved \cup {p}
  /\ Decided(p, "approved")

Approve(p) ==
  /\ p \in selected /\ p = Current
  /\ p \in approved => "decision" \in scene
  /\ approved' = approved \cup {p}
  /\ Decided(p, "approved")

\* A rejection, or a request for more evidence.
Decline(p) ==
  /\ "decision" \in scene
  /\ p \in Range(proposed)
  /\ \E status \in {"failed", "investigating"} : Decided(p, status)
  /\ UNCHANGED approved

\* The remediation engine saves the action: the projection follows unless it is closed.
Acted(p, status) ==
  /\ action' = [action EXCEPT ![p] = status]
  /\ updated' = p
  /\ projection' = IF projection.closed \/ p \notin Repairs THEN projection
                   ELSE [projection EXCEPT !.plan = p]
  /\ UNCHANGED <<incident, proposed, selected, approved, work, recorded, otherVars>>

Execute(p) ==
  /\ p \in approved /\ action[p] \in {"absent", "execution_failed"}
  /\ Acted(p, "executing")
  /\ created' = IF action[p] = "absent" THEN p ELSE created
  /\ UNCHANGED <<messages, observation>>

\* The execution ends. Only a success concerns the closure service.
Finish(p) ==
  /\ action[p] = "executing"
  /\ \/ Acted(p, "succeeded") /\ messages' = messages \cup {p}
     \/ Acted(p, "execution_failed") /\ UNCHANGED messages
  /\ UNCHANGED <<created, observation>>

\* The event of a watch-only plan completes it without any execution, whenever it arrives
\* and whatever plan is current by then.
Diagnose(p) ==
  /\ p \in Watches /\ p \in Range(proposed) /\ action[p] = "absent"
  /\ Acted(p, "skipped")
  /\ messages' = messages \cup {p}
  /\ UNCHANGED <<created, observation>>

\* The window of observations of an executed plan fills, or its samples change.
Observe(p) ==
  /\ p \in Repairs /\ action[p] = "succeeded"
  /\ observation' \in {[observation EXCEPT ![p] = o] : o \in {"passed", "failed"} \ {observation[p]}}
  /\ UNCHANGED <<incident, projection, proposed, selected, approved, action, created,
                 updated, messages, work, recorded, otherVars>>

-----------------------------------------------------------------------------
(* Validation, and the transaction that records its outcome.               *)

Verdict(p) ==
  IF p \in Watches THEN "watched"
  ELSE [warming |-> "pending", passed |-> "recovered", failed |-> "failed"][observation[p]]

\* The lifecycle in the report of a validation.
Reported(p, outcome) ==
  IF p \in Repairs
  THEN [plan |-> p, version |-> Handed + 1, actor |-> "closure",
        state |-> [pending |-> "pending_stability", recovered |-> "recovered",
                   failed |-> "failed_retryable"][outcome]]
  ELSE [plan |-> p, version |-> 1, actor |-> "remediation", state |-> "diagnostic_only"]

\* The validator has its report; those that wait for the lock are older than it.
Validated(w, p) ==
  /\ work[w] = None
  /\ work' = [v \in Validators |->
       IF v = w THEN [plan |-> p, outcome |-> Verdict(p), later |-> {}, behind |-> FALSE]
       ELSE IF work[v] = None THEN None ELSE [work[v] EXCEPT !.later = @ \cup {w}]]
  /\ UNCHANGED <<incident, projection, planVars, recorded, otherVars>>

\* A remediation event is delivered, perhaps not for the first time.
Consume(w, p) ==
  /\ w \in Consumers /\ p \in messages
  /\ Validated(w, p)

\* What the reconciliation loop selects: the newest finished action of an open incident,
\* of the projected recommendation, that no final report mentions.
Candidate(p) ==
  /\ incident.status # "closed" /\ ~projection.closed
  /\ projection.plan \in {None, p}
  /\ updated = p /\ action[p] \in {"succeeded", "skipped"}
  /\ recorded \cap ({p} \X {"recovered", "failed"}) = {}

Replay(w, p) ==
  /\ w \in Replayers /\ Candidate(p)
  /\ Validated(w, p)

\* Fault: the version is compared, the plan is not.
FaultStale(current, incoming) ==
  current # None /\ ~(incoming # None /\ incoming.version >= current.version)

\* An incoming lifecycle does not continue the incident's current one: another plan, or
\* an older version.
Stale(current, incoming) ==
  current # None /\ ~(/\ incoming # None
                      /\ incoming.plan = current.plan
                      /\ incoming.version >= current.version)

\* The newest of the report's and the incident's lifecycle; of two with one version, the
\* one that was written later.
Basis(w) ==
  LET incoming == Reported(work[w].plan, work[w].outcome)
      current == incident.lifecycle
  IN IF current # None /\ current.version = incoming.version /\ work[w].behind
     THEN current ELSE incoming

Advanced(lifecycle, state, actor) ==
  [lifecycle EXCEPT !.state = state, !.actor = actor, !.version = @ + 1]

\* The lifecycle that is stored with an outcome; None where the transition is refused.
Final(w) ==
  LET basis == Basis(w)
  IN CASE work[w].outcome = "pending" -> basis
       [] work[w].outcome \in Closing ->
            IF basis.state \in {"recovered", "diagnostic_only"}
            THEN Advanced(basis, "closed", "closure") ELSE None
       [] work[w].outcome = "failed" ->
            IF basis.state = "failed_retryable" THEN basis
            ELSE IF basis.state = "pending_stability"
                 THEN Advanced(basis, "failed_retryable", "closure") ELSE None

\* Fault: a late save overwrites a closed incident.
FaultSaved(new) == new

\* A closed incident takes no other status: a late save leaves its status and lifecycle.
Saved(new) ==
  IF incident.status = "closed" /\ new.status # "closed"
  THEN [incident EXCEPT !.alerts = IF new.alerts > @ THEN new.alerts ELSE @]
  ELSE new

\* The events "incident.closure.completed" of this incident: of failed validations, of
\* recoveries and of operators. All have one idempotency key.
ClosureEvents == {e \in recorded : e[2] # "pending"}

\* The first such event is stored, and closes the projection if it is of a closure; a later
\* one is dropped for its key, before it reaches the projection. No event reopens it.
Projected(status) ==
  [projection EXCEPT !.closed = @ \/ (status = "closed" /\ ClosureEvents = {})]

\* The validator is free again; what it has stored is newer than older reports.
Released(w, stored) ==
  [v \in Validators |->
    IF v = w \/ work[v] = None THEN None
    ELSE [work[v] EXCEPT !.later = @ \ {w}, !.behind = @ \/ (stored /\ w \in work[v].later)]]

\* Fault: one outcome per plan, whatever it is.
FaultAdmissible(w) ==
  /\ recorded \cap ({work[w].plan} \X Outcomes) = {}
  /\ ~Stale(incident.lifecycle, Reported(work[w].plan, work[w].outcome))
  /\ Final(w) # None

Admissible(w) ==
  /\ <<work[w].plan, work[w].outcome>> \notin recorded
  /\ ~Stale(incident.lifecycle, Reported(work[w].plan, work[w].outcome))
  /\ Final(w) # None

\* Report, incident, event and outbox message in one transaction under the lock.
Record(w) ==
  /\ work[w] # None /\ Admissible(w)
  /\ LET status == CASE work[w].outcome \in Closing -> "closed"
                     [] work[w].outcome = "pending" -> "validating"
                     [] work[w].outcome = "failed" -> "failed"
     IN /\ incident' = Saved([incident EXCEPT !.status = status, !.lifecycle = Final(w)])
        /\ projection' = Projected(status)
  /\ recorded' = recorded \cup {<<work[w].plan, work[w].outcome>>}
  /\ work' = Released(w, TRUE)
  /\ UNCHANGED <<planVars, otherVars>>

\* A duplicate or stale outcome is suppressed; a refused transition rolls back.
Discard(w) ==
  /\ work[w] # None /\ ~Admissible(w)
  /\ work' = Released(w, FALSE)
  /\ UNCHANGED <<incident, projection, planVars, recorded, otherVars>>

\* The process stops with a report that it has not recorded.
Crash(w) ==
  /\ work[w] # None
  /\ work' = Released(w, FALSE)
  /\ UNCHANGED <<incident, projection, planVars, recorded, otherVars>>

-----------------------------------------------------------------------------
(* The other writers.                                                      *)

\* An alert handler reads the incident to link one more alert to it. (An alert after the
\* closure opens an incident of its own.)
TakeCopy ==
  /\ "alert" \in scene /\ copy = None
  /\ incident.status # "closed" /\ incident.alerts < MaxAlerts
  /\ copy' = [incident EXCEPT !.alerts = @ + 1]
  /\ UNCHANGED <<incident, projection, planVars, work, recorded, scene, desk, assessment,
                 evaluation>>

\* It saves the whole incident as it read it.
SaveCopy ==
  /\ copy # None
  /\ incident' = Saved(copy)
  /\ copy' = None
  /\ UNCHANGED <<projection, planVars, work, recorded, scene, desk, assessment, evaluation>>

\* Fault: an operator may close during the stability window.
FaultClosable(lifecycle) ==
  lifecycle # None =>
    lifecycle.state \in {"diagnostic_only", "failed_retryable", "pending_stability", "closed"}

\* States that an operator may leave for closed.
Closable(lifecycle) ==
  lifecycle # None => lifecycle.state \in {"diagnostic_only", "failed_retryable", "closed"}

\* A manual closure is checked against the incident as read without a lock, and the
\* ticket is updated.
ManualCheck(m) ==
  /\ "operator" \in scene /\ desk[m] = None
  /\ incident.status # "closed" /\ Closable(incident.lifecycle)
  /\ desk' = [desk EXCEPT ![m] = [lifecycle |-> incident.lifecycle]]
  /\ UNCHANGED <<incident, projection, planVars, work, recorded, scene, copy, assessment,
                 evaluation>>

\* Of two lifecycles with one version the later written counts: either.
ManualBases(seen) ==
  IF incident.lifecycle # None /\ seen # None /\ incident.lifecycle.version = seen.version
  THEN {seen, incident.lifecycle} ELSE {seen}

\* Closed by hand. An incident without a lifecycle gets one of its own.
ManualClose(m) ==
  /\ desk[m] # None
  /\ ~Stale(incident.lifecycle, desk[m].lifecycle)
  /\ \E basis \in ManualBases(desk[m].lifecycle) :
       /\ Closable(basis)
       /\ incident' = [incident EXCEPT !.status = "closed", !.lifecycle =
            IF basis = None
            THEN [plan |-> None, state |-> "closed", version |-> 2, actor |-> "operator"]
            ELSE IF basis.state = "closed" THEN [basis EXCEPT !.actor = "operator"]
            ELSE Advanced(basis, "closed", "operator")]
  /\ projection' = Projected("closed")
  /\ recorded' = recorded \cup {ByOperator}
  /\ desk' = [desk EXCEPT ![m] = None]
  /\ UNCHANGED <<planVars, work, scene, copy, assessment, evaluation>>

\* The closure is refused: the lifecycle moved on since it was read.
ManualRefused(m) ==
  /\ desk[m] # None
  /\ \/ Stale(incident.lifecycle, desk[m].lifecycle)
     \/ \E basis \in ManualBases(desk[m].lifecycle) : ~Closable(basis)
  /\ desk' = [desk EXCEPT ![m] = None]
  /\ UNCHANGED <<incident, projection, planVars, work, recorded, scene, copy, assessment,
                 evaluation>>

-----------------------------------------------------------------------------
(* The assessment of a repair made outside the system.                     *)

assessmentRest == <<planVars, work, scene, copy, desk>>

\* No execution is unfinished and the lifecycle may be closed by an operator. A failed
\* execution counts as unfinished here.
Eligible ==
  /\ incident.status # "closed"
  /\ \A p \in Plans : action[p] \notin {"executing", "execution_failed"}
  /\ Closable(incident.lifecycle)

\* What an assessment is bound to.
Binding ==
  [status |-> incident.status, lifecycle |-> incident.lifecycle, alerts |-> incident.alerts,
   plan |-> projection.plan, actions |-> action]

RequestAssessment ==
  /\ "assessment" \in scene /\ assessment.status = "none" /\ Eligible
  /\ assessment' = [status |-> "pending_stability", overdue |-> FALSE, binding |-> Binding]
  /\ UNCHANGED <<incident, projection, recorded, evaluation, assessmentRest>>

\* An hour has passed.
Overdue ==
  /\ assessment.status = "pending_stability" /\ ~assessment.overdue
  /\ assessment' = [assessment EXCEPT !.overdue = TRUE]
  /\ UNCHANGED <<incident, projection, recorded, evaluation, assessmentRest>>

\* An evaluation that finds the assessment stale ends it; the endpoint leaves an
\* assessment whose context it refuses.
Evaluate(e) ==
  /\ evaluation[e] = "idle" /\ assessment.status = "pending_stability"
  /\ \/ /\ assessment.overdue
        /\ assessment' = [assessment EXCEPT !.status = "expired"]
        /\ UNCHANGED evaluation
     \/ /\ ~assessment.overdue /\ (~Eligible \/ Binding # assessment.binding)
        /\ assessment' = [assessment EXCEPT !.status = "superseded"]
        /\ UNCHANGED evaluation
     \/ /\ ~assessment.overdue /\ Eligible /\ Binding = assessment.binding
        /\ evaluation' = [evaluation EXCEPT ![e] = "collecting"]
        /\ UNCHANGED assessment
  /\ UNCHANGED <<incident, projection, recorded, assessmentRest>>

\* The observers are queried without any lock.
Collect(e) ==
  /\ evaluation[e] = "collecting"
  /\ \E result \in {"verified", "idle"} : evaluation' = [evaluation EXCEPT ![e] = result]
  /\ UNCHANGED <<incident, projection, recorded, assessment, assessmentRest>>

\* The guard of the closing transaction, under the incident's lock.
Confirmed ==
  /\ Eligible
  /\ Binding = assessment.binding
  /\ ~assessment.overdue

\* The lifecycle of an assessed closure: the bound one, or one of its own.
Assessed ==
  IF assessment.binding.lifecycle = None
  THEN [plan |-> None, state |-> "closed", version |-> 2, actor |-> "operator"]
  ELSE IF assessment.binding.lifecycle.state = "closed"
       THEN [assessment.binding.lifecycle EXCEPT !.actor = "operator"]
       ELSE Advanced(assessment.binding.lifecycle, "closed", "operator")

\* A verified assessment closes the incident.
CloseAssessed(e) ==
  /\ evaluation[e] = "verified"
  /\ assessment.status # "closed"
  /\ ~Stale(incident.lifecycle, assessment.binding.lifecycle) /\ Confirmed
  /\ incident' = [incident EXCEPT !.status = "closed", !.lifecycle = Assessed]
  /\ projection' = Projected("closed")
  /\ recorded' = recorded \cup {ByOperator}
  /\ assessment' = [assessment EXCEPT !.status = "closed"]
  /\ evaluation' = [evaluation EXCEPT ![e] = "idle"]
  /\ UNCHANGED assessmentRest

\* The transaction is refused: the loop supersedes the assessment, the endpoint leaves it.
RefuseAssessed(e) ==
  /\ evaluation[e] = "verified"
  /\ \/ assessment.status = "closed"
     \/ Stale(incident.lifecycle, assessment.binding.lifecycle)
     \/ ~Confirmed
  /\ evaluation' = [evaluation EXCEPT ![e] = "idle"]
  /\ \/ UNCHANGED assessment
     \/ /\ assessment.status = "pending_stability"
        /\ assessment' = [assessment EXCEPT !.status = "superseded"]
  /\ UNCHANGED <<incident, projection, recorded, assessmentRest>>

-----------------------------------------------------------------------------
Decide == \E p \in Plans : Approve(p) \/ Decline(p)

Next ==
  \/ Decide
  \/ \E p \in Plans :
       Recommend(p) \/ Select(p) \/ Execute(p) \/ Finish(p) \/ Diagnose(p) \/ Observe(p)
  \/ \E w \in Validators, p \in Plans : Consume(w, p) \/ Replay(w, p)
  \/ \E w \in Validators : Record(w) \/ Discard(w) \/ Crash(w)
  \/ TakeCopy \/ SaveCopy
  \/ \E m \in Operators : ManualCheck(m) \/ ManualClose(m) \/ ManualRefused(m)
  \/ RequestAssessment \/ Overdue
  \/ \E e \in Assessors : Evaluate(e) \/ Collect(e) \/ CloseAssessed(e) \/ RefuseAssessed(e)

Spec == Init /\ [][Next]_vars

\* The reconciliation loop runs for ever and every transaction ends.
Fairness ==
  /\ \A w \in Validators : WF_vars(Record(w) \/ Discard(w))
  /\ \A w \in Replayers : WF_vars(\E p \in Plans : Replay(w, p))

FairSpec == Spec /\ Fairness

-----------------------------------------------------------------------------
(* Properties.                                                             *)

\* A closed incident has a lifecycle that is closed, by an operator or on a durable report
\* that allows it: recovery of the very plan, or a watch-only policy.
ClosureJustified ==
  incident.status = "closed" =>
    /\ incident.lifecycle # None
    /\ incident.lifecycle.state = "closed"
    /\ \/ incident.lifecycle.actor = "operator"
       \/ <<incident.lifecycle.plan, "recovered">> \in recorded
       \/ <<incident.lifecycle.plan, "watched">> \in recorded

\* The projection that the workbench and the reconciliation loop read is never closed
\* before the incident, or after its reopening, though every service writes one or both;
\* and it stays open behind a closed incident only if the event of this closure was not
\* the first: another outcome was recorded, or an operator closed the incident before and
\* a decision reopened it.
ProjectionNotAhead ==
  /\ projection.closed => incident.status = "closed"
  /\ incident.status = "closed" /\ ~projection.closed =>
       \/ \E e, f \in ClosureEvents : e # f
       \/ ByOperator \in recorded /\ (approved # {} \/ "decision" \in scene)

\* Incident and projection are closed together: every view shows one state.
ClosedTogether == projection.closed = (incident.status = "closed")

\* Nothing but a decision of an approver reopens a closed incident: no late, duplicated or
\* reordered outcome, and no alert handler that still holds the open incident.
ClosedStays ==
  [][incident.status = "closed" /\ incident'.status # "closed" => Decide]_vars

\* The closure service never lets a report of another plan, or an older one, replace the
\* incident's lifecycle. (A stale save of an alert may: it replaces the whole incident.)
LifecycleForward ==
  [][incident.lifecycle \notin {None, incident'.lifecycle} =>
       \/ SaveCopy
       \/ /\ incident'.lifecycle.plan = incident.lifecycle.plan
          /\ incident'.lifecycle.version >= incident.lifecycle.version]_vars

\* No operator, by hand or through an assessment, closes an incident whose executed plan
\* waits for its stability window, also when the wait began after the closure was checked.
\* Stale saves of alerts are outside the claim: one that takes the incident back to an
\* earlier lifecycle lets a late report open a window that the operator's check missed.
StabilityAwaited ==
  [][/\ "alert" \notin scene
     /\ incident.status # "closed" /\ incident'.status = "closed"
     /\ incident'.lifecycle.actor = "operator" /\ incident.lifecycle # None
     => incident.lifecycle.state # "pending_stability"]_vars

\* The incident's lifecycle admits the recovery of a plan.
Open(p) ==
  incident.lifecycle = None \/ ~Stale(incident.lifecycle, Reported(p, "recovered"))

\* A finished action whose recovery is there to see does not stay open: lost events,
\* crashes and pending windows are made good by the reconciliation loop, once no more
\* reports are lost.
RecoveryCloses ==
  <>[][\A w \in Validators : ~(Crash(w) /\ Admissible(w))]_vars =>
    \A p \in Repairs : ~<>[](Candidate(p) /\ observation[p] = "passed" /\ Open(p))

\* A later plan has taken the place of p and governs the incident.
Superseded(p) ==
  /\ Governing \notin {None, p}
  /\ p \in Range(proposed)
  /\ IndexFirstSubSeq(<<p>>, proposed) < IndexFirstSubSeq(<<Governing>>, proposed)

\* A superseded plan controls nothing: the closure service does not close the incident on
\* the report of a plan while the later plan that took its place governs.
SupersededDoesNotControl ==
  [][incident.status # "closed" /\ incident'.status = "closed"
     /\ incident'.lifecycle.actor = "closure"
     => ~Superseded(incident'.lifecycle.plan)]_vars
=============================================================================
