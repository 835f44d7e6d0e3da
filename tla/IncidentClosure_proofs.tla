----------------------- MODULE IncidentClosure_proofs ------------------------
(***************************************************************************)
(* Proofs about IncidentClosure for any plans, validators, operators and   *)
(* assessors, and any history.                                             *)
(***************************************************************************)
EXTENDS IncidentClosure, TLAPS

\* What is known of a lifecycle that the incident has, or that somebody read from it:
\* windows and failures are of this execution, and only a closure comes after them.
Shaped(l) ==
  /\ l.state \in {"pending_stability", "failed_retryable", "closed"}
  /\ l.state = "pending_stability" => l.version = Handed + 1 /\ l.plan \in Repairs
  /\ l.state = "failed_retryable" => l.version \in {Handed + 1, Handed + 2}
  /\ l.state = "closed" => l.version >= 2 /\ (l.plan \in Repairs => l.version >= Handed + 2)

Known == {l \in Lifecycle : Shaped(l)} \cup {None}

\* Every lifecycle at hand is known, and an alert handler holds an incident it read open.
Lifecycles ==
  /\ incident.lifecycle \in Known
  /\ copy # None => copy.lifecycle \in Known /\ copy.status # "closed"
  /\ \A m \in Operators : desk[m] # None => desk[m].lifecycle \in Known

\* A report's outcome is one that its plan can have.
Reports ==
  \A w \in Validators : work[w] # None =>
    work[w].outcome \in (IF work[w].plan \in Repairs
                         THEN {"pending", "recovered", "failed"} ELSE {"watched"})

AssessmentRow ==
  [status : {"none", "pending_stability", "closed", "expired", "superseded"},
   overdue : BOOLEAN, binding : Context \cup {None}]

\* An incident that an operator closed is open again by a decision only.
Reopenable ==
  ByOperator \in recorded /\ incident.status # "closed" =>
    approved # {} \/ "decision" \in scene

ProjectionInv == ProjectionNotAhead /\ Reopenable

IInv ==
  /\ TypeOK /\ assessment \in AssessmentRow
  /\ Lifecycles /\ Reports /\ ClosureJustified /\ ProjectionInv

-----------------------------------------------------------------------------
(* Lifecycles.                                                             *)

(* The names of plans and validators do not clash, and None is none of the records. *)
LEMMA Names ==
  /\ None \notin Plans /\ None \notin Lifecycle /\ None \notin Incident /\ None \notin Report
  /\ None \notin [lifecycle : Lifecycle \cup {None}]
  /\ \A p \in Plans : p \in Repairs \/ p \in Watches
  /\ \A p \in Watches : p \notin Repairs
  BY PlansAssumption, NoneAssumption DEF Plans

(* Moving a lifecycle on raises its version by one and keeps its plan. *)
LEMMA AdvancedLifecycle ==
  ASSUME NEW l \in Lifecycle, l.version <= Handed + 2,
         NEW s \in {"failed_retryable", "closed"}, NEW a \in {"closure", "operator"}
  PROVE  /\ Advanced(l, s, a) \in Lifecycle
         /\ Advanced(l, s, a).plan = l.plan
         /\ Advanced(l, s, a).state = s
         /\ Advanced(l, s, a).actor = a
         /\ Advanced(l, s, a).version = l.version + 1
  <1>1. l.version + 1 \in 1..(Handed + 3)
    BY DEF Lifecycle, Handed
  <1>2. Advanced(l, s, a) = [l EXCEPT !.state = s, !.actor = a, !.version = l.version + 1]
    BY DEF Advanced, Lifecycle
  <1> QED BY <1>1, <1>2 DEF Lifecycle

(* What a report of a plan says. *)
LEMMA ReportedLifecycle ==
  /\ \A p \in Repairs, o \in {"pending", "recovered", "failed"} :
       /\ Reported(p, o) \in Lifecycle
       /\ Reported(p, o).plan = p /\ Reported(p, o).version = Handed + 1
       /\ o = "pending" => Reported(p, o).state = "pending_stability"
       /\ o = "recovered" => Reported(p, o).state = "recovered"
       /\ o = "failed" => Reported(p, o).state = "failed_retryable"
  /\ \A p \in Watches : \A o :
       /\ Reported(p, o) \in Lifecycle
       /\ Reported(p, o).plan = p /\ Reported(p, o).version = 1
       /\ Reported(p, o).state = "diagnostic_only"
  BY Names DEF Reported, Lifecycle, Plans, Handed

(* The lifecycle that an admissible report stores. *)
LEMMA FinalLifecycle ==
  ASSUME IInv, NEW w \in Validators, work[w] # None, Admissible(w)
  PROVE  /\ Final(w) \in Lifecycle /\ Shaped(Final(w))
         /\ Final(w).plan = work[w].plan
         /\ work[w].outcome \in Closing => Final(w).state = "closed" /\ Final(w).actor = "closure"
         /\ work[w].outcome = "failed" => Final(w).state = "failed_retryable"
         /\ incident.lifecycle # None =>
              /\ Final(w).plan = incident.lifecycle.plan
              /\ Final(w).version >= incident.lifecycle.version
  <1> DEFINE p == work[w].plan
             o == work[w].outcome
             incoming == Reported(p, o)
             current == incident.lifecycle
             basis == Basis(w)
  <1>1. /\ p \in Plans /\ o \in Outcomes /\ Final(w) # None
        /\ o \in (IF p \in Repairs THEN {"pending", "recovered", "failed"} ELSE {"watched"})
        /\ current \in Known
    BY DEF IInv, TypeOK, Report, Reports, Admissible, Lifecycles
  <1>2. incoming \in Lifecycle /\ incoming # None /\ incoming.plan = p
        /\ incoming.version <= Handed + 1
    BY <1>1, Names, ReportedLifecycle DEF Handed
  <1>3. current # None => /\ current.plan = p /\ incoming.version >= current.version
                          /\ current \in Lifecycle /\ Shaped(current)
    BY <1>1, <1>2 DEF Admissible, Stale, Known
  <1>4. \/ basis = incoming
        \/ basis = current /\ current # None /\ current.version = incoming.version
    BY DEF Basis
  <1>5. /\ basis \in Lifecycle /\ basis.plan = p /\ basis.version <= Handed + 1
        /\ basis.version = incoming.version
        /\ current # None => basis.version >= current.version
    BY <1>2, <1>3, <1>4
  <1>6. CASE o = "pending"
    <2>1. Final(w) = basis /\ p \in Repairs
      <3>1. Final(w) = basis
        BY <1>6 DEF Final, Closing
      <3> QED BY <1>1, <1>6, <3>1
    <2>2. Shaped(basis)
      <3>1. Shaped(incoming)
        BY <1>6, <2>1, ReportedLifecycle DEF Shaped
      <3> QED BY <1>3, <1>4, <3>1
    <2> QED BY <1>3, <1>5, <1>6, <2>1, <2>2 DEF Closing
  <1>7. CASE o \in Closing
    <2>1. Final(w) = Advanced(basis, "closed", "closure")
      BY <1>1, <1>7 DEF Final, Closing
    <2>2. p \in Repairs => basis.version = Handed + 1
      BY <1>1, <1>5, ReportedLifecycle
    <2>3. basis.version \in Nat \ {0}
      BY <1>5 DEF Lifecycle
    <2>4. o # "failed"
      BY <1>7 DEF Closing
    <2> QED BY <1>3, <1>5, <2>1, <2>2, <2>3, <2>4, AdvancedLifecycle DEF Shaped, Handed, Lifecycle
  <1>8. CASE o = "failed"
    <2>1. p \in Repairs /\ basis.version = Handed + 1
      BY <1>1, <1>5, <1>8, ReportedLifecycle
    <2>2. \/ basis.state = "failed_retryable" /\ Final(w) = basis
          \/ Final(w) = Advanced(basis, "failed_retryable", "closure")
      BY <1>1, <1>8 DEF Final, Closing
    <2> HIDE DEF basis
    <2>3. /\ Final(w) \in Lifecycle /\ Final(w).plan = p
          /\ Final(w).state = "failed_retryable"
          /\ Final(w).version \in {Handed + 1, Handed + 2}
      BY <1>5, <2>1, <2>2, AdvancedLifecycle DEF Handed
    <2>4. Shaped(Final(w))
      BY <2>3 DEF Shaped
    <2>5. current # None => Final(w).version >= current.version
      BY <1>3, <1>5, <2>1, <2>3 DEF Handed, Lifecycle
    <2> QED BY <1>3, <1>8, <2>3, <2>4, <2>5 DEF Closing
  <1> QED BY <1>1, <1>6, <1>7, <1>8 DEF Closing, Outcomes

-----------------------------------------------------------------------------
(* The projection.                                                         *)

(* Steps that neither close nor reopen keep the projection in step. *)
LEMMA ProjectionKept ==
  ASSUME IInv, recorded \subseteq recorded', ByOperator \in recorded' => ByOperator \in recorded,
         approved \subseteq approved', UNCHANGED scene,
         incident'.status = "closed" <=> incident.status = "closed",
         projection'.closed = projection.closed
  PROVE  ProjectionInv'
  <1>1. ProjectionNotAhead /\ Reopenable
    BY DEF IInv, ProjectionInv
  <1>2. ProjectionNotAhead'
    BY <1>1 DEF ProjectionNotAhead, ClosureEvents
  <1>3. Reopenable'
    BY <1>1 DEF Reopenable
  <1> QED BY <1>2, <1>3 DEF ProjectionInv

(* The event of a closure moves the projection, or another such event came before it. *)
LEMMA ProjectionClosed ==
  ASSUME IInv, NEW e, e[2] # "pending", e \notin recorded \/ e = ByOperator,
         recorded' = recorded \cup {e}, UNCHANGED <<approved, scene>>,
         incident'.status = "closed",
         projection'.closed = (projection.closed \/ ClosureEvents = {})
  PROVE  ProjectionInv'
  <1>1. ProjectionNotAhead /\ Reopenable
    BY DEF IInv, ProjectionInv
  <1>2. Reopenable'
    BY DEF Reopenable
  <1>3. ASSUME ~projection'.closed
        PROVE  \/ \E f, g \in ClosureEvents' : f # g
               \/ ByOperator \in recorded' /\ (approved' # {} \/ "decision" \in scene')
    <2>1. PICK f \in ClosureEvents : TRUE
      BY <1>3
    <2>2. e \in ClosureEvents' /\ f \in ClosureEvents' /\ f \in recorded
      BY <2>1 DEF ClosureEvents
    <2>3. CASE f # e
      BY <2>2, <2>3
    <2>4. CASE f = e
      <3>1. e = ByOperator /\ ByOperator \in recorded
        BY <2>2, <2>4
      <3>2. CASE incident.status = "closed"
        <4>1. ~projection.closed
          BY <1>3
        <4> QED BY <1>1, <3>2, <4>1 DEF ProjectionNotAhead, ClosureEvents
      <3>3. CASE incident.status # "closed"
        BY <1>1, <3>1, <3>3 DEF Reopenable
      <3> QED BY <3>2, <3>3
    <2> QED BY <2>3, <2>4
  <1>4. ProjectionNotAhead'
    BY <1>3 DEF ProjectionNotAhead
  <1> QED BY <1>2, <1>4 DEF ProjectionInv

-----------------------------------------------------------------------------
(* The plans of the incident.                                              *)

PlanTypes ==
  /\ proposed \in Seq(Plans) /\ IsInjective(proposed)
  /\ selected \subseteq Repairs /\ approved \subseteq selected
  /\ action \in [Plans -> {"absent", "executing", "execution_failed", "succeeded", "skipped"}]
  /\ created \in Repairs \cup {None}
  /\ updated \in Plans \cup {None}
  /\ messages \subseteq Plans
  /\ observation \in [Repairs -> {"warming", "passed", "failed"}]

ProjectionRow == [closed : BOOLEAN, plan : Plans \cup {None}]

PlanStep(p) ==
  \/ Approve(p) \/ Decline(p) \/ Recommend(p) \/ Select(p)
  \/ Execute(p) \/ Finish(p) \/ Diagnose(p) \/ Observe(p)

\* A decision takes incident and projection out of their closure together.
Reopened ==
  /\ projection'.closed = FALSE
  /\ approved' # {} \/ "decision" \in scene'
  /\ \E s \in {"approved", "failed", "investigating"} :
       incident' = [incident EXCEPT !.status = s]

(* A recommendation that is new keeps the list free of repetitions. *)
LEMMA ProposedOnce ==
  ASSUME proposed \in Seq(Plans), IsInjective(proposed),
         NEW p \in Plans, p \notin Range(proposed)
  PROVE  Append(proposed, p) \in Seq(Plans) /\ IsInjective(Append(proposed, p))
  <1> DEFINE next == Append(proposed, p)
  <1>1. /\ next \in Seq(Plans) /\ Len(next) = Len(proposed) + 1 /\ Len(proposed) \in Nat
        /\ \A i \in 1..Len(proposed) : next[i] = proposed[i]
        /\ next[Len(proposed) + 1] = p
    OBVIOUS
  <1>2. \A i \in 1..Len(proposed) : proposed[i] # p
    BY DEF Range
  <1>3. DOMAIN next = 1..(Len(proposed) + 1) /\ DOMAIN proposed = 1..Len(proposed)
    BY <1>1
  <1> HIDE DEF next
  <1>4. \A i, j \in 1..(Len(proposed) + 1) : next[i] = next[j] => i = j
    BY <1>1, <1>2, <1>3 DEF IsInjective
  <1> QED BY <1>1, <1>3, <1>4 DEF IsInjective, next

LEMMA PlanEffect ==
  ASSUME IInv, NEW p \in Plans, PlanStep(p)
  PROVE  /\ PlanTypes' /\ projection' \in ProjectionRow
         /\ UNCHANGED <<work, recorded, otherVars>>
         /\ \/ UNCHANGED incident /\ projection'.closed = projection.closed
            \/ Reopened
         /\ UNCHANGED incident \/ Approve(p) \/ Decline(p)
         /\ approved \subseteq approved'
  <1>1. PlanTypes /\ projection \in ProjectionRow
    BY DEF IInv, TypeOK, PlanTypes, ProjectionRow
  <1>2. CASE Recommend(p)
    <2>1. projection' \in {projection, [projection EXCEPT !.plan = p]}
      BY <1>2 DEF Recommend
    <2>2. projection' \in ProjectionRow /\ projection'.closed = projection.closed
      BY <1>1, <2>1 DEF ProjectionRow
    <2>3. PlanTypes'
      BY <1>1, <1>2, ProposedOnce DEF Recommend, PlanTypes
    <2> QED BY <1>2, <2>2, <2>3 DEF Recommend
  <1>3. CASE Select(p)
    <2>1. PlanTypes'
      BY <1>1, <1>3 DEF Select, PlanTypes
    <2> QED BY <1>1, <1>3, <2>1 DEF Select
  <1>4. CASE Approve(p)
    <2>1. Reopened /\ projection' \in ProjectionRow
      BY <1>4, Names DEF Approve, Decided, Reopened, ProjectionRow, Plans
    <2>2. PlanTypes'
      BY <1>1, <1>4 DEF Approve, Decided, PlanTypes
    <2>3. UNCHANGED <<work, recorded, otherVars>> /\ approved \subseteq approved'
      BY <1>4 DEF Approve, Decided
    <2> QED BY <1>4, <2>1, <2>2, <2>3
  <1>5. CASE Decline(p)
    <2>1. Reopened /\ projection' \in ProjectionRow
      BY <1>5, Names DEF Decline, Decided, Reopened, ProjectionRow, Plans, otherVars
    <2>2. PlanTypes'
      BY <1>1, <1>5 DEF Decline, Decided, PlanTypes
    <2>3. UNCHANGED <<work, recorded, otherVars>> /\ approved \subseteq approved'
      BY <1>5 DEF Decline, Decided
    <2> QED BY <1>5, <2>1, <2>2, <2>3
  <1>6. ASSUME NEW s \in {"executing", "execution_failed", "succeeded", "skipped"}, Acted(p, s)
        PROVE  /\ UNCHANGED <<incident, proposed, selected, approved, work, recorded, otherVars>>
               /\ projection' \in ProjectionRow /\ projection'.closed = projection.closed
               /\ updated' \in Plans \cup {None}
               /\ action' \in [Plans -> {"absent", "executing", "execution_failed",
                                         "succeeded", "skipped"}]
    BY <1>1, <1>6 DEF Acted, PlanTypes, ProjectionRow
  <1>7. CASE Execute(p)
    <2>1. \E st \in {"executing", "execution_failed", "succeeded", "skipped"} : Acted(p, st)
      BY <1>7 DEF Execute
    <2>2. PlanTypes'
      BY <1>1, <1>6, <1>7, <2>1 DEF Execute, PlanTypes
    <2> QED BY <1>6, <2>1, <2>2
  <1>8. CASE Finish(p)
    <2>1. \E st \in {"executing", "execution_failed", "succeeded", "skipped"} : Acted(p, st)
      BY <1>8 DEF Finish
    <2>2. PlanTypes'
      BY <1>1, <1>6, <1>8, <2>1 DEF Finish, PlanTypes
    <2> QED BY <1>6, <2>1, <2>2
  <1>9. CASE Diagnose(p)
    <2>1. \E st \in {"executing", "execution_failed", "succeeded", "skipped"} : Acted(p, st)
      BY <1>9 DEF Diagnose
    <2>2. PlanTypes'
      BY <1>1, <1>6, <1>9, <2>1 DEF Diagnose, PlanTypes
    <2> QED BY <1>6, <2>1, <2>2
  <1>10. CASE Observe(p)
    <2>1. PlanTypes'
      BY <1>1, <1>10 DEF Observe, PlanTypes
    <2> QED BY <1>1, <1>10, <2>1 DEF Observe
  <1> QED BY <1>2, <1>3, <1>4, <1>5, <1>7, <1>8, <1>9, <1>10 DEF PlanStep

LEMMA PlanInv ==
  ASSUME IInv, NEW p \in Plans, PlanStep(p)
  PROVE  IInv'
  <1> USE DEF otherVars
  <1>1. /\ PlanTypes' /\ projection' \in ProjectionRow
        /\ UNCHANGED <<work, recorded, otherVars>>
        /\ \/ UNCHANGED incident /\ projection'.closed = projection.closed
           \/ Reopened
        /\ approved \subseteq approved'
    BY PlanEffect
  <1>2. incident' \in Incident /\ incident'.lifecycle = incident.lifecycle
    BY <1>1 DEF Reopened, IInv, TypeOK, Incident
  <1>3. TypeOK' /\ (assessment \in AssessmentRow)'
    BY <1>1, <1>2 DEF IInv, TypeOK, PlanTypes, ProjectionRow, AssessmentRow
  <1>4. Lifecycles' /\ Reports'
    BY <1>1, <1>2 DEF IInv, Lifecycles, Reports
  <1>5. ClosureJustified' /\ ProjectionInv'
    <2>1. CASE UNCHANGED incident /\ projection'.closed = projection.closed
      BY <1>1, <2>1, ProjectionKept DEF IInv, ClosureJustified
    <2>2. CASE Reopened
      <3>1. incident'.status # "closed"
        BY <2>2 DEF Reopened, IInv, TypeOK, Incident
      <3> QED BY <2>2, <3>1 DEF Reopened, ClosureJustified, ProjectionInv, ProjectionNotAhead, Reopenable
    <2> QED BY <1>1, <2>1, <2>2
  <1> QED BY <1>3, <1>4, <1>5 DEF IInv

-----------------------------------------------------------------------------
(* Reports.                                                                *)

\* The reports at hand are reports of their plans.
WorkTypes == work \in [Validators -> Report \cup {None}] /\ Reports

(* A verdict is an outcome that the plan can have. *)
LEMMA VerdictOutcome ==
  ASSUME IInv, NEW p \in Plans
  PROVE  /\ Verdict(p) \in Outcomes
         /\ Verdict(p) \in (IF p \in Repairs THEN {"pending", "recovered", "failed"}
                            ELSE {"watched"})
  <1>1. CASE p \in Watches
    BY <1>1, Names DEF Verdict, Outcomes
  <1>2. CASE p \in Repairs
    <2>1. /\ observation[p] \in {"warming", "passed", "failed"} /\ p \notin Watches
      BY <1>2, Names DEF IInv, TypeOK
    <2>2. Verdict(p) =
            [warming |-> "pending", passed |-> "recovered", failed |-> "failed"][observation[p]]
      BY <2>1 DEF Verdict
    <2>3. Verdict(p) \in {"pending", "recovered", "failed"}
      BY <2>1, <2>2
    <2> QED BY <1>2, <2>3 DEF Outcomes
  <1> QED BY <1>1, <1>2, Names

LEMMA ValidatedTypes ==
  ASSUME IInv, NEW w \in Validators, NEW p \in Plans, Validated(w, p)
  PROVE  WorkTypes'
  <1> DEFINE new == [plan |-> p, outcome |-> Verdict(p), later |-> {}, behind |-> FALSE]
  <1>1. new \in Report
    BY VerdictOutcome DEF Report
  <1>2. \A v \in Validators :
          /\ work'[v] \in Report \cup {None}
          /\ work'[v] # None =>
               \/ work'[v] = new
               \/ /\ work[v] # None
                  /\ work'[v].plan = work[v].plan /\ work'[v].outcome = work[v].outcome
    <2> TAKE v \in Validators
    <2>1. CASE v = w
      BY <1>1, <2>1 DEF Validated
    <2>2. CASE v # w /\ work[v] = None
      BY <2>2 DEF Validated
    <2>3. CASE v # w /\ work[v] # None
      <3>1. work[v] \in Report /\ work'[v] = [work[v] EXCEPT !.later = @ \cup {w}]
        BY <2>3 DEF Validated, IInv, TypeOK
      <3> QED BY <2>3, <3>1 DEF Report
    <2> QED BY <2>1, <2>2, <2>3
  <1>3. work' \in [Validators -> Report \cup {None}]
    BY <1>2 DEF Validated
  <1>4. Reports'
    <2> SUFFICES ASSUME NEW v \in Validators, work'[v] # None
                 PROVE  work'[v].outcome \in (IF work'[v].plan \in Repairs
                          THEN {"pending", "recovered", "failed"} ELSE {"watched"})
      BY DEF Reports
    <2>1. CASE work'[v] = new
      BY <2>1, VerdictOutcome
    <2>2. CASE work[v] # None /\ work'[v].plan = work[v].plan
               /\ work'[v].outcome = work[v].outcome
      BY <2>2 DEF IInv, Reports
    <2> QED BY <1>2, <2>1, <2>2
  <1> QED BY <1>3, <1>4 DEF WorkTypes

LEMMA ReleasedTypes ==
  ASSUME IInv, NEW w \in Validators, NEW stored \in BOOLEAN, work' = Released(w, stored)
  PROVE  WorkTypes'
  <1>1. \A v \in Validators :
          /\ work'[v] \in Report \cup {None}
          /\ work'[v] # None =>
               /\ work[v] # None
               /\ work'[v].plan = work[v].plan /\ work'[v].outcome = work[v].outcome
    <2> TAKE v \in Validators
    <2>1. CASE v = w \/ work[v] = None
      BY <2>1 DEF Released
    <2>2. CASE v # w /\ work[v] # None
      <3>1. /\ work[v] \in Report
            /\ work'[v] = [work[v] EXCEPT !.later = @ \ {w},
                                          !.behind = @ \/ (stored /\ w \in work[v].later)]
        BY <2>2 DEF Released, IInv, TypeOK
      <3> DEFINE late == work[v].behind \/ (stored /\ w \in work[v].later)
      <3>2. late \in BOOLEAN
        OBVIOUS
      <3>3. work'[v] = [work[v] EXCEPT !.later = @ \ {w}, !.behind = late]
        BY <3>1
      <3> HIDE DEF late
      <3> QED BY <2>2, <3>1, <3>2, <3>3 DEF Report
    <2> QED BY <2>1, <2>2
  <1>2. work' \in [Validators -> Report \cup {None}]
    BY <1>1 DEF Released
  <1> QED BY <1>1, <1>2 DEF IInv, Reports, WorkTypes

(* Steps that only take, drop or lose a report. *)
LEMMA WorkInv ==
  ASSUME IInv, NEW w \in Validators,
         \/ \E p \in Plans : Consume(w, p) \/ Replay(w, p)
         \/ Discard(w) \/ Crash(w)
  PROVE  IInv'
  <1> USE DEF planVars, otherVars
  <1>1. WorkTypes' /\ UNCHANGED <<incident, projection, planVars, recorded, otherVars>>
    <2>1. ASSUME NEW p \in Plans, Validated(w, p)
          PROVE  WorkTypes' /\ UNCHANGED <<incident, projection, planVars, recorded, otherVars>>
      BY <2>1, ValidatedTypes DEF Validated
    <2> QED BY <2>1, ReleasedTypes DEF Consume, Replay, Discard, Crash
  <1>2. TypeOK' /\ (assessment \in AssessmentRow)'
    BY <1>1 DEF IInv, TypeOK, WorkTypes
  <1>3. Lifecycles' /\ Reports' /\ ClosureJustified' /\ ProjectionInv'
    BY <1>1, ProjectionKept DEF IInv, Lifecycles, WorkTypes, ClosureJustified
  <1> QED BY <1>2, <1>3 DEF IInv

(* What a save stores: the new incident, or the closed one with more alerts. *)
LEMMA SavedIncident ==
  ASSUME IInv, NEW new \in Incident
  PROVE  /\ Saved(new) \in Incident
         /\ \/ Saved(new) = new /\ (new.status = "closed" \/ incident.status # "closed")
            \/ /\ incident.status = "closed" /\ new.status # "closed"
               /\ Saved(new).status = "closed" /\ Saved(new).lifecycle = incident.lifecycle
  <1>1. incident \in Incident
    BY DEF IInv, TypeOK
  <1>2. CASE incident.status = "closed" /\ new.status # "closed"
    <2> DEFINE n == IF new.alerts > incident.alerts THEN new.alerts ELSE incident.alerts
    <2>1. n \in 1..MaxAlerts /\ Saved(new) = [incident EXCEPT !.alerts = n]
      BY <1>1, <1>2 DEF Saved, Incident
    <2> HIDE DEF n
    <2> QED BY <1>1, <1>2, <2>1 DEF Incident
  <1>3. CASE ~(incident.status = "closed" /\ new.status # "closed")
    BY <1>3 DEF Saved
  <1> QED BY <1>2, <1>3

\* The status that an outcome gives the incident.
StatusOf(outcome) ==
  CASE outcome \in Closing -> "closed"
    [] outcome = "pending" -> "validating"
    [] outcome = "failed" -> "failed"

LEMMA RecordEffect ==
  ASSUME IInv, NEW w \in Validators, Record(w)
  PROVE  LET new == [incident EXCEPT !.status = StatusOf(work[w].outcome), !.lifecycle = Final(w)]
         IN  /\ new \in Incident
             /\ new.status = "closed" <=> work[w].outcome \in Closing
             /\ new.lifecycle = Final(w)
             /\ incident' = Saved(new)
             /\ projection' = Projected(new.status)
             /\ recorded' = recorded \cup {<<work[w].plan, work[w].outcome>>}
             /\ work[w] \in Report
  <1> DEFINE o == work[w].outcome
             new == [incident EXCEPT !.status = StatusOf(o), !.lifecycle = Final(w)]
  <1>1. work[w] \in Report /\ o \in Outcomes /\ incident \in Incident /\ Final(w) \in Lifecycle
    BY FinalLifecycle DEF Record, IInv, TypeOK, Report
  <1>2. /\ StatusOf(o) \in {"closed", "validating", "failed"}
        /\ StatusOf(o) = "closed" <=> o \in Closing
    BY <1>1 DEF StatusOf, Closing, Outcomes
  <1>3. /\ new \in Incident /\ new.status = StatusOf(o) /\ new.lifecycle = Final(w)
    BY <1>1, <1>2 DEF Incident
  <1>4. incident' = Saved(new) /\ projection' = Projected(StatusOf(o))
    BY DEF Record, StatusOf
  <1>5. recorded' = recorded \cup {<<work[w].plan, o>>}
    BY DEF Record
  <1> QED BY <1>1, <1>2, <1>3, <1>4, <1>5

(* An event that is the first of its kind closes the projection with the incident. *)
LEMMA ProjectedRow ==
  ASSUME IInv, NEW s
  PROVE  /\ Projected(s) \in ProjectionRow
         /\ Projected(s).closed = (projection.closed \/ (s = "closed" /\ ClosureEvents = {}))
  <1> DEFINE b == projection.closed \/ (s = "closed" /\ ClosureEvents = {})
  <1>1. projection \in ProjectionRow /\ b \in BOOLEAN
    BY DEF IInv, TypeOK, ProjectionRow
  <1>2. Projected(s) = [projection EXCEPT !.closed = b]
    BY DEF Projected
  <1> HIDE DEF b
  <1>3. Projected(s) \in ProjectionRow /\ Projected(s).closed = b
    BY <1>1, <1>2 DEF ProjectionRow
  <1> QED BY <1>3 DEF b

LEMMA RecordInv ==
  ASSUME IInv, NEW w \in Validators, Record(w)
  PROVE  IInv'
  <1> USE DEF planVars, otherVars
  <1> DEFINE p == work[w].plan
             o == work[w].outcome
             new == [incident EXCEPT !.status = StatusOf(o), !.lifecycle = Final(w)]
  <1>1. /\ new \in Incident /\ (new.status = "closed" <=> o \in Closing)
        /\ new.lifecycle = Final(w)
        /\ incident' = Saved(new) /\ projection' = Projected(new.status)
        /\ recorded' = recorded \cup {<<p, o>>} /\ p \in Plans /\ o \in Outcomes
    BY RecordEffect DEF Report
  <1>2. /\ Final(w) \in Lifecycle /\ Shaped(Final(w)) /\ Final(w).plan = p
        /\ o \in Closing => Final(w).state = "closed"
    BY FinalLifecycle DEF Record
  <1> HIDE DEF p, o, new
  <1>3. /\ incident' \in Incident
        /\ \/ incident' = new /\ (new.status = "closed" \/ incident.status # "closed")
           \/ /\ incident.status = "closed" /\ new.status # "closed"
              /\ incident'.status = "closed" /\ incident'.lifecycle = incident.lifecycle
    BY <1>1, SavedIncident
  <1>4. /\ projection' \in ProjectionRow
        /\ projection'.closed =
             (projection.closed \/ (new.status = "closed" /\ ClosureEvents = {}))
    BY <1>1, ProjectedRow
  <1>5. WorkTypes'
    BY ReleasedTypes DEF Record
  <1>6. TypeOK' /\ (assessment \in AssessmentRow)'
    <2>1. recorded' \subseteq (Plans \X Outcomes) \cup {ByOperator}
      BY <1>1 DEF IInv, TypeOK
    <2> QED BY <1>3, <1>4, <1>5, <2>1 DEF Record, IInv, TypeOK, WorkTypes, ProjectionRow
  <1>7. Lifecycles' /\ Reports'
    BY <1>1, <1>2, <1>3, <1>5 DEF Record, IInv, Lifecycles, Known, WorkTypes
  <1>8. ClosureJustified'
    <2>1. CASE incident' = new /\ new.status = "closed"
      <3>1. o = "recovered" \/ o = "watched"
        BY <1>1, <2>1 DEF Closing
      <3> QED BY <1>1, <1>2, <2>1, <3>1, Names DEF ClosureJustified
    <2>2. CASE incident' = new /\ new.status # "closed"
      BY <2>2 DEF ClosureJustified
    <2>3. CASE /\ incident.status = "closed" /\ incident'.lifecycle = incident.lifecycle
      BY <1>1, <2>3 DEF IInv, ClosureJustified
    <2> QED BY <1>3, <2>1, <2>2, <2>3
  <1>9. ProjectionInv'
    <2> DEFINE e == <<p, o>>
    <2>1. UNCHANGED <<approved, scene>> /\ e \notin recorded
      BY DEF Record, Admissible, p, o
    <2>2. CASE new.status = "closed"
      <3>1. e[2] # "pending"
        BY <1>1, <2>2 DEF Closing
      <3>2. incident'.status = "closed"
        BY <1>3, <2>2
      <3>3. projection'.closed = (projection.closed \/ ClosureEvents = {})
        BY <1>4, <2>2
      <3>4. recorded' = recorded \cup {e}
        BY <1>1
      <3> HIDE DEF e
      <3> QED BY <2>1, <3>1, <3>2, <3>3, <3>4, ProjectionClosed
    <2>3. CASE new.status # "closed"
      <3>1. projection'.closed = projection.closed
        BY <1>4, <2>3 DEF IInv, TypeOK
      <3>2. incident'.status = "closed" <=> incident.status = "closed"
        BY <1>3, <2>3
      <3>3. recorded \subseteq recorded' /\ (ByOperator \in recorded' => ByOperator \in recorded)
        BY <1>1, Names DEF ByOperator
      <3> QED BY <2>1, <3>1, <3>2, <3>3, ProjectionKept
    <2> QED BY <2>2, <2>3
  <1> QED BY <1>6, <1>7, <1>8, <1>9 DEF IInv

-----------------------------------------------------------------------------
(* The other writers.                                                      *)

LEMMA CopyInv ==
  ASSUME IInv, TakeCopy \/ SaveCopy
  PROVE  IInv'
  <1> USE DEF planVars, otherVars
  <1>1. CASE TakeCopy
    <2>1. copy' \in Incident /\ copy'.lifecycle = incident.lifecycle /\ copy'.status # "closed"
      <3>1. incident.alerts + 1 \in 1..MaxAlerts
        BY <1>1 DEF TakeCopy, IInv, TypeOK, Incident, MaxAlerts
      <3>2. copy' = [incident EXCEPT !.alerts = incident.alerts + 1]
        BY <1>1 DEF TakeCopy, IInv, TypeOK, Incident
      <3> QED BY <1>1, <3>1, <3>2 DEF TakeCopy, IInv, TypeOK, Incident
    <2>2. TypeOK' /\ (assessment \in AssessmentRow)'
      BY <1>1, <2>1 DEF TakeCopy, IInv, TypeOK
    <2>3. Lifecycles' /\ Reports' /\ ClosureJustified' /\ ProjectionInv'
      BY <1>1, <2>1, ProjectionKept
      DEF TakeCopy, IInv, Lifecycles, Reports, ClosureJustified
    <2> QED BY <2>2, <2>3 DEF IInv
  <1>2. CASE SaveCopy
    <2>1. copy \in Incident /\ copy.lifecycle \in Known /\ copy.status # "closed"
      BY <1>2 DEF SaveCopy, IInv, TypeOK, Lifecycles
    <2>2. /\ incident' \in Incident
          /\ \/ incident' = copy /\ incident.status # "closed"
             \/ /\ incident.status = "closed"
                /\ incident'.status = "closed" /\ incident'.lifecycle = incident.lifecycle
      BY <1>2, <2>1, SavedIncident DEF SaveCopy
    <2>3. TypeOK' /\ (assessment \in AssessmentRow)'
      BY <1>2, <2>2 DEF SaveCopy, IInv, TypeOK
    <2>4. Lifecycles' /\ Reports'
      BY <1>2, <2>1, <2>2 DEF SaveCopy, IInv, Lifecycles, Reports
    <2>5. ClosureJustified' /\ ProjectionInv'
      BY <1>2, <2>1, <2>2, ProjectionKept DEF SaveCopy, IInv, ClosureJustified
    <2> QED BY <2>3, <2>4, <2>5 DEF IInv
  <1> QED BY <1>1, <1>2

(* A step that closes incident and projection with a known lifecycle of an operator. *)
LEMMA ClosedByOperator ==
  ASSUME IInv, NEW l \in Lifecycle, Shaped(l), l.state = "closed", l.actor = "operator",
         incident' = [incident EXCEPT !.status = "closed", !.lifecycle = l],
         projection' = Projected("closed"),
         desk' \in [Operators -> [lifecycle : Lifecycle \cup {None}] \cup {None}],
         \A m \in Operators : desk'[m] # None => desk'[m].lifecycle \in Known,
         assessment' \in AssessmentRow,
         evaluation' \in [Assessors -> {"idle", "collecting", "verified"}],
         recorded' = recorded \cup {ByOperator},
         UNCHANGED <<planVars, work, scene, copy>>
  PROVE  IInv'
  <1> USE DEF planVars
  <1>1. /\ incident' \in Incident /\ incident'.status = "closed" /\ incident'.lifecycle = l
    BY DEF IInv, TypeOK, Incident
  <1>2. /\ projection' \in ProjectionRow
        /\ projection'.closed = (projection.closed \/ ClosureEvents = {})
    BY ProjectedRow
  <1>3. TypeOK'
    BY <1>1, <1>2 DEF IInv, TypeOK, ProjectionRow, AssessmentRow
  <1>4. Lifecycles' /\ Reports'
    BY <1>1 DEF IInv, Lifecycles, Reports, Known
  <1>5. ClosureJustified'
    BY <1>1, Names DEF ClosureJustified
  <1>6. ProjectionInv'
    <2>1. ByOperator[2] # "pending"
      BY DEF ByOperator
    <2> QED BY <1>1, <1>2, <2>1, ProjectionClosed
  <1> QED BY <1>3, <1>4, <1>5, <1>6 DEF IInv

(* The lifecycle of an incident that never had one. *)
LEMMA OwnLifecycle ==
  LET l == [plan |-> None, state |-> "closed", version |-> 2, actor |-> "operator"]
  IN  l \in Lifecycle /\ Shaped(l)
  BY Names, PlansAssumption DEF Lifecycle, Shaped, Handed, Plans

(* What an operator makes of a lifecycle that may be closed. *)
LEMMA OperatorLifecycle ==
  ASSUME NEW l \in Lifecycle, Shaped(l), Closable(l)
  PROVE  LET new == IF l.state = "closed" THEN [l EXCEPT !.actor = "operator"]
                    ELSE Advanced(l, "closed", "operator")
         IN  /\ new \in Lifecycle /\ Shaped(new)
             /\ new.state = "closed" /\ new.actor = "operator"
             /\ new.plan = l.plan /\ new.version >= l.version
  <1>1. CASE l.state = "closed"
    BY <1>1 DEF Lifecycle, Shaped
  <1>2. CASE l.state # "closed"
    <2>1. l.state = "failed_retryable" /\ l.version \in {Handed + 1, Handed + 2}
      BY <1>2, Names DEF Closable, Shaped
    <2> QED BY <1>2, <2>1, AdvancedLifecycle DEF Shaped, Handed, Lifecycle
  <1> QED BY <1>1, <1>2

(* What a manual closure stores. *)
LEMMA ManualEffect ==
  ASSUME IInv, NEW m \in Operators, ManualClose(m)
  PROVE  \E l \in Lifecycle :
           /\ Shaped(l) /\ l.state = "closed" /\ l.actor = "operator"
           /\ incident' = [incident EXCEPT !.status = "closed", !.lifecycle = l]
           /\ incident.lifecycle # None =>
                l.plan = incident.lifecycle.plan /\ l.version >= incident.lifecycle.version
  <1> DEFINE seen == desk[m].lifecycle
             current == incident.lifecycle
  <1>1. seen \in Known /\ current \in Known
    BY DEF ManualClose, IInv, Lifecycles
  <1>2. PICK basis \in ManualBases(seen) :
          /\ Closable(basis)
          /\ incident' = [incident EXCEPT !.status = "closed", !.lifecycle =
               IF basis = None
               THEN [plan |-> None, state |-> "closed", version |-> 2, actor |-> "operator"]
               ELSE IF basis.state = "closed" THEN [basis EXCEPT !.actor = "operator"]
               ELSE Advanced(basis, "closed", "operator")]
    BY DEF ManualClose
  <1>3. basis \in {seen, current} /\ (basis = current => basis = seen \/ current # None)
    BY <1>2 DEF ManualBases
  <1>4. current # None => /\ basis # None
                          /\ basis.plan = current.plan /\ basis.version >= current.version
    <2> SUFFICES ASSUME current # None
                 PROVE  /\ basis # None
                        /\ basis.plan = current.plan /\ basis.version >= current.version
      OBVIOUS
    <2>1. seen # None /\ seen.plan = current.plan /\ seen.version >= current.version
      BY DEF ManualClose, Stale
    <2>2. current.version \in Nat
      BY <1>1 DEF Known, Lifecycle
    <2> QED BY <1>3, <2>1, <2>2
  <1>5. CASE basis = None
    <2> DEFINE own == [plan |-> None, state |-> "closed", version |-> 2, actor |-> "operator"]
    <2>1. own \in Lifecycle /\ Shaped(own) /\ own.state = "closed" /\ own.actor = "operator"
      BY OwnLifecycle
    <2>2. incident' = [incident EXCEPT !.status = "closed", !.lifecycle = own]
      BY <1>2, <1>5
    <2> QED BY <1>4, <1>5, <2>1, <2>2
  <1>6. CASE basis # None
    <2> DEFINE l == IF basis.state = "closed" THEN [basis EXCEPT !.actor = "operator"]
                    ELSE Advanced(basis, "closed", "operator")
    <2>1. basis \in Lifecycle /\ Shaped(basis)
      BY <1>1, <1>3, <1>6 DEF Known
    <2>2. /\ l \in Lifecycle /\ Shaped(l) /\ l.state = "closed" /\ l.actor = "operator"
          /\ l.plan = basis.plan /\ l.version >= basis.version
      BY <1>2, <2>1, OperatorLifecycle
    <2>3. incident' = [incident EXCEPT !.status = "closed", !.lifecycle = l]
      BY <1>2, <1>6
    <2>4. current # None => current.version \in Nat /\ basis.version \in Nat /\ l.version \in Nat
      BY <1>1, <2>1, <2>2 DEF Known, Lifecycle
    <2> HIDE DEF l
    <2>5. current # None => l.plan = current.plan /\ l.version >= current.version
      BY <1>4, <2>2, <2>4
    <2> QED BY <2>2, <2>3, <2>5
  <1> QED BY <1>5, <1>6

LEMMA ManualInv ==
  ASSUME IInv, NEW m \in Operators, ManualCheck(m) \/ ManualClose(m) \/ ManualRefused(m)
  PROVE  IInv'
  <1> USE DEF planVars, otherVars
  <1>1. /\ desk' \in [Operators -> [lifecycle : Lifecycle \cup {None}] \cup {None}]
        /\ \A n \in Operators : desk'[n] # None => desk'[n].lifecycle \in Known
    <2>1. CASE ManualCheck(m)
      <3>1. incident.lifecycle \in Known /\ incident.lifecycle \in Lifecycle \cup {None}
        BY DEF IInv, Lifecycles, Known
      <3> QED BY <2>1, <3>1 DEF ManualCheck, IInv, TypeOK, Lifecycles
    <2>2. CASE ManualClose(m) \/ ManualRefused(m)
      BY <2>2 DEF ManualClose, ManualRefused, IInv, TypeOK, Lifecycles
    <2> QED BY <2>1, <2>2
  <1>2. CASE ManualClose(m)
    <2>1. PICK l \in Lifecycle :
            /\ Shaped(l) /\ l.state = "closed" /\ l.actor = "operator"
            /\ incident' = [incident EXCEPT !.status = "closed", !.lifecycle = l]
      BY <1>2, ManualEffect
    <2>2. /\ projection' = Projected("closed") /\ recorded' = recorded \cup {ByOperator}
          /\ UNCHANGED <<planVars, work, scene, copy, assessment, evaluation>>
      BY <1>2 DEF ManualClose
    <2>3. /\ assessment' \in AssessmentRow
          /\ evaluation' \in [Assessors -> {"idle", "collecting", "verified"}]
      BY <2>2 DEF IInv, TypeOK
    <2> QED BY <1>1, <2>1, <2>2, <2>3, ClosedByOperator
  <1>3. CASE ManualCheck(m) \/ ManualRefused(m)
    <2>1. UNCHANGED <<incident, projection, planVars, work, recorded, scene, copy, assessment,
                      evaluation>>
      BY <1>3 DEF ManualCheck, ManualRefused
    <2>2. TypeOK' /\ (assessment \in AssessmentRow)'
      BY <1>1, <2>1 DEF IInv, TypeOK
    <2>3. Lifecycles' /\ Reports' /\ ClosureJustified' /\ ProjectionInv'
      BY <1>1, <2>1, ProjectionKept DEF IInv, Lifecycles, Reports, ClosureJustified
    <2> QED BY <2>2, <2>3 DEF IInv
  <1> QED BY <1>2, <1>3

-----------------------------------------------------------------------------
(* The assessment.                                                         *)

(* Steps that move the assessment and its evaluations only. *)
LEMMA AssessmentMoves ==
  ASSUME IInv, assessment' \in AssessmentRow,
         evaluation' \in [Assessors -> {"idle", "collecting", "verified"}],
         UNCHANGED <<incident, projection, recorded, assessmentRest>>
  PROVE  IInv'
  <1> USE DEF planVars, assessmentRest
  <1>1. TypeOK' /\ (assessment \in AssessmentRow)'
    BY DEF IInv, TypeOK, AssessmentRow
  <1>2. Lifecycles' /\ Reports' /\ ClosureJustified' /\ ProjectionInv'
    BY ProjectionKept DEF IInv, Lifecycles, Reports, ClosureJustified
  <1> QED BY <1>1, <1>2 DEF IInv

(* What an assessment is bound to is a context. *)
LEMMA BindingContext ==
  ASSUME IInv, incident.status # "closed"
  PROVE  Binding \in Context
  BY DEF Binding, Context, IInv, TypeOK, Incident, Plans

LEMMA AssessmentSteps ==
  ASSUME IInv,
         \/ RequestAssessment \/ Overdue
         \/ \E e \in Assessors : Evaluate(e) \/ Collect(e) \/ RefuseAssessed(e)
  PROVE  IInv'
  <1>1. /\ assessment \in AssessmentRow
        /\ evaluation \in [Assessors -> {"idle", "collecting", "verified"}]
    BY DEF IInv, TypeOK
  <1>2. CASE RequestAssessment
    <2>1. assessment' \in AssessmentRow
      BY <1>2, BindingContext DEF RequestAssessment, Eligible, AssessmentRow
    <2> QED BY <1>1, <1>2, <2>1, AssessmentMoves DEF RequestAssessment
  <1>3. CASE Overdue
    <2>1. assessment' \in AssessmentRow
      BY <1>1, <1>3 DEF Overdue, AssessmentRow
    <2> QED BY <1>1, <1>3, <2>1, AssessmentMoves DEF Overdue
  <1>4. ASSUME NEW e \in Assessors, Evaluate(e) PROVE IInv'
    <2>1. assessment' \in AssessmentRow
      BY <1>1, <1>4 DEF Evaluate, AssessmentRow
    <2>2. evaluation' \in [Assessors -> {"idle", "collecting", "verified"}]
      BY <1>1, <1>4 DEF Evaluate
    <2> QED BY <1>4, <2>1, <2>2, AssessmentMoves DEF Evaluate
  <1>5. ASSUME NEW e \in Assessors, Collect(e) PROVE IInv'
    <2>1. evaluation' \in [Assessors -> {"idle", "collecting", "verified"}]
      <3>1. PICK result \in {"verified", "idle"} :
                   evaluation' = [evaluation EXCEPT ![e] = result]
        BY <1>5 DEF Collect
      <3> QED BY <1>1, <3>1
    <2> QED BY <1>1, <1>5, <2>1, AssessmentMoves DEF Collect
  <1>6. ASSUME NEW e \in Assessors, RefuseAssessed(e) PROVE IInv'
    <2>1. assessment' \in AssessmentRow
      BY <1>1, <1>6 DEF RefuseAssessed, AssessmentRow
    <2>2. evaluation' \in [Assessors -> {"idle", "collecting", "verified"}]
      BY <1>1, <1>6 DEF RefuseAssessed
    <2> QED BY <1>6, <2>1, <2>2, AssessmentMoves DEF RefuseAssessed
  <1> QED BY <1>2, <1>3, <1>4, <1>5, <1>6

(* A verified assessment closes what it was bound to: the incident as it is. *)
LEMMA AssessedEffect ==
  ASSUME IInv, NEW e \in Assessors, CloseAssessed(e)
  PROVE  \E l \in Lifecycle :
           /\ Shaped(l) /\ l.state = "closed" /\ l.actor = "operator"
           /\ incident' = [incident EXCEPT !.status = "closed", !.lifecycle = l]
           /\ Closable(incident.lifecycle)
           /\ incident.lifecycle # None =>
                l.plan = incident.lifecycle.plan /\ l.version >= incident.lifecycle.version
  <1> DEFINE current == incident.lifecycle
  <1>1. /\ assessment.binding.lifecycle = current /\ Closable(current) /\ current \in Known
        /\ incident' = [incident EXCEPT !.status = "closed", !.lifecycle = Assessed]
    BY DEF CloseAssessed, Confirmed, Eligible, Binding, IInv, Lifecycles
  <1>2. CASE current = None
    BY <1>1, <1>2, OwnLifecycle DEF Assessed
  <1>3. CASE current # None
    <2> DEFINE l == IF current.state = "closed" THEN [current EXCEPT !.actor = "operator"]
                    ELSE Advanced(current, "closed", "operator")
    <2>1. Assessed = l
      BY <1>1, <1>3 DEF Assessed
    <2>2. /\ l \in Lifecycle /\ Shaped(l) /\ l.state = "closed" /\ l.actor = "operator"
          /\ l.plan = current.plan /\ l.version >= current.version
      BY <1>1, <1>3, OperatorLifecycle DEF Known
    <2> HIDE DEF l
    <2> QED BY <1>1, <2>1, <2>2
  <1> QED BY <1>2, <1>3

LEMMA CloseAssessedInv ==
  ASSUME IInv, NEW e \in Assessors, CloseAssessed(e)
  PROVE  IInv'
  <1> USE DEF planVars, assessmentRest
  <1>1. PICK l \in Lifecycle :
          /\ Shaped(l) /\ l.state = "closed" /\ l.actor = "operator"
          /\ incident' = [incident EXCEPT !.status = "closed", !.lifecycle = l]
    BY AssessedEffect
  <1>2. /\ projection' = Projected("closed") /\ recorded' = recorded \cup {ByOperator}
        /\ UNCHANGED <<planVars, work, scene, copy, desk>>
    BY DEF CloseAssessed
  <1>3. /\ desk' \in [Operators -> [lifecycle : Lifecycle \cup {None}] \cup {None}]
        /\ \A n \in Operators : desk'[n] # None => desk'[n].lifecycle \in Known
    BY <1>2 DEF IInv, TypeOK, Lifecycles
  <1>4. assessment' \in AssessmentRow
    BY DEF CloseAssessed, IInv, AssessmentRow
  <1>5. evaluation' \in [Assessors -> {"idle", "collecting", "verified"}]
    BY DEF CloseAssessed, IInv, TypeOK
  <1> QED BY <1>1, <1>2, <1>3, <1>4, <1>5, ClosedByOperator

-----------------------------------------------------------------------------
(* The invariant.                                                          *)

LEMMA InitIInv == Init => IInv
  <1> SUFFICES ASSUME Init PROVE IInv
    OBVIOUS
  <1>1. New \in Incident /\ New.status # "closed" /\ New.lifecycle = None
    BY DEF New, Incident, MaxAlerts
  <1>2. TypeOK /\ assessment \in AssessmentRow
    BY <1>1 DEF Init, TypeOK, AssessmentRow, IsInjective
  <1>3. Lifecycles
    BY <1>1 DEF Init, Lifecycles, Known
  <1>4. Reports /\ ClosureJustified /\ ProjectionInv
    BY <1>1 DEF Init, Reports, ClosureJustified, ProjectionInv, ProjectionNotAhead, Reopenable
  <1> QED BY <1>2, <1>3, <1>4 DEF IInv

(* The steps of the system, by what they write. *)
LEMMA StepKinds ==
  ASSUME [Next]_vars
  PROVE  \/ \E p \in Plans : PlanStep(p)
         \/ \E w \in Validators :
              \/ \E p \in Plans : Consume(w, p) \/ Replay(w, p)
              \/ Discard(w) \/ Crash(w)
         \/ \E w \in Validators : Record(w)
         \/ TakeCopy \/ SaveCopy
         \/ \E m \in Operators : ManualCheck(m) \/ ManualClose(m) \/ ManualRefused(m)
         \/ RequestAssessment \/ Overdue
         \/ \E e \in Assessors : Evaluate(e) \/ Collect(e) \/ RefuseAssessed(e)
         \/ \E e \in Assessors : CloseAssessed(e)
         \/ UNCHANGED vars
  BY DEF Next, Decide, PlanStep

LEMMA StepIInv == IInv /\ [Next]_vars => IInv'
  <1> SUFFICES ASSUME IInv, [Next]_vars PROVE IInv'
    OBVIOUS
  <1>1. CASE UNCHANGED vars
    <2> USE <1>1 DEF vars, planVars, otherVars
    <2>1. TypeOK' /\ (assessment \in AssessmentRow)'
      BY DEF IInv, TypeOK
    <2>2. Lifecycles' /\ Reports' /\ ClosureJustified' /\ ProjectionInv'
      BY ProjectionKept DEF IInv, Lifecycles, Reports, ClosureJustified
    <2> QED BY <2>1, <2>2 DEF IInv
  <1> QED
    BY <1>1, StepKinds, PlanInv, WorkInv, RecordInv, CopyInv, ManualInv, AssessmentSteps,
       CloseAssessedInv

LEMMA IInvAlways == Spec => []IInv
  <1> QED BY InitIInv, StepIInv, PTL DEF Spec

-----------------------------------------------------------------------------
(* The theorems.                                                           *)

(* Types, and with them the bounds of what is written: no lifecycle passes through *)
(* more than three versions after it was handed over.                               *)
THEOREM TypesHold == Spec => []TypeOK
  <1>1. IInv => TypeOK
    BY DEF IInv
  <1> QED BY <1>1, IInvAlways, PTL

(* A closed incident is closed by an operator, or on a durable report of the very plan *)
(* its lifecycle names, whoever overlaps with the validator that wrote it.              *)
THEOREM ClosuresAreJustified == Spec => []ClosureJustified
  <1>1. IInv => ClosureJustified
    BY DEF IInv
  <1> QED BY <1>1, IInvAlways, PTL

(* The projection is never closed without its incident, and stays open behind a closed    *)
(* incident only where the event of the closure was not the first, although validators,     *)
(* operators and assessments close and decisions reopen in any order.                       *)
THEOREM ProjectionFollows == Spec => []ProjectionNotAhead
  <1>1. IInv => ProjectionNotAhead
    BY DEF IInv, ProjectionInv
  <1> QED BY <1>1, IInvAlways, PTL

\* A closed incident stays closed unless somebody decides.
ClosureKept == incident.status = "closed" /\ incident'.status # "closed" => Decide

\* A lifecycle is replaced by one of its plan that is not older, or by a stale save.
LifecycleKept ==
  incident.lifecycle \notin {None, incident'.lifecycle} =>
    \/ SaveCopy
    \/ /\ incident'.lifecycle.plan = incident.lifecycle.plan
       /\ incident'.lifecycle.version >= incident.lifecycle.version

(* The steps that write to the incident, and how. *)
LEMMA IncidentSteps ==
  ASSUME IInv, [Next]_vars
  PROVE  \/ UNCHANGED incident
         \/ Decide /\ incident'.lifecycle = incident.lifecycle
         \/ /\ SaveCopy
            /\ incident.status = "closed" => incident'.status = "closed"
         \/ \E w \in Validators :
              /\ Record(w)
              /\ incident.status = "closed" => incident'.status = "closed"
              /\ \/ incident'.lifecycle = incident.lifecycle
                 \/ incident'.lifecycle = Final(w)
         \/ \E l \in Lifecycle :
              /\ \/ \E m \in Operators : ManualClose(m)
                 \/ Closable(incident.lifecycle)
              /\ l.state = "closed" /\ l.actor = "operator"
              /\ incident'.status = "closed" /\ incident'.lifecycle = l
              /\ incident.lifecycle # None =>
                   l.plan = incident.lifecycle.plan /\ l.version >= incident.lifecycle.version
  <1>1. incident \in Incident
    BY DEF IInv, TypeOK
  <1>2. ASSUME NEW p \in Plans, PlanStep(p)
        PROVE  UNCHANGED incident \/ (Decide /\ incident'.lifecycle = incident.lifecycle)
    BY <1>1, <1>2, PlanEffect DEF Reopened, Decide, Incident
  <1>3. ASSUME NEW w \in Validators, Record(w)
        PROVE  /\ incident.status = "closed" => incident'.status = "closed"
               /\ incident'.lifecycle \in {incident.lifecycle, Final(w)}
    <2> DEFINE new == [incident EXCEPT !.status = StatusOf(work[w].outcome),
                                       !.lifecycle = Final(w)]
    <2>1. new \in Incident /\ new.lifecycle = Final(w) /\ incident' = Saved(new)
      BY <1>3, RecordEffect
    <2> HIDE DEF new
    <2> QED BY <2>1, SavedIncident
  <1>4. CASE SaveCopy
    <2>1. copy \in Incident
      BY <1>4 DEF SaveCopy, IInv, TypeOK
    <2>2. incident.status = "closed" => incident'.status = "closed"
      BY <1>4, <2>1, SavedIncident DEF SaveCopy
    <2> QED BY <1>4, <2>2
  <1>5. ASSUME NEW l \in Lifecycle,
               incident' = [incident EXCEPT !.status = "closed", !.lifecycle = l]
        PROVE  incident'.status = "closed" /\ incident'.lifecycle = l
    BY <1>1, <1>5 DEF Incident
  <1>6. ASSUME NEW m \in Operators, ManualClose(m)
        PROVE  \E l \in Lifecycle :
                 /\ l.state = "closed" /\ l.actor = "operator"
                 /\ incident'.status = "closed" /\ incident'.lifecycle = l
                 /\ incident.lifecycle # None =>
                      /\ l.plan = incident.lifecycle.plan
                      /\ l.version >= incident.lifecycle.version
    BY <1>5, <1>6, ManualEffect
  <1>7. ASSUME NEW e \in Assessors, CloseAssessed(e)
        PROVE  \E l \in Lifecycle :
                 /\ l.state = "closed" /\ l.actor = "operator" /\ Closable(incident.lifecycle)
                 /\ incident'.status = "closed" /\ incident'.lifecycle = l
                 /\ incident.lifecycle # None =>
                      /\ l.plan = incident.lifecycle.plan
                      /\ l.version >= incident.lifecycle.version
    BY <1>5, <1>7, AssessedEffect
  <1>8. ASSUME \/ \E w \in Validators :
                    \/ \E p \in Plans : Consume(w, p) \/ Replay(w, p)
                    \/ Discard(w) \/ Crash(w)
               \/ TakeCopy \/ RequestAssessment \/ Overdue
               \/ \E m \in Operators : ManualCheck(m) \/ ManualRefused(m)
               \/ \E e \in Assessors : Evaluate(e) \/ Collect(e) \/ RefuseAssessed(e)
               \/ UNCHANGED vars
        PROVE  UNCHANGED incident
    BY <1>8
    DEF Consume, Replay, Validated, Discard, Crash, TakeCopy, RequestAssessment, Overdue,
        ManualCheck, ManualRefused, Evaluate, Collect, RefuseAssessed, vars
  <1> QED BY <1>2, <1>3, <1>4, <1>6, <1>7, <1>8, StepKinds

(* Nothing but a decision reopens a closed incident. *)
THEOREM ClosureIsKept == Spec => ClosedStays
  <1>1. IInv /\ [Next]_vars => [ClosureKept]_vars
    BY IncidentSteps DEF ClosureKept
  <1> QED BY <1>1, IInvAlways, PTL DEF Spec, ClosedStays, ClosureKept

(* No report of another plan, and no older one, replaces the incident's lifecycle: the *)
(* transaction compares them under the lock, and of equals it keeps the later written.  *)
THEOREM LifecyclesGoForward == Spec => LifecycleForward
  <1>1. IInv /\ [Next]_vars => [LifecycleKept]_vars
    <2> SUFFICES ASSUME IInv, [Next]_vars PROVE LifecycleKept
      OBVIOUS
    <2>1. ASSUME NEW w \in Validators, Record(w), incident'.lifecycle = Final(w)
          PROVE  LifecycleKept
      BY <2>1, FinalLifecycle DEF Record, LifecycleKept
    <2> QED BY <2>1, IncidentSteps DEF LifecycleKept
  <1> QED BY <1>1, IInvAlways, PTL DEF Spec, LifecycleForward, LifecycleKept

-----------------------------------------------------------------------------
(* The stability window.                                                   *)

Pends(v, p) == work[v] # None /\ work[v].plan = p /\ work[v].outcome = "pending"
Settles(v, p) == work[v] # None /\ work[v].plan = p /\ work[v].outcome # "pending"

\* A window that is over does not begin again: who still holds the report of an open
\* window was overtaken by the one that saw its end.
Overtaken ==
  \A p \in Repairs, v \in Validators : Settles(v, p) =>
    /\ observation[p] # "warming"
    /\ \A u \in Validators : Pends(u, p) => v \in work[u].later

\* A failure of this execution outdates the reports of its window.
FailureKnown ==
  LET l == incident.lifecycle
  IN  l # None /\ l.state = "failed_retryable" /\ l.version = Handed + 1 =>
        /\ l.plan \in Repairs /\ observation[l.plan] # "warming"
        /\ \A v \in Validators : Pends(v, l.plan) => work[v].behind

\* No window has opened since an operator's check.
CheckHolds ==
  \A m \in Operators : desk[m] # None /\ desk[m].lifecycle # None =>
    incident.lifecycle # None /\ incident.lifecycle.state # "pending_stability"

Windows ==
  Overtaken /\ ("alert" \notin scene => copy = None /\ FailureKnown /\ CheckHolds)

(* What the transaction of a report does to the lifecycle and the status. *)
LEMMA RecordedLifecycle ==
  ASSUME IInv, NEW w \in Validators, Record(w)
  PROVE  \/ incident.status = "closed" /\ incident'.lifecycle = incident.lifecycle
         \/ /\ incident'.lifecycle = Final(w)
            /\ incident'.status = "closed" <=> work[w].outcome \in Closing
  <1> DEFINE new == [incident EXCEPT !.status = StatusOf(work[w].outcome),
                                     !.lifecycle = Final(w)]
  <1>1. /\ new \in Incident /\ new.lifecycle = Final(w) /\ incident' = Saved(new)
        /\ new.status = "closed" <=> work[w].outcome \in Closing
    BY RecordEffect
  <1> HIDE DEF new
  <1> QED BY <1>1, SavedIncident

(* The report of a window, where it opens no window: the failure it is behind stays. *)
LEMMA LateWindow ==
  ASSUME IInv, FailureKnown, NEW w \in Validators, work[w] # None, Admissible(w),
         work[w].outcome = "pending",
         incident.lifecycle # None, incident.lifecycle.state # "pending_stability"
  PROVE  Final(w) = incident.lifecycle
  <1> DEFINE p == work[w].plan
             l == incident.lifecycle
  <1>1. /\ work[w] \in Report /\ p \in Repairs /\ l \in Lifecycle /\ Shaped(l)
    <2>1. work[w] \in Report /\ p \in Repairs
      BY DEF IInv, TypeOK, Reports
    <2> QED BY <2>1 DEF IInv, Lifecycles, Known
  <1>2. /\ Reported(p, "pending").plan = p /\ Reported(p, "pending").version = Handed + 1
    BY <1>1, ReportedLifecycle
  <1>3. l.plan = p /\ Handed + 1 >= l.version
    <2>1. ~Stale(l, Reported(p, "pending"))
      BY DEF Admissible
    <2> QED BY <1>2, <2>1 DEF Stale
  <1>4. l.state = "failed_retryable" /\ l.version = Handed + 1
    BY <1>1, <1>3 DEF Shaped, Handed, Lifecycle
  <1>5. work[w].behind
    BY <1>1, <1>3, <1>4 DEF FailureKnown, Pends
  <1>6. Basis(w) = l
    BY <1>2, <1>4, <1>5 DEF Basis
  <1> QED BY <1>6 DEF Final, Closing

(* Once an incident has a lifecycle that is not in its window, no report opens one. *)
LEMMA NoNewWindow ==
  ASSUME IInv, FailureKnown, NEW w \in Validators, Record(w),
         incident.lifecycle # None, incident.lifecycle.state # "pending_stability"
  PROVE  incident'.lifecycle # None /\ incident'.lifecycle.state # "pending_stability"
  <1>1. CASE incident'.lifecycle = incident.lifecycle
    BY <1>1
  <1>2. CASE incident'.lifecycle = Final(w)
    <2>1. work[w].outcome \in Outcomes
      BY DEF Record, IInv, TypeOK, Report
    <2>2. CASE work[w].outcome = "pending"
      BY <1>2, <2>2, LateWindow DEF Record
    <2>3. CASE work[w].outcome # "pending"
      BY <1>2, <2>1, <2>3, FinalLifecycle, Names DEF Record, Outcomes, Closing
    <2> QED BY <2>2, <2>3
  <1> QED BY <1>1, <1>2, RecordedLifecycle

LEMMA ValidatedWindows ==
  ASSUME IInv, Windows, NEW w \in Validators, NEW p \in Plans, Validated(w, p)
  PROVE  Windows'
  <1> USE DEF planVars, otherVars
  <1>1. \A v \in Validators :
          /\ v = w => work'[v].plan = p /\ work'[v].outcome = Verdict(p) /\ work[v] = None
          /\ v # w /\ work[v] = None => work'[v] = None
          /\ v # w /\ work[v] # None =>
               /\ work'[v].plan = work[v].plan /\ work'[v].outcome = work[v].outcome
               /\ work'[v].behind = work[v].behind
               /\ work'[v].later = work[v].later \cup {w}
    <2> TAKE v \in Validators
    <2>1. CASE v = w
      BY <2>1 DEF Validated
    <2>2. CASE v # w /\ work[v] = None
      BY <2>2 DEF Validated
    <2>3. CASE v # w /\ work[v] # None
      <3>1. work[v] \in Report /\ work'[v] = [work[v] EXCEPT !.later = @ \cup {w}]
        BY <2>3 DEF Validated, IInv, TypeOK
      <3> QED BY <2>3, <3>1 DEF Report
    <2> QED BY <2>1, <2>2, <2>3
  <1>2. /\ UNCHANGED <<incident, observation, scene, copy, desk>>
    BY DEF Validated
  <1>3. p \in Repairs => (Verdict(p) = "pending" <=> observation[p] = "warming")
    <2> SUFFICES ASSUME p \in Repairs PROVE Verdict(p) = "pending" <=> observation[p] = "warming"
      OBVIOUS
    <2>1. observation[p] \in {"warming", "passed", "failed"} /\ p \notin Watches
      BY Names DEF IInv, TypeOK
    <2>2. Verdict(p) =
            [warming |-> "pending", passed |-> "recovered", failed |-> "failed"][observation[p]]
      BY <2>1 DEF Verdict
    <2> QED BY <2>1, <2>2
  <1>4. \A v \in Validators, q \in Repairs :
          /\ Pends(v, q)' => (v # w /\ Pends(v, q)) \/ (v = w /\ q = p /\ observation[p] = "warming")
          /\ Settles(v, q)' => (v # w /\ Settles(v, q)) \/ (v = w /\ q = p /\ observation[p] # "warming")
    BY <1>1, <1>3 DEF Pends, Settles
  <1>5. Overtaken'
    <2> SUFFICES ASSUME NEW q \in Repairs, NEW v \in Validators, Settles(v, q)'
                 PROVE  /\ observation'[q] # "warming"
                        /\ \A u \in Validators : Pends(u, q)' => v \in work'[u].later
      BY DEF Overtaken, Pends, Settles
    <2>1. observation'[q] # "warming"
      BY <1>2, <1>4 DEF Windows, Overtaken
    <2>2. ASSUME NEW u \in Validators, Pends(u, q)' PROVE v \in work'[u].later
      <3>1. u # w /\ Pends(u, q)
        BY <1>2, <1>4, <2>1, <2>2
      <3>2. v = w \/ v \in work[u].later
        BY <1>4, <3>1 DEF Windows, Overtaken
      <3> QED BY <1>1, <3>1, <3>2 DEF Pends
    <2> QED BY <2>1, <2>2
  <1>6. FailureKnown => FailureKnown'
    <2> SUFFICES ASSUME FailureKnown, NEW v \in Validators,
                        incident.lifecycle # None,
                        incident.lifecycle.state = "failed_retryable",
                        incident.lifecycle.version = Handed + 1,
                        Pends(v, incident.lifecycle.plan)'
                 PROVE  work'[v].behind
      BY <1>2 DEF FailureKnown, Pends
    <2>1. v # w /\ Pends(v, incident.lifecycle.plan)
      BY <1>2, <1>4 DEF FailureKnown
    <2> QED BY <1>1, <2>1 DEF FailureKnown, Pends
  <1> QED BY <1>2, <1>5, <1>6 DEF Windows, CheckHolds

(* What a released validator leaves of the others. *)
LEMMA ReleasedReports ==
  ASSUME IInv, NEW w \in Validators, NEW stored \in BOOLEAN, work' = Released(w, stored)
  PROVE  \A v \in Validators : work'[v] # None =>
           /\ v # w /\ work[v] # None
           /\ work'[v].plan = work[v].plan /\ work'[v].outcome = work[v].outcome
           /\ work'[v].later = work[v].later \ {w}
           /\ work[v].behind => work'[v].behind
           /\ stored /\ w \in work[v].later => work'[v].behind
  <1> SUFFICES ASSUME NEW v \in Validators, work'[v] # None
               PROVE  /\ v # w /\ work[v] # None
                      /\ work'[v].plan = work[v].plan /\ work'[v].outcome = work[v].outcome
                      /\ work'[v].later = work[v].later \ {w}
                      /\ work[v].behind => work'[v].behind
                      /\ stored /\ w \in work[v].later => work'[v].behind
    OBVIOUS
  <1> DEFINE late == work[v].behind \/ (stored /\ w \in work[v].later)
  <1>1. v # w /\ work[v] # None
    BY DEF Released
  <1>2. work[v] \in Report /\ work'[v] = [work[v] EXCEPT !.later = @ \ {w}, !.behind = late]
    BY <1>1 DEF Released, IInv, TypeOK
  <1>3. (work[v].behind => late) /\ (stored /\ w \in work[v].later => late)
    OBVIOUS
  <1> HIDE DEF late
  <1>4. work'[v].behind = late /\ work'[v].later = work[v].later \ {w}
        /\ work'[v].plan = work[v].plan /\ work'[v].outcome = work[v].outcome
    BY <1>2 DEF Report
  <1> QED BY <1>1, <1>3, <1>4

LEMMA ReleasedOvertaken ==
  ASSUME IInv, Overtaken, NEW w \in Validators, NEW stored \in BOOLEAN,
         work' = Released(w, stored), UNCHANGED observation
  PROVE  Overtaken'
  <1> SUFFICES ASSUME NEW q \in Repairs, NEW v \in Validators, Settles(v, q)'
               PROVE  /\ observation'[q] # "warming"
                      /\ \A u \in Validators : Pends(u, q)' => v \in work'[u].later
    BY DEF Overtaken, Pends, Settles
  <1>1. v # w /\ Settles(v, q)
    BY ReleasedReports DEF Settles
  <1>2. \A u \in Validators : Pends(u, q)' => Pends(u, q) /\ work'[u].later = work[u].later \ {w}
    BY ReleasedReports DEF Pends
  <1> QED BY <1>1, <1>2 DEF Overtaken

LEMMA RecordWindows ==
  ASSUME IInv, Windows, NEW w \in Validators, Record(w)
  PROVE  Windows'
  <1> USE DEF planVars, otherVars
  <1>1. /\ UNCHANGED <<observation, scene, copy, desk>>
        /\ work' = Released(w, TRUE) /\ work[w] # None /\ Admissible(w)
    BY DEF Record
  <1>2. Overtaken'
    BY <1>1, ReleasedOvertaken DEF Windows
  <1>3. ASSUME FailureKnown, CheckHolds PROVE CheckHolds'
    BY <1>1, <1>3, NoNewWindow DEF CheckHolds
  <1>4. \A v \in Validators : work'[v] # None =>
          /\ v # w /\ work[v] # None
          /\ work'[v].plan = work[v].plan /\ work'[v].outcome = work[v].outcome
          /\ work[v].behind => work'[v].behind
          /\ w \in work[v].later => work'[v].behind
    BY <1>1, ReleasedReports
  <1>5. ASSUME FailureKnown PROVE FailureKnown'
    <2> DEFINE l == incident'.lifecycle
    <2> SUFFICES ASSUME l # None, l.state = "failed_retryable", l.version = Handed + 1
                 PROVE  /\ l.plan \in Repairs /\ observation[l.plan] # "warming"
                        /\ \A v \in Validators :
                             /\ work'[v] # None /\ work'[v].plan = l.plan
                             /\ work'[v].outcome = "pending"
                             => work'[v].behind
      BY <1>1 DEF FailureKnown, Pends
    <2> HIDE DEF l
    <2>1. CASE l = incident.lifecycle
      <3>1. /\ l.plan \in Repairs /\ observation[l.plan] # "warming"
            /\ \A v \in Validators : Pends(v, l.plan) => work[v].behind
        BY <1>5, <2>1 DEF FailureKnown
      <3> QED BY <1>4, <3>1 DEF Pends
    <2>2. CASE l = Final(w) /\ l # incident.lifecycle
      <3>1. work[w].outcome = "failed" /\ l.plan = work[w].plan /\ l.plan \in Repairs
        <4>1. /\ work[w].outcome \in Outcomes /\ work[w].plan \in Plans
              /\ work[w].outcome \in (IF work[w].plan \in Repairs
                                      THEN {"pending", "recovered", "failed"} ELSE {"watched"})
          BY <1>1 DEF IInv, TypeOK, Report, Reports
        <4>2. l.plan = work[w].plan /\ work[w].outcome \notin Closing
          BY <1>1, <2>2, FinalLifecycle
        <4>3. work[w].outcome # "pending"
          <5> SUFFICES ASSUME work[w].outcome = "pending" PROVE FALSE
            OBVIOUS
          <5>1. l = Basis(w) /\ work[w].plan \in Repairs
            BY <1>1, <2>2, <4>1 DEF Final, Closing
          <5>2. l = Reported(work[w].plan, "pending")
            BY <2>2, <5>1 DEF Basis
          <5> QED BY <5>1, <5>2, ReportedLifecycle
        <4> QED BY <4>1, <4>2, <4>3 DEF Outcomes, Closing
      <3>2. Settles(w, l.plan)
        BY <1>1, <3>1 DEF Settles
      <3>3. /\ observation[l.plan] # "warming"
            /\ \A v \in Validators : Pends(v, l.plan) => w \in work[v].later
        BY <3>1, <3>2 DEF Windows, Overtaken
      <3> QED BY <1>4, <3>1, <3>3 DEF Pends
    <2> QED BY <2>1, <2>2, RecordedLifecycle DEF l
  <1> QED BY <1>1, <1>2, <1>3, <1>5 DEF Windows

LEMMA DroppedWindows ==
  ASSUME IInv, Windows, NEW w \in Validators, Discard(w) \/ Crash(w)
  PROVE  Windows'
  <1>1. /\ UNCHANGED <<incident, observation, scene, copy, desk>>
        /\ work' = Released(w, FALSE)
    BY DEF Discard, Crash, planVars, otherVars
  <1>2. Overtaken'
    BY <1>1, ReleasedOvertaken DEF Windows
  <1>3. \A v \in Validators : work'[v] # None =>
          /\ work[v] # None
          /\ work'[v].plan = work[v].plan /\ work'[v].outcome = work[v].outcome
          /\ work[v].behind => work'[v].behind
    BY <1>1, ReleasedReports
  <1>4. FailureKnown => FailureKnown'
    BY <1>1, <1>3 DEF FailureKnown, Pends
  <1> QED BY <1>1, <1>2, <1>4 DEF Windows, CheckHolds

(* Decisions and executions leave the lifecycle, and no window begins again. *)
LEMMA PlanWindows ==
  ASSUME IInv, Windows, NEW p \in Plans, PlanStep(p)
  PROVE  Windows'
  <1> USE DEF planVars, otherVars
  <1>1. /\ incident'.lifecycle = incident.lifecycle
        /\ UNCHANGED <<work, scene, copy, desk>>
    BY PlanEffect DEF IInv, TypeOK, Incident, Reopened
  <1>2. \A q \in Repairs : observation[q] # "warming" => observation'[q] # "warming"
    <2>1. CASE UNCHANGED observation
      BY <2>1
    <2>2. CASE Observe(p)
      BY <2>2 DEF Observe, IInv, TypeOK
    <2> QED
      BY <2>1, <2>2 DEF PlanStep, Approve, Decline, Decided, Recommend, Select, Execute, Finish,
                        Diagnose, Acted
  <1>3. Overtaken'
    BY <1>1, <1>2 DEF Windows, Overtaken, Settles, Pends
  <1>4. FailureKnown => FailureKnown'
    BY <1>1, <1>2 DEF FailureKnown, Pends
  <1>5. CheckHolds => CheckHolds'
    BY <1>1 DEF CheckHolds
  <1> QED BY <1>1, <1>3, <1>4, <1>5 DEF Windows

(* An operator checks outside a window, and a closure ends in a closed lifecycle. *)
LEMMA OperatorWindows ==
  ASSUME IInv, Windows,
         \/ \E m \in Operators : ManualCheck(m) \/ ManualClose(m) \/ ManualRefused(m)
         \/ \E e \in Assessors : CloseAssessed(e)
  PROVE  Windows'
  <1> USE DEF planVars, otherVars, assessmentRest
  <1>1. UNCHANGED <<work, observation, scene, copy>>
    BY DEF ManualCheck, ManualClose, ManualRefused, CloseAssessed
  <1>2. Overtaken'
    BY <1>1 DEF Windows, Overtaken, Settles, Pends
  <1>3. \/ UNCHANGED incident
        \/ incident'.lifecycle # None /\ incident'.lifecycle.state = "closed"
    <2>1. ASSUME NEW l \in Lifecycle,
                 incident' = [incident EXCEPT !.status = "closed", !.lifecycle = l]
          PROVE  incident'.lifecycle = l /\ l # None
      BY <2>1, Names DEF IInv, TypeOK, Incident
    <2>2. ASSUME NEW m \in Operators, ManualClose(m)
          PROVE  incident'.lifecycle # None /\ incident'.lifecycle.state = "closed"
      BY <2>1, <2>2, ManualEffect
    <2>3. ASSUME NEW e \in Assessors, CloseAssessed(e)
          PROVE  incident'.lifecycle # None /\ incident'.lifecycle.state = "closed"
      BY <2>1, <2>3, AssessedEffect
    <2> QED BY <2>2, <2>3 DEF ManualCheck, ManualRefused
  <1>4. FailureKnown => FailureKnown'
    BY <1>1, <1>3 DEF FailureKnown, Pends
  <1>5. ASSUME NEW m \in Operators, desk'[m] # None, desk'[m] # desk[m]
        PROVE  /\ UNCHANGED incident
               /\ desk'[m] = [lifecycle |-> incident.lifecycle] /\ Closable(incident.lifecycle)
    BY <1>5 DEF ManualCheck, ManualClose, ManualRefused, CloseAssessed, IInv, TypeOK
  <1>6. CheckHolds => CheckHolds'
    BY <1>3, <1>5 DEF CheckHolds, Closable
  <1> QED BY <1>1, <1>2, <1>4, <1>6 DEF Windows

LEMMA InitWindows == Init => Windows
  BY DEF Init, New, Windows, Overtaken, Settles, FailureKnown, CheckHolds

LEMMA StepWindows == IInv /\ Windows /\ [Next]_vars => Windows'
  <1> SUFFICES ASSUME IInv, Windows, [Next]_vars PROVE Windows'
    OBVIOUS
  <1> USE DEF planVars, otherVars, assessmentRest
  <1>1. ASSUME NEW w \in Validators, NEW p \in Plans, Consume(w, p) \/ Replay(w, p)
        PROVE  Windows'
    BY <1>1, ValidatedWindows DEF Consume, Replay
  <1>2. CASE TakeCopy \/ SaveCopy
    <2>1. "alert" \in scene /\ UNCHANGED <<work, observation, scene>>
      BY <1>2 DEF TakeCopy, SaveCopy, Windows
    <2> QED BY <2>1 DEF Windows, Overtaken, Settles, Pends
  <1>3. ASSUME \/ RequestAssessment \/ Overdue
               \/ \E e \in Assessors : Evaluate(e) \/ Collect(e) \/ RefuseAssessed(e)
               \/ UNCHANGED vars
        PROVE  Windows'
    <2>1. UNCHANGED <<incident, work, observation, scene, copy, desk>>
      BY <1>3 DEF RequestAssessment, Overdue, Evaluate, Collect, RefuseAssessed, vars
    <2> QED
      BY <2>1 DEF Windows, Overtaken, Settles, Pends, FailureKnown, CheckHolds
  <1> QED
    BY <1>1, <1>2, <1>3, StepKinds, RecordWindows, DroppedWindows, PlanWindows, OperatorWindows

\* No operator closes an incident in its stability window.
WindowAwaited ==
  /\ "alert" \notin scene
  /\ incident.status # "closed" /\ incident'.status = "closed"
  /\ incident'.lifecycle.actor = "operator" /\ incident.lifecycle # None
  => incident.lifecycle.state # "pending_stability"

(* Without stale saves of alerts, no operator closes an incident in its stability window,  *)
(* by hand or through an assessment, however the window, its end and the check interleave. *)
THEOREM StabilityIsAwaited == Spec => StabilityAwaited
  <1>1. IInv /\ Windows /\ [Next]_vars => [WindowAwaited]_vars
    <2> SUFFICES ASSUME IInv, Windows, [Next]_vars, "alert" \notin scene,
                        incident.status # "closed", incident'.status = "closed",
                        incident'.lifecycle.actor = "operator", incident.lifecycle # None
                 PROVE  incident.lifecycle.state # "pending_stability"
      BY DEF WindowAwaited
    <2>1. ASSUME NEW m \in Operators, ManualClose(m)
          PROVE  incident.lifecycle.state # "pending_stability"
      <3>1. desk[m] # None /\ desk[m].lifecycle # None
        BY <2>1 DEF ManualClose, Stale
      <3> QED BY <3>1 DEF Windows, CheckHolds
    <2>2. CASE Closable(incident.lifecycle)
      BY <2>2 DEF Closable
    <2>3. ASSUME NEW w \in Validators, Record(w)
          PROVE  FALSE
      <3>1. incident'.lifecycle = Final(w) /\ work[w].outcome \in Closing
        BY <2>3, RecordedLifecycle
      <3> QED BY <2>3, <3>1, FinalLifecycle DEF Record
    <2>4. ~Decide
      <3>1. ASSUME NEW p \in Plans, Approve(p) \/ Decline(p)
            PROVE  incident'.status # "closed"
        BY <3>1 DEF Approve, Decline, Decided, IInv, TypeOK, Incident
      <3> QED BY <3>1 DEF Decide
    <2>5. ~SaveCopy
      BY DEF SaveCopy, Windows
    <2> QED BY <2>1, <2>2, <2>3, <2>4, <2>5, IncidentSteps
  <1>2. Windows /\ IInv /\ [Next]_vars => Windows'
    BY StepWindows
  <1> QED BY <1>1, <1>2, InitWindows, IInvAlways, PTL DEF Spec, StabilityAwaited, WindowAwaited

=============================================================================
