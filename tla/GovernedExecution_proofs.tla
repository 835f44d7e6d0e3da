----------------------- MODULE GovernedExecution_proofs -----------------------
(***************************************************************************)
(* Proofs about GovernedExecution for any sets of incidents and slots, any *)
(* bounds and any faults, except where a theorem says otherwise.           *)
(*                                                                         *)
(* The invariant is about records: what an action record may claim of its  *)
(* builds holds of the action rows, of the private copies the calls carry  *)
(* and of the events, and since a build that ended stays as it is, a claim *)
(* that is true once remains true whichever call writes it, and when.      *)
(***************************************************************************)
EXTENDS GovernedExecution, TLAPS

\* What an action record of incident i may claim, the builds being as B says.
Truthful(x, i, B) ==
  /\ x \in Action
  /\ x.receipt # None => ApprovalOf(x.receipt) = <<i, x.app>> /\ B[x.receipt] # "absent"
  /\ x.status = "succeeded" => x.receipt # None /\ B[x.receipt] = "passed"
  /\ x.status = "validation_failed" => x.receipt # None /\ B[x.receipt] = "unproved"
  /\ x.status = "execution_failed" => x.receipt # None /\ B[x.receipt] = "broke"

\* A row: typed, true, and absent exactly as long as no approval has written it.
RowTrue(r, i, B) ==
  /\ r \in Row
  /\ Truthful(r.action, i, B)
  /\ r.col = "absent" <=> r.action.app = 0

Rows(R, B) == R \in [Incidents -> Row] /\ \A i \in Incidents : RowTrue(R[i], i, B)

\* A call works for one approval, whose action it carries.
CallTrue(c, B) ==
  /\ c \in Call
  /\ c.kind # "idle" =>
       /\ c.app \in Approvals
       /\ c.action.app = NumberOf(c.app)
       /\ Truthful(c.action, IncidentOf(c.app), B)
       /\ c.pc \in {"finalize", "announce"} => c.action.status \in Terminal
       /\ c.pc = "halt" => c.action.receipt # None

Calls(C, B) == C \in [Slots -> Call] /\ \A s \in Slots : CallTrue(C[s], B)

EventTrue(e, B) ==
  /\ e \in Event
  /\ e.receipt # None => ApprovalOf(e.receipt) = <<e.incident, e.app>>
  /\ e.status = "succeeded" => e.receipt # None /\ B[e.receipt] = "passed"
  /\ e.status = "execution_failed" => e.receipt # None /\ B[e.receipt] = "broke"

Events(O, B) == \A e \in O : EventTrue(e, B)

Truth ==
  /\ approval \in [Approvals -> {"none", "valid", "expired"}]
  /\ build \in [Builds -> BuildState]
  /\ workflow \in [Approvals -> Workflow]
  /\ Rows(row, build)
  /\ Calls(call, build)
  /\ Events(outbox, build)

\* Builds only go forward: none disappears, and one that ended stays as it ended.
Forward(B, D) ==
  /\ D \in [Builds -> BuildState]
  /\ \A b \in Builds : (B[b] # "absent" => D[b] # "absent")
                       /\ (B[b] \in Finished => D[b] = B[b])

-----------------------------------------------------------------------------
(* Records.                                                                *)

LEMMA ApprovalShape ==
  /\ \A a \in Approvals : /\ IncidentOf(a) \in Incidents
                          /\ NumberOf(a) \in 1..MaxApprovals
                          /\ a = <<IncidentOf(a), NumberOf(a)>>
  /\ \A i \in Incidents, n \in 1..MaxApprovals :
       /\ <<i, n>> \in Approvals
       /\ IncidentOf(<<i, n>>) = i /\ NumberOf(<<i, n>>) = n
  BY DEF Approvals, IncidentOf, NumberOf

(* What was true of a record stays true as builds go forward. *)
LEMMA TruthStays ==
  ASSUME NEW B, NEW D, Forward(B, D), NEW x, NEW i, Truthful(x, i, B)
  PROVE  Truthful(x, i, D)
  <1>1. x.receipt \in Builds \cup {None}
    BY DEF Truthful, Action
  <1> QED BY <1>1 DEF Truthful, Forward, Finished

LEMMA RowsStay ==
  ASSUME NEW R, NEW B, NEW D, Forward(B, D), Rows(R, B)
  PROVE  Rows(R, D)
  BY TruthStays DEF Rows, RowTrue

LEMMA CallsStay ==
  ASSUME NEW C, NEW B, NEW D, Forward(B, D), Calls(C, B)
  PROVE  Calls(C, D)
  BY TruthStays DEF Calls, CallTrue

LEMMA EventsStay ==
  ASSUME NEW O, NEW B, NEW D, Forward(B, D), Events(O, B)
  PROVE  Events(O, D)
  <1> SUFFICES ASSUME NEW e \in O PROVE EventTrue(e, D)
    BY DEF Events
  <1>1. EventTrue(e, B) /\ e.receipt \in Builds \cup {None}
    BY DEF Events, EventTrue, Event
  <1> QED BY <1>1 DEF EventTrue, Forward, Finished

LEMMA ForwardIsReflexive ==
  ASSUME Truth PROVE Forward(build, build)
  BY DEF Truth, Forward

(* One slot changes to a true call. *)
LEMMA CallChanges ==
  ASSUME NEW C, NEW B, Calls(C, B), NEW s \in Slots, NEW c, CallTrue(c, B)
  PROVE  Calls([C EXCEPT ![s] = c], B)
  BY DEF Calls, CallTrue

LEMMA IdleIsTrue == \A B : CallTrue(Idle, B)
  <1>1. NoAction \in Action
    BY ApprovalsAssumption DEF NoAction, Action, Status, Active
  <1> QED BY <1>1 DEF CallTrue, Idle, Call

-----------------------------------------------------------------------------
(* Workflows, returns and saves.                                           *)

LEMMA AnsweredIsTyped ==
  ASSUME NEW w \in Workflow, NEW answer
  PROVE  /\ Answered(w, answer) \in Workflow
         /\ w.pc # "none" => Answered(w, answer).pc # "none"
  <1>1. 0 \in 0..MaxTries
    BY TriesAssumption
  <1>2. \A again \in {"none", "done", "failed"} \cup Steps :
          /\ Retried(w, again) \in Workflow
          /\ again # "none" => Retried(w, again).pc # "none"
    BY <1>1, TriesAssumption DEF Retried, Workflow
  <1>3. /\ Again(w) \in {"none", "done", "failed"} \cup Steps
        /\ w.pc # "none" => Again(w) # "none"
    BY DEF Again, Workflow, Steps
  <1>4. \A p \in {"refuse", "giveup"} :
          [w EXCEPT !.pc = p, !.waiting = FALSE] \in Workflow
    BY DEF Workflow, Steps
  <1>5. \A p \in {"done", "poll"} :
          [pc |-> p, tries |-> 0, waiting |-> FALSE] \in Workflow
    BY <1>1 DEF Workflow, Steps
  <1>6. CASE answer \in Terminal
    <2>1. Answered(w, answer) = [pc |-> "done", tries |-> 0, waiting |-> FALSE]
      BY <1>6 DEF Answered, Terminal, Failed, Active
    <2> QED BY <1>5, <2>1
  <1>7. CASE answer \notin Terminal /\ answer \in Active
    <2>1. Answered(w, answer) = [pc |-> "poll", tries |-> 0, waiting |-> FALSE]
      BY <1>7 DEF Answered, Terminal, Failed, Active
    <2> QED BY <1>5, <2>1
  <1>8. CASE /\ answer \notin Terminal /\ answer \notin Active
             /\ w.pc = "dispatch" /\ answer = "refused"
    <2>1. Answered(w, answer) = [w EXCEPT !.pc = "refuse", !.waiting = FALSE]
      BY <1>8 DEF Answered
    <2> QED BY <1>4, <2>1 DEF Workflow
  <1>9. CASE /\ answer \notin Terminal /\ answer \notin Active
             /\ ~(w.pc = "dispatch" /\ answer = "refused")
    <2>1. CASE w.pc = "dispatch" /\ answer = "error" /\ w.tries + 1 >= MaxTries
      <3>1. Answered(w, answer) = [w EXCEPT !.pc = "giveup", !.waiting = FALSE]
        BY <1>9, <2>1 DEF Answered
      <3> QED BY <1>4, <3>1 DEF Workflow
    <2>2. CASE ~(w.pc = "dispatch" /\ answer = "error" /\ w.tries + 1 >= MaxTries)
      <3>1. Answered(w, answer) = Retried(w, Again(w))
        BY <1>9, <2>2 DEF Answered
      <3> QED BY <1>2, <1>3, <3>1
    <2> QED BY <2>1, <2>2
  <1> QED BY <1>6, <1>7, <1>8, <1>9

(* An activity that gets an answer keeps the workflows typed. *)
LEMMA AnswerIsTyped ==
  ASSUME Truth, NEW a \in Approvals, NEW answer, Answer(a, answer)
  PROVE  workflow' \in [Approvals -> Workflow]
  <1>1. Answered(workflow[a], answer) \in Workflow
    BY AnsweredIsTyped DEF Truth
  <1> QED BY <1>1 DEF Truth, Answer

(* A call that returns leaves its slot idle and its workflow typed. *)
LEMMA ReturnIsTyped ==
  ASSUME Truth, NEW s \in Slots, call[s].kind # "idle", NEW answer, Return(s, answer)
  PROVE  Calls(call', build) /\ workflow' \in [Approvals -> Workflow]
  <1>1. Calls(call', build)
    BY IdleIsTrue, CallChanges DEF Truth, Return
  <1>2. call[s].app \in Approvals
    BY DEF Truth, Calls, CallTrue
  <1>3. Answered(workflow[call[s].app], answer) \in Workflow
    BY <1>2, AnsweredIsTyped DEF Truth
  <1> QED BY <1>1, <1>2, <1>3 DEF Truth, Return

(* A call that goes on, with the action x at pc. *)
LEMMA CallGoesOn ==
  ASSUME NEW B, Calls(call, B), NEW s \in Slots, call[s].kind # "idle",
         NEW pc \in {"reserve", "start", "submit", "observe", "persist",
                     "finalize", "announce"},
         NEW x, Truthful(x, IncidentOf(call[s].app), B), x.app = call[s].action.app,
         pc \in {"finalize", "announce"} => x.status \in Terminal,
         call' = [call EXCEPT ![s] = [call[s] EXCEPT !.pc = pc, !.action = x]]
  PROVE  Calls(call', B)
  <1> DEFINE c == [call[s] EXCEPT !.pc = pc, !.action = x]
  <1>1. CallTrue(call[s], B)
    BY DEF Calls
  <1>2. c \in Call
    BY <1>1 DEF CallTrue, Call, Truthful
  <1>3. c.kind = call[s].kind /\ c.app = call[s].app /\ c.pc = pc /\ c.action = x
    BY <1>1 DEF CallTrue, Call
  <1>4. CallTrue(c, B)
    BY <1>1, <1>2, <1>3 DEF CallTrue
  <1> QED BY <1>4, CallChanges

(* What a call saves is true of its incident. *)
LEMMA SavedIsTrue ==
  ASSUME Truth, NEW s \in Slots, call[s].kind # "idle", row' = Saved(call[s])
  PROVE  Rows(row', build)
  <1> DEFINE c == call[s]
             i == IncidentOf(c.app)
             r == [col |-> c.action.status, action |-> c.action]
  <1>1. /\ c.app \in Approvals /\ c.action.app = NumberOf(c.app)
        /\ Truthful(c.action, i, build)
    BY DEF Truth, Calls, CallTrue
  <1>2. i \in Incidents /\ c.action.app \in 1..MaxApprovals
    BY <1>1, ApprovalShape
  <1>3. c.action \in Action /\ c.action.status \in Status
    BY <1>1 DEF Truthful, Action
  <1>4. c.action.status # "absent" /\ c.action.app # 0
    BY <1>2, <1>3, ApprovalsAssumption DEF Status, Active, Terminal, Failed
  <1>5. RowTrue(r, i, build)
    BY <1>1, <1>3, <1>4 DEF RowTrue, Row
  <1> QED BY <1>2, <1>5 DEF Saved, Rows, RowTrue, Truth

(* Moving on with the action unchanged. *)
LEMMA GotoIsTrue ==
  ASSUME NEW B, Calls(call, B), NEW s \in Slots, call[s].kind # "idle",
         NEW pc \in {"reserve", "start", "submit", "observe", "persist",
                     "finalize", "announce"},
         pc \in {"finalize", "announce"} => call[s].action.status \in Terminal,
         Goto(s, pc)
  PROVE  Calls(call', B)
  <1>1. CallTrue(call[s], B) /\ call[s] \in Call
    BY DEF Calls, CallTrue
  <1>2. [call[s] EXCEPT !.pc = pc] = [call[s] EXCEPT !.pc = pc, !.action = call[s].action]
    BY <1>1 DEF Call
  <1>3. call' = [call EXCEPT ![s] = [call[s] EXCEPT !.pc = pc, !.action = call[s].action]]
    BY <1>2 DEF Goto
  <1>4. Truthful(call[s].action, IncidentOf(call[s].app), B)
    BY <1>1 DEF CallTrue
  <1> QED BY <1>3, <1>4, CallGoesOn

(* The same once the call's row exists. *)
LEMMA SavedGotoIsTrue ==
  ASSUME NEW B, Calls(call, B), NEW s \in Slots, call[s].kind # "idle",
         NEW pc \in {"reserve", "start", "submit", "observe", "persist",
                     "finalize", "announce"},
         pc \in {"finalize", "announce"} => call[s].action.status \in Terminal,
         SavedGoto(s, pc)
  PROVE  Calls(call', B)
  <1> DEFINE c == [call[s] EXCEPT !.pc = pc, !.fresh = FALSE]
  <1>1. CallTrue(call[s], B)
    BY DEF Calls
  <1>2. /\ c \in Call /\ c.kind = call[s].kind /\ c.app = call[s].app /\ c.pc = pc
        /\ c.action = call[s].action
    BY <1>1 DEF CallTrue, Call
  <1>3. call' = [call EXCEPT ![s] = c]
    BY <1>1 DEF SavedGoto, Calls, Call
  <1> HIDE DEF c
  <1>4. CallTrue(c, B)
    BY <1>1, <1>2 DEF CallTrue
  <1> QED BY <1>3, <1>4, CallChanges

(* Moving on with a new status and receipt, as long as they are true. *)
LEMMA ActionChanges ==
  ASSUME NEW B, Calls(call, B), NEW s \in Slots, call[s].kind # "idle",
         NEW pc \in {"reserve", "start", "submit", "observe", "persist",
                     "finalize", "announce"},
         NEW x, Truthful(x, IncidentOf(call[s].app), B), x.app = call[s].action.app,
         pc \in {"finalize", "announce"} => x.status \in Terminal,
         call' = [call EXCEPT ![s].pc = pc, ![s].action = x]
  PROVE  Calls(call', B)
  <1>1. call[s] \in Call
    BY DEF Calls, CallTrue
  <1>2. call' = [call EXCEPT ![s] = [call[s] EXCEPT !.pc = pc, !.action = x]]
    BY <1>1 DEF Calls, Call
  <1> QED BY <1>2, CallGoesOn

LEMMA CarryIsTrue ==
  ASSUME NEW B, Calls(call, B), NEW s \in Slots, call[s].kind # "idle",
         NEW pc \in {"reserve", "start", "submit", "observe", "persist",
                     "finalize", "announce"},
         NEW status \in Status,
         LET x == call[s].action IN
           /\ status = "succeeded" => x.receipt # None /\ B[x.receipt] = "passed"
           /\ status = "validation_failed" => x.receipt # None /\ B[x.receipt] = "unproved"
           /\ status = "execution_failed" => x.receipt # None /\ B[x.receipt] = "broke",
         pc \in {"finalize", "announce"} => status \in Terminal,
         Carry(s, pc, status)
  PROVE  Calls(call', B)
  <1> DEFINE x == [call[s].action EXCEPT !.status = status]
  <1>1. /\ call[s] \in Call
        /\ Truthful(call[s].action, IncidentOf(call[s].app), B)
        /\ call[s].action \in Action
    BY DEF Calls, CallTrue, Truthful
  <1>2. /\ x \in Action /\ x.app = call[s].action.app
        /\ x.receipt = call[s].action.receipt /\ x.status = status
    BY <1>1 DEF Action
  <1>3. Truthful(x, IncidentOf(call[s].app), B)
    BY <1>1, <1>2 DEF Truthful
  <1>4. call' = [call EXCEPT ![s].pc = pc, ![s].action = x]
    BY <1>1 DEF Carry, Calls, Call
  <1> HIDE DEF x
  <1> QED BY <1>2, <1>3, <1>4, ActionChanges

(* A call begins in a free slot with a true action of its approval. *)
LEMMA CallBegins ==
  ASSUME Truth, NEW s \in Slots, NEW kind \in Kinds, NEW a \in Approvals,
         NEW pc \in {"reserve", "observe", "halt", "finalize"},
         NEW x, Truthful(x, IncidentOf(a), build), x.app = NumberOf(a),
         pc = "finalize" => x.status \in Terminal,
         pc = "halt" => x.receipt # None,
         NEW awaited \in BOOLEAN,
         Begin(s, kind, a, pc, x, awaited)
  PROVE  Calls(call', build)
  <1> DEFINE c == [kind |-> kind, app |-> a, pc |-> pc, action |-> x,
                   fresh |-> ~Exists(IncidentOf(a)), awaited |-> awaited]
  <1>1. c \in Call
    BY DEF Call, Truthful
  <1>2. CallTrue(c, build)
    BY <1>1 DEF CallTrue
  <1>3. call' = [call EXCEPT ![s] = c]
    BY DEF Begin
  <1> HIDE DEF c
  <1> QED BY <1>2, <1>3, CallChanges DEF Truth

LEMMA NewActionIsTrue ==
  ASSUME NEW a \in Approvals, NEW i, NEW B,
         NEW status \in Active \cup {"policy_blocked", "failed"}
  PROVE  Truthful(NewAction(a, status), i, B) /\ NewAction(a, status).app = NumberOf(a)
         /\ NewAction(a, status).status = status
  <1>1. NumberOf(a) \in 0..MaxApprovals
    BY ApprovalShape, ApprovalsAssumption
  <1>2. NewAction(a, status) \in Action
    BY <1>1 DEF NewAction, Action, Status, Terminal, Failed
  <1> QED BY <1>2 DEF Truthful, NewAction, Active

-----------------------------------------------------------------------------
(* Every step keeps the truth.                                             *)

LEMMA InitIsTrue == Init => Truth
  <1> SUFFICES ASSUME Init PROVE Truth
    OBVIOUS
  <1>1. NoAction \in Action /\ \A i, B : Truthful(NoAction, i, B)
    BY ApprovalsAssumption DEF NoAction, Action, Status, Active, Truthful
  <1>2. Rows(row, build)
    BY <1>1 DEF Init, Rows, RowTrue, Row, NoAction
  <1>3. Calls(call, build)
    BY IdleIsTrue DEF Init, Calls, CallTrue
  <1>4. workflow \in [Approvals -> Workflow]
    BY TriesAssumption DEF Init, Workflow
  <1> QED BY <1>2, <1>3, <1>4 DEF Init, Truth, BuildState, Events

(* A step of Jenkins that takes builds forward keeps what is claimed of them. *)
LEMMA JenkinsIsTrue ==
  ASSUME Truth, Forward(build, build'),
         UNCHANGED <<approval, row, workflow, call, outbox>>
  PROVE  Truth'
  <1>1. Rows(row, build') /\ Calls(call, build') /\ Events(outbox, build')
    BY RowsStay, CallsStay, EventsStay DEF Truth
  <1> QED BY <1>1 DEF Truth, Forward

LEMMA EnvironmentIsTrue ==
  ASSUME Truth,
         \/ \E i \in Incidents : Approve(i) \/ Watchdog(i)
         \/ \E a \in Approvals : Expire(a) \/ Deadline(a)
         \/ \E b \in Builds : BuildStarts(b) \/ BuildEnds(b)
  PROVE  Truth'
  <1>1. ASSUME NEW i \in Incidents, Approve(i) PROVE Truth'
    BY <1>1 DEF Approve, Truth, Rows, Calls
  <1>2. ASSUME NEW a \in Approvals, Expire(a) PROVE Truth'
    BY <1>2 DEF Expire, Truth, Rows, Calls
  <1>3. ASSUME NEW a \in Approvals, Deadline(a) PROVE Truth'
    <2>1. [pc |-> "timeout", tries |-> 0, waiting |-> FALSE] \in Workflow
      BY TriesAssumption DEF Workflow, Steps
    <2> QED BY <1>3, <2>1 DEF Deadline, Truth
  <1>4. ASSUME NEW i \in Incidents, Watchdog(i) PROVE Truth'
    <2> DEFINE r == [row[i] EXCEPT !.col = "timed_out"]
    <2>1. RowTrue(row[i], i, build) /\ row[i].col # "absent"
      BY <1>4 DEF Truth, Rows, Watchdog, Expirable
    <2>2. RowTrue(r, i, build)
      BY <2>1 DEF RowTrue, Row, Status, Terminal, Failed
    <2>3. row' = [row EXCEPT ![i] = r]
      BY <1>4 DEF Watchdog
    <2> HIDE DEF r
    <2>4. Rows(row', build)
      BY <2>2, <2>3 DEF Truth, Rows, RowTrue
    <2> QED BY <1>4, <2>4 DEF Watchdog, Truth
  <1>5. ASSUME NEW b \in Builds, BuildStarts(b) PROVE Truth'
    <2>1. Forward(build, build')
      BY <1>5 DEF BuildStarts, Truth, Forward, Finished, BuildState
    <2> QED BY <1>5, <2>1, JenkinsIsTrue DEF BuildStarts
  <1>6. ASSUME NEW b \in Builds, BuildEnds(b) PROVE Truth'
    <2>1. Forward(build, build')
      BY <1>6, ResultsAssumption DEF BuildEnds, Truth, Forward, Finished, BuildState
    <2> QED BY <1>6, <2>1, JenkinsIsTrue DEF BuildEnds
  <1> QED BY <1>1, <1>2, <1>3, <1>4, <1>5, <1>6

(* Calls that begin: requests of people and of the workflow's activities. *)
LEMMA RequestIsTrue ==
  ASSUME Truth, NEW s \in Slots, NEW a \in Approvals,
         \/ Execute(s, a) \/ Dispatch(s, a) \/ DispatchAnswered(s, a)
         \/ Ask(s, a) \/ AskInVain(s, a) \/ ReportFailure(s, a)
  PROVE  Truth'
  <1> DEFINE i == IncidentOf(a)
             old == row[i].action
  <1>1. i \in Incidents /\ RowTrue(row[i], i, build) /\ Truthful(old, i, build)
    BY ApprovalShape DEF Truth, Rows, RowTrue
  <1>2. Await(a) => workflow' \in [Approvals -> Workflow]
    BY DEF Await, Truth, Workflow
  <1>3. CASE Execute(s, a)
    <2>1. Truthful(NewAction(a, "pending"), i, build)
          /\ NewAction(a, "pending").app = NumberOf(a)
      BY NewActionIsTrue DEF Active
    <2>2. Calls(call', build)
      BY <1>3, <2>1, CallBegins DEF Execute, Kinds
    <2> QED BY <1>3, <2>2 DEF Execute, Truth
  <1>4. CASE Dispatch(s, a)
    <2>1. Truthful(NewAction(a, "dispatching"), i, build)
          /\ NewAction(a, "dispatching").app = NumberOf(a)
      BY NewActionIsTrue DEF Active
    <2>2. Calls(call', build)
      BY <1>4, <2>1, CallBegins DEF Dispatch, Kinds
    <2> QED BY <1>2, <1>4, <2>2 DEF Dispatch, Truth
  <1>5. CASE DispatchAnswered(s, a) \/ AskInVain(s, a)
    <2>1. workflow' \in [Approvals -> Workflow]
      BY <1>5, AnswerIsTyped DEF DispatchAnswered, AskInVain
    <2> QED BY <1>5, <2>1 DEF DispatchAnswered, AskInVain, Truth
  <1>6. CASE Ask(s, a)
    <2>1. workflow[a].pc \in Kinds
      BY <1>6 DEF Ask, Ready, Steps, Kinds
    <2>2. old.app = NumberOf(a)
      BY <1>6 DEF Ask, Found
    <2>3. Calls(call', build)
      <3>1. CASE old.status \in Terminal
        BY <1>1, <1>6, <2>1, <2>2, <3>1, CallBegins DEF Ask
      <3>2. CASE old.status \notin Terminal
        BY <1>1, <1>6, <2>1, <2>2, <3>2, CallBegins DEF Ask
      <3> QED BY <3>1, <3>2
    <2> QED BY <1>2, <1>6, <2>3 DEF Ask, Truth
  <1>7. CASE ReportFailure(s, a)
    <2> DEFINE failure == Reason[workflow[a].pc]
    <2>1. workflow[a].pc \in Kinds /\ failure \in {"policy_blocked", "failed"}
      BY <1>7 DEF ReportFailure, Kinds, Reason
    <2>2. failure \in Terminal
      BY <2>1 DEF Terminal, Failed
    <2>3. CASE Begin(s, workflow[a].pc, a, "finalize", NewAction(a, failure), TRUE)
      <3>1. Truthful(NewAction(a, failure), i, build)
            /\ NewAction(a, failure).app = NumberOf(a)
            /\ NewAction(a, failure).status = failure
        BY <2>1, NewActionIsTrue
      <3>2. Calls(call', build)
        BY <2>1, <2>2, <2>3, <3>1, CallBegins
      <3> QED BY <1>2, <1>7, <3>2 DEF ReportFailure, Truth
    <2>4. CASE /\ Found(a)
               /\ Begin(s, workflow[a].pc, a, "finalize", [old EXCEPT !.status = failure], TRUE)
      <3> DEFINE x == [old EXCEPT !.status = failure]
      <3>1. old \in Action /\ old.app = NumberOf(a)
        BY <1>1, <2>4 DEF Truthful, Found
      <3>2. x \in Action /\ x.app = NumberOf(a) /\ x.receipt = old.receipt /\ x.status = failure
        BY <2>1, <3>1 DEF Action, Status, Terminal, Failed
      <3>3. Truthful(x, i, build)
        BY <1>1, <2>1, <3>1, <3>2 DEF Truthful
      <3> HIDE DEF x
      <3>4. Calls(call', build)
        BY <2>1, <2>2, <2>4, <3>2, <3>3, CallBegins DEF x
      <3> QED BY <1>2, <1>7, <3>4 DEF ReportFailure, Truth
    <2> QED BY <1>7, <2>3, <2>4 DEF ReportFailure
  <1> QED BY <1>3, <1>4, <1>5, <1>6, <1>7

(* Steps that end a call: its crash, an attempt that gives up, an error. *)
LEMMA EndIsTrue ==
  ASSUME Truth, NEW s \in Slots, call[s].kind # "idle", NEW answer, Return(s, answer),
         UNCHANGED <<approval, row, build, outbox>>
  PROVE  Truth'
  <1>1. Calls(call', build) /\ workflow' \in [Approvals -> Workflow]
    BY ReturnIsTyped
  <1> QED BY <1>1 DEF Truth

LEMMA FailureIsTrue ==
  ASSUME Truth, NEW s \in Slots, Crash(s) \/ AttemptTimesOut(s)
  PROVE  Truth'
  <1>1. CASE Crash(s)
    BY <1>1, EndIsTrue DEF Crash
  <1>2. CASE AttemptTimesOut(s)
    <2> DEFINE c == [call[s] EXCEPT !.awaited = FALSE]
    <2>1. CallTrue(call[s], build) /\ call[s].app \in Approvals
      BY <1>2 DEF AttemptTimesOut, Truth, Calls, CallTrue
    <2>2. CallTrue(c, build)
      BY <2>1 DEF CallTrue, Call
    <2>3. call' = [call EXCEPT ![s] = c]
      BY <1>2 DEF AttemptTimesOut
    <2> HIDE DEF c
    <2>4. Calls(call', build)
      BY <2>2, <2>3, CallChanges DEF Truth
    <2>5. workflow' \in [Approvals -> Workflow]
      BY <1>2, <2>1, AnswerIsTyped DEF AttemptTimesOut
    <2> QED BY <1>2, <2>4, <2>5 DEF AttemptTimesOut, Truth
  <1> QED BY <1>1, <1>2

(* Saving, and going on or answering. *)
LEMMA SaveIsTrue ==
  ASSUME Truth, NEW s \in Slots,
         Reserve(s) \/ ReserveFails(s) \/ Persist(s) \/ Finalize(s)
  PROVE  Truth'
  <1>1. call[s].kind # "idle"
    BY DEF Reserve, ReserveFails, Persist, Finalize, At
  <1>2. CASE Reserve(s)
    <2>1. Rows(row', build)
      BY <1>1, <1>2, SavedIsTrue DEF Reserve
    <2>2. Calls(call', build)
      <3>1. CASE call[s].kind = "execute"
        BY <1>1, <1>2, <3>1, SavedGotoIsTrue DEF Reserve, Truth
      <3>2. CASE call[s].kind # "execute"
        BY <1>1, <1>2, <3>2, SavedGotoIsTrue DEF Reserve, Truth
      <3> QED BY <3>1, <3>2
    <2> QED BY <1>2, <2>1, <2>2 DEF Reserve, Truth
  <1>3. CASE ReserveFails(s)
    BY <1>1, <1>3, EndIsTrue DEF ReserveFails
  <1>4. CASE Persist(s) /\ Savable(call[s])
    <2>1. Rows(row', build)
      BY <1>1, <1>4, SavedIsTrue DEF Persist
    <2>2. Calls(call', build) /\ workflow' \in [Approvals -> Workflow]
      BY <1>1, <1>4, ReturnIsTyped DEF Persist
    <2> QED BY <1>4, <2>1, <2>2 DEF Persist, Truth
  <1>5. CASE Persist(s) /\ ~Savable(call[s])
    BY <1>1, <1>5, EndIsTrue DEF Persist
  <1>6. CASE Finalize(s) /\ Savable(call[s])
    <2>1. Rows(row', build)
      BY <1>1, <1>6, SavedIsTrue DEF Finalize
    <2>2. call[s].action.status \in Terminal
      BY <1>6 DEF Finalize, At, Truth, Calls, CallTrue
    <2>3. Calls(call', build)
      BY <1>1, <1>6, <2>2, SavedGotoIsTrue DEF Finalize, Truth
    <2> QED BY <1>6, <2>1, <2>3 DEF Finalize, Truth
  <1>7. CASE Finalize(s) /\ ~Savable(call[s])
    BY <1>1, <1>7, EndIsTrue DEF Finalize
  <1> QED BY <1>2, <1>3, <1>4, <1>5, <1>6, <1>7

(* What is announced is what the call's action claims. *)
LEMMA AnnounceIsTrue ==
  ASSUME Truth, NEW s \in Slots, Announce(s)
  PROVE  Truth'
  <1> DEFINE c == call[s]
             e == [incident |-> IncidentOf(c.app), status |-> c.action.status,
                   app |-> c.action.app, receipt |-> c.action.receipt]
  <1>1. c.kind # "idle" /\ c.pc = "announce"
    BY DEF Announce, At
  <1>2. /\ c.app \in Approvals /\ c.action.app = NumberOf(c.app)
        /\ Truthful(c.action, IncidentOf(c.app), build)
        /\ c.action.status \in Terminal
    BY <1>1 DEF Truth, Calls, CallTrue
  <1>3. CASE Savable(c)
    <2>1. Rows(row', build)
      BY <1>1, <1>3, SavedIsTrue DEF Announce
    <2>2. Calls(call', build) /\ workflow' \in [Approvals -> Workflow]
      BY <1>1, <1>3, ReturnIsTyped DEF Announce
    <2>3. EventTrue(e, build)
      <3>1. IncidentOf(c.app) \in Incidents /\ c.action.app \in 1..MaxApprovals
        BY <1>2, ApprovalShape
      <3> QED BY <1>2, <3>1 DEF EventTrue, Event, Truthful, Action
    <2>4. outbox' = outbox \/ outbox' = outbox \cup {e}
      BY <1>3 DEF Announce, Enqueued
    <2>5. Events(outbox', build)
      BY <2>3, <2>4 DEF Events, Truth
    <2> QED BY <2>1, <2>2, <2>5 DEF Announce, Truth
  <1>4. CASE ~Savable(c)
    BY <1>1, <1>4, EndIsTrue DEF Announce
  <1> QED BY <1>3, <1>4

(* Temporal is asked to start the workflow. *)
LEMMA StartIsTrue ==
  ASSUME Truth, NEW s \in Slots, Start(s) \/ StartFails(s)
  PROVE  Truth'
  <1>1. call[s].kind # "idle"
    BY DEF Start, StartFails, At
  <1>0. Launched(call[s].app) \in [Approvals -> Workflow]
    <2>1. [pc |-> "dispatch", tries |-> 0, waiting |-> FALSE] \in Workflow
      BY TriesAssumption DEF Workflow, Steps
    <2> QED BY <2>1 DEF Launched, Truth
  <1>2. CASE Start(s)
    <2>1. Calls(call', build)
      BY <1>1, <1>2, CarryIsTrue DEF Start, Truth, Status, Active
    <2> QED BY <1>0, <1>2, <2>1 DEF Start, Truth
  <1>3. CASE StartFails(s)
    <2>1. Calls(call', build)
      BY <1>1, <1>3, GotoIsTrue DEF StartFails, Truth
    <2> QED BY <1>0, <1>3, <2>1 DEF StartFails, Truth
  <1> QED BY <1>2, <1>3

(* Jenkins is asked for a build: only a build of the call's approval appears. *)
LEMMA SubmitIsTrue ==
  ASSUME Truth, NEW s \in Slots, Submit(s)
  PROVE  Truth'
  <1>1. /\ call[s].kind # "idle"
        /\ call[s] \in Call /\ call[s].app \in Approvals
        /\ call[s].action.app = NumberOf(call[s].app)
        /\ Truthful(call[s].action, IncidentOf(call[s].app), build)
    BY DEF Submit, At, Truth, Calls, CallTrue
  <1>2. ASSUME NEW b \in Builds, ApprovalOf(b) = call[s].app, build[b] = "absent",
               build' = [build EXCEPT ![b] = "queued"],
               \/ /\ call' = [call EXCEPT ![s].pc = "persist",
                                ![s].action.status = "executor_accepted",
                                ![s].action.receipt = b]
                  /\ UNCHANGED workflow
               \/ Return(s, "error")
        PROVE  Truth'
    <2>1. Forward(build, build')
      BY <1>2 DEF Truth, Forward, BuildState, Finished
    <2>2. Rows(row, build') /\ Calls(call, build') /\ Events(outbox, build')
      BY <2>1, RowsStay, CallsStay, EventsStay DEF Truth
    <2>3. build' \in [Builds -> BuildState]
      BY <2>1 DEF Forward
    <2>4. CASE Return(s, "error")
      <3>1. Calls(call', build) /\ workflow' \in [Approvals -> Workflow]
        BY <1>1, <2>4, ReturnIsTyped
      <3>2. Calls(call', build')
        BY <2>1, <3>1, CallsStay
      <3> QED BY <2>2, <2>3, <3>1, <3>2 DEF Submit, Truth
    <2>5. CASE /\ call' = [call EXCEPT ![s].pc = "persist",
                              ![s].action.status = "executor_accepted",
                              ![s].action.receipt = b]
               /\ UNCHANGED workflow
      <3> DEFINE x == [call[s].action EXCEPT !.status = "executor_accepted", !.receipt = b]
      <3>1. call[s].action \in Action
        BY <1>1 DEF Truthful
      <3>2. /\ x \in Action /\ x.app = call[s].action.app /\ x.receipt = b
            /\ x.status = "executor_accepted"
        BY <3>1 DEF Action, Status, Active
      <3>3. build'[b] = "queued"
        BY <1>2 DEF Truth
      <3>4. ApprovalOf(b) = <<IncidentOf(call[s].app), x.app>>
        BY <1>1, <1>2, <3>2, ApprovalShape
      <3>5. Truthful(x, IncidentOf(call[s].app), build')
        BY <3>2, <3>3, <3>4 DEF Truthful
      <3>6. call' = [call EXCEPT ![s].pc = "persist", ![s].action = x]
        BY <1>1, <2>5 DEF Truth, Calls, Call
      <3> HIDE DEF x
      <3>7. Calls(call', build')
        BY <1>1, <2>2, <3>2, <3>5, <3>6, ActionChanges
      <3> QED BY <2>2, <2>3, <2>5, <3>7 DEF Submit, Truth
    <2> QED BY <1>2, <2>4, <2>5
  <1>3. CASE build' = build /\ Return(s, "error")
    BY <1>1, <1>3, EndIsTrue DEF Submit
  <1>4. ASSUME NEW status \in {"dispatch_failed", "policy_blocked"},
               Carry(s, "persist", status), UNCHANGED <<build, workflow>>
        PROVE  Truth'
    <2>1. status \in Status /\ status \notin {"succeeded", "validation_failed", "execution_failed"}
      BY DEF Status, Terminal, Failed
    <2>2. Calls(call', build)
      BY <1>1, <1>4, <2>1, CarryIsTrue DEF Truth
    <2> QED BY <1>4, <2>2 DEF Submit, Truth
  <1> QED BY <1>2, <1>3, <1>4 DEF Submit

(* What is observed is what Jenkins says of the call's own build. *)
LEMMA ObserveIsTrue ==
  ASSUME Truth, NEW s \in Slots, Observe(s)
  PROVE  Truth'
  <1> DEFINE x == call[s].action
             seen == Observed(x)
             status == IF call[s].kind = "timeout" /\ seen \in Active THEN "timed_out" ELSE seen
  <1>1. call[s].kind # "idle" /\ Truthful(x, IncidentOf(call[s].app), build)
    BY DEF Observe, At, Truth, Calls, CallTrue
  <1>2. x.receipt # None => build[x.receipt] \in BuildState
    BY <1>1 DEF Truthful, Action, Truth
  <1>3. /\ seen \in Status
        /\ seen = "succeeded" => x.receipt # None /\ build[x.receipt] = "passed"
        /\ seen = "validation_failed" => x.receipt # None /\ build[x.receipt] = "unproved"
        /\ seen = "execution_failed" => x.receipt # None /\ build[x.receipt] = "broke"
    BY <1>2 DEF Observed, Seen, BuildState, Status, Active, Terminal, Failed
  <1>4. status \in Status /\ (status # "timed_out" => status = seen)
    BY <1>3 DEF Status, Terminal, Failed
  <1>5. CASE Return(s, "error")
    BY <1>1, <1>5, EndIsTrue DEF Observe
  <1>6. CASE Carry(s, IF status \in Terminal THEN "finalize" ELSE "persist", status)
             /\ UNCHANGED workflow
    <2> HIDE DEF seen, status
    <2>1. Calls(call', build)
      <3>1. CASE status \in Terminal
        BY <1>1, <1>3, <1>4, <1>6, <3>1, CarryIsTrue DEF Truth
      <3>2. CASE status \notin Terminal
        BY <1>1, <1>3, <1>4, <1>6, <3>2, CarryIsTrue DEF Truth
      <3> QED BY <3>1, <3>2
    <2> QED BY <1>6, <2>1 DEF Observe, Truth
  <1> QED BY <1>5, <1>6 DEF Observe

(* The emergency stop, which works on an accepted build. *)
LEMMA StopIsTrue ==
  ASSUME Truth, NEW s \in Slots, NEW i \in Incidents, Stop(s, i)
  PROVE  Truth'
  <1> DEFINE old == row[i].action
             a == <<i, old.app>>
  <1>1. RowTrue(row[i], i, build) /\ row[i].col # "absent"
    BY DEF Stop, Exists, Truth, Rows
  <1>2. Truthful(old, i, build) /\ old.app \in 1..MaxApprovals
    BY <1>1, ApprovalsAssumption DEF RowTrue, Truthful, Action
  <1>3. a \in Approvals /\ IncidentOf(a) = i /\ NumberOf(a) = old.app
    BY <1>2, ApprovalShape
  <1>4. Begin(s, "stop", a, "halt", old, FALSE) /\ old.receipt # None
    BY DEF Stop
  <1>5. "stop" \in Kinds
    BY DEF Kinds
  <1> HIDE DEF old, a
  <1>6. Calls(call', build)
    BY <1>2, <1>3, <1>4, <1>5, CallBegins
  <1> QED BY <1>6 DEF Stop, Truth

LEMMA HaltIsTrue ==
  ASSUME Truth, NEW s \in Slots, Halt(s)
  PROVE  Truth'
  <1> DEFINE b == call[s].action.receipt
             stops == [queued |-> "cancelled", running |-> "broke"]
  <1>1. /\ call[s].kind # "idle" /\ b # None
        /\ Truthful(call[s].action, IncidentOf(call[s].app), build)
    BY DEF Halt, At, Truth, Calls, CallTrue
  <1>2. b \in Builds /\ build[b] # "absent"
    BY <1>1 DEF Truthful, Action
  <1>3. CASE Return(s, "error") /\ build' = build
    BY <1>1, <1>3, EndIsTrue DEF Halt
  <1>4. CASE /\ build' = IF build[b] \in Finished THEN build
                         ELSE [build EXCEPT ![b] = stops[@]]
             /\ Carry(s, "persist", "cancelled")
             /\ UNCHANGED workflow
    <2>1. Forward(build, build')
      <3>1. CASE build[b] \in Finished
        BY <1>4, <3>1, ForwardIsReflexive
      <3>2. CASE build[b] \notin Finished
        <4>1. build[b] \in {"queued", "running"}
          BY <1>2, <3>2 DEF Truth, BuildState, Finished
        <4>2. stops[build[b]] \in {"cancelled", "broke"}
          BY <4>1
        <4>3. build' = [build EXCEPT ![b] = stops[build[b]]]
          BY <1>4, <3>2
        <4> HIDE DEF stops
        <4> QED BY <1>2, <3>2, <4>2, <4>3 DEF Truth, Forward, BuildState
      <3> QED BY <3>1, <3>2
    <2>2. Rows(row, build') /\ Calls(call, build') /\ Events(outbox, build')
      BY <2>1, RowsStay, CallsStay, EventsStay DEF Truth
    <2>3. Calls(call', build')
      BY <1>1, <1>4, <2>2, CarryIsTrue DEF Status, Terminal
    <2> QED BY <1>4, <2>1, <2>2, <2>3 DEF Halt, Truth, Forward
  <1> QED BY <1>3, <1>4 DEF Halt

LEMMA TruthStep ==
  ASSUME Truth, [Next]_vars
  PROVE  Truth'
  <1>1. CASE UNCHANGED vars
    BY <1>1 DEF vars, Truth, Rows, Calls
  <1>2. ASSUME NEW s \in Slots, Engine(s) PROVE Truth'
    BY <1>2, SaveIsTrue, StartIsTrue, SubmitIsTrue, ObserveIsTrue, AnnounceIsTrue,
       HaltIsTrue DEF Engine
  <1>3. ASSUME NEW s \in Slots, Crash(s) \/ AttemptTimesOut(s) PROVE Truth'
    BY <1>3, FailureIsTrue
  <1>4. ASSUME NEW s \in Slots, NEW a \in Approvals, Execute(s, a) \/ Activity(s, a)
        PROVE  Truth'
    BY <1>4, RequestIsTrue DEF Activity
  <1>5. ASSUME NEW s \in Slots, NEW i \in Incidents, Stop(s, i) PROVE Truth'
    BY <1>5, StopIsTrue
  <1>6. CASE \/ \E i \in Incidents : Approve(i) \/ Watchdog(i)
             \/ \E a \in Approvals : Expire(a) \/ Deadline(a)
             \/ \E b \in Builds : BuildStarts(b) \/ BuildEnds(b)
    BY <1>6, EnvironmentIsTrue
  <1> QED BY <1>1, <1>2, <1>3, <1>4, <1>5, <1>6 DEF Next

LEMMA TruthAlways == Spec => []Truth
  BY InitIsTrue, TruthStep, PTL DEF Spec

LEMMA TruthMeans == Truth => TypeOK /\ OutcomesAreObserved /\ EventsAreTrue
  <1> SUFFICES ASSUME Truth PROVE TypeOK /\ OutcomesAreObserved /\ EventsAreTrue
    OBVIOUS
  <1>1. TypeOK
    BY DEF Truth, Rows, Calls, CallTrue, Events, EventTrue, TypeOK
  <1>2. OutcomesAreObserved
    BY DEF Truth, Rows, RowTrue, Truthful, OutcomesAreObserved
  <1>3. EventsAreTrue
    BY DEF Truth, Events, EventTrue, EventsAreTrue
  <1> QED BY <1>1, <1>2, <1>3

(* Every reachable state is typed: in particular no workflow spends more than *)
(* its attempts and nothing but an ended execution is announced.              *)
THEOREM TypesHold == Spec => []TypeOK
  BY TruthAlways, TruthMeans, PTL

(* Whatever fails and whichever calls race, the outcome on an action row is what *)
(* Jenkins said of a build of that row's own approval.                           *)
THEOREM OutcomesHold == Spec => []OutcomesAreObserved
  BY TruthAlways, TruthMeans, PTL

(* The same of the remediation events, under every fault as well: no event tells *)
(* of a success or a failure that its approval's own build did not have.         *)
THEOREM EventsHold == Spec => []EventsAreTrue
  BY TruthAlways, TruthMeans, PTL

-----------------------------------------------------------------------------
(* Newer approvals keep the action.                                        *)

(* Only a call that may save, or the watchdog, changes an action row. *)
LEMMA RowChanges ==
  ASSUME [Next]_vars
  PROVE  \/ row' = row
         \/ \E i \in Incidents : Watchdog(i)
         \/ \E s \in Slots : /\ call[s].kind # "idle" /\ Savable(call[s])
                            /\ row' = Saved(call[s])
  <1>1. CASE UNCHANGED vars
    BY <1>1 DEF vars
  <1>2. ASSUME NEW s \in Slots, Engine(s)
        PROVE  row' = row \/ (call[s].kind # "idle" /\ Savable(call[s]) /\ row' = Saved(call[s]))
    BY <1>2 DEF Engine, Reserve, ReserveFails, Start, StartFails, Submit, Observe,
                Persist, Finalize, Announce, Halt, At
  <1>3. ASSUME NEW s \in Slots, Crash(s) \/ AttemptTimesOut(s) PROVE row' = row
    BY <1>3 DEF Crash, AttemptTimesOut
  <1>4. ASSUME NEW s \in Slots, NEW a \in Approvals, Execute(s, a) \/ Activity(s, a)
        PROVE  row' = row
    BY <1>4 DEF Execute, Activity, Dispatch, DispatchAnswered, Ask, AskInVain, ReportFailure
  <1>5. ASSUME NEW s \in Slots, NEW i \in Incidents, Stop(s, i) PROVE row' = row
    BY <1>5 DEF Stop
  <1>6. CASE \/ \E i \in Incidents : Approve(i)
             \/ \E a \in Approvals : Expire(a) \/ Deadline(a)
             \/ \E b \in Builds : BuildStarts(b) \/ BuildEnds(b)
    BY <1>6 DEF Approve, Expire, Deadline, BuildStarts, BuildEnds
  <1> QED BY <1>1, <1>2, <1>3, <1>4, <1>5, <1>6 DEF Next

(* What a save does to the rows. *)
LEMMA SavedShape ==
  ASSUME Truth, NEW s \in Slots, call[s].kind # "idle", row' = Saved(call[s])
  PROVE  LET k == IncidentOf(call[s].app) IN
         /\ k \in Incidents
         /\ call[s].action \in Action
         /\ row'[k] = [col |-> call[s].action.status, action |-> call[s].action]
         /\ \A i \in Incidents \ {k} : row'[i] = row[i]
  <1>1. call[s].app \in Approvals /\ call[s].action \in Action
    BY DEF Truth, Calls, CallTrue, Truthful
  <1>2. IncidentOf(call[s].app) \in Incidents
    BY <1>1, ApprovalShape
  <1> QED BY <1>1, <1>2 DEF Saved, Truth, Rows

LEMMA AppsGrow ==
  ASSUME Truth, [Next]_vars
  PROVE  \A i \in Incidents : row'[i].action.app >= row[i].action.app
  <1>1. \A i \in Incidents : /\ row[i].action.app \in Nat
                             /\ row[i].col = "absent" => row[i].action.app = 0
    BY ApprovalsAssumption DEF Truth, Rows, RowTrue, Truthful, Action
  <1>2. CASE row' = row
    BY <1>1, <1>2
  <1>3. ASSUME NEW k \in Incidents, Watchdog(k)
        PROVE  \A i \in Incidents : row'[i].action.app >= row[i].action.app
    BY <1>1, <1>3 DEF Watchdog, Truth, Rows, Row
  <1>4. ASSUME NEW s \in Slots, call[s].kind # "idle", Savable(call[s]), row' = Saved(call[s])
        PROVE  \A i \in Incidents : row'[i].action.app >= row[i].action.app
    <2> DEFINE k == IncidentOf(call[s].app)
    <2>0. /\ k \in Incidents /\ call[s].action \in Action
          /\ row'[k] = [col |-> call[s].action.status, action |-> call[s].action]
          /\ \A i \in Incidents \ {k} : row'[i] = row[i]
      BY <1>4, SavedShape
    <2>1. row'[k].action = call[s].action /\ call[s].action.app \in Nat
      BY <2>0, ApprovalsAssumption DEF Action
    <2>2. call[s].action.app >= row[k].action.app
      BY <1>1, <1>4, <2>0, <2>1 DEF Savable, Exists
    <2> QED BY <1>1, <2>0, <2>1, <2>2
  <1> QED BY <1>2, <1>3, <1>4, RowChanges

AppsStay == \A i \in Incidents : row'[i].action.app >= row[i].action.app

(* Under every fault a late call of a superseded approval leaves the action to the *)
(* newer one: save_action never goes back to an earlier approval.                  *)
THEOREM NewerApprovalKeeps == Spec => NewerApprovalKeepsAction
  <1>1. Truth /\ [Next]_vars => [AppsStay]_vars
    BY AppsGrow DEF AppsStay
  <1> QED BY <1>1, TruthAlways, PTL DEF Spec, NewerApprovalKeepsAction, AppsStay

-----------------------------------------------------------------------------
(* One call about an incident at a time.                                   *)

Alone ==
  \A s, t \in Slots :
    /\ call[s].kind # "idle" /\ call[t].kind # "idle"
    /\ IncidentOf(call[s].app) = IncidentOf(call[t].app)
    => s = t

\* The call of slot s is still the same request.
SameCall(s) ==
  /\ call'[s].kind = call[s].kind /\ call'[s].app = call[s].app
  /\ call'[s].awaited = call[s].awaited
  /\ call'[s].action.app = call[s].action.app

OthersSame(s) == \A t \in Slots \ {s} : call'[t] = call[t]

LEMMA ReturnShape ==
  ASSUME Truth, NEW s \in Slots, NEW answer, Return(s, answer)
  PROVE  call'[s].kind = "idle" /\ OthersSame(s)
  BY DEF Truth, Calls, Return, Idle, OthersSame

LEMMA GotoShape ==
  ASSUME Truth, NEW s \in Slots, NEW pc, Goto(s, pc)
  PROVE  /\ SameCall(s) /\ OthersSame(s)
         /\ call'[s].pc = pc /\ call'[s].action = call[s].action
  BY DEF Truth, Calls, CallTrue, Call, Goto, SameCall, OthersSame

LEMMA SavedGotoShape ==
  ASSUME Truth, NEW s \in Slots, NEW pc, SavedGoto(s, pc)
  PROVE  /\ SameCall(s) /\ OthersSame(s)
         /\ call'[s].pc = pc /\ call'[s].action = call[s].action
  <1>1. call \in [Slots -> Call] /\ call[s] \in Call
    BY DEF Truth, Calls
  <1> QED BY <1>1 DEF Call, SavedGoto, SameCall, OthersSame

LEMMA CarryShape ==
  ASSUME Truth, NEW s \in Slots, NEW pc, NEW status, Carry(s, pc, status)
  PROVE  /\ SameCall(s) /\ OthersSame(s)
         /\ call'[s].pc = pc /\ call'[s].action.status = status
  <1>1. call \in [Slots -> Call] /\ call[s] \in Call /\ call[s].action \in Action
    BY DEF Truth, Calls, Call
  <1> QED BY <1>1 DEF Call, Action, Carry, SameCall, OthersSame

LEMMA AcceptedShape ==
  ASSUME Truth, NEW s \in Slots, NEW b,
         call' = [call EXCEPT ![s].pc = "persist",
                    ![s].action.status = "executor_accepted", ![s].action.receipt = b]
  PROVE  SameCall(s) /\ OthersSame(s) /\ call'[s].pc = "persist"
  <1>1. call \in [Slots -> Call] /\ call[s] \in Call /\ call[s].action \in Action
    BY DEF Truth, Calls, Call
  <1> QED BY <1>1 DEF Call, Action, SameCall, OthersSame

(* A step of the engine moves its own call on, or ends it. *)
LEMMA EngineShape ==
  ASSUME Truth, NEW s \in Slots, Engine(s) \/ Crash(s)
  PROVE  /\ call[s].kind # "idle" /\ OthersSame(s)
         /\ call'[s].kind # "idle" => SameCall(s)
  <1>1. call[s].kind # "idle"
    BY DEF Engine, Reserve, ReserveFails, Start, StartFails, Submit, Observe,
           Persist, Finalize, Announce, Halt, Crash, At
  <1>2. CASE Reserve(s) \/ ReserveFails(s) \/ Start(s) \/ StartFails(s)
    BY <1>1, <1>2, ReturnShape, GotoShape, SavedGotoShape, CarryShape
       DEF Reserve, ReserveFails, Start, StartFails
  <1>3. CASE Submit(s) \/ Observe(s) \/ Halt(s)
    BY <1>1, <1>3, ReturnShape, CarryShape, AcceptedShape DEF Submit, Observe, Halt
  <1>4. CASE Persist(s) \/ Finalize(s) \/ Announce(s) \/ Crash(s)
    BY <1>1, <1>4, ReturnShape, SavedGotoShape DEF Persist, Finalize, Announce, Crash
  <1> QED BY <1>2, <1>3, <1>4 DEF Engine

LEMMA BeginShape ==
  ASSUME Truth, NEW s \in Slots, NEW kind, NEW a, NEW pc, NEW x, NEW awaited,
         Begin(s, kind, a, pc, x, awaited)
  PROVE  /\ call'[s].kind = kind /\ call'[s].app = a /\ call'[s].pc = pc
         /\ call'[s].action = x /\ call'[s].awaited = awaited
         /\ OthersSame(s)
  BY DEF Truth, Calls, Begin, OthersSame

(* A request answered at once changes no call, another begins one in a free slot. *)
LEMMA RequestShape ==
  ASSUME Truth, NEW s \in Slots, NEW a \in Approvals, Execute(s, a) \/ Activity(s, a)
  PROVE  \/ call' = call
         \/ MayCall(s, IncidentOf(a)) /\ call'[s].app = a /\ OthersSame(s)
  <1>0. ASSUME NEW kind, NEW pc, NEW x, NEW awaited, Begin(s, kind, a, pc, x, awaited)
        PROVE  call'[s].app = a /\ OthersSame(s)
    BY <1>0, BeginShape
  <1>1. CASE Execute(s, a)
    <2>1. MayCall(s, IncidentOf(a))
          /\ Begin(s, "execute", a, "reserve", NewAction(a, "pending"), FALSE)
      BY <1>1 DEF Execute
    <2> QED BY <1>0, <2>1
  <1>2. CASE Dispatch(s, a)
    <2>1. MayCall(s, IncidentOf(a))
          /\ Begin(s, "dispatch", a, "reserve", NewAction(a, "dispatching"), TRUE)
      BY <1>2 DEF Dispatch
    <2> QED BY <1>0, <2>1
  <1>3. CASE Ask(s, a)
    <2> DEFINE old == row[IncidentOf(a)].action
    <2>1. MayCall(s, IncidentOf(a))
          /\ Begin(s, workflow[a].pc, a,
                   IF old.status \in Terminal THEN "finalize" ELSE "observe", old, TRUE)
      BY <1>3 DEF Ask
    <2> QED BY <1>0, <2>1
  <1>4. CASE ReportFailure(s, a)
    <2>1. MayCall(s, IncidentOf(a))
          /\ \E x : Begin(s, workflow[a].pc, a, "finalize", x, TRUE)
      BY <1>4 DEF ReportFailure
    <2> QED BY <1>0, <2>1
  <1>5. CASE DispatchAnswered(s, a) \/ AskInVain(s, a)
    BY <1>5 DEF DispatchAnswered, AskInVain
  <1> QED BY <1>1, <1>2, <1>3, <1>4, <1>5 DEF Activity

LEMMA AloneStep ==
  ASSUME Truth, "overlap" \notin Faults, Alone, [Next]_vars
  PROVE  Alone'
  <1>1. ASSUME call' = call PROVE Alone'
    BY <1>1 DEF Alone
  <1>2. ASSUME NEW s \in Slots, Engine(s) \/ Crash(s) PROVE Alone'
    <2>1. /\ call[s].kind # "idle" /\ OthersSame(s)
          /\ call'[s].kind # "idle" => SameCall(s)
      BY <1>2, EngineShape
    <2> QED BY <2>1 DEF Alone, OthersSame, SameCall
  <1>3. ASSUME NEW s \in Slots, NEW i, MayCall(s, i), IncidentOf(call'[s].app) = i,
               OthersSame(s)
        PROVE  Alone'
    BY <1>3 DEF MayCall, InFlight, OthersSame, Alone
  <1>4. ASSUME NEW s \in Slots, NEW a \in Approvals, Execute(s, a) \/ Activity(s, a)
        PROVE  Alone'
    BY <1>1, <1>3, <1>4, RequestShape
  <1>5. ASSUME NEW s \in Slots, NEW i \in Incidents, Stop(s, i) PROVE Alone'
    <2>1. MayCall(s, i) /\ call'[s].app = <<i, row[i].action.app>> /\ OthersSame(s)
      BY <1>5, BeginShape DEF Stop
    <2> QED BY <1>3, <2>1 DEF IncidentOf
  <1>6. ASSUME NEW s \in Slots, AttemptTimesOut(s) PROVE Alone'
    BY <1>6 DEF AttemptTimesOut
  <1>7. CASE \/ \E i \in Incidents : Approve(i) \/ Watchdog(i)
             \/ \E a \in Approvals : Expire(a) \/ Deadline(a)
             \/ \E b \in Builds : BuildStarts(b) \/ BuildEnds(b)
             \/ UNCHANGED vars
    BY <1>1, <1>7 DEF Approve, Watchdog, Expire, Deadline, BuildStarts, BuildEnds, vars
  <1> QED BY <1>2, <1>4, <1>5, <1>6, <1>7 DEF Next

-----------------------------------------------------------------------------
(* One incident holds the target, when calls do not overlap and the        *)
(* watchdog stays away: a call that may write an active status has the      *)
(* target reserved already, and nobody else writes its row meanwhile.       *)

\* Without the watchdog the status column says what the payload says.
Columns == \A i \in Incidents : Exists(i) => row[i].col = row[i].action.status

Held(c, R) ==
  c.kind # "idle" =>
    /\ c.pc = "reserve" => c.action.status \in Active
    /\ (\/ c.pc \in {"start", "submit", "observe"}
        \/ c.pc = "persist" /\ c.action.status \in Active)
       => R[IncidentOf(c.app)].col \in Active

HoldInv ==
  /\ Truth /\ Alone /\ Columns /\ TargetExclusive
  /\ \A s \in Slots : Held(call[s], row)

LEMMA HoldEngine ==
  ASSUME HoldInv, NEW s \in Slots, Engine(s) \/ Crash(s)
  PROVE  /\ Held(call'[s], row')
         /\ \/ row' = row
            \/ /\ row' = Saved(call[s])
               /\ call[s].action.status \in Active =>
                    \/ row[IncidentOf(call[s].app)].col \in Active
                    \/ ~TargetBusy(IncidentOf(call[s].app))
  <1> DEFINE k == IncidentOf(call[s].app)
  <1>0. Truth /\ Held(call[s], row) /\ call[s].kind # "idle"
    BY EngineShape DEF HoldInv
  <1>1. ASSUME NEW answer, Return(s, answer) PROVE Held(call'[s], row')
    BY <1>0, <1>1, ReturnShape DEF Held
  <1>2. ASSUME row' = Saved(call[s])
        PROVE  row'[k] = [col |-> call[s].action.status, action |-> call[s].action]
    BY <1>0, <1>2, SavedShape
  <1>3. CASE Reserve(s)
    <2>1. call[s].action.status \in Active /\ ~TargetBusy(k) /\ row' = Saved(call[s])
      BY <1>0, <1>3 DEF Reserve, At, Held
    <2>2. row'[k].col \in Active
      BY <1>2, <2>1
    <2>3. SameCall(s) /\ call'[s].pc \in {"start", "submit"}
      BY <1>0, <1>3, SavedGotoShape DEF Reserve
    <2> QED BY <2>1, <2>2, <2>3 DEF Held, SameCall
  <1>4. CASE Start(s) \/ StartFails(s)
    <2>1. row' = row /\ row[k].col \in Active
      BY <1>0, <1>4 DEF Start, StartFails, At, Held
    <2>2. SameCall(s) /\ call'[s].pc = "persist"
      BY <1>0, <1>4, GotoShape, CarryShape DEF Start, StartFails
    <2> QED BY <2>1, <2>2 DEF Held, SameCall
  <1>5. CASE Submit(s)
    <2>1. row' = row /\ row[k].col \in Active
      BY <1>0, <1>5 DEF Submit, At, Held
    <2>2. \/ SameCall(s) /\ call'[s].pc = "persist"
          \/ Return(s, "error")
      BY <1>0, <1>5, CarryShape, AcceptedShape DEF Submit
    <2> QED BY <1>1, <2>1, <2>2 DEF Held, SameCall
  <1>6. CASE Observe(s)
    <2>1. row' = row /\ row[k].col \in Active
      BY <1>0, <1>6 DEF Observe, At, Held
    <2>2. \/ SameCall(s) /\ call'[s].pc \in {"persist", "finalize"}
          \/ Return(s, "error")
      BY <1>0, <1>6, CarryShape DEF Observe
    <2> QED BY <1>1, <2>1, <2>2 DEF Held, SameCall
  <1>7. CASE Halt(s)
    <2>1. row' = row
      BY <1>7 DEF Halt
    <2>2. \/ call'[s].pc = "persist" /\ call'[s].action.status = "cancelled"
          \/ Return(s, "error")
      BY <1>0, <1>7, CarryShape DEF Halt
    <2> QED BY <1>1, <2>1, <2>2 DEF Held, Active
  <1>8. CASE Persist(s)
    <2>1. call[s].action.status \in Active => row[k].col \in Active
      BY <1>0, <1>8 DEF Persist, At, Held
    <2> QED BY <1>1, <1>8, <2>1 DEF Persist
  <1>9. CASE Finalize(s) \/ Announce(s)
    <2>1. call[s].action.status \in Terminal
      BY <1>0, <1>9 DEF Finalize, Announce, At, Truth, Calls, CallTrue
    <2>2. call[s].action.status \notin Active
      BY <2>1 DEF Terminal, Failed, Active
    <2>3. call'[s].pc = "announce" \/ \E answer : Return(s, answer)
      BY <1>0, <1>9, SavedGotoShape DEF Finalize, Announce
    <2>4. Held(call'[s], row')
      BY <1>1, <2>3 DEF Held
    <2> QED BY <1>9, <2>2, <2>4 DEF Finalize, Announce
  <1>10. CASE ReserveFails(s) \/ Crash(s)
    BY <1>1, <1>10 DEF ReserveFails, Crash
  <1> QED BY <1>3, <1>4, <1>5, <1>6, <1>7, <1>8, <1>9, <1>10 DEF Engine

LEMMA HoldRequest ==
  ASSUME HoldInv, NEW s \in Slots, NEW a \in Approvals, Execute(s, a) \/ Activity(s, a)
  PROVE  /\ row' = row
         /\ call' = call \/ (OthersSame(s) /\ Held(call'[s], row))
  <1> DEFINE i == IncidentOf(a)
             old == row[i].action
  <1>0. Truth /\ i \in Incidents
    BY ApprovalShape DEF HoldInv
  <1>1. ASSUME NEW kind, NEW pc, NEW x, NEW awaited, Begin(s, kind, a, pc, x, awaited),
               pc = "reserve" => x.status \in Active,
               pc = "observe" => row[i].col \in Active,
               pc \in {"reserve", "observe", "finalize"}
        PROVE  OthersSame(s) /\ Held(call'[s], row)
    <2>1. /\ OthersSame(s) /\ call'[s].app = a /\ call'[s].pc = pc
          /\ call'[s].action = x
      BY <1>0, <1>1, BeginShape
    <2> QED BY <1>1, <2>1 DEF Held
  <1>2. CASE Execute(s, a)
    <2>1. Begin(s, "execute", a, "reserve", NewAction(a, "pending"), FALSE)
      BY <1>2 DEF Execute
    <2>2. NewAction(a, "pending").status \in Active
      BY DEF NewAction, Active
    <2> QED BY <1>1, <1>2, <2>1, <2>2 DEF Execute
  <1>3. CASE Dispatch(s, a)
    <2>1. Begin(s, "dispatch", a, "reserve", NewAction(a, "dispatching"), TRUE)
      BY <1>3 DEF Dispatch
    <2>2. NewAction(a, "dispatching").status \in Active
      BY DEF NewAction, Active
    <2> QED BY <1>1, <1>3, <2>1, <2>2 DEF Dispatch
  <1>4. CASE Ask(s, a)
    <2> DEFINE pc == IF old.status \in Terminal THEN "finalize" ELSE "observe"
    <2>1. Begin(s, workflow[a].pc, a, pc, old, TRUE) /\ Exists(i)
      BY <1>4 DEF Ask, Found
    <2>2. old.status \in Status /\ row[i].col = old.status
      BY <1>0, <2>1 DEF HoldInv, Columns, Truth, Rows, RowTrue, Truthful, Action
    <2>3. pc = "observe" => row[i].col \in Active
      BY <2>2 DEF Status
    <2> QED BY <1>1, <1>4, <2>1, <2>3 DEF Ask
  <1>5. CASE ReportFailure(s, a)
    <2>1. \E x : Begin(s, workflow[a].pc, a, "finalize", x, TRUE)
      BY <1>5 DEF ReportFailure
    <2> QED BY <1>1, <1>5, <2>1 DEF ReportFailure
  <1>6. CASE DispatchAnswered(s, a) \/ AskInVain(s, a)
    BY <1>6 DEF DispatchAnswered, AskInVain
  <1> QED BY <1>2, <1>3, <1>4, <1>5, <1>6 DEF Activity

LEMMA HoldStep ==
  ASSUME HoldInv, "overlap" \notin Faults, "stale" \notin Faults, [Next]_vars
  PROVE  HoldInv'
  <1>0. Truth' /\ Alone'
    BY TruthStep, AloneStep DEF HoldInv
  <1>1. ASSUME row' = row, call' = call PROVE HoldInv'
    BY <1>0, <1>1 DEF HoldInv, Columns, Exists, TargetExclusive, Held
  <1>2. ASSUME NEW s \in Slots, Engine(s) \/ Crash(s) PROVE HoldInv'
    <2> DEFINE k == IncidentOf(call[s].app)
    <2>1. /\ Truth /\ call[s].kind # "idle" /\ OthersSame(s) /\ Held(call'[s], row')
          /\ \/ row' = row
             \/ /\ row' = Saved(call[s])
                /\ call[s].action.status \in Active =>
                     row[k].col \in Active \/ ~TargetBusy(k)
      BY <1>2, EngineShape, HoldEngine DEF HoldInv
    <2>2. CASE row' = row
      <3>1. \A t \in Slots : Held(call'[t], row')
        BY <2>1, <2>2 DEF OthersSame, HoldInv
      <3> QED BY <1>0, <2>2, <3>1 DEF HoldInv, Columns, Exists, TargetExclusive
    <2>3. CASE /\ row' = Saved(call[s])
               /\ call[s].action.status \in Active =>
                    row[k].col \in Active \/ ~TargetBusy(k)
      <3>1. /\ k \in Incidents
            /\ row'[k] = [col |-> call[s].action.status, action |-> call[s].action]
            /\ \A i \in Incidents \ {k} : row'[i] = row[i]
        BY <2>1, <2>3, SavedShape
      <3>2. \A t \in Slots : Held(call'[t], row')
        <4> SUFFICES ASSUME NEW t \in Slots \ {s} PROVE Held(call'[t], row')
          BY <2>1
        <4>1. call'[t] = call[t] /\ Held(call[t], row)
          BY <2>1 DEF OthersSame, HoldInv
        <4>2. call[t].kind # "idle" =>
                IncidentOf(call[t].app) \in Incidents /\ IncidentOf(call[t].app) # k
          BY <2>1, ApprovalShape DEF HoldInv, Alone, Truth, Calls, CallTrue
        <4> QED BY <3>1, <4>1, <4>2 DEF Held
      <3>3. Columns'
        BY <3>1 DEF HoldInv, Columns, Exists
      <3>4. TargetExclusive'
        <4>1. row'[k].col = call[s].action.status
          BY <3>1
        <4> QED BY <2>3, <3>1, <4>1 DEF HoldInv, TargetExclusive, TargetBusy
      <3> QED BY <1>0, <3>2, <3>3, <3>4 DEF HoldInv
    <2> QED BY <2>1, <2>2, <2>3
  <1>3. ASSUME row' = row, NEW s \in Slots, OthersSame(s), Held(call'[s], row) PROVE HoldInv'
    <2>1. \A t \in Slots : Held(call'[t], row')
      BY <1>3 DEF OthersSame, HoldInv
    <2> QED BY <1>0, <1>3, <2>1 DEF HoldInv, Columns, Exists, TargetExclusive
  <1>4. ASSUME NEW s \in Slots, NEW a \in Approvals, Execute(s, a) \/ Activity(s, a)
        PROVE  HoldInv'
    BY <1>1, <1>3, <1>4, HoldRequest
  <1>5. ASSUME NEW s \in Slots, NEW i \in Incidents, Stop(s, i) PROVE HoldInv'
    <2>1. row' = row /\ OthersSame(s) /\ call'[s].pc = "halt"
      BY <1>5, BeginShape DEF Stop, HoldInv
    <2> QED BY <1>3, <2>1 DEF Held
  <1>6. ASSUME NEW s \in Slots, AttemptTimesOut(s) PROVE HoldInv'
    BY <1>6 DEF AttemptTimesOut
  <1>7. CASE \/ \E i \in Incidents : Approve(i) \/ Watchdog(i)
             \/ \E a \in Approvals : Expire(a) \/ Deadline(a)
             \/ \E b \in Builds : BuildStarts(b) \/ BuildEnds(b)
             \/ UNCHANGED vars
    BY <1>1, <1>7 DEF Approve, Watchdog, Expire, Deadline, BuildStarts, BuildEnds, vars
  <1> QED BY <1>2, <1>4, <1>5, <1>6, <1>7 DEF Next

LEMMA HoldInit == Init => HoldInv
  <1> SUFFICES ASSUME Init PROVE HoldInv
    OBVIOUS
  <1>1. /\ \A i \in Incidents : row[i].col = "absent"
        /\ \A s \in Slots : call[s].kind = "idle"
    BY DEF Init, Idle
  <1>2. Truth
    BY InitIsTrue
  <1> QED BY <1>1, <1>2
          DEF HoldInv, Alone, Columns, Exists, TargetExclusive, Held, Active

(* While calls about an incident do not overlap and the watchdog finds nothing *)
(* to expire, two incidents never hold the target together, whatever crashes,  *)
(* lost answers and expiring approvals happen on the way.                      *)
THEOREM TargetsAreExclusive ==
  "overlap" \notin Faults /\ "stale" \notin Faults => (Spec => []TargetExclusive)
  <1> SUFFICES ASSUME "overlap" \notin Faults, "stale" \notin Faults
               PROVE  Spec => []TargetExclusive
    OBVIOUS
  <1>1. HoldInv /\ [Next]_vars => HoldInv'
    BY HoldStep
  <1>2. HoldInv => TargetExclusive
    BY DEF HoldInv
  <1> QED BY <1>1, <1>2, HoldInit, PTL DEF Spec

-----------------------------------------------------------------------------
(* Success is final, when calls do not overlap.  The workflow of an approval  *)
(* starts only once the row is that approval's, so an activity that finds a   *)
(* success either knows it as its own or belongs to a superseded approval,    *)
(* whose action cannot be saved.                                              *)

NotBefore(a, R) == R[IncidentOf(a)].action.app >= NumberOf(a)

\* What a call presupposes of the rows R and the workflows W.
Begun(c, R, W) ==
  c.kind # "idle" =>
    /\ c.pc = "start" => NotBefore(c.app, R)
    /\ c.awaited => W[c.app].pc # "none"

Started ==
  /\ \A a \in Approvals : workflow[a].pc # "none" => NotBefore(a, row)
  /\ \A s \in Slots : Begun(call[s], row, workflow)

LEMMA NotBeforeStays ==
  ASSUME Truth, [Next]_vars, NEW a \in Approvals, NotBefore(a, row)
  PROVE  NotBefore(a, row')
  <1> DEFINE i == IncidentOf(a)
  <1>1. i \in Incidents /\ NumberOf(a) \in Nat
    BY ApprovalShape, ApprovalsAssumption
  <1>2. row[i].action.app \in Nat /\ row'[i].action.app \in Nat
    BY <1>1, TruthStep, ApprovalsAssumption DEF Truth, Rows, RowTrue, Truthful, Action
  <1>3. row'[i].action.app >= row[i].action.app
    BY <1>1, AppsGrow
  <1> QED BY <1>1, <1>2, <1>3 DEF NotBefore

(* An answer neither starts nor unstarts a workflow that has begun. *)
LEMMA AnswerShape ==
  ASSUME Truth, NEW a \in Approvals, workflow[a].pc # "none", NEW answer, Answer(a, answer)
  PROVE  \A x \in Approvals : workflow'[x].pc # "none" <=> workflow[x].pc # "none"
  <1>1. Answered(workflow[a], answer).pc # "none"
    BY AnsweredIsTyped DEF Truth
  <1> QED BY <1>1 DEF Answer, Truth

LEMMA ReturnKeepsWorkflows ==
  ASSUME Truth, Started, NEW s \in Slots, call[s].kind # "idle", NEW answer, Return(s, answer)
  PROVE  \A x \in Approvals : workflow'[x].pc # "none" <=> workflow[x].pc # "none"
  <1>1. call[s].app \in Approvals
    BY DEF Truth, Calls, CallTrue
  <1>2. CASE call[s].awaited
    <2>1. Answer(call[s].app, answer) /\ workflow[call[s].app].pc # "none"
      BY <1>2 DEF Return, Answer, Started, Begun
    <2> QED BY <1>1, <2>1, AnswerShape
  <1>3. CASE ~call[s].awaited
    BY <1>3 DEF Return
  <1> QED BY <1>2, <1>3

(* Workflows begin when a call starts one, and never go back to where they were not. *)
LEMMA WorkflowShape ==
  ASSUME Truth, Started, [Next]_vars
  PROVE  \A a \in Approvals :
           /\ workflow[a].pc # "none" => workflow'[a].pc # "none"
           /\ workflow'[a].pc # "none" =>
                \/ workflow[a].pc # "none"
                \/ \E s \in Slots : At(s, "start") /\ call[s].app = a
  <1> DEFINE Same == \A x \in Approvals : workflow'[x].pc # "none" <=> workflow[x].pc # "none"
  <1>1. CASE workflow' = workflow
    BY <1>1
  <1>2. ASSUME NEW s \in Slots, Start(s) \/ StartFails(s)
        PROVE  \A a \in Approvals :
                 /\ workflow[a].pc # "none" => workflow'[a].pc # "none"
                 /\ workflow'[a].pc # "none" =>
                      workflow[a].pc # "none" \/ (At(s, "start") /\ call[s].app = a)
    BY <1>2 DEF Start, StartFails, Launched, Truth
  <1>3. ASSUME NEW s \in Slots, Engine(s) \/ Crash(s), ~Start(s), ~StartFails(s)
        PROVE  workflow' = workflow \/ Same
    <2>1. workflow' = workflow \/ \E answer : Return(s, answer)
      BY <1>3 DEF Engine, Reserve, ReserveFails, Submit, Observe, Persist,
                  Finalize, Announce, Halt, Crash
    <2>2. call[s].kind # "idle"
      BY <1>3, EngineShape
    <2> QED BY <2>1, <2>2, ReturnKeepsWorkflows
  <1>4. ASSUME NEW s \in Slots, AttemptTimesOut(s) PROVE Same
    <2>1. /\ call[s].app \in Approvals /\ Answer(call[s].app, "lost")
          /\ workflow[call[s].app].pc # "none"
      BY <1>4 DEF AttemptTimesOut, Started, Begun, Truth, Calls, CallTrue
    <2> QED BY <2>1, AnswerShape
  <1>5. ASSUME NEW s \in Slots, NEW a \in Approvals, Execute(s, a) \/ Activity(s, a)
        PROVE  workflow' = workflow \/ Same
    <2>1. CASE Execute(s, a)
      BY <2>1 DEF Execute
    <2>2. CASE Activity(s, a)
      <3>1. workflow[a].pc # "none"
        BY <2>2 DEF Activity, Dispatch, DispatchAnswered, Ask, AskInVain, ReportFailure,
                    Ready, Steps
      <3>2. Await(a) \/ \E answer : Answer(a, answer)
        BY <2>2 DEF Activity, Dispatch, DispatchAnswered, Ask, AskInVain, ReportFailure
      <3>3. Await(a) => Same
        BY <3>1 DEF Await, Truth, Workflow
      <3> QED BY <3>1, <3>2, <3>3, AnswerShape
    <2> QED BY <1>5, <2>1, <2>2
  <1>6. ASSUME NEW a \in Approvals, Deadline(a) PROVE Same
    BY <1>6 DEF Deadline, Ready, Steps, Truth
  <1>7. CASE \/ \E i \in Incidents : Approve(i) \/ Watchdog(i)
             \/ \E a \in Approvals : Expire(a)
             \/ \E s \in Slots, i \in Incidents : Stop(s, i)
             \/ \E b \in Builds : BuildStarts(b) \/ BuildEnds(b)
             \/ UNCHANGED vars
    BY <1>1, <1>7 DEF Approve, Watchdog, Expire, Stop, BuildStarts, BuildEnds, vars
  <1> QED BY <1>1, <1>2, <1>3, <1>4, <1>5, <1>6, <1>7 DEF Next

LEMMA StartedStep ==
  ASSUME Truth, Started, [Next]_vars
  PROVE  Started'
  <1>1. \A a \in Approvals : NotBefore(a, row) => NotBefore(a, row')
    BY NotBeforeStays
  <1>2. \A a \in Approvals : workflow'[a].pc # "none" => NotBefore(a, row')
    <2> SUFFICES ASSUME NEW a \in Approvals, workflow'[a].pc # "none" PROVE NotBefore(a, row')
      OBVIOUS
    <2>1. workflow[a].pc # "none" \/ \E s \in Slots : At(s, "start") /\ call[s].app = a
      BY WorkflowShape
    <2>2. NotBefore(a, row)
      BY <2>1 DEF Started, Begun, At
    <2> QED BY <1>1, <2>2
  <1>3. ASSUME \A t \in Slots : Begun(call'[t], row', workflow') PROVE Started'
    BY <1>2, <1>3 DEF Started
  <1>4. \A t \in Slots : Begun(call[t], row', workflow')
    BY <1>1, WorkflowShape DEF Started, Begun, Truth, Calls, CallTrue
  <1>5. ASSUME NEW s \in Slots, Engine(s) \/ Crash(s) PROVE Started'
    <2>1. /\ call[s].kind # "idle" /\ OthersSame(s)
          /\ call'[s].kind # "idle" => SameCall(s)
      BY <1>5, EngineShape
    <2>2. call'[s].kind # "idle" /\ call'[s].pc = "start" => Reserve(s)
      <3> DEFINE Ahead == call'[s].kind # "idle" => call'[s].pc # "start"
      <3>1. ReserveFails(s) \/ StartFails(s) => Ahead
        BY ReturnShape, GotoShape DEF ReserveFails, StartFails
      <3>2. Start(s) => Ahead
        <4>1. Start(s) => Carry(s, "persist", "dispatching")
          BY DEF Start
        <4> QED BY <4>1, CarryShape
      <3>3. Submit(s) => Ahead
        <4>1. Submit(s) => \/ Return(s, "error")
                           \/ \E status : Carry(s, "persist", status)
                           \/ \E b : call' = [call EXCEPT ![s].pc = "persist",
                                ![s].action.status = "executor_accepted", ![s].action.receipt = b]
          BY DEF Submit
        <4>2. ASSUME NEW b, call' = [call EXCEPT ![s].pc = "persist",
                                ![s].action.status = "executor_accepted", ![s].action.receipt = b]
              PROVE  Ahead
          BY <4>2, AcceptedShape
        <4> QED BY <4>1, <4>2, ReturnShape, CarryShape
      <3>4. Halt(s) => Ahead
        <4>1. Halt(s) => Return(s, "error") \/ Carry(s, "persist", "cancelled")
          BY DEF Halt
        <4> QED BY <4>1, ReturnShape, CarryShape
      <3>5. Observe(s) => Ahead
        BY ReturnShape, CarryShape DEF Observe
      <3>6. Persist(s) \/ Finalize(s) \/ Announce(s) \/ Crash(s) => Ahead
        BY ReturnShape, SavedGotoShape DEF Persist, Finalize, Announce, Crash
      <3> QED BY <1>5, <3>1, <3>2, <3>3, <3>4, <3>5, <3>6 DEF Engine
    <2>3. Reserve(s) => NotBefore(call[s].app, row')
      <3> SUFFICES ASSUME Reserve(s) PROVE NotBefore(call[s].app, row')
        OBVIOUS
      <3> DEFINE k == IncidentOf(call[s].app)
      <3>1. row'[k] = [col |-> call[s].action.status, action |-> call[s].action]
        BY <2>1, SavedShape DEF Reserve
      <3>2. call[s].action.app = NumberOf(call[s].app) /\ NumberOf(call[s].app) \in Nat
        BY <2>1, ApprovalShape, ApprovalsAssumption DEF Truth, Calls, CallTrue
      <3> QED BY <3>1, <3>2 DEF NotBefore
    <2>4. Begun(call'[s], row', workflow')
      BY <1>4, <2>1, <2>2, <2>3 DEF SameCall, Begun
    <2>5. \A t \in Slots : Begun(call'[t], row', workflow')
      BY <1>4, <2>1, <2>4 DEF OthersSame
    <2> QED BY <1>3, <2>5
  <1>6. ASSUME NEW s \in Slots, OthersSame(s), Begun(call'[s], row', workflow') PROVE Started'
    <2>1. \A t \in Slots : Begun(call'[t], row', workflow')
      BY <1>4, <1>6 DEF OthersSame
    <2> QED BY <1>3, <2>1
  <1>7. ASSUME NEW s \in Slots, AttemptTimesOut(s) PROVE Started'
    <2>1. OthersSame(s) /\ ~call'[s].awaited /\ call'[s].pc = call[s].pc
          /\ call'[s].app = call[s].app /\ call'[s].kind = call[s].kind
      BY <1>7 DEF AttemptTimesOut, Truth, Calls, Call, OthersSame
    <2> QED BY <1>4, <1>6, <2>1 DEF Begun
  <1>8. ASSUME NEW s \in Slots, NEW a \in Approvals, Execute(s, a) \/ Activity(s, a)
        PROVE  Started'
    <2>1. ASSUME NEW kind, NEW pc, NEW x, NEW awaited, Begin(s, kind, a, pc, x, awaited),
                 pc # "start", awaited => workflow[a].pc # "none"
          PROVE  Started'
      <3>1. /\ call'[s].app = a /\ call'[s].pc = pc /\ call'[s].awaited = awaited
            /\ OthersSame(s)
        BY <2>1, BeginShape
      <3> QED BY <1>6, <2>1, <3>1, WorkflowShape DEF Begun
    <2>2. CASE Execute(s, a)
      <3>1. Begin(s, "execute", a, "reserve", NewAction(a, "pending"), FALSE)
        BY <2>2 DEF Execute
      <3> QED BY <2>1, <3>1
    <2>3. CASE Dispatch(s, a)
      <3>1. Begin(s, "dispatch", a, "reserve", NewAction(a, "dispatching"), TRUE)
            /\ workflow[a].pc # "none"
        BY <2>3 DEF Dispatch
      <3> QED BY <2>1, <3>1
    <2>4. CASE Ask(s, a)
      <3> DEFINE old == row[IncidentOf(a)].action
                 pc == IF old.status \in Terminal THEN "finalize" ELSE "observe"
      <3>1. Begin(s, workflow[a].pc, a, pc, old, TRUE) /\ workflow[a].pc # "none"
        BY <2>4 DEF Ask, Ready, Steps
      <3> QED BY <2>1, <3>1
    <2>5. CASE ReportFailure(s, a)
      <3>1. (\E x : Begin(s, workflow[a].pc, a, "finalize", x, TRUE)) /\ workflow[a].pc # "none"
        BY <2>5 DEF ReportFailure
      <3> QED BY <2>1, <3>1
    <2>6. CASE DispatchAnswered(s, a) \/ AskInVain(s, a)
      <3>1. call' = call
        BY <2>6 DEF DispatchAnswered, AskInVain
      <3> QED BY <1>3, <1>4, <3>1
    <2> QED BY <1>8, <2>2, <2>3, <2>4, <2>5, <2>6 DEF Activity
  <1>9. ASSUME NEW s \in Slots, NEW i \in Incidents, Stop(s, i) PROVE Started'
    <2>1. OthersSame(s) /\ call'[s].pc = "halt" /\ call'[s].awaited = FALSE
      BY <1>9, BeginShape DEF Stop
    <2> QED BY <1>6, <2>1 DEF Begun
  <1>10. CASE \/ \E i \in Incidents : Approve(i) \/ Watchdog(i)
              \/ \E a \in Approvals : Expire(a) \/ Deadline(a)
              \/ \E b \in Builds : BuildStarts(b) \/ BuildEnds(b)
              \/ UNCHANGED vars
    <2>1. call' = call
      BY <1>10 DEF Approve, Watchdog, Expire, Deadline, BuildStarts, BuildEnds, vars
    <2> QED BY <1>3, <1>4, <2>1
  <1> QED BY <1>5, <1>7, <1>8, <1>9, <1>10 DEF Next

\* A call that meets a success announces it, or is of a superseded approval.
Kept(c, R) ==
  c.kind # "idle" =>
    /\ c.pc = "reserve" => c.action.status \in Active
    /\ R[IncidentOf(c.app)].action.status = "succeeded" =>
         \/ c.pc \in {"finalize", "announce"} /\ c.action.status = "succeeded"
         \/ R[IncidentOf(c.app)].action.app > c.action.app

SuccessInv ==
  /\ Truth /\ Alone /\ Started
  /\ \A s \in Slots : Kept(call[s], row)

LEMMA SuccessExists ==
  ASSUME Truth, NEW i \in Incidents, row[i].action.status = "succeeded"
  PROVE  Exists(i) /\ row[i].action.app \in Nat
  <1>1. /\ row[i].action.app \in 0..MaxApprovals
        /\ row[i].action.receipt \in Builds
        /\ ApprovalOf(row[i].action.receipt) = <<i, row[i].action.app>>
    BY DEF Truth, Rows, RowTrue, Truthful, Action
  <1>2. row[i].action.app \in 1..MaxApprovals
    BY <1>1 DEF Builds, Approvals, ApprovalOf
  <1> QED BY <1>2, ApprovalsAssumption DEF Exists, Truth, Rows, RowTrue

(* Only the call that announces a success can save over it. *)
LEMMA SuccessIsKept ==
  ASSUME SuccessInv, NEW s \in Slots, call[s].kind # "idle", Savable(call[s]),
         row[IncidentOf(call[s].app)].action.status = "succeeded"
  PROVE  call[s].pc \in {"finalize", "announce"} /\ call[s].action.status = "succeeded"
  <1> DEFINE k == IncidentOf(call[s].app)
  <1>1. /\ k \in Incidents /\ call[s].action.app \in Nat
        /\ Exists(k) /\ row[k].action.app \in Nat
    BY ApprovalShape, ApprovalsAssumption, SuccessExists
       DEF SuccessInv, Truth, Calls, CallTrue
  <1>2. call[s].action.app >= row[k].action.app
    BY <1>1 DEF Savable
  <1> QED BY <1>1, <1>2 DEF SuccessInv, Kept

LEMMA KeptEngine ==
  ASSUME SuccessInv, NEW s \in Slots, Engine(s) \/ Crash(s)
  PROVE  /\ Kept(call'[s], row')
         /\ row' = row \/ (Savable(call[s]) /\ row' = Saved(call[s]))
  <1> DEFINE k == IncidentOf(call[s].app)
  <1>0. Truth /\ Kept(call[s], row) /\ call[s].kind # "idle"
    BY EngineShape DEF SuccessInv
  <1>1. ASSUME NEW answer, Return(s, answer) PROVE Kept(call'[s], row')
    BY <1>0, <1>1, ReturnShape DEF Kept
  <1>1a. ASSUME row' = Saved(call[s])
         PROVE  row'[k] = [col |-> call[s].action.status, action |-> call[s].action]
    BY <1>0, <1>1a, SavedShape
  <1>2. ASSUME row' = row, SameCall(s), call'[s].pc # "reserve",
               call[s].pc \notin {"finalize", "announce"}
        PROVE  Kept(call'[s], row')
    BY <1>0, <1>2 DEF Kept, SameCall
  <1>3. CASE Reserve(s)
    <2>1. call[s].action.status \in Active /\ row' = Saved(call[s]) /\ Savable(call[s])
      BY <1>0, <1>3 DEF Reserve, At, Kept
    <2>2. row'[k].action.status # "succeeded"
      BY <1>1a, <2>1 DEF Active
    <2>3. SameCall(s) /\ call'[s].pc \in {"start", "submit"}
      BY <1>0, <1>3, SavedGotoShape DEF Reserve
    <2> QED BY <2>1, <2>2, <2>3 DEF Kept, SameCall
  <1>4. CASE Start(s) \/ StartFails(s)
    <2>1. row' = row /\ call[s].pc = "start"
      BY <1>4 DEF Start, StartFails, At
    <2>2. SameCall(s) /\ call'[s].pc = "persist"
      BY <1>0, <1>4, GotoShape, CarryShape DEF Start, StartFails
    <2> QED BY <1>2, <2>1, <2>2
  <1>5. CASE Submit(s)
    <2>1. row' = row /\ call[s].pc = "submit"
      BY <1>5 DEF Submit, At
    <2>2. \/ SameCall(s) /\ call'[s].pc = "persist"
          \/ Return(s, "error")
      <3>1. ASSUME NEW b, call' = [call EXCEPT ![s].pc = "persist",
                     ![s].action.status = "executor_accepted", ![s].action.receipt = b]
            PROVE  SameCall(s) /\ call'[s].pc = "persist"
        BY <1>0, <3>1, AcceptedShape
      <3>2. ASSUME NEW status, Carry(s, "persist", status)
            PROVE  SameCall(s) /\ call'[s].pc = "persist"
        BY <1>0, <3>2, CarryShape
      <3> QED BY <1>5, <3>1, <3>2 DEF Submit
    <2> QED BY <1>1, <1>2, <2>1, <2>2
  <1>6. CASE Observe(s)
    <2>1. row' = row /\ call[s].pc = "observe"
      BY <1>6 DEF Observe, At
    <2>2. \/ SameCall(s) /\ call'[s].pc \in {"persist", "finalize"}
          \/ Return(s, "error")
      BY <1>0, <1>6, CarryShape DEF Observe
    <2> QED BY <1>1, <1>2, <2>1, <2>2
  <1>7. CASE Halt(s)
    <2>1. row' = row /\ call[s].pc = "halt"
      BY <1>7 DEF Halt, At
    <2>2. \/ SameCall(s) /\ call'[s].pc = "persist"
          \/ Return(s, "error")
      BY <1>0, <1>7, CarryShape DEF Halt
    <2> QED BY <1>1, <1>2, <2>1, <2>2
  <1>8. CASE Persist(s) \/ Announce(s) \/ ReserveFails(s) \/ Crash(s)
    <2>1. \E answer : Return(s, answer)
      BY <1>8 DEF Persist, Announce, ReserveFails, Crash
    <2>2. row' = row \/ (Savable(call[s]) /\ row' = Saved(call[s]))
      BY <1>8 DEF Persist, Announce, ReserveFails, Crash
    <2> QED BY <1>1, <2>1, <2>2
  <1>9. CASE Finalize(s)
    <2>1. CASE Savable(call[s])
      <3>1. row' = Saved(call[s]) /\ SavedGoto(s, "announce")
        BY <1>9, <2>1 DEF Finalize
      <3>2. /\ SameCall(s) /\ call'[s].pc = "announce"
            /\ call'[s].action = call[s].action
        BY <1>0, <3>1, SavedGotoShape
      <3>3. row'[k].action = call[s].action
        BY <1>1a, <3>1
      <3> QED BY <2>1, <3>1, <3>2, <3>3 DEF Kept, SameCall
    <2>2. CASE ~Savable(call[s])
      <3>1. row' = row /\ Return(s, "error")
        BY <1>9, <2>2 DEF Finalize
      <3> QED BY <1>1, <3>1
    <2> QED BY <2>1, <2>2
  <1>10. row' = row \/ (Savable(call[s]) /\ row' = Saved(call[s]))
    BY <1>3, <1>4, <1>5, <1>6, <1>7, <1>8, <1>9
       DEF Reserve, Start, StartFails, Submit, Observe, Halt, Finalize, Engine
  <1> QED BY <1>3, <1>4, <1>5, <1>6, <1>7, <1>8, <1>9, <1>10 DEF Engine

LEMMA KeptRequest ==
  ASSUME SuccessInv, NEW s \in Slots, NEW a \in Approvals, Execute(s, a) \/ Activity(s, a)
  PROVE  /\ row' = row
         /\ call' = call \/ (OthersSame(s) /\ Kept(call'[s], row))
  <1> DEFINE i == IncidentOf(a)
             old == row[i].action
  <1>0. Truth /\ i \in Incidents /\ NumberOf(a) \in Nat
    BY ApprovalShape, ApprovalsAssumption DEF SuccessInv
  <1>1. ASSUME NEW kind, NEW pc, NEW x, NEW awaited, Begin(s, kind, a, pc, x, awaited),
               pc = "reserve" => x.status \in Active,
               old.status = "succeeded" =>
                 (pc = "finalize" /\ x.status = "succeeded") \/ old.app > x.app
        PROVE  OthersSame(s) /\ Kept(call'[s], row)
    <2>1. /\ OthersSame(s) /\ call'[s].app = a /\ call'[s].pc = pc
          /\ call'[s].action = x
      BY <1>0, <1>1, BeginShape
    <2> QED BY <1>1, <2>1 DEF Kept
  <1>2. CASE Execute(s, a)
    <2>1. /\ Begin(s, "execute", a, "reserve", NewAction(a, "pending"), FALSE)
          /\ row' = row /\ ~Settled(a)
      BY <1>2 DEF Execute
    <2>2. old.status # "succeeded"
      BY <1>0, <2>1, SuccessExists DEF Settled
    <2>3. NewAction(a, "pending").status \in Active
      BY DEF NewAction, Active
    <2> QED BY <1>1, <2>1, <2>2, <2>3
  <1>3. CASE Dispatch(s, a)
    <2>1. /\ Begin(s, "dispatch", a, "reserve", NewAction(a, "dispatching"), TRUE)
          /\ row' = row /\ ~Known(a) /\ workflow[a].pc # "none"
      BY <1>3 DEF Dispatch
    <2>2. old.status = "succeeded" => old.app > NewAction(a, "dispatching").app
      <3> SUFFICES ASSUME old.status = "succeeded" PROVE old.app > NumberOf(a)
        BY DEF NewAction
      <3>1. Exists(i) /\ old.app \in Nat /\ old.receipt # None
        BY <1>0, SuccessExists DEF Truth, Rows, RowTrue, Truthful
      <3>2. old.app # NumberOf(a)
        BY <2>1, <3>1 DEF Known
      <3>3. old.app >= NumberOf(a)
        BY <2>1 DEF SuccessInv, Started, NotBefore
      <3> QED BY <1>0, <3>1, <3>2, <3>3
    <2>3. NewAction(a, "dispatching").status \in Active
      BY DEF NewAction, Active
    <2> QED BY <1>1, <2>1, <2>2, <2>3
  <1>4. CASE Ask(s, a)
    <2> DEFINE pc == IF old.status \in Terminal THEN "finalize" ELSE "observe"
    <2>1. Begin(s, workflow[a].pc, a, pc, old, TRUE) /\ row' = row
      BY <1>4 DEF Ask
    <2>2. old.status = "succeeded" => pc = "finalize"
      BY DEF Terminal
    <2>3. pc # "reserve"
      OBVIOUS
    <2> HIDE DEF pc
    <2> QED BY <1>1, <2>1, <2>2, <2>3
  <1>5. CASE ReportFailure(s, a)
    <2>1. row' = row /\ old.status # "succeeded"
      BY <1>0, <1>5, SuccessExists DEF ReportFailure, Active
    <2>2. PICK x : Begin(s, workflow[a].pc, a, "finalize", x, TRUE)
      BY <1>5 DEF ReportFailure
    <2>3. OthersSame(s) /\ call'[s].app = a /\ call'[s].pc = "finalize"
      BY <1>0, <2>2, BeginShape
    <2> QED BY <2>1, <2>3 DEF Kept
  <1>6. CASE DispatchAnswered(s, a) \/ AskInVain(s, a)
    BY <1>6 DEF DispatchAnswered, AskInVain
  <1> QED BY <1>2, <1>3, <1>4, <1>5, <1>6 DEF Activity

SuccessKept == \A i \in Incidents : row[i].action.status = "succeeded" =>
                 row'[i].action.status = "succeeded"

LEMMA SuccessStep ==
  ASSUME SuccessInv, "overlap" \notin Faults, [Next]_vars
  PROVE  SuccessInv' /\ SuccessKept
  <1>0. Truth' /\ Alone' /\ Started'
    BY TruthStep, AloneStep, StartedStep DEF SuccessInv
  <1>1. ASSUME \A i \in Incidents : row'[i].action = row[i].action,
               NEW s \in Slots, OthersSame(s), Kept(call'[s], row')
        PROVE  SuccessInv' /\ SuccessKept
    <2> SUFFICES ASSUME NEW t \in Slots \ {s} PROVE Kept(call'[t], row')
      BY <1>0, <1>1 DEF SuccessInv, SuccessKept
    <2>1. call'[t] = call[t] /\ Kept(call[t], row)
      BY <1>1 DEF OthersSame, SuccessInv
    <2>2. call[t].kind # "idle" => IncidentOf(call[t].app) \in Incidents
      BY ApprovalShape DEF SuccessInv, Truth, Calls, CallTrue
    <2> QED BY <1>1, <2>1, <2>2 DEF Kept
  <1>2. ASSUME \A i \in Incidents : row'[i].action = row[i].action, call' = call
        PROVE  SuccessInv' /\ SuccessKept
    <2> SUFFICES ASSUME NEW t \in Slots PROVE Kept(call'[t], row')
      BY <1>0, <1>2 DEF SuccessInv, SuccessKept
    <2>1. call[t].kind # "idle" => IncidentOf(call[t].app) \in Incidents
      BY ApprovalShape DEF SuccessInv, Truth, Calls, CallTrue
    <2> QED BY <1>2, <2>1 DEF SuccessInv, Kept
  <1>3. ASSUME NEW s \in Slots, Engine(s) \/ Crash(s) PROVE SuccessInv' /\ SuccessKept
    <2> DEFINE k == IncidentOf(call[s].app)
    <2>1. /\ Truth /\ call[s].kind # "idle" /\ OthersSame(s) /\ Kept(call'[s], row')
          /\ row' = row \/ (Savable(call[s]) /\ row' = Saved(call[s]))
      BY <1>3, EngineShape, KeptEngine DEF SuccessInv
    <2>2. CASE row' = row
      BY <1>1, <2>1, <2>2
    <2>3. CASE Savable(call[s]) /\ row' = Saved(call[s])
      <3>1. /\ k \in Incidents
            /\ row'[k] = [col |-> call[s].action.status, action |-> call[s].action]
            /\ \A i \in Incidents \ {k} : row'[i] = row[i]
        BY <2>1, <2>3, SavedShape
      <3>2. row[k].action.status = "succeeded" => call[s].action.status = "succeeded"
        BY <2>1, <2>3, SuccessIsKept
      <3>3. SuccessKept
        BY <3>1, <3>2 DEF SuccessKept
      <3>4. ASSUME NEW t \in Slots \ {s} PROVE Kept(call'[t], row')
        <4>1. call'[t] = call[t] /\ Kept(call[t], row)
          BY <2>1 DEF OthersSame, SuccessInv
        <4>2. call[t].kind # "idle" =>
                IncidentOf(call[t].app) \in Incidents /\ IncidentOf(call[t].app) # k
          BY <2>1, ApprovalShape DEF SuccessInv, Alone, Truth, Calls, CallTrue
        <4> QED BY <3>1, <4>1, <4>2 DEF Kept
      <3> QED BY <1>0, <2>1, <3>3, <3>4 DEF SuccessInv
    <2> QED BY <2>1, <2>2, <2>3
  <1>4. ASSUME NEW s \in Slots, NEW a \in Approvals, Execute(s, a) \/ Activity(s, a)
        PROVE  SuccessInv' /\ SuccessKept
    BY <1>1, <1>2, <1>4, KeptRequest
  <1>5. ASSUME NEW s \in Slots, NEW i \in Incidents, Stop(s, i)
        PROVE  SuccessInv' /\ SuccessKept
    <2> DEFINE old == row[i].action
    <2>1. row' = row /\ old.status # "succeeded"
      BY <1>5 DEF Stop, Active
    <2>2. OthersSame(s) /\ call'[s].app = <<i, old.app>> /\ call'[s].pc = "halt"
      BY <1>5, BeginShape DEF Stop, SuccessInv
    <2> QED BY <1>1, <2>1, <2>2 DEF Kept, IncidentOf
  <1>6. ASSUME NEW s \in Slots, AttemptTimesOut(s) PROVE SuccessInv' /\ SuccessKept
    BY <1>6 DEF AttemptTimesOut
  <1>7. ASSUME NEW i \in Incidents, Watchdog(i) PROVE SuccessInv' /\ SuccessKept
    <2>1. call' = call /\ \A j \in Incidents : row'[j].action = row[j].action
      BY <1>7 DEF Watchdog, SuccessInv, Truth, Rows, Row
    <2> QED BY <1>2, <2>1
  <1>8. CASE \/ \E i \in Incidents : Approve(i)
             \/ \E a \in Approvals : Expire(a) \/ Deadline(a)
             \/ \E b \in Builds : BuildStarts(b) \/ BuildEnds(b)
             \/ UNCHANGED vars
    BY <1>2, <1>8 DEF Approve, Expire, Deadline, BuildStarts, BuildEnds, vars
  <1> QED BY <1>3, <1>4, <1>5, <1>6, <1>7, <1>8 DEF Next

LEMMA SuccessInit == Init => SuccessInv
  <1> SUFFICES ASSUME Init PROVE SuccessInv
    OBVIOUS
  <1>1. /\ \A s \in Slots : call[s].kind = "idle"
        /\ \A a \in Approvals : workflow[a].pc = "none"
    BY DEF Init, Idle
  <1>2. Truth
    BY InitIsTrue
  <1> QED BY <1>1, <1>2 DEF SuccessInv, Alone, Started, Begun, Kept

(* While calls about an incident do not overlap, a success is final, whatever   *)
(* crashes, lost answers, expiring approvals and watchdog passes happen: no      *)
(* save of reconcile, timeout, execution-failed, dispatch or a stop replaces it. *)
THEOREM SuccessIsFinal == "overlap" \notin Faults => (Spec => SuccessStays)
  <1> SUFFICES ASSUME "overlap" \notin Faults PROVE Spec => SuccessStays
    OBVIOUS
  <1>1. SuccessInv /\ [Next]_vars => SuccessInv' /\ [SuccessKept]_vars
    BY SuccessStep
  <1> QED BY <1>1, SuccessInit, PTL DEF Spec, SuccessStays, SuccessKept
=============================================================================
