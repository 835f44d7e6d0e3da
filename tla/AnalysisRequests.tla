--------------------------- MODULE AnalysisRequests ---------------------------
(***************************************************************************)
(* The analyses of one incident: the requests operators make through the   *)
(* gateway, the background analyses that enrichment asks for, the context  *)
(* agent that collects a snapshot for a request, and the resolution agent  *)
(* that investigates on the latest snapshot and commits one immutable      *)
(* recommendation per request, with a version of its own.                  *)
(*                                                                         *)
(* Commands and context events are delivered at least once (EventDelivery).*)
(* Reads that a later write of the same caller relies on without a lock    *)
(* are steps of their own.                                                 *)
(***************************************************************************)
EXTENDS Integers, FiniteSets

CONSTANTS
  Explicit,      \* requests of operators: they have a row in analysis_requests
  Background,    \* analyses that an enriched snapshot asks for: they have none
  Collectors,    \* consumers of the context agent
  Analysts,      \* consumers of the resolution agent
  Scenes,        \* bound: the requests of one history and the faults it may meet
  MaxAttempts,   \* max_attempts of run_with_snapshot_refresh
  MaxCommands,   \* bound: copies of one command under way
  MaxCopies,     \* bound: copies of context events under way when one is repeated
  None

Requests == Explicit \cup Background

ASSUME RequestsAssumption ==
  Explicit \cap Background = {} /\ None \notin Requests

\* One history has finitely many requests, and a service finitely many consumers.
ASSUME FiniteAssumption ==
  IsFiniteSet(Requests) /\ IsFiniteSet(Collectors) /\ IsFiniteSet(Analysts)

\* The deadline of a request passes, the incident ends, a publication is refused or not
\* confirmed, an event is delivered again, a handler fails; and the plan of a committed
\* recommendation is selected or executed: a governed recovery.
FaultKinds == {"deadline", "end", "refusal", "repeat", "failure", "recovery"}

ASSUME ScenesAssumption == Scenes \subseteq SUBSET (Requests \cup FaultKinds)

ASSUME LimitsAssumption ==
  {MaxAttempts, MaxCommands, MaxCopies} \subseteq Nat \ {0}

VARIABLES
  scene,      \* the requests of this history and what may go wrong; never changes
  over,       \* the incident is resolved, closed, recovered or cancelled
  status,     \* analysis_requests.status
  born,       \* order of creation of the rows; 0 without a row
  expired,    \* requests whose expires_at has passed
  polled,     \* polls that have read an expired active row, not yet written it
  sender,     \* the gateway's own publication of the command
  command,    \* copies of the command that are ready for the context agent
  context,    \* copies of the context event that are ready for the resolution agent
  snap,       \* version of the snapshot that the context event is bound to; 0 if none
  newest,     \* highest snapshot version
  freshest,   \* version of the snapshot with the latest collected_at
  reserved,   \* incident_rca_version_reservations; 0 if none
  binding,    \* incident_investigation_bindings
  coalesced,  \* background analyses retired in favour of a newer one
  yielded,    \* background analyses retired in favour of a governed recovery
  announced,  \* requests whose recommendation is in the outbox for the next stage
  dead,       \* requests whose command or context event was dead-lettered
  collector, analyst  \* what the consumers hold

rowVars == <<scene, over, status, born, expired, polled, sender>>
evidenceVars == <<snap, newest, freshest>>
answerVars == <<reserved, binding, coalesced, yielded, announced>>
vars == <<rowVars, command, context, evidenceVars, answerVars, dead, collector, analyst>>

Active == {"accepted", "queued", "published", "running"}
Terminal == {"complete", "failed", "timed_out"}

Version == 0..(2 * Cardinality(Requests) + 1)

Answer == [version : Version \ {0}, snapshot : Version]

ASSUME NoneAssumption == None \notin [version : Nat \ {0}, snapshot : Nat]

Collector == [at : {"idle", "collecting", "failing"}, request : Requests \cup {None}]
Analyst ==
  [at : {"idle", "admitting", "preparing", "investigating", "announcing", "failing"},
   request : Requests \cup {None}, parent : Version, attempt : 1..MaxAttempts]

TypeOK ==
  /\ scene \in Scenes
  /\ over \in BOOLEAN
  /\ status \in [Explicit -> Active \cup Terminal \cup {"none"}]
  /\ born \in [Explicit -> 0..Cardinality(Explicit)]
  /\ expired \subseteq Explicit /\ polled \subseteq Explicit
  /\ sender \in [Explicit -> {"idle", "publishing", "requeueing"}]
  /\ command \in [Explicit -> 0..MaxCommands]
  /\ context \in [Requests -> 0..MaxCopies]
  /\ snap \in [Requests -> Version]
  /\ newest \in Version /\ freshest \in 0..newest
  /\ reserved \in [Requests -> 0..Cardinality(Requests)]
  /\ binding \in [Requests -> Answer \cup {None}]
  /\ coalesced \subseteq Background /\ yielded \subseteq Background
  /\ announced \subseteq Requests
  /\ dead \subseteq Requests
  /\ collector \in [Collectors -> Collector]
  /\ analyst \in [Analysts -> Analyst]

Resting == [at |-> "idle", request |-> None, parent |-> 0, attempt |-> 1]
Waiting == [at |-> "idle", request |-> None]

Init ==
  /\ scene \in Scenes
  /\ over = FALSE
  /\ status = [r \in Explicit |-> "none"]
  /\ born = [r \in Explicit |-> 0]
  /\ expired = {} /\ polled = {}
  /\ sender = [r \in Explicit |-> "idle"]
  /\ command = [r \in Explicit |-> 0]
  /\ context = [r \in Requests |-> 0]
  /\ snap = [r \in Requests |-> 0]
  /\ newest = 1 /\ freshest = 1
  /\ reserved = [r \in Requests |-> 0]
  /\ binding = [r \in Requests |-> None]
  /\ coalesced = {} /\ yielded = {} /\ announced = {} /\ dead = {}
  /\ collector = [c \in Collectors |-> Waiting]
  /\ analyst = [a \in Analysts |-> Resting]

-----------------------------------------------------------------------------
(* The request's row.                                                      *)

FaultProgress(current, stage) == IF current = "running" THEN current ELSE stage

\* A receipt of the transport or of a worker: one UPDATE with a CASE on the status.
Progress(current, stage) ==
  IF current \in {"accepted", "queued"} \cup (IF stage = "running" THEN {"published"} ELSE {})
  THEN stage ELSE current

\* The row create_or_reuse_analysis_request locks: the active one created last.
Current(r) ==
  status[r] \in Active /\ \A q \in Explicit : status[q] \in Active => born[q] <= born[r]

\* The operator asks for an analysis.  An active request is reused (nothing changes)
\* unless its deadline has passed.  The row commits with its command in the outbox.
Submit(r) ==
  /\ r \in scene /\ status[r] = "none"
  /\ \A q \in Explicit : Current(q) => q \in expired
  /\ status' = [q \in Explicit |-> IF q = r THEN "accepted"
                                   ELSE IF Current(q) THEN "timed_out" ELSE status[q]]
  /\ born' = [born EXCEPT ![r] = 1 + Cardinality({q \in Explicit : born[q] > 0})]
  /\ command' = [command EXCEPT ![r] = 1]
  /\ sender' = [sender EXCEPT ![r] = "publishing"]
  /\ UNCHANGED <<scene, over, expired, polled, context, evidenceVars, answerVars, dead,
                 collector, analyst>>

Published(r) ==
  status' = [status EXCEPT ![r] = Progress(@, "published")]

\* The gateway's publication is confirmed, or a dispatcher's.
GatewayPublished(r) ==
  /\ sender[r] = "publishing"
  /\ sender' = [sender EXCEPT ![r] = "idle"]
  /\ Published(r)
  /\ UNCHANGED <<scene, over, born, expired, polled, command, context, evidenceVars, answerVars,
                 dead, collector, analyst>>

DispatcherPublished(r) ==
  /\ status[r] # "none"
  /\ Published(r)
  /\ UNCHANGED <<scene, over, born, expired, polled, sender, command, context, evidenceVars,
                 answerVars, dead, collector, analyst>>

\* The publication is refused, or accepted without a confirmation: the gateway reads
\* the status, and writes it in a later statement.
GatewayRefused(r) ==
  /\ "refusal" \in scene
  /\ sender[r] = "publishing"
  /\ sender' = [sender EXCEPT
       ![r] = IF status[r] \in {"accepted", "queued"} THEN "requeueing" ELSE "idle"]
  /\ UNCHANGED <<scene, over, status, born, expired, polled, command, context, evidenceVars,
                 answerVars, dead, collector, analyst>>

GatewayRequeues(r) ==
  /\ sender[r] = "requeueing"
  /\ status' = [status EXCEPT ![r] = "queued"]
  /\ sender' = [sender EXCEPT ![r] = "idle"]
  /\ UNCHANGED <<scene, over, born, expired, polled, command, context, evidenceVars, answerVars,
                 dead, collector, analyst>>

GatewayDies(r) ==
  /\ sender[r] # "idle"
  /\ sender' = [sender EXCEPT ![r] = "idle"]
  /\ UNCHANGED <<scene, over, status, born, expired, polled, command, context, evidenceVars,
                 answerVars, dead, collector, analyst>>

Expire(r) ==
  /\ "deadline" \in scene
  /\ status[r] # "none" /\ r \notin expired
  /\ expired' = expired \cup {r}
  /\ UNCHANGED <<scene, over, status, born, polled, sender, command, context, evidenceVars,
                 answerVars, dead, collector, analyst>>

\* The browser polls: an expired active row is read, then written.
Poll(r) ==
  /\ r \in expired \ polled /\ status[r] \in Active
  /\ polled' = polled \cup {r}
  /\ UNCHANGED <<scene, over, status, born, expired, sender, command, context, evidenceVars,
                 answerVars, dead, collector, analyst>>

PollExpires(r) ==
  /\ r \in polled
  /\ polled' = polled \ {r}
  /\ status' = [status EXCEPT ![r] = "timed_out"]
  /\ UNCHANGED <<scene, over, born, expired, sender, command, context, evidenceVars, answerVars,
                 dead, collector, analyst>>

IncidentEnds ==
  /\ "end" \in scene
  /\ ~over /\ over' = TRUE
  /\ UNCHANGED <<scene, status, born, expired, polled, sender, command, context, evidenceVars,
                 answerVars, dead, collector, analyst>>

\* retirement_reason.  A request without a row is judged by the incident alone.
Ineligible(r) ==
  over \/ (r \in Explicit /\ (status[r] \in Terminal \/ r \in expired))

FaultRetire(r) == UNCHANGED status

\* retire_ineligible_analysis holds the row's lock from its read to its commit.
Retire(r) ==
  status' = IF r \in Background \/ status[r] \in Terminal THEN status
            ELSE [status EXCEPT ![r] = IF over THEN "failed" ELSE "timed_out"]

-----------------------------------------------------------------------------
(* Deliveries.                                                             *)

CommandCopies(r) ==
  command[r] + Cardinality({c \in Collectors : collector[c].request = r})
ContextCopies ==
  Cardinality({a \in Analysts : analyst[a].request # None})
    + Cardinality({c \in Requests \X (1..MaxCopies) : c[2] <= context[c[1]]})

\* The broker has another copy: a publication is repeated.
DuplicateCommand(r) ==
  /\ "repeat" \in scene
  /\ status[r] # "none" /\ CommandCopies(r) < MaxCommands
  /\ command' = [command EXCEPT ![r] = @ + 1]
  /\ UNCHANGED <<rowVars, context, evidenceVars, answerVars, dead, collector, analyst>>

DuplicateContext(r) ==
  /\ "repeat" \in scene
  /\ snap[r] # 0 /\ ContextCopies < MaxCopies
  /\ context' = [context EXCEPT ![r] = @ + 1]
  /\ UNCHANGED <<rowVars, command, evidenceVars, answerVars, dead, collector, analyst>>

-----------------------------------------------------------------------------
(* The context agent.                                                      *)

\* The agent does not collect for what is not wanted any more.
TakeCommand(c, r) ==
  /\ collector[c].at = "idle"
  /\ command[r] > 0
  /\ command' = [command EXCEPT ![r] = @ - 1]
  /\ IF Ineligible(r)
       THEN Retire(r) /\ UNCHANGED collector
       ELSE /\ collector' = [collector EXCEPT ![c] = [at |-> "collecting", request |-> r]]
            /\ UNCHANGED status
  /\ UNCHANGED <<scene, over, born, expired, polled, sender, context, evidenceVars, answerVars,
                 dead, analyst>>

\* The snapshot, named after the request, commits with the event for the resolution
\* agent; a second collection for the request finds both.  A reused context keeps the
\* collected_at it had, and a snapshot may commit after one collected later.
Collect(c, collectedLast) ==
  LET r == collector[c].request IN
  /\ collector[c].at = "collecting"
  /\ IF snap[r] # 0
       THEN ~collectedLast /\ UNCHANGED <<evidenceVars, context>>
       ELSE /\ newest' = newest + 1
            /\ freshest' = IF collectedLast THEN newest + 1 ELSE freshest
            /\ snap' = [snap EXCEPT ![r] = newest + 1]
            /\ context' = [context EXCEPT ![r] = 1]
  /\ collector' = [collector EXCEPT ![c] = Waiting]
  /\ UNCHANGED <<rowVars, command, answerVars, dead, analyst>>

\* The handler fails, or its process dies: the delivery is tried again.
CollectorFails(c) ==
  /\ "failure" \in scene
  /\ collector[c].at # "idle"
  /\ command' = [command EXCEPT ![collector[c].request] = @ + 1]
  /\ collector' = [collector EXCEPT ![c] = Waiting]
  /\ UNCHANGED <<rowVars, context, evidenceVars, answerVars, dead, analyst>>

\* It fails for the last time: record_terminal_failure reads the row, writes it in a
\* later statement, and the delivery is dead-lettered.
CollectorGivesUp(c) ==
  LET r == collector[c].request IN
  /\ "failure" \in scene
  /\ collector[c].at = "collecting"
  /\ IF status[r] \in Terminal
       THEN dead' = dead \cup {r} /\ collector' = [collector EXCEPT ![c] = Waiting]
       ELSE collector' = [collector EXCEPT ![c].at = "failing"] /\ UNCHANGED dead
  /\ UNCHANGED <<rowVars, command, context, evidenceVars, answerVars, analyst>>

CollectorRecords(c) ==
  LET r == collector[c].request IN
  /\ collector[c].at = "failing"
  /\ status' = [status EXCEPT ![r] = "failed"]
  /\ dead' = dead \cup {r}
  /\ collector' = [collector EXCEPT ![c] = Waiting]
  /\ UNCHANGED <<scene, over, born, expired, polled, sender, command, context, evidenceVars,
                 answerVars, analyst>>

\* Collected evidence is handed off: a newer snapshot, and a background analysis of it.
Enrich(b) ==
  /\ b \in scene /\ snap[b] = 0
  /\ newest' = newest + 1
  /\ freshest' = newest + 1
  /\ snap' = [snap EXCEPT ![b] = newest + 1]
  /\ context' = [context EXCEPT ![b] = 1]
  /\ UNCHANGED <<rowVars, command, answerVars, dead, collector, analyst>>

-----------------------------------------------------------------------------
(* The resolution agent.                                                   *)

FaultEntry(r) == "admitting"

\* _completed_analysis_for_replay: a committed analysis is only announced again.
Entry(r) == IF binding[r] # None THEN "announcing" ELSE "admitting"

Receive(a, r) ==
  /\ analyst[a].at = "idle"
  /\ context[r] > 0
  /\ context' = [context EXCEPT ![r] = @ - 1]
  /\ analyst' = [analyst EXCEPT
       ![a] = [at |-> Entry(r), request |-> r, parent |-> snap[r], attempt |-> 1]]
  /\ UNCHANGED <<rowVars, command, evidenceVars, answerVars, dead, collector>>

Admit(a) ==
  LET r == analyst[a].request IN
  /\ analyst[a].at = "admitting"
  /\ IF Ineligible(r)
       THEN Retire(r) /\ analyst' = [analyst EXCEPT ![a] = Resting]
       ELSE /\ status' = IF r \in Explicit
                         THEN [status EXCEPT ![r] = Progress(@, "running")] ELSE status
            /\ analyst' = [analyst EXCEPT ![a].at = "preparing"]
  /\ UNCHANGED <<scene, over, born, expired, polled, sender, command, context, evidenceVars,
                 answerVars, dead, collector>>

FaultCovered(r) == \E q \in Background : snap[q] >= snap[r]

\* The latest enriched snapshot is newer than this one's.
Covered(r) == \E q \in Background : snap[q] > snap[r]

\* A recovery governs the incident: the plan of a committed recommendation has been
\* selected, or is executed; an execution that fails ends it.
Governed == "recovery" \in scene /\ \E q \in Requests : binding[q] # None

\* A background analysis is retired while a recovery governs, with no look at snapshots; or
\* for a newer snapshot, which must also be current and hold all of this one's evidence.
Coalesce(a) ==
  LET r == analyst[a].request IN
  /\ analyst[a].at = "preparing"
  /\ r \in Background
  /\ \/ Governed /\ yielded' = yielded \cup {r} /\ UNCHANGED coalesced
     \/ Covered(r) /\ coalesced' = coalesced \cup {r} /\ UNCHANGED yielded
  /\ analyst' = [analyst EXCEPT ![a] = Resting]
  /\ UNCHANGED <<rowVars, command, context, evidenceVars, reserved, binding, announced,
                 dead, collector>>

Committed == {binding[q].version : q \in {p \in Requests : binding[p] # None}}

FaultTaken == Committed
Taken == Committed \cup {reserved[q] : q \in Requests}

FaultReserve(r, version) ==
  /\ version - 1 \in Taken \cup {0}
  /\ \A u \in Taken : u < version
  /\ reserved' = [reserved EXCEPT ![r] = version]

\* reserve_incident_rca_version: one above every version committed or reserved.
Reserve(r, version) ==
  /\ reserved[r] # 0 => version = reserved[r]
  /\ reserved[r] = 0 => /\ version - 1 \in Taken \cup {0}
                        /\ \A u \in Taken : u < version
  /\ reserved' = [reserved EXCEPT ![r] = version]

\* latest_context_snapshot goes by collected_at.
Refreshed == freshest

\* The investigation starts on the snapshot of the event if it is the latest one, and
\* on a refreshed one otherwise.
Prepare(a) ==
  LET r == analyst[a].request IN
  /\ analyst[a].at = "preparing"
  /\ \E version \in {u + 1 : u \in Taken \cup {0}} \cup {reserved[r]} : Reserve(r, version)
  /\ analyst' = [analyst EXCEPT
       ![a].parent = IF @ = newest THEN @ ELSE Refreshed, ![a].at = "investigating"]
  /\ UNCHANGED <<rowVars, command, context, evidenceVars, binding, coalesced, yielded,
                 announced, dead, collector>>

Unbound(r) == binding[r] = None

FaultVersioned(version) == version > 1

\* A recommendation without a version is saved, and stays unbound.
Versioned(version) == version > 0

\* The final snapshot, the recommendation, its binding and the request's completion
\* commit together, if no snapshot has come since the parent.
Commit(a) ==
  LET r == analyst[a].request IN
  /\ analyst[a].at = "investigating"
  /\ analyst[a].parent = newest
  /\ Unbound(r)
  /\ newest' = newest + 1
  /\ freshest' = newest + 1
  /\ binding' = [binding EXCEPT ![r] =
       IF Versioned(reserved[r]) THEN [version |-> reserved[r], snapshot |-> newest + 1] ELSE None]
  /\ status' = IF r \in Explicit THEN [status EXCEPT ![r] = "complete"] ELSE status
  /\ analyst' = [analyst EXCEPT ![a].at = "announcing"]
  /\ UNCHANGED <<scene, over, born, expired, polled, sender, command, context, snap, reserved,
                 coalesced, yielded, announced, dead, collector>>

FaultMayRefresh(attempt) == attempt <= MaxAttempts
MayRefresh(attempt) == attempt < MaxAttempts

\* run_with_snapshot_refresh starts the handler again on a refreshed snapshot.
Superseded(a) ==
  /\ analyst[a].at = "investigating"
  /\ analyst[a].parent # newest
  /\ MayRefresh(analyst[a].attempt)
  /\ analyst' = [analyst EXCEPT ![a].parent = Refreshed, ![a].attempt = @ + 1,
                                ![a].at = Entry(analyst[a].request)]
  /\ UNCHANGED <<rowVars, command, context, evidenceVars, answerVars, dead, collector>>

\* What the analysis asks for, and the event for the next stage, commit together.
Announce(a) ==
  /\ analyst[a].at = "announcing"
  /\ announced' = announced \cup {analyst[a].request}
  /\ analyst' = [analyst EXCEPT ![a] = Resting]
  /\ UNCHANGED <<rowVars, command, context, evidenceVars, reserved, binding, coalesced,
                 yielded, dead, collector>>

\* Too many supersessions, or the request has been answered meanwhile.
Refused(a) ==
  /\ analyst[a].at = "investigating"
  /\ IF analyst[a].parent = newest THEN ~Unbound(analyst[a].request)
                                  ELSE ~MayRefresh(analyst[a].attempt)

\* An error, three supersessions, a binding that exists, or a crash: the delivery is
\* tried again.
AnalystFails(a) ==
  /\ "failure" \in scene \/ Refused(a)
  /\ analyst[a].at # "idle"
  /\ context' = [context EXCEPT ![analyst[a].request] = @ + 1]
  /\ analyst' = [analyst EXCEPT ![a] = Resting]
  /\ UNCHANGED <<rowVars, command, evidenceVars, answerVars, dead, collector>>

AnalystGivesUp(a) ==
  LET r == analyst[a].request IN
  /\ "failure" \in scene \/ Refused(a)
  /\ analyst[a].at \notin {"idle", "failing"}
  /\ IF r \in Explicit /\ status[r] \notin Terminal
       THEN analyst' = [analyst EXCEPT ![a].at = "failing"] /\ UNCHANGED dead
       ELSE dead' = dead \cup {r} /\ analyst' = [analyst EXCEPT ![a] = Resting]
  /\ UNCHANGED <<rowVars, command, context, evidenceVars, answerVars, collector>>

AnalystRecords(a) ==
  LET r == analyst[a].request IN
  /\ analyst[a].at = "failing"
  /\ status' = [status EXCEPT ![r] = "failed"]
  /\ dead' = dead \cup {r}
  /\ analyst' = [analyst EXCEPT ![a] = Resting]
  /\ UNCHANGED <<scene, over, born, expired, polled, sender, command, context, evidenceVars,
                 answerVars, collector>>

-----------------------------------------------------------------------------

CollectorStep(c) ==
  \/ \E r \in Explicit : TakeCommand(c, r)
  \/ \E collectedLast \in BOOLEAN : Collect(c, collectedLast)
  \/ CollectorGivesUp(c) \/ CollectorRecords(c)

AnalystStep(a) ==
  \/ \E r \in Requests : Receive(a, r)
  \/ Admit(a) \/ Coalesce(a) \/ Prepare(a) \/ Commit(a) \/ Superseded(a)
  \/ Announce(a) \/ AnalystGivesUp(a) \/ AnalystRecords(a)

\* A delivery is repeated or tried again.
Redelivery ==
  \/ \E r \in Explicit : DuplicateCommand(r)
  \/ \E r \in Requests : DuplicateContext(r)
  \/ \E c \in Collectors : CollectorFails(c)
  \/ \E a \in Analysts : AnalystFails(a)

GatewayStep(r) ==
  \/ Submit(r) \/ GatewayPublished(r) \/ GatewayRefused(r) \/ GatewayRequeues(r)
  \/ GatewayDies(r) \/ Poll(r) \/ PollExpires(r)

Next ==
  \/ \E r \in Explicit : GatewayStep(r) \/ DispatcherPublished(r) \/ Expire(r)
  \/ IncidentEnds
  \/ Redelivery
  \/ \E c \in Collectors : CollectorStep(c)
  \/ \E b \in Background : Enrich(b)
  \/ \E a \in Analysts : AnalystStep(a)

Spec == Init /\ [][Next]_vars

\* Consumers work on what they are given, and deliveries are repeated finitely often:
\* retries are bounded, and breakdowns end.
Fairness ==
  /\ \A c \in Collectors : WF_vars(CollectorStep(c))
  /\ \A a \in Analysts : WF_vars(AnalystStep(a))
  /\ <>[][~Redelivery]_vars

FairSpec == Spec /\ Fairness

-----------------------------------------------------------------------------
(* Correctness.                                                            *)

\* Two analyses never take the same version, committed or only reserved, however they
\* overlap: readers take the highest version for the current analysis.
VersionsUnique ==
  \A r, q \in Requests : r # q =>
    /\ binding[r] # None /\ binding[q] # None => binding[r].version # binding[q].version
    /\ reserved[r] # 0 => reserved[r] # reserved[q]

\* A request the operator is told is complete has its recommendation.
CompleteIsBound ==
  \A r \in Explicit : status[r] = "complete" => binding[r] # None

\* A background analysis is retired only where its evidence is in good hands: a newer
\* analysis is not retired itself, or it, or the newer one that covers it, gave way to a
\* governed recovery, and then the incident has a committed recommendation.
CoalescedIsCovered ==
  \A r \in coalesced \cup yielded :
    \/ \E q \in Background \ (coalesced \cup yielded) : snap[q] > snap[r]
    \/ /\ \E q \in yielded : snap[q] >= snap[r]
       /\ \E p \in Requests : binding[p] # None

\* "Retire only enrichment-generated work fully covered by a durable successor."
RetiredForSuccessor ==
  \A r \in coalesced \cup yielded : \E q \in Background : snap[q] > snap[r]

\* A committed analysis never changes, whatever is delivered twice or investigated by
\* two consumers at once. (Part of what AnswerBook promises; see KeepsBook.)
BindingsStay ==
  [][\A r \in Requests : binding[r] # None => binding'[r] = binding[r]]_vars

\* No receipt of a dispatcher or worker reopens a terminal request; only the gateway
\* does, with a status it read before.
ReceiptsDoNotReopen ==
  [][\A r \in Explicit : status[r] \in Terminal /\ status'[r] \notin Terminal =>
       sender[r] = "requeueing"]_vars

\* Versions, answers and snapshots are kept as AnswerBook says: each request takes the next
\* version without a gap and keeps it through every redelivery, and is answered once,
\* under that version, on a snapshot that commits with the answer.
Book == INSTANCE AnswerBook WITH number <- reserved, answer <- binding, latest <- newest
KeepsBook == Book!Spec

\* An accepted request is answered, or the operator is told it is not.
RequestsSettle ==
  \A r \in Explicit : status[r] = "accepted" ~> (binding[r] # None \/ status[r] \in Terminal)

\* A committed analysis reaches the next stage although its announcement is another
\* transaction, unless its delivery is dead-lettered.
AnswersAnnounced ==
  \A r \in Requests : binding[r] # None ~> (r \in announced \/ r \in dead)

\* "Refresh to whatever snapshot is actually latest right now and proceed with THAT."
RefreshedIsLatest ==
  [][\A a \in Analysts :
       analyst[a].at = "preparing" /\ analyst'[a].at = "investigating" =>
         analyst'[a].parent = newest]_vars
=============================================================================
