----------------------- MODULE AnalysisRequests_proofs -----------------------
(***************************************************************************)
(* Proofs about AnalysisRequests for any sets of requests, collectors and  *)
(* analysts, any history and any bounds.                                   *)
(***************************************************************************)
EXTENDS AnalysisRequests, FiniteSetTheorems, TLAPS

Statuses == Active \cup Terminal \cup {"none"}

AnyAnswer == [version : Nat \ {0}, snapshot : Nat]

AnalystRow ==
  [at : {"idle", "admitting", "preparing", "investigating", "announcing", "failing"},
   request : Requests \cup {None}, parent : Nat, attempt : Nat]

\* The part of TypeOK that the safety properties rest on, without its bounds; and an
\* analyst at work has a request.
Typed ==
  /\ status \in [Explicit -> Statuses]
  /\ context \in [Requests -> Nat]
  /\ snap \in [Requests -> Nat]
  /\ newest \in Nat /\ freshest \in Nat
  /\ reserved \in [Requests -> Nat]
  /\ binding \in [Requests -> AnyAnswer \cup {None}]
  /\ coalesced \subseteq Background /\ yielded \subseteq Background
  /\ analyst \in [Analysts -> AnalystRow]
  /\ \A a \in Analysts : analyst[a].at # "idle" => analyst[a].request \in Requests

\* A version is reserved once, before the investigation starts, and the answer takes it.
Numbered ==
  /\ \A a \in Analysts :
       analyst[a].at = "investigating" => reserved[analyst[a].request] # 0
  /\ \A r \in Requests : binding[r] # None => binding[r].version = reserved[r]
  /\ \A r, q \in Requests : r # q /\ reserved[r] # 0 => reserved[r] # reserved[q]

\* Whatever is delivered, worked on or retired has its snapshot.
Evidenced ==
  /\ \A r \in Requests : context[r] # 0 => snap[r] # 0
  /\ \A a \in Analysts : analyst[a].at # "idle" => snap[analyst[a].request] # 0
  /\ \A r \in coalesced : snap[r] # 0

\* No background snapshot is newer than q's.
Top(q) == \A b \in Background : snap[b] <= snap[q]

\* Some background snapshot is the newest one, and it covers whatever is retired for a
\* newer one; what gave way to a governed recovery finds a committed recommendation.
Topped ==
  /\ \A r \in Requests : snap[r] <= newest
  /\ Background # {} => \E q \in Background : Top(q)
  /\ \A r \in coalesced : \E q \in Background : Top(q) /\ snap[q] > snap[r]
  /\ yielded # {} => \E p \in Requests : binding[p] # None

\* Collectors work for operators only: enrichment brings its own snapshot.
Collecting ==
  /\ collector \in [Collectors -> Collector]
  /\ \A c \in Collectors : collector[c].at # "idle" => collector[c].request \in Explicit

IInv == Typed /\ Numbered /\ CompleteIsBound /\ Evidenced /\ Topped

-----------------------------------------------------------------------------
(* What the steps do to the request's row and to an analyst.               *)

\* A status may change to any but "complete" of a request that has no answer.
SoundStatus ==
  /\ status' \in [Explicit -> Statuses]
  /\ \A r \in Explicit : status'[r] = "complete" => status[r] = "complete"

\* Copies of an event exist only for a request that has its snapshot.
SoundContext ==
  /\ context' \in [Requests -> Nat]
  /\ \A r \in Requests : context'[r] # 0 => snap[r] # 0

evidenceAndAnswers == <<snap, newest, freshest, reserved, binding, coalesced, yielded>>

(* The requests of operators and of enrichment are requests. *)
LEMMA RequestKinds ==
  /\ Explicit \subseteq Requests /\ Background \subseteq Requests
  /\ None \notin Requests /\ None \notin AnyAnswer
  /\ \A r \in Background : r \notin Explicit
  BY RequestsAssumption, NoneAssumption DEF Requests, AnyAnswer

(* Steps that move at most the status and the deliveries keep the invariant. *)
LEMMA RowStep ==
  ASSUME IInv, SoundStatus, SoundContext, UNCHANGED <<evidenceAndAnswers, analyst>>
  PROVE  IInv'
  <1> USE DEF evidenceAndAnswers
  <1>1. Typed'
    BY DEF IInv, Typed, SoundStatus, SoundContext
  <1>2. Numbered' /\ Topped' /\ Evidenced'
    BY DEF IInv, Numbered, Topped, Top, Evidenced, SoundContext
  <1>3. CompleteIsBound'
    BY DEF IInv, CompleteIsBound, SoundStatus
  <1> QED BY <1>1, <1>2, <1>3 DEF IInv

(* An analyst may move on if it has a request, and a version to investigate with. *)
LEMMA AnalystMoves ==
  ASSUME IInv, SoundStatus, SoundContext, NEW a \in Analysts, NEW x \in AnalystRow,
         analyst' = [analyst EXCEPT ![a] = x],
         x.at # "idle" => x.request \in Requests /\ snap[x.request] # 0,
         x.at = "investigating" => reserved[x.request] # 0,
         UNCHANGED evidenceAndAnswers
  PROVE  IInv'
  <1> USE DEF evidenceAndAnswers
  <1>1. /\ analyst' \in [Analysts -> AnalystRow]
        /\ \A b \in Analysts : analyst'[b] = IF b = a THEN x ELSE analyst[b]
    BY DEF IInv, Typed
  <1>2. Typed'
    BY <1>1 DEF IInv, Typed, SoundStatus, SoundContext
  <1>3. Numbered' /\ Evidenced'
    BY <1>1 DEF IInv, Numbered, Evidenced, SoundContext
  <1>4. CompleteIsBound' /\ Topped'
    BY DEF IInv, CompleteIsBound, SoundStatus, Topped, Top
  <1> QED BY <1>2, <1>3, <1>4 DEF IInv

(* A receipt moves a status forward and completes nothing. *)
LEMMA ProgressSound ==
  ASSUME NEW current \in Statuses, NEW stage \in {"published", "running"}
  PROVE  /\ Progress(current, stage) \in Statuses
         /\ Progress(current, stage) = "complete" => current = "complete"
         /\ current \in Terminal => Progress(current, stage) = current
  BY DEF Progress, Statuses, Active, Terminal

(* Changing the status of one request to something else than complete is sound. *)
LEMMA SetSound ==
  ASSUME IInv, NEW r, NEW s \in Statuses,
         r \in Explicit /\ s = "complete" => status[r] = "complete",
         status' = [status EXCEPT ![r] = s]
  PROVE  SoundStatus
  BY DEF IInv, Typed, SoundStatus

(* Retiring a request ends it. *)
LEMMA RetireSound ==
  ASSUME IInv, NEW r \in Requests, Retire(r)
  PROVE  SoundStatus
  BY RequestKinds DEF IInv, Typed, SoundStatus, Retire, Statuses, Terminal

-----------------------------------------------------------------------------
(* The initial states.                                                     *)

LEMMA InitIInv == Init => IInv
  <1> SUFFICES ASSUME Init PROVE IInv
    OBVIOUS
  <1> USE RequestKinds DEF Init
  <1>1. Typed
    BY LimitsAssumption DEF Typed, Statuses, Resting, AnalystRow
  <1>2. Numbered
    BY DEF Numbered, Resting
  <1>3. CompleteIsBound
    BY DEF CompleteIsBound
  <1>4. Topped /\ Evidenced
    BY DEF Topped, Top, Evidenced, Resting
  <1> QED BY <1>1, <1>2, <1>3, <1>4 DEF IInv

-----------------------------------------------------------------------------
(* The gateway and time.                                                   *)

LEMMA SameContext ==
  ASSUME IInv, UNCHANGED context
  PROVE  SoundContext
  BY DEF IInv, Typed, Evidenced, SoundContext

LEMMA GatewayInv ==
  ASSUME IInv, NEW r \in Explicit, GatewayStep(r) \/ DispatcherPublished(r) \/ Expire(r)
  PROVE  IInv'
  <1> USE DEF evidenceVars, answerVars, evidenceAndAnswers
  <1>1. CASE Submit(r)
    <2>1. SoundStatus
      BY <1>1 DEF Submit, IInv, Typed, SoundStatus, Statuses, Active, Terminal
    <2> QED BY <1>1, <2>1, RowStep, SameContext DEF Submit
  <1>2. CASE Published(r) /\ UNCHANGED <<context, evidenceAndAnswers, analyst>>
    <2>1. SoundStatus
      BY <1>2, ProgressSound, SetSound DEF Published, IInv, Typed
    <2> QED BY <1>2, <2>1, RowStep, SameContext
  <1>3. CASE GatewayRefused(r) \/ GatewayDies(r) \/ Poll(r) \/ Expire(r)
    <2>1. SoundStatus
      BY <1>3 DEF GatewayRefused, GatewayDies, Poll, Expire, IInv, Typed, SoundStatus
    <2> QED BY <1>3, <2>1, RowStep, SameContext DEF GatewayRefused, GatewayDies, Poll, Expire
  <1>4. CASE GatewayRequeues(r) \/ PollExpires(r)
    <2>1. \E s \in {"queued", "timed_out"} : status' = [status EXCEPT ![r] = s]
      BY <1>4 DEF GatewayRequeues, PollExpires
    <2>2. SoundStatus
      BY <2>1, SetSound DEF Statuses, Active, Terminal
    <2> QED BY <1>4, <2>2, RowStep, SameContext DEF GatewayRequeues, PollExpires
  <1> QED
    BY <1>1, <1>2, <1>3, <1>4
    DEF GatewayStep, GatewayPublished, DispatcherPublished

-----------------------------------------------------------------------------
(* The context agent.                                                      *)

(* A new snapshot is newer than every other. *)
LEMMA SnapshotInv ==
  ASSUME IInv, NEW r \in Requests,
         newest' = newest + 1, freshest' \in {freshest, newest + 1},
         snap' = [snap EXCEPT ![r] = newest + 1],
         snap[r] = 0,
         context' = [context EXCEPT ![r] = 1],
         UNCHANGED <<status, reserved, binding, coalesced, yielded, analyst>>
  PROVE  IInv'
  <1>1. Typed'
    BY DEF IInv, Typed
  <1>2. Numbered' /\ CompleteIsBound'
    BY DEF IInv, Numbered, CompleteIsBound
  <1>5. Evidenced'
    BY DEF IInv, Typed, Evidenced
  <1>3. /\ snap \in [Requests -> Nat] /\ newest \in Nat
        /\ \A q \in Requests : snap'[q] = IF q = r THEN newest + 1 ELSE snap[q]
        /\ \A q \in Requests : snap[q] <= newest
    BY DEF IInv, Typed, Topped
  <1>4. Topped'
    <2>1. \A q \in Requests : snap'[q] <= newest'
      BY <1>3
    <2>2. CASE r \in Background
      <3>1. Top(r)'
        BY <1>3, RequestKinds DEF Top
      <3>2. \A q \in coalesced : q # r
        BY DEF IInv, Evidenced
      <3> QED BY <2>1, <2>2, <3>1, <3>2, <1>3, RequestKinds DEF Topped, IInv, Typed
    <2>3. CASE r \notin Background
      <3>1. \A b \in Background : snap'[b] = snap[b]
        BY <2>3, <1>3, RequestKinds
      <3>2. \A q \in Background : Top(q)' <=> Top(q)
        BY <3>1 DEF Top
      <3> QED BY <2>1, <3>1, <3>2 DEF Topped, IInv, Typed
    <2> QED BY <2>2, <2>3
  <1> QED BY <1>1, <1>2, <1>4, <1>5 DEF IInv

LEMMA CollectorInv ==
  ASSUME IInv, Collecting,
         \/ \E c \in Collectors : CollectorStep(c) \/ CollectorFails(c)
         \/ \E r \in Explicit : DuplicateCommand(r)
         \/ \E b \in Background : Enrich(b)
  PROVE  IInv'
  <1> USE DEF rowVars, evidenceVars, answerVars, evidenceAndAnswers
  <1>1. UNCHANGED status => SoundStatus
    BY DEF IInv, Typed, SoundStatus
  <1>2. ASSUME NEW c \in Collectors, NEW r \in Explicit, TakeCommand(c, r) PROVE IInv'
    <2>1. SoundStatus
      BY <1>1, <1>2, RetireSound, RequestKinds DEF TakeCommand
    <2> QED BY <1>2, <2>1, RowStep, SameContext DEF TakeCommand
  <1>3. ASSUME NEW c \in Collectors, NEW last \in BOOLEAN, Collect(c, last) PROVE IInv'
    <2>1. collector[c].request \in Requests
      BY <1>3, RequestKinds DEF Collect, Collecting
    <2>2. CASE snap[collector[c].request] # 0
      BY <1>1, <1>3, <2>2, RowStep, SameContext DEF Collect
    <2>3. CASE snap[collector[c].request] = 0
      BY <1>3, <2>1, <2>3, SnapshotInv DEF Collect
    <2> QED BY <2>2, <2>3
  <1>4. ASSUME NEW c \in Collectors, CollectorRecords(c) PROVE IInv'
    <2>1. SoundStatus
      BY <1>4, SetSound DEF CollectorRecords, Statuses, Terminal
    <2> QED BY <1>4, <2>1, RowStep, SameContext DEF CollectorRecords
  <1>5. ASSUME NEW c \in Collectors, CollectorFails(c) \/ CollectorGivesUp(c) PROVE IInv'
    BY <1>1, <1>5, RowStep, SameContext DEF CollectorFails, CollectorGivesUp
  <1>6. ASSUME NEW r \in Explicit, DuplicateCommand(r) PROVE IInv'
    BY <1>1, <1>6, RowStep, SameContext DEF DuplicateCommand
  <1>7. ASSUME NEW b \in Background, Enrich(b) PROVE IInv'
    BY <1>7, SnapshotInv, RequestKinds DEF Enrich
  <1> QED BY <1>2, <1>3, <1>4, <1>5, <1>6, <1>7 DEF CollectorStep

-----------------------------------------------------------------------------
(* The resolution agent.                                                   *)

(* What an analyst at work holds. *)
LEMMA AtWork ==
  ASSUME IInv, NEW a \in Analysts, analyst[a].at # "idle"
  PROVE  /\ analyst[a] \in AnalystRow
         /\ analyst[a].request \in Requests /\ snap[analyst[a].request] # 0
         /\ analyst[a].at = "investigating" => reserved[analyst[a].request] # 0
  BY DEF IInv, Typed, Evidenced, Numbered

(* An analyst that has let go of its delivery. *)
LEMMA RestingRow == Resting \in AnalystRow /\ Resting.at = "idle"
  BY DEF Resting, AnalystRow

(* Where a delivery starts, or starts again. *)
LEMMA EntryRow == \A r : Entry(r) \in {"announcing", "admitting"}
  BY DEF Entry

LEMMA ReceiveInv ==
  ASSUME IInv, NEW a \in Analysts, NEW r \in Requests, Receive(a, r)
  PROVE  IInv'
  <1> USE DEF rowVars, evidenceVars, answerVars, evidenceAndAnswers
  <1> DEFINE x == [at |-> Entry(r), request |-> r, parent |-> snap[r], attempt |-> 1]
  <1>1. SoundStatus /\ SoundContext
    BY DEF Receive, IInv, Typed, Evidenced, SoundStatus, SoundContext
  <1>2. x \in AnalystRow /\ x.at # "investigating" /\ snap[x.request] # 0
    BY EntryRow DEF Receive, IInv, Typed, Evidenced, AnalystRow
  <1>3. analyst' = [analyst EXCEPT ![a] = x]
    BY DEF Receive
  <1>4. x.request = r
    OBVIOUS
  <1> HIDE DEF x
  <1> QED BY <1>1, <1>2, <1>3, <1>4, AnalystMoves DEF Receive

LEMMA AdmitInv ==
  ASSUME IInv, NEW a \in Analysts, Admit(a)
  PROVE  IInv'
  <1> USE DEF rowVars, evidenceVars, answerVars, evidenceAndAnswers
  <1> DEFINE r == analyst[a].request
             x == [analyst[a] EXCEPT !.at = "preparing"]
  <1>1. /\ analyst[a] \in AnalystRow /\ r \in Requests /\ snap[r] # 0
        /\ analyst \in [Analysts -> AnalystRow] /\ status \in [Explicit -> Statuses]
    BY AtWork DEF Admit, IInv, Typed
  <1>2. CASE Ineligible(r)
    BY <1>1, <1>2, RetireSound, RestingRow, AnalystMoves, SameContext DEF Admit
  <1>3. CASE ~Ineligible(r)
    <2>1. SoundStatus
      <3>1. CASE r \in Explicit
        <4>1. status' = [status EXCEPT ![r] = Progress(status[r], "running")]
          BY <1>3, <3>1 DEF Admit
        <4> QED BY <1>1, <3>1, <4>1, ProgressSound, SetSound
      <3>2. CASE r \notin Explicit
        BY <1>1, <1>3, <3>2 DEF Admit, SoundStatus
      <3> QED BY <3>1, <3>2
    <2>2. x \in AnalystRow /\ x.at = "preparing" /\ x.request = r
      BY <1>1 DEF AnalystRow
    <2>3. analyst' = [analyst EXCEPT ![a] = x]
      BY <1>1, <1>3 DEF Admit
    <2> HIDE DEF x, r
    <2> QED BY <1>1, <2>1, <2>2, <2>3, AnalystMoves, SameContext DEF Admit
  <1> QED BY <1>2, <1>3

(* An analysis is retired only while a newer background snapshot exists, and *)
(* the newest one then covers it, or while a committed plan governs.         *)
LEMMA CoalesceInv ==
  ASSUME IInv, NEW a \in Analysts, Coalesce(a)
  PROVE  IInv'
  <1> USE DEF rowVars, evidenceVars, answerVars
  <1> DEFINE r == analyst[a].request
  <1>1. r \in Background /\ snap[r] # 0
    BY AtWork DEF Coalesce
  <1>2. Typed' /\ Numbered' /\ CompleteIsBound' /\ Evidenced'
    BY <1>1, RestingRow
    DEF Coalesce, IInv, Typed, Numbered, CompleteIsBound, Evidenced
  <1>3. ASSUME Covered(r)
        PROVE  \E q \in Background : Top(q) /\ snap[q] > snap[r]
    <2>1. PICK q \in Background : Top(q)
      BY <1>1 DEF IInv, Topped
    <2>2. PICK b \in Background : snap[b] > snap[r]
      BY <1>3 DEF Covered
    <2> QED BY <2>1, <2>2, <1>1, RequestKinds DEF Top, IInv, Typed
  <1>4. Topped'
    <2>1. /\ \A q \in Background : Top(q)' <=> Top(q)
          /\ UNCHANGED <<snap, newest, binding>>
      BY DEF Coalesce, Top
    <2>2. CASE Governed /\ yielded' = yielded \cup {r} /\ UNCHANGED coalesced
      BY <2>1, <2>2 DEF IInv, Topped, Governed
    <2>3. CASE Covered(r) /\ coalesced' = coalesced \cup {r} /\ UNCHANGED yielded
      BY <2>1, <2>3, <1>3 DEF IInv, Topped
    <2> QED BY <2>2, <2>3 DEF Coalesce
  <1> QED BY <1>2, <1>4 DEF IInv

(* A reserved version is the analysis' own already, or is new. *)
LEMMA ReserveFresh ==
  ASSUME IInv, NEW r \in Requests, NEW v \in {u + 1 : u \in Taken \cup {0}} \cup {reserved[r]},
         Reserve(r, v)
  PROVE  /\ v \in Nat \ {0}
         /\ reserved[r] # 0 => v = reserved[r]
         /\ \A q \in Requests : q # r => reserved[q] # v
  <1>1. reserved \in [Requests -> Nat]
    BY DEF IInv, Typed
  <1>2. \A u \in Taken : u \in Nat
    BY <1>1 DEF Taken, Committed, IInv, Typed, AnyAnswer
  <1>3. CASE reserved[r] # 0
    BY <1>1, <1>3 DEF Reserve, IInv, Numbered
  <1>4. CASE reserved[r] = 0
    <2>1. \A q \in Requests : reserved[q] \in Taken
      BY DEF Taken
    <2>2. \A u \in Taken : u < v
      BY <1>4 DEF Reserve
    <2> QED BY <1>1, <1>2, <1>4, <2>1, <2>2
  <1> QED BY <1>3, <1>4

LEMMA PrepareInv ==
  ASSUME IInv, NEW a \in Analysts, Prepare(a)
  PROVE  IInv'
  <1> USE DEF rowVars, evidenceVars
  <1> DEFINE r == analyst[a].request
  <1>1. PICK v \in {u + 1 : u \in Taken \cup {0}} \cup {reserved[r]} : Reserve(r, v)
    BY DEF Prepare
  <1>2. r \in Requests /\ analyst[a] \in AnalystRow
    BY AtWork DEF Prepare
  <1>3. /\ v \in Nat \ {0} /\ (reserved[r] # 0 => v = reserved[r])
        /\ \A q \in Requests : q # r => reserved[q] # v
    BY <1>1, <1>2, ReserveFresh
  <1>4. reserved' = [reserved EXCEPT ![r] = v] /\ reserved \in [Requests -> Nat]
    BY <1>1 DEF Reserve, IInv, Typed
  <1>5. /\ analyst' \in [Analysts -> AnalystRow]
        /\ \A b \in Analysts : b # a => analyst'[b] = analyst[b]
        /\ analyst'[a].at = "investigating" /\ analyst'[a].request = r
    <2>1. Refreshed \in Nat /\ analyst \in [Analysts -> AnalystRow]
      BY DEF Refreshed, IInv, Typed
    <2> QED BY <1>2, <2>1 DEF Prepare, AnalystRow
  <1>6. Typed'
    BY <1>2, <1>3, <1>4, <1>5 DEF Prepare, IInv, Typed
  <1>7. Numbered'
    <2>1. \A q \in Requests : binding[q] # None => reserved[q] # 0
      BY <1>4, RequestKinds DEF IInv, Typed, Numbered, AnyAnswer
    <2>2. \A b \in Analysts : analyst'[b].at = "investigating" => reserved'[analyst'[b].request] # 0
      <3> TAKE b \in Analysts
      <3>1. CASE b = a
        BY <1>2, <1>3, <1>4, <1>5, <3>1
      <3>2. CASE b # a
        BY <1>2, <1>3, <1>4, <1>5, <3>2, AtWork
      <3> QED BY <3>1, <3>2
    <2>3. \A q \in Requests : binding'[q] # None => binding'[q].version = reserved'[q]
      BY <1>3, <1>4, <2>1 DEF Prepare, IInv, Numbered
    <2>4. \A p, q \in Requests : p # q /\ reserved'[p] # 0 => reserved'[p] # reserved'[q]
      BY <1>2, <1>3, <1>4 DEF IInv, Numbered
    <2> QED BY <2>2, <2>3, <2>4 DEF Numbered
  <1>8. Evidenced' /\ CompleteIsBound'
    BY <1>2, <1>5, AtWork DEF Prepare, IInv, CompleteIsBound, Evidenced
  <1>9. Topped'
    BY DEF Prepare, IInv, Topped, Top
  <1> QED BY <1>6, <1>7, <1>8, <1>9 DEF IInv

LEMMA CommitInv ==
  ASSUME IInv, NEW a \in Analysts, Commit(a)
  PROVE  IInv'
  <1> DEFINE r == analyst[a].request
  <1>1. /\ r \in Requests /\ analyst[a] \in AnalystRow /\ snap[r] # 0
        /\ reserved[r] \in Nat \ {0} /\ binding[r] = None
    BY AtWork DEF Commit, Unbound, IInv, Typed
  <1>2. binding' = [binding EXCEPT ![r] = [version |-> reserved[r], snapshot |-> newest + 1]]
    <2>1. Versioned(reserved[r])
      BY <1>1 DEF Versioned
    <2> QED BY <2>1 DEF Commit
  <1>3. newest \in Nat /\ [version |-> reserved[r], snapshot |-> newest + 1] \in AnyAnswer
    BY <1>1 DEF IInv, Typed, AnyAnswer
  <1>4. /\ binding' \in [Requests -> AnyAnswer \cup {None}] /\ binding'[r] # None
        /\ binding'[r].version = reserved[r]
        /\ \A q \in Requests : q # r => binding'[q] = binding[q]
    BY <1>1, <1>2, <1>3, RequestKinds DEF IInv, Typed
  <1>5. /\ analyst' \in [Analysts -> AnalystRow]
        /\ \A b \in Analysts : b # a => analyst'[b] = analyst[b]
        /\ analyst'[a].at = "announcing" /\ analyst'[a].request = r
    BY <1>1 DEF Commit, AnalystRow, IInv, Typed
  <1>6. Typed'
    <2>1. status' \in [Explicit -> Statuses]
      BY DEF Commit, IInv, Typed, Statuses, Terminal
    <2> QED BY <2>1, <1>1, <1>3, <1>4, <1>5 DEF Commit, IInv, Typed
  <1>7. Numbered'
    BY <1>4, <1>5 DEF Commit, IInv, Numbered
  <1>8. CompleteIsBound'
    <2> SUFFICES ASSUME NEW q \in Explicit, status'[q] = "complete" PROVE binding'[q] # None
      BY DEF CompleteIsBound
    <2>1. CASE q = r
      BY <2>1, <1>4
    <2>2. CASE q # r
      BY <2>2, <1>4, RequestKinds DEF Commit, IInv, Typed, CompleteIsBound
    <2> QED BY <2>1, <2>2
  <1>9. Evidenced'
    BY <1>1, <1>5 DEF Commit, IInv, Evidenced
  <1>10. Topped'
    BY <1>1, <1>3, <1>4 DEF Commit, IInv, Typed, Topped, Top
  <1> QED BY <1>6, <1>7, <1>8, <1>9, <1>10 DEF IInv

(* The other steps of an analyst: back to the entry, to rest, or to record a failure. *)
LEMMA OtherAnalystInv ==
  ASSUME IInv, NEW a \in Analysts,
         \/ Superseded(a) \/ Announce(a) \/ AnalystFails(a)
         \/ AnalystGivesUp(a) \/ AnalystRecords(a)
  PROVE  IInv'
  <1> USE DEF rowVars, evidenceVars, answerVars, evidenceAndAnswers
  <1> DEFINE r == analyst[a].request
  <1>1. /\ analyst[a] \in AnalystRow /\ r \in Requests /\ snap[r] # 0
        /\ Refreshed \in Nat /\ analyst \in [Analysts -> AnalystRow]
    BY AtWork
    DEF Superseded, Announce, AnalystFails, AnalystGivesUp, AnalystRecords, Refreshed,
        IInv, Typed
  <1>2. UNCHANGED status => SoundStatus
    BY DEF IInv, Typed, SoundStatus
  <1>3. CASE Superseded(a)
    <2> DEFINE x == [analyst[a] EXCEPT !.parent = Refreshed, !.attempt = @ + 1, !.at = Entry(r)]
    <2>1. x \in AnalystRow /\ x.at # "investigating" /\ x.request = r
      <3>1. Entry(r) = "announcing" \/ Entry(r) = "admitting"
        BY EntryRow
      <3>2. analyst[a].attempt + 1 \in Nat
        BY <1>1 DEF AnalystRow
      <3> QED BY <1>1, <3>1, <3>2 DEF AnalystRow
    <2>2. analyst' = [analyst EXCEPT ![a] = x]
      BY <1>1, <1>3 DEF Superseded
    <2> HIDE DEF x, r
    <2> QED BY <1>1, <1>2, <1>3, <2>1, <2>2, AnalystMoves, SameContext DEF Superseded
  <1>4. CASE Announce(a)
    <2>1. UNCHANGED <<status, context, snap, newest, freshest, reserved, binding, coalesced,
                      yielded>>
      BY <1>4 DEF Announce
    <2> QED BY <1>2, <1>4, <2>1, RestingRow, AnalystMoves, SameContext DEF Announce
  <1>5. CASE AnalystFails(a)
    <2>1. SoundContext
      BY <1>1, <1>5 DEF AnalystFails, SoundContext, IInv, Typed, Evidenced
    <2> QED BY <1>2, <1>5, <2>1, RestingRow, AnalystMoves DEF AnalystFails
  <1>6. CASE AnalystGivesUp(a)
    <2> DEFINE x == [analyst[a] EXCEPT !.at = "failing"]
    <2>1. x \in AnalystRow /\ x.at = "failing" /\ x.request = r
      BY <1>1 DEF AnalystRow
    <2>2. analyst' \in {[analyst EXCEPT ![a] = x], [analyst EXCEPT ![a] = Resting]}
      BY <1>1, <1>6 DEF AnalystGivesUp
    <2> HIDE DEF x, r
    <2> QED BY <1>1, <1>2, <1>6, <2>1, <2>2, RestingRow, AnalystMoves, SameContext
            DEF AnalystGivesUp
  <1>7. CASE AnalystRecords(a)
    <2>1. SoundStatus
      BY <1>7, SetSound DEF AnalystRecords, Statuses, Terminal
    <2> QED BY <1>7, <2>1, RestingRow, AnalystMoves, SameContext DEF AnalystRecords
  <1> QED BY <1>3, <1>4, <1>5, <1>6, <1>7

LEMMA DuplicateContextInv ==
  ASSUME IInv, NEW r \in Requests, DuplicateContext(r)
  PROVE  IInv'
  <1>1. SoundStatus /\ SoundContext
    BY DEF DuplicateContext, rowVars, IInv, Typed, Evidenced, SoundStatus, SoundContext
  <1> QED BY <1>1, RowStep DEF DuplicateContext, evidenceVars, answerVars, evidenceAndAnswers

-----------------------------------------------------------------------------
(* The invariant.                                                          *)

LEMMA CollectingStep == Collecting /\ [Next]_vars => Collecting'
  <1> SUFFICES ASSUME Collecting, [Next]_vars PROVE Collecting'
    OBVIOUS
  <1> USE DEF Collecting, Collector, Waiting
  <1>1. ASSUME NEW c \in Collectors, NEW r \in Explicit, TakeCommand(c, r) PROVE Collecting'
    BY <1>1, RequestKinds DEF TakeCommand
  <1>2. ASSUME NEW c \in Collectors,
               \/ \E last \in BOOLEAN : Collect(c, last)
               \/ CollectorFails(c) \/ CollectorGivesUp(c) \/ CollectorRecords(c)
        PROVE  Collecting'
    BY <1>2 DEF Collect, CollectorFails, CollectorGivesUp, CollectorRecords
  <1>3. ASSUME UNCHANGED collector PROVE Collecting'
    BY <1>3
  <1>4. ASSUME NEW a \in Analysts, AnalystStep(a) \/ AnalystFails(a) PROVE UNCHANGED collector
    BY <1>4
    DEF AnalystStep, Receive, Admit, Coalesce, Prepare, Commit, Superseded, Announce,
        AnalystFails, AnalystGivesUp, AnalystRecords
  <1>5. ASSUME NEW r \in Explicit, GatewayStep(r) \/ DispatcherPublished(r) \/ Expire(r)
        PROVE  UNCHANGED collector
    BY <1>5
    DEF GatewayStep, Submit, GatewayPublished, GatewayRefused, GatewayRequeues, GatewayDies,
        Poll, PollExpires, DispatcherPublished, Expire
  <1>6. ASSUME \/ IncidentEnds \/ \E b \in Background : Enrich(b)
               \/ \E r \in Requests : DuplicateContext(r)
               \/ \E r \in Explicit : DuplicateCommand(r)
        PROVE  UNCHANGED collector
    BY <1>6 DEF IncidentEnds, Enrich, DuplicateContext, DuplicateCommand
  <1>7. CASE UNCHANGED vars
    BY <1>7 DEF vars
  <1> QED
    BY <1>1, <1>2, <1>3, <1>4, <1>5, <1>6, <1>7 DEF Next, Redelivery, CollectorStep

LEMMA StepIInv == IInv /\ Collecting /\ [Next]_vars => IInv'
  <1> SUFFICES ASSUME IInv, Collecting, [Next]_vars PROVE IInv'
    OBVIOUS
  <1>1. ASSUME NEW r \in Explicit, GatewayStep(r) \/ DispatcherPublished(r) \/ Expire(r)
        PROVE  IInv'
    BY <1>1, GatewayInv
  <1>2. ASSUME NEW a \in Analysts, AnalystStep(a) \/ AnalystFails(a) PROVE IInv'
    BY <1>2, ReceiveInv, AdmitInv, CoalesceInv, PrepareInv, CommitInv, OtherAnalystInv
    DEF AnalystStep
  <1>3. ASSUME \/ \E c \in Collectors : CollectorStep(c) \/ CollectorFails(c)
               \/ \E r \in Explicit : DuplicateCommand(r)
               \/ \E b \in Background : Enrich(b)
        PROVE  IInv'
    BY <1>3, CollectorInv
  <1>4. ASSUME NEW r \in Requests, DuplicateContext(r) PROVE IInv'
    BY <1>4, DuplicateContextInv
  <1>5. CASE IncidentEnds \/ UNCHANGED vars
    <2>1. UNCHANGED <<status, context, evidenceAndAnswers, analyst>>
      BY <1>5 DEF IncidentEnds, vars, rowVars, evidenceVars, answerVars, evidenceAndAnswers
    <2>2. SoundStatus
      BY <2>1 DEF IInv, Typed, SoundStatus
    <2> QED BY <2>1, <2>2, RowStep, SameContext
  <1> QED BY <1>1, <1>2, <1>3, <1>4, <1>5 DEF Next, Redelivery

LEMMA IInvAlways == Spec => [](IInv /\ Collecting)
  <1>1. Init => IInv /\ Collecting
    BY InitIInv DEF Init, Collecting, Collector, Waiting
  <1>2. (IInv /\ Collecting) /\ [Next]_vars => (IInv /\ Collecting)'
    BY StepIInv, CollectingStep
  <1> QED BY <1>1, <1>2, PTL DEF Spec

-----------------------------------------------------------------------------
(* The theorems.                                                           *)

(* No two analyses ever take the same version, whether it is committed or only *)
(* reserved, and however their reservations and commits overlap.                *)
THEOREM VersionsAreUnique == Spec => []VersionsUnique
  <1>1. IInv => VersionsUnique
    <2> SUFFICES ASSUME IInv, NEW r \in Requests, NEW q \in Requests, r # q
                 PROVE  /\ binding[r] # None /\ binding[q] # None
                             => binding[r].version # binding[q].version
                        /\ reserved[r] # 0 => reserved[r] # reserved[q]
      BY DEF VersionsUnique
    <2>1. binding[r] # None => binding[r].version = reserved[r] /\ reserved[r] # 0
      BY DEF IInv, Typed, Numbered, AnyAnswer
    <2> QED BY <2>1 DEF IInv, Numbered
  <1> QED BY <1>1, IInvAlways, PTL

(* A request that the operator is told is complete has its recommendation: the status *)
(* is written by the transaction that binds it, and no receipt writes it.              *)
THEOREM CompleteHasAnswer == Spec => []CompleteIsBound
  <1>1. IInv => CompleteIsBound
    BY DEF IInv
  <1> QED BY <1>1, IInvAlways, PTL

\* What is retired for a newer analysis has one that is not.
CoalescedTop ==
  \A r \in coalesced : \E q \in Background \ coalesced : snap[q] > snap[r]

(* A background analysis is retired only for a newer one that is not retired itself, since *)
(* the newest snapshot is covered by none, unless it or the newest gave way to a recovery;  *)
(* then a recommendation has been committed.                                                 *)
THEOREM RetiredIsCovered == Spec => []CoalescedIsCovered
  <1>1. IInv /\ CoalescedTop => CoalescedIsCovered
    <2> SUFFICES ASSUME IInv, CoalescedTop, NEW r \in coalesced \cup yielded
                 PROVE  \/ \E q \in Background \ (coalesced \cup yielded) : snap[q] > snap[r]
                        \/ /\ \E q \in yielded : snap[q] >= snap[r]
                           /\ \E p \in Requests : binding[p] # None
      BY DEF CoalescedIsCovered
    <2>1. CASE r \in yielded
      <3>1. snap[r] >= snap[r]
        BY <2>1, RequestKinds DEF IInv, Typed
      <3> QED BY <2>1, <3>1 DEF IInv, Topped
    <2>2. CASE r \in coalesced
      <3>1. PICK q \in Background \ coalesced : snap[q] > snap[r]
        BY <2>2 DEF CoalescedTop
      <3>2. snap[q] >= snap[r]
        BY <2>2, <3>1, RequestKinds DEF IInv, Typed
      <3> QED BY <3>1, <3>2 DEF IInv, Topped
    <2> QED BY <2>1, <2>2
  <1>2. IInv => CoalescedTop
    <2> SUFFICES ASSUME IInv, NEW r \in coalesced
                 PROVE  \E q \in Background \ coalesced : snap[q] > snap[r]
      BY DEF CoalescedTop
    <2>1. PICK q \in Background : Top(q) /\ snap[q] > snap[r]
      BY DEF IInv, Topped
    <2>2. q \notin coalesced
      <3> SUFFICES ASSUME q \in coalesced PROVE FALSE
        OBVIOUS
      <3>1. PICK b \in Background : snap[b] > snap[q]
        BY DEF IInv, Topped
      <3>2. snap[b] <= snap[q] /\ snap[b] \in Nat /\ snap[q] \in Nat
        BY <2>1, RequestKinds DEF Top, IInv, Typed
      <3> QED BY <3>1, <3>2
    <2> QED BY <2>1, <2>2
  <1> QED BY <1>1, <1>2, IInvAlways, PTL

\* Answers stay as they are.
AnswersKept ==
  \A r \in Requests : binding[r] # None => binding'[r] = binding[r]

\* What is over is reopened by nobody, save a gateway that writes what it read before.
EndsKept ==
  \A r \in Explicit :
    status[r] \in Terminal /\ status'[r] \notin Terminal => sender[r] = "requeueing"

(* All steps but a commit leave the answers, and all but these the statuses. *)
LEMMA StepEffects ==
  ASSUME [Next]_vars
  PROVE  /\ UNCHANGED binding \/ \E a \in Analysts : Commit(a)
         /\ \/ UNCHANGED status
            \/ \E r \in Explicit :
                 Submit(r) \/ Published(r) \/ GatewayRequeues(r) \/ PollExpires(r)
            \/ \E r : Retire(r)
            \/ \E r \in Explicit : status' = [status EXCEPT ![r] = Progress(@, "running")]
            \/ \E a \in Analysts : Commit(a)
            \/ \E r : status' = [status EXCEPT ![r] = "failed"]
  <1> USE DEF rowVars, evidenceVars, answerVars
  <1>1. ASSUME NEW r \in Explicit, GatewayStep(r) \/ DispatcherPublished(r) \/ Expire(r)
        PROVE  /\ UNCHANGED binding
               /\ \/ UNCHANGED status
                  \/ Submit(r) \/ Published(r) \/ GatewayRequeues(r) \/ PollExpires(r)
    BY <1>1
    DEF GatewayStep, Submit, GatewayPublished, GatewayRefused, GatewayRequeues, GatewayDies,
        Poll, PollExpires, DispatcherPublished, Expire
  <1>2. ASSUME NEW c \in Collectors, CollectorStep(c) \/ CollectorFails(c)
        PROVE  /\ UNCHANGED binding
               /\ \/ UNCHANGED status
                  \/ \E r \in Explicit : Retire(r)
                  \/ \E r : status' = [status EXCEPT ![r] = "failed"]
    BY <1>2
    DEF CollectorStep, TakeCommand, Collect, CollectorFails, CollectorGivesUp, CollectorRecords
  <1>3. ASSUME \/ IncidentEnds \/ \E b \in Background : Enrich(b)
               \/ \E r \in Requests : DuplicateContext(r)
               \/ \E r \in Explicit : DuplicateCommand(r)
               \/ UNCHANGED vars
        PROVE  UNCHANGED <<binding, status>>
    BY <1>3 DEF IncidentEnds, Enrich, DuplicateContext, DuplicateCommand, vars
  <1>4. ASSUME NEW a \in Analysts, Admit(a)
        PROVE  /\ UNCHANGED binding
               /\ \/ UNCHANGED status \/ Retire(analyst[a].request)
                  \/ /\ analyst[a].request \in Explicit
                     /\ status' = [status EXCEPT ![analyst[a].request] = Progress(@, "running")]
    BY <1>4 DEF Admit
  <1>5. ASSUME NEW a \in Analysts, AnalystStep(a) \/ AnalystFails(a), ~Admit(a), ~Commit(a)
        PROVE  /\ UNCHANGED binding
               /\ UNCHANGED status \/ \E r : status' = [status EXCEPT ![r] = "failed"]
    BY <1>5
    DEF AnalystStep, Receive, Coalesce, Prepare, Superseded, Announce,
        AnalystFails, AnalystGivesUp, AnalystRecords
  <1>6. \/ \E r \in Explicit : GatewayStep(r) \/ DispatcherPublished(r) \/ Expire(r)
        \/ \E c \in Collectors : CollectorStep(c) \/ CollectorFails(c)
        \/ IncidentEnds \/ \E b \in Background : Enrich(b)
        \/ \E r \in Requests : DuplicateContext(r)
        \/ \E r \in Explicit : DuplicateCommand(r)
        \/ UNCHANGED vars
        \/ \E a \in Analysts : AnalystStep(a) \/ AnalystFails(a)
    BY DEF Next, Redelivery
  <1>7. UNCHANGED binding \/ \E a \in Analysts : Commit(a)
    BY <1>1, <1>2, <1>3, <1>4, <1>5, <1>6
  <1> QED BY <1>1, <1>2, <1>3, <1>4, <1>5, <1>6, <1>7

LEMMA EndsStep == IInv /\ [Next]_vars => EndsKept
  <1> SUFFICES ASSUME IInv, [Next]_vars, NEW q \in Explicit, status[q] \in Terminal,
                      status'[q] \notin Terminal
               PROVE  sender[q] = "requeueing"
    BY DEF EndsKept
  <1>1. status \in [Explicit -> Statuses] /\ status[q] \notin Active \cup {"none"}
    BY DEF IInv, Typed, Active, Terminal
  <1>2. ASSUME NEW r \in Explicit, Submit(r) PROVE FALSE
    BY <1>1, <1>2 DEF Submit, Current, Terminal
  <1>3. ASSUME NEW r \in Explicit, NEW stage \in {"published", "running"},
               status' = [status EXCEPT ![r] = Progress(@, stage)]
        PROVE  FALSE
    BY <1>1, <1>3, ProgressSound
  <1>4. ASSUME NEW r, NEW s \in Terminal, status' = [status EXCEPT ![r] = s] PROVE FALSE
    BY <1>1, <1>4
  <1>5. ASSUME NEW r, Retire(r) PROVE FALSE
    BY <1>1, <1>5 DEF Retire, Terminal
  <1>6. ASSUME NEW a \in Analysts, Commit(a) PROVE FALSE
    BY <1>1, <1>6 DEF Commit, Terminal
  <1>7. ASSUME NEW r \in Explicit, GatewayRequeues(r) PROVE sender[q] = "requeueing"
    BY <1>1, <1>7 DEF GatewayRequeues
  <1> QED
    BY <1>2, <1>3, <1>4, <1>5, <1>6, <1>7, StepEffects DEF Published, PollExpires, Terminal

(* A committed analysis never changes, whatever is delivered twice or investigated by *)
(* two analysts at once: the commit checks the binding in its own transaction.         *)
THEOREM AnswersAreImmutable == Spec => BindingsStay
  <1>1. IInv /\ [Next]_vars => [AnswersKept]_vars
    <2> SUFFICES ASSUME IInv, [Next]_vars, NEW r \in Requests, binding[r] # None
                 PROVE  binding'[r] = binding[r]
      BY DEF AnswersKept
    <2>1. ASSUME NEW a \in Analysts, Commit(a) PROVE binding'[r] = binding[r]
      BY <2>1 DEF Commit, Unbound, IInv, Typed
    <2> QED BY <2>1, StepEffects
  <1> QED BY <1>1, IInvAlways, PTL DEF Spec, BindingsStay, AnswersKept

(* No receipt of a dispatcher or worker, and no retirement, poll or commit, reopens a *)
(* request that is over; only a gateway does that goes by a status it read before.     *)
THEOREM EndsAreFinal == Spec => ReceiptsDoNotReopen
  <1>1. IInv /\ [Next]_vars => [EndsKept]_vars
    BY EndsStep
  <1> QED BY <1>1, IInvAlways, PTL DEF Spec, ReceiptsDoNotReopen, EndsKept

-----------------------------------------------------------------------------
(* Versions have no gaps, and there are no more of them than requests.     *)

\* Whoever has reserved a version has found all lower ones taken.
Gapless ==
  \A r \in Requests : \A u \in 1..reserved[r] : \E q \in Requests : reserved[q] = u

LEMMA GaplessStep ==
  ASSUME IInv, Gapless, [Next]_vars
  PROVE  Gapless'
  <1>1. UNCHANGED reserved \/ \E a \in Analysts : Prepare(a)
    BY DEF Next, Redelivery, CollectorStep, AnalystStep, GatewayStep, vars, rowVars, evidenceVars,
           answerVars, Submit, GatewayPublished, GatewayRefused, GatewayRequeues, GatewayDies,
           Poll, PollExpires, DispatcherPublished, Expire, IncidentEnds, DuplicateCommand,
           DuplicateContext, CollectorFails, AnalystFails, TakeCommand, Collect,
           CollectorGivesUp, CollectorRecords, Enrich, Receive, Admit, Coalesce, Commit,
           Superseded, Announce, AnalystGivesUp, AnalystRecords
  <1>2. ASSUME NEW a \in Analysts, Prepare(a) PROVE Gapless'
    <2> DEFINE r == analyst[a].request
    <2>1. PICK v \in {u + 1 : u \in Taken \cup {0}} \cup {reserved[r]} : Reserve(r, v)
      BY <1>2 DEF Prepare
    <2>2. r \in Requests /\ reserved \in [Requests -> Nat]
      BY <1>2, AtWork DEF Prepare, IInv, Typed
    <2>3. reserved' = [reserved EXCEPT ![r] = v]
      BY <2>1 DEF Reserve
    <2>4. CASE reserved[r] # 0
      <3>1. reserved' = reserved
        BY <2>1, <2>2, <2>3, <2>4 DEF Reserve
      <3> QED BY <3>1 DEF Gapless
    <2>5. CASE reserved[r] = 0
      <3>1. v \in Nat \ {0} /\ v - 1 \in Taken \cup {0}
        BY <2>1, <2>2, <2>5, ReserveFresh DEF Reserve
      <3>2. \A u \in Taken : \E q \in Requests : reserved[q] = u
        BY DEF Taken, Committed, IInv, Numbered
      <3>3. \A u \in 1..(v - 1) : \E q \in Requests : reserved[q] = u
        <4> TAKE u \in 1..(v - 1)
        <4>1. PICK q \in Requests : reserved[q] = v - 1
          BY <3>1, <3>2
        <4> QED BY <4>1 DEF Gapless
      <3>4. \A q \in Requests : reserved[q] # 0 => reserved'[q] = reserved[q]
        BY <2>2, <2>3, <2>5
      <3>5. \A u \in 1..v : \E q \in Requests : reserved'[q] = u
        <4> TAKE u \in 1..v
        <4>1. CASE u = v
          BY <2>2, <2>3, <4>1
        <4>2. CASE u # v
          <5>1. PICK q \in Requests : reserved[q] = u
            BY <3>1, <3>3, <4>2
          <5> QED BY <3>1, <3>4, <5>1
        <4> QED BY <4>1, <4>2
      <3>6. \A p \in Requests : p # r => \A u \in 1..reserved'[p] :
                                \E q \in Requests : reserved'[q] = u
        <4> TAKE p \in Requests
        <4> HAVE p # r
        <4> TAKE u \in 1..reserved'[p]
        <4>1. reserved'[p] = reserved[p]
          BY <2>2, <2>3
        <4>2. PICK q \in Requests : reserved[q] = u
          BY <4>1 DEF Gapless
        <4> QED BY <2>2, <3>4, <4>1, <4>2
      <3> QED BY <2>2, <2>3, <3>5, <3>6 DEF Gapless
    <2> QED BY <2>4, <2>5
  <1> QED BY <1>1, <1>2 DEF Gapless

GaplessInv == IInv /\ Collecting /\ Gapless

LEMMA GaplessAlways == Spec => []GaplessInv
  <1>1. Init => Gapless
    BY DEF Init, Gapless
  <1>2. GaplessInv /\ [Next]_vars => Gapless'
    BY GaplessStep DEF GaplessInv
  <1> QED BY <1>1, <1>2, IInvAlways, PTL DEF Spec, GaplessInv

(* Versions below a given one are taken each by a request of its own. *)
LEMMA VersionsCounted ==
  ASSUME Typed, Gapless, NEW r \in Requests
  PROVE  reserved[r] <= Cardinality(Requests)
  <1> DEFINE n == reserved[r]
             T == {reserved[q] : q \in Requests}
             f == [q \in Requests |-> reserved[q]]
  <1>1. n \in Nat /\ IsFiniteSet(Requests)
    BY FiniteAssumption DEF Typed
  <1>2. f \in Surjection(Requests, T)
    BY DEF Surjection
  <1>3. IsFiniteSet(T) /\ Cardinality(T) <= Cardinality(Requests)
    <2> HIDE DEF f, T
    <2> QED BY <1>1, <1>2, FS_Surjection
  <1>4. 1..n \subseteq T
    BY DEF Gapless
  <1>5. Cardinality(1..n) <= Cardinality(T)
    <2> HIDE DEF T
    <2> QED BY <1>3, <1>4, FS_Subset
  <1>6. Cardinality(1..n) = n
    BY <1>1, FS_Interval
  <1>7. Cardinality(T) \in Nat /\ Cardinality(Requests) \in Nat
    BY <1>1, <1>3, FS_CardinalityType
  <1> QED BY <1>1, <1>3, <1>5, <1>6, <1>7

(* Versions are given without gaps: every version up to the highest one reserved *)
(* is reserved by an analysis, so their number is at most that of the requests.  *)
THEOREM VersionsHaveNoGaps ==
  Spec => [](\A r \in Requests :
               /\ reserved[r] <= Cardinality(Requests)
               /\ \A u \in 1..reserved[r] : \E q \in Requests : reserved[q] = u)
  <1>1. GaplessInv => \A r \in Requests :
               /\ reserved[r] <= Cardinality(Requests)
               /\ \A u \in 1..reserved[r] : \E q \in Requests : reserved[q] = u
    BY VersionsCounted DEF GaplessInv, IInv, Gapless
  <1> QED BY <1>1, GaplessAlways, PTL

-----------------------------------------------------------------------------
(* Every snapshot is the snapshot of a request or the final one of an       *)
(* answer, so there are at most two for each request beside the first.      *)

Snapped == {r \in Requests : snap[r] # 0}
Answered == {r \in Requests : binding[r] # None}

Census == newest = 1 + Cardinality(Snapped) + Cardinality(Answered)

LEMMA CensusStep ==
  ASSUME IInv, Collecting, Census, [Next]_vars
  PROVE  Census'
  <1>0. /\ IsFiniteSet(Snapped) /\ IsFiniteSet(Answered)
        /\ Cardinality(Snapped) \in Nat /\ Cardinality(Answered) \in Nat
        /\ newest \in Nat /\ snap \in [Requests -> Nat]
    BY FiniteAssumption, FS_Subset, FS_CardinalityType DEF Snapped, Answered, IInv, Typed
  <1>1. ASSUME NEW r \in Requests, snap[r] = 0, newest' = newest + 1,
               snap' = [snap EXCEPT ![r] = newest + 1], UNCHANGED binding
        PROVE  Census'
    <2>1. Snapped' = Snapped \cup {r} /\ r \notin Snapped /\ Answered' = Answered
      BY <1>0, <1>1 DEF Snapped, Answered
    <2>2. Cardinality(Snapped') = Cardinality(Snapped) + 1
      BY <1>0, <2>1, FS_AddElement
    <2> QED BY <1>0, <1>1, <2>1, <2>2 DEF Census
  <1>2. ASSUME NEW a \in Analysts, Commit(a) PROVE Census'
    <2> DEFINE r == analyst[a].request
    <2>1. /\ r \in Requests /\ binding[r] = None /\ reserved[r] \in Nat \ {0}
          /\ newest' = newest + 1 /\ snap' = snap
      BY <1>2, AtWork DEF Commit, Unbound, IInv, Typed
    <2>2. binding' = [binding EXCEPT ![r] = [version |-> reserved[r], snapshot |-> newest + 1]]
      <3>1. Versioned(reserved[r])
        BY <2>1 DEF Versioned
      <3> QED BY <1>2, <3>1 DEF Commit
    <2>3. [version |-> reserved[r], snapshot |-> newest + 1] # None
      BY <1>0, <2>1, RequestKinds DEF AnyAnswer
    <2>4. /\ binding'[r] # None
          /\ \A q \in Requests : q # r => binding'[q] = binding[q]
      BY <2>1, <2>2, <2>3 DEF IInv, Typed
    <2>5. Answered' = Answered \cup {r} /\ r \notin Answered /\ Snapped' = Snapped
      BY <2>1, <2>4 DEF Snapped, Answered
    <2>6. Cardinality(Answered') = Cardinality(Answered) + 1
      BY <1>0, <2>5, FS_AddElement
    <2> QED BY <1>0, <2>1, <2>5, <2>6 DEF Census
  <1>3. ASSUME UNCHANGED <<snap, newest, binding>> PROVE Census'
    BY <1>3 DEF Census, Snapped, Answered
  <1>4. ASSUME NEW c \in Collectors, NEW last \in BOOLEAN, Collect(c, last) PROVE Census'
    <2>1. collector[c].request \in Requests
      BY <1>4, RequestKinds DEF Collect, Collecting
    <2> QED BY <1>1, <1>3, <1>4, <2>1 DEF Collect, evidenceVars, answerVars
  <1>5. ASSUME NEW b \in Background, Enrich(b) PROVE Census'
    BY <1>1, <1>5, RequestKinds DEF Enrich, answerVars
  <1>6. \/ UNCHANGED <<snap, newest, binding>>
        \/ \E c \in Collectors, last \in BOOLEAN : Collect(c, last)
        \/ \E b \in Background : Enrich(b)
        \/ \E a \in Analysts : Commit(a)
    BY DEF Next, Redelivery, CollectorStep, AnalystStep, GatewayStep, vars, rowVars, evidenceVars,
           answerVars, Submit, GatewayPublished, GatewayRefused, GatewayRequeues, GatewayDies,
           Poll, PollExpires, DispatcherPublished, Expire, IncidentEnds, DuplicateCommand,
           DuplicateContext, CollectorFails, AnalystFails, TakeCommand,
           CollectorGivesUp, CollectorRecords, Receive, Admit, Coalesce, Prepare,
           Superseded, Announce, AnalystGivesUp, AnalystRecords
  <1> QED BY <1>2, <1>3, <1>4, <1>5, <1>6

(* Snapshots, versions and what is made of them stay within the bounds of TypeOK. *)
Dated ==
  /\ freshest <= newest
  /\ \A r \in Requests : binding[r] # None => binding[r].snapshot <= newest
  /\ \A a \in Analysts : analyst[a].parent <= newest /\ analyst[a].attempt \in 1..MaxAttempts

(* An analyst's parent and attempt change only within their bounds. *)
LEMMA AnalystDated ==
  ASSUME IInv, Dated, newest' \in Nat, newest <= newest', NEW a \in Analysts, NEW x,
         analyst' = [analyst EXCEPT ![a] = x],
         x.parent <= newest, x.attempt \in 1..MaxAttempts, x.parent \in Nat
  PROVE  \A b \in Analysts : analyst'[b].parent <= newest' /\ analyst'[b].attempt \in 1..MaxAttempts
  <1> TAKE b \in Analysts
  <1>1. /\ analyst[b].parent \in Nat /\ newest \in Nat
        /\ analyst'[b] = IF b = a THEN x ELSE analyst[b]
    BY DEF IInv, Typed, AnalystRow
  <1> QED BY <1>1 DEF Dated

LEMMA DatedStep ==
  ASSUME IInv, IInv', Dated, [Next]_vars
  PROVE  Dated'
  <1> USE DEF rowVars, evidenceVars, answerVars
  <1>0. /\ newest \in Nat /\ freshest \in Nat /\ freshest <= newest
        /\ snap \in [Requests -> Nat] /\ analyst \in [Analysts -> AnalystRow]
        /\ binding \in [Requests -> AnyAnswer \cup {None}]
        /\ \A r \in Requests : snap[r] <= newest
        /\ 1 \in 1..MaxAttempts /\ MaxAttempts \in Nat
    BY LimitsAssumption DEF IInv, Typed, Topped, Dated
  <1>1. ASSUME UNCHANGED <<binding, analyst>>, newest' \in Nat, newest <= newest',
               freshest' <= newest'
        PROVE  Dated'
    <2>1. \A r \in Requests : binding[r] # None => binding[r].snapshot \in Nat
      BY <1>0 DEF AnyAnswer
    <2>2. \A a \in Analysts : analyst[a].parent \in Nat
      BY <1>0 DEF AnalystRow
    <2> QED BY <1>0, <1>1, <2>1, <2>2 DEF Dated
  <1>2. ASSUME NEW a \in Analysts, NEW x, analyst' = [analyst EXCEPT ![a] = x],
               x.parent <= newest, x.parent \in Nat, x.attempt \in 1..MaxAttempts,
               UNCHANGED <<newest, freshest, binding>>
        PROVE  Dated'
    <2>1. newest' \in Nat /\ newest <= newest'
      BY <1>0, <1>2
    <2>2. \A b \in Analysts : analyst'[b].parent <= newest' /\ analyst'[b].attempt \in 1..MaxAttempts
      BY <1>2, <2>1, AnalystDated
    <2> QED BY <1>2, <2>2 DEF Dated
  <1>3. ASSUME NEW a \in Analysts
        PROVE  /\ analyst[a] \in AnalystRow /\ analyst[a].parent \in Nat
               /\ analyst[a].parent <= newest /\ analyst[a].attempt \in 1..MaxAttempts
    BY <1>0 DEF Dated, AnalystRow
  <1>4. Resting.parent <= newest /\ Resting.parent \in Nat /\ Resting.attempt \in 1..MaxAttempts
    BY <1>0 DEF Resting
  <1>5. ASSUME NEW c \in Collectors, NEW last \in BOOLEAN, Collect(c, last) PROVE Dated'
    BY <1>0, <1>1, <1>5 DEF Collect
  <1>6. ASSUME NEW b \in Background, Enrich(b) PROVE Dated'
    BY <1>0, <1>1, <1>6 DEF Enrich
  <1>7. ASSUME NEW a \in Analysts, NEW r \in Requests, Receive(a, r) PROVE Dated'
    <2> DEFINE x == [at |-> Entry(r), request |-> r, parent |-> snap[r], attempt |-> 1]
    <2>1. x.parent <= newest /\ x.parent \in Nat /\ x.attempt \in 1..MaxAttempts
      BY <1>0
    <2>2. analyst' = [analyst EXCEPT ![a] = x] /\ UNCHANGED <<newest, freshest, binding>>
      BY <1>7 DEF Receive
    <2> HIDE DEF x
    <2> QED BY <1>2, <2>1, <2>2
  <1>8. ASSUME NEW a \in Analysts, NEW at, analyst' = [analyst EXCEPT ![a].at = at],
               UNCHANGED <<newest, freshest, binding>>
        PROVE  Dated'
    <2> DEFINE x == [analyst[a] EXCEPT !.at = at]
    <2>1. x.parent = analyst[a].parent /\ x.attempt = analyst[a].attempt
      BY <1>3 DEF AnalystRow
    <2>2. analyst' = [analyst EXCEPT ![a] = x]
      BY <1>0, <1>8
    <2> HIDE DEF x
    <2> QED BY <1>2, <1>3, <1>8, <2>1, <2>2
  <1>9. ASSUME NEW a \in Analysts, analyst' = [analyst EXCEPT ![a] = Resting],
               UNCHANGED <<newest, freshest, binding>>
        PROVE  Dated'
    BY <1>2, <1>4, <1>9
  <1>10. ASSUME NEW a \in Analysts, \/ Admit(a) \/ Coalesce(a) \/ Announce(a) \/ AnalystFails(a)
                                    \/ AnalystGivesUp(a) \/ AnalystRecords(a)
         PROVE  Dated'
    BY <1>8, <1>9, <1>10
    DEF Admit, Coalesce, Announce, AnalystFails, AnalystGivesUp, AnalystRecords
  <1>11. ASSUME NEW a \in Analysts, Prepare(a) PROVE Dated'
    <2> DEFINE p == IF analyst[a].parent = newest THEN analyst[a].parent ELSE Refreshed
               x == [[analyst[a] EXCEPT !.parent = p] EXCEPT !.at = "investigating"]
    <2>1. p \in Nat /\ p <= newest
      BY <1>0, <1>3 DEF Refreshed
    <2> HIDE DEF p
    <2>2. x.parent = p /\ x.attempt = analyst[a].attempt
      BY <1>3 DEF AnalystRow
    <2>3. analyst' = [analyst EXCEPT ![a] = x] /\ UNCHANGED <<newest, freshest, binding>>
      BY <1>0, <1>11 DEF Prepare, AnalystRow, p
    <2> HIDE DEF x
    <2> QED BY <1>2, <1>3, <2>1, <2>2, <2>3
  <1>12. ASSUME NEW a \in Analysts, Superseded(a) PROVE Dated'
    <2> DEFINE k == analyst[a].attempt + 1
               x == [[[analyst[a] EXCEPT !.parent = Refreshed] EXCEPT !.attempt = k]
                        EXCEPT !.at = Entry(analyst[a].request)]
    <2>1. Refreshed \in Nat /\ Refreshed <= newest /\ k \in 1..MaxAttempts
      BY <1>0, <1>3, <1>12 DEF Refreshed, Superseded, MayRefresh
    <2>2. x.parent = Refreshed /\ x.attempt = k
      BY <1>3 DEF AnalystRow
    <2>3. analyst' = [analyst EXCEPT ![a] = x] /\ UNCHANGED <<newest, freshest, binding>>
      BY <1>0, <1>12 DEF Superseded, AnalystRow
    <2> HIDE DEF x, k
    <2> QED BY <1>2, <2>1, <2>2, <2>3
  <1>13. ASSUME NEW a \in Analysts, Commit(a) PROVE Dated'
    <2> DEFINE r == analyst[a].request
               x == [analyst[a] EXCEPT !.at = "announcing"]
    <2>1. newest' = newest + 1 /\ newest' \in Nat /\ newest <= newest' /\ freshest' <= newest'
      BY <1>0, <1>13 DEF Commit
    <2>2. x.parent = analyst[a].parent /\ x.attempt = analyst[a].attempt
      BY <1>3 DEF AnalystRow
    <2>3. analyst' = [analyst EXCEPT ![a] = x]
      BY <1>0, <1>13 DEF Commit
    <2>4. \A b \in Analysts : analyst'[b].parent <= newest' /\ analyst'[b].attempt \in 1..MaxAttempts
      <3> HIDE DEF x
      <3> QED BY <1>3, <2>1, <2>2, <2>3, AnalystDated
    <2>5. \A q \in Requests : \/ binding'[q] = binding[q]
                            \/ binding'[q] = None
                            \/ binding'[q] = [version |-> reserved[r], snapshot |-> newest + 1]
      BY <1>0, <1>13 DEF Commit
    <2>6. \A q \in Requests : binding[q] # None => binding[q].snapshot \in Nat
      BY <1>0 DEF AnyAnswer
    <2>7. \A q \in Requests : binding'[q] # None => binding'[q].snapshot <= newest'
      BY <1>0, <2>1, <2>5, <2>6 DEF Dated
    <2> QED BY <2>1, <2>4, <2>7 DEF Dated
  <1>14. ASSUME UNCHANGED <<newest, freshest, binding, analyst>> PROVE Dated'
    BY <1>14 DEF Dated
  <1>15. \/ UNCHANGED <<newest, freshest, binding, analyst>>
         \/ \E c \in Collectors, last \in BOOLEAN : Collect(c, last)
         \/ \E b \in Background : Enrich(b)
         \/ \E a \in Analysts : AnalystStep(a) \/ AnalystFails(a)
    BY DEF Next, Redelivery, CollectorStep, GatewayStep, vars,
           Submit, GatewayPublished, GatewayRefused, GatewayRequeues, GatewayDies,
           Poll, PollExpires, DispatcherPublished, Expire, IncidentEnds, DuplicateCommand,
           DuplicateContext, CollectorFails, TakeCommand, CollectorGivesUp, CollectorRecords
  <1> QED BY <1>5, <1>6, <1>7, <1>10, <1>11, <1>12, <1>13, <1>14, <1>15 DEF AnalystStep

-----------------------------------------------------------------------------
(* Deliveries are counted with the consumers that hold them.               *)

CollectorsOf(r) == {c \in Collectors : collector[c].request = r}
AnalystsOf(r) == {a \in Analysts : analyst[a].request = r}

\* Rows are numbered in the order of their creation; without a row there is no command.
Rows ==
  /\ born \in [Explicit -> 0..Cardinality(Explicit)]
  /\ \A r \in Explicit : status[r] = "none" => born[r] = 0

Commands ==
  /\ command \in [Explicit -> Nat]
  /\ \A c \in Collectors : collector[c].at = "idle" => collector[c].request = None
  /\ \A r \in Explicit :
       /\ command[r] + Cardinality(CollectorsOf(r)) <= MaxCommands
       /\ status[r] = "none" => command[r] = 0 /\ CollectorsOf(r) = {}

Contexts ==
  /\ \A a \in Analysts : analyst[a].at = "idle" => analyst[a].request = None
  /\ \A r \in Requests : context[r] + Cardinality(AnalystsOf(r)) <= MaxCopies

(* Two finite sets that agree but for one element differ in size by one at most. *)
LEMMA Hands ==
  ASSUME NEW H, NEW K, IsFiniteSet(H), IsFiniteSet(K), NEW s, H \ {s} = K \ {s}
  PROVE  /\ Cardinality(H) \in Nat /\ Cardinality(K) \in Nat
         /\ s \in H /\ s \in K => Cardinality(K) = Cardinality(H)
         /\ s \notin H /\ s \notin K => Cardinality(K) = Cardinality(H)
         /\ s \in H /\ s \notin K => Cardinality(H) = Cardinality(K) + 1
         /\ s \notin H /\ s \in K => Cardinality(K) = Cardinality(H) + 1
  <1>1. Cardinality(H) \in Nat /\ Cardinality(K) \in Nat
    BY FS_CardinalityType
  <1>2. (s \in H <=> s \in K) => H = K
    OBVIOUS
  <1>3. ASSUME s \in H, s \notin K PROVE Cardinality(H) = Cardinality(K) + 1
    <2>1. H = K \cup {s}
      BY <1>3
    <2> QED BY <1>3, <2>1, FS_AddElement
  <1>4. ASSUME s \notin H, s \in K PROVE Cardinality(K) = Cardinality(H) + 1
    <2>1. K = H \cup {s}
      BY <1>4
    <2> QED BY <1>4, <2>1, FS_AddElement
  <1> QED BY <1>1, <1>2, <1>3, <1>4

(* A request that has no row had none before. *)
LEMMA NoneStep ==
  ASSUME IInv, [Next]_vars
  PROVE  \A r \in Explicit : status'[r] = "none" => status[r] = "none"
  <1> SUFFICES ASSUME NEW q \in Explicit, status'[q] = "none", status[q] # "none" PROVE FALSE
    OBVIOUS
  <1>1. status \in [Explicit -> Statuses]
    BY DEF IInv, Typed
  <1>2. ASSUME NEW r, NEW s, s # "none", status' = [status EXCEPT ![r] = s] PROVE FALSE
    BY <1>1, <1>2
  <1>3. ASSUME NEW r \in Explicit, NEW stage \in {"published", "running"},
               status' = [status EXCEPT ![r] = Progress(@, stage)]
        PROVE  FALSE
    BY <1>1, <1>3 DEF Progress
  <1>4. ASSUME NEW r \in Explicit, Submit(r) PROVE FALSE
    BY <1>4 DEF Submit
  <1>5. ASSUME NEW r, Retire(r) PROVE FALSE
    BY <1>1, <1>5 DEF Retire
  <1>6. ASSUME NEW a \in Analysts, Commit(a) PROVE FALSE
    BY <1>1, <1>6 DEF Commit
  <1> QED BY <1>2, <1>3, <1>4, <1>5, <1>6, StepEffects DEF Published, GatewayRequeues, PollExpires

(* The analysts and collectors of a request are finitely many. *)
LEMMA Crews ==
  \A r : /\ IsFiniteSet(CollectorsOf(r)) /\ Cardinality(CollectorsOf(r)) \in Nat
         /\ IsFiniteSet(AnalystsOf(r)) /\ Cardinality(AnalystsOf(r)) \in Nat
         /\ CollectorsOf(r) = {} <=> Cardinality(CollectorsOf(r)) = 0
         /\ AnalystsOf(r) = {} <=> Cardinality(AnalystsOf(r)) = 0
  <1> TAKE r
  <1>1. CollectorsOf(r) \subseteq Collectors /\ AnalystsOf(r) \subseteq Analysts
    BY DEF CollectorsOf, AnalystsOf
  <1>2. IsFiniteSet(CollectorsOf(r)) /\ IsFiniteSet(AnalystsOf(r))
    BY <1>1, FiniteAssumption, FS_Subset
  <1> QED BY <1>2, FS_CardinalityType, FS_EmptySet

LEMMA RowsStep ==
  ASSUME IInv, Rows, [Next]_vars
  PROVE  Rows'
  <1>1. UNCHANGED born => Rows'
    BY NoneStep DEF Rows
  <1>2. ASSUME NEW r \in Explicit, Submit(r) PROVE Rows'
    <2> DEFINE B == {q \in Explicit : born[q] > 0}
    <2>1. born[r] = 0 /\ born' = [born EXCEPT ![r] = 1 + Cardinality(B)]
      BY <1>2 DEF Submit, Rows
    <2>2. IsFiniteSet(Explicit)
      BY RequestKinds, FiniteAssumption, FS_Subset
    <2>3. B \subseteq Explicit \ {r}
      BY <2>1 DEF Rows
    <2>4. /\ IsFiniteSet(Explicit \ {r})
          /\ Cardinality(Explicit \ {r}) = Cardinality(Explicit) - 1
      BY <2>2, FS_RemoveElement
    <2>5. IsFiniteSet(B) /\ Cardinality(B) <= Cardinality(Explicit) - 1
      <3> HIDE DEF B
      <3> QED BY <2>3, <2>4, FS_Subset
    <2>6. Cardinality(B) \in Nat /\ Cardinality(Explicit) \in Nat
      BY <2>2, <2>5, FS_CardinalityType
    <2>7. 1 + Cardinality(B) \in 0..Cardinality(Explicit)
      <3> HIDE DEF B
      <3> QED BY <2>5, <2>6
    <2>8. status'[r] # "none"
      BY <1>2 DEF Submit, IInv, Typed
    <2> HIDE DEF B
    <2> QED BY <2>1, <2>7, <2>8, NoneStep DEF Rows
  <1>3. UNCHANGED born \/ \E r \in Explicit : Submit(r)
    BY DEF Next, Redelivery, CollectorStep, AnalystStep, GatewayStep, vars, rowVars, evidenceVars,
           answerVars, GatewayPublished, GatewayRefused, GatewayRequeues, GatewayDies,
           Poll, PollExpires, DispatcherPublished, Expire, IncidentEnds, DuplicateCommand,
           DuplicateContext, CollectorFails, AnalystFails, TakeCommand, Collect, Enrich,
           CollectorGivesUp, CollectorRecords, Receive, Admit, Coalesce, Prepare, Commit,
           Superseded, Announce, AnalystGivesUp, AnalystRecords
  <1> QED BY <1>1, <1>2, <1>3

(* A collector's step changes its own hands and the copies of one command. *)
LEMMA CommandsMove ==
  ASSUME IInv, Collecting, Commands, [Next]_vars,
         NEW c \in Collectors, NEW x, collector' = [collector EXCEPT ![c] = x],
         x.at = "idle" => x.request = None,
         command' \in [Explicit -> Nat],
         \A r \in Explicit :
            \/ (collector[c].request = r <=> x.request = r) /\ command'[r] <= command[r]
            \/ collector[c].request = r /\ x.request # r /\ command'[r] <= command[r] + 1
            \/ collector[c].request # r /\ x.request = r /\ command'[r] + 1 <= command[r]
  PROVE  Commands'
  <1>1. /\ collector'[c] = x
        /\ \A d \in Collectors : d # c => collector'[d] = collector[d]
    BY DEF Collecting
  <1>2. \A d \in Collectors : collector'[d].at = "idle" => collector'[d].request = None
    BY <1>1 DEF Commands
  <1>3. MaxCommands \in Nat
    BY LimitsAssumption
  <1>4. ASSUME NEW r \in Explicit
        PROVE  /\ command'[r] + Cardinality(CollectorsOf(r)') <= MaxCommands
               /\ status'[r] = "none" => command'[r] = 0 /\ CollectorsOf(r)' = {}
    <2> DEFINE before == Cardinality(CollectorsOf(r))
               after == Cardinality(CollectorsOf(r)')
    <2>1. /\ before \in Nat /\ after \in Nat
          /\ (collector[c].request = r <=> x.request = r) => after = before
          /\ collector[c].request = r /\ x.request # r => before = after + 1
          /\ collector[c].request # r /\ x.request = r => after = before + 1
      <3>1. /\ c \in CollectorsOf(r) <=> collector[c].request = r
            /\ c \in CollectorsOf(r)' <=> x.request = r
            /\ CollectorsOf(r) \ {c} = CollectorsOf(r)' \ {c}
        BY <1>1 DEF CollectorsOf
      <3>2. IsFiniteSet(CollectorsOf(r)) /\ IsFiniteSet(CollectorsOf(r)')
        BY FiniteAssumption, FS_Subset DEF CollectorsOf
      <3> QED BY <3>1, <3>2, Hands
    <2>2. command[r] \in Nat /\ command'[r] \in Nat /\ command[r] + before <= MaxCommands
      BY DEF Commands
    <2> HIDE DEF before, after
    <2>3. command'[r] + after <= command[r] + before
      BY <2>1, <2>2
    <2>4. command'[r] + after <= MaxCommands
      BY <1>3, <2>1, <2>2, <2>3
    <2>5. ASSUME status'[r] = "none" PROVE command'[r] = 0 /\ after = 0
      <3>1. status[r] = "none"
        BY <2>5, NoneStep
      <3>2. command[r] = 0 /\ before = 0
        BY <3>1, Crews DEF Commands, before
      <3> QED BY <2>1, <2>2, <2>3, <3>2
    <2>6. after = 0 => CollectorsOf(r)' = {}
      <3>1. CollectorsOf(r)' \subseteq Collectors
        BY DEF CollectorsOf
      <3>2. IsFiniteSet(CollectorsOf(r)')
        BY <3>1, FiniteAssumption, FS_Subset
      <3> QED BY <3>2, FS_EmptySet DEF after
    <2> QED BY <2>4, <2>5, <2>6 DEF after
  <1> QED BY <1>2, <1>4 DEF Commands

LEMMA CommandsStep ==
  ASSUME IInv, Collecting, Commands, [Next]_vars
  PROVE  Commands'
  <1> USE DEF rowVars, evidenceVars, answerVars
  <1>0. /\ command \in [Explicit -> Nat] /\ collector \in [Collectors -> Collector]
        /\ MaxCommands \in Nat \ {0}
        /\ \A r \in Explicit : command[r] + Cardinality(CollectorsOf(r)) <= MaxCommands
    BY LimitsAssumption DEF Commands, Collecting
  <1>1. ASSUME UNCHANGED collector, command' \in [Explicit -> Nat],
               \A r \in Explicit : /\ command'[r] + Cardinality(CollectorsOf(r)) <= MaxCommands
                                   /\ status'[r] = "none" => command'[r] = command[r]
        PROVE  Commands'
    <2>1. \A r : CollectorsOf(r)' = CollectorsOf(r)
      BY <1>1 DEF CollectorsOf
    <2> QED BY <1>1, <2>1, NoneStep DEF Commands
  <1>2. ASSUME NEW r \in Explicit, Submit(r) PROVE Commands'
    <2>1. command' = [command EXCEPT ![r] = 1] /\ status[r] = "none" /\ UNCHANGED collector
      BY <1>2 DEF Submit
    <2>2. Cardinality(CollectorsOf(r)) = 0
      BY <2>1, Crews DEF Commands
    <2>3. status'[r] # "none"
      BY <1>2 DEF Submit, IInv, Typed
    <2> QED BY <1>0, <1>1, <2>1, <2>2, <2>3
  <1>3. ASSUME NEW r \in Explicit, DuplicateCommand(r) PROVE Commands'
    <2>1. /\ command' = [command EXCEPT ![r] = @ + 1] /\ UNCHANGED <<collector, status>>
          /\ status[r] # "none" /\ command[r] + Cardinality(CollectorsOf(r)) < MaxCommands
      BY <1>3 DEF DuplicateCommand, CommandCopies, CollectorsOf
    <2>2. Cardinality(CollectorsOf(r)) \in Nat
      BY Crews
    <2> QED BY <1>0, <1>1, <2>1, <2>2
  <1>4. ASSUME NEW c \in Collectors, NEW r \in Explicit, TakeCommand(c, r) PROVE Commands'
    <2>1. /\ command' = [command EXCEPT ![r] = @ - 1] /\ command[r] > 0
          /\ collector[c].at = "idle" /\ collector[c].request = None
      BY <1>4 DEF TakeCommand, Commands
    <2>2. /\ command' \in [Explicit -> Nat]
          /\ command'[r] + 1 = command[r]
          /\ \A q \in Explicit : command'[q] <= command[q]
      BY <1>0, <2>1
    <2>3. CASE Ineligible(r)
      <3>1. UNCHANGED collector
        BY <1>4, <2>3 DEF TakeCommand
      <3>2. \A q \in Explicit : command'[q] + Cardinality(CollectorsOf(q)) <= MaxCommands
        BY <1>0, <2>2, Crews
      <3>3. \A q \in Explicit : status'[q] = "none" => command'[q] = command[q]
        <4> SUFFICES ASSUME NEW q \in Explicit, status'[q] = "none" PROVE command[q] = 0
          BY <1>0, <2>2
        <4> QED BY NoneStep DEF Commands
      <3> QED BY <1>1, <2>2, <3>1, <3>2, <3>3
    <2>4. CASE ~Ineligible(r)
      <3> DEFINE x == [at |-> "collecting", request |-> r]
      <3>1. collector' = [collector EXCEPT ![c] = x]
        BY <1>4, <2>4 DEF TakeCommand
      <3>2. x.at # "idle" /\ x.request = r
        OBVIOUS
      <3> HIDE DEF x
      <3>3. \A q \in Explicit : collector[c].request # q
        BY <2>1, RequestKinds
      <3>4. \A q \in Explicit :
               \/ x.request # q /\ command'[q] <= command[q]
               \/ x.request = q /\ command'[q] + 1 <= command[q]
        BY <1>0, <2>1, <2>2, <3>2
      <3> QED BY <2>2, <3>1, <3>2, <3>3, <3>4, CommandsMove
    <2> QED BY <2>3, <2>4
  <1>5. Waiting.request = None /\ \A r \in Explicit : Waiting.request # r
    BY RequestKinds DEF Waiting
  <1>6. ASSUME NEW c \in Collectors, collector' = [collector EXCEPT ![c] = Waiting],
               UNCHANGED command
        PROVE  Commands'
    <2>1. \A r \in Explicit : command[r] \in Nat /\ command[r] <= command[r] /\ command[r] <= command[r] + 1
      BY <1>0
    <2> QED BY <1>0, <1>5, <1>6, <2>1, CommandsMove
  <1>7. ASSUME NEW c \in Collectors, NEW last \in BOOLEAN, Collect(c, last) PROVE Commands'
    BY <1>6, <1>7 DEF Collect
  <1>8. ASSUME NEW c \in Collectors, CollectorRecords(c) PROVE Commands'
    BY <1>6, <1>8 DEF CollectorRecords
  <1>9. ASSUME NEW c \in Collectors, CollectorGivesUp(c) PROVE Commands'
    <2>1. CASE collector' = [collector EXCEPT ![c] = Waiting]
      BY <1>6, <1>9, <2>1 DEF CollectorGivesUp
    <2>2. CASE collector' # [collector EXCEPT ![c] = Waiting]
      <3> DEFINE x == [collector[c] EXCEPT !.at = "failing"]
      <3>1. collector' = [collector EXCEPT ![c] = x] /\ UNCHANGED command
        BY <1>0, <1>9, <2>2 DEF CollectorGivesUp
      <3>2. x.at # "idle" /\ x.request = collector[c].request
        BY <1>0 DEF Collector
      <3> HIDE DEF x
      <3>3. \A r \in Explicit : command[r] <= command[r]
        BY <1>0
      <3> QED BY <1>0, <3>1, <3>2, <3>3, CommandsMove
    <2> QED BY <2>1, <2>2
  <1>10. ASSUME NEW c \in Collectors, CollectorFails(c) PROVE Commands'
    <2> DEFINE r == collector[c].request
    <2>1. /\ command' = [command EXCEPT ![r] = @ + 1]
          /\ collector' = [collector EXCEPT ![c] = Waiting] /\ r \in Explicit
      BY <1>10 DEF CollectorFails, Collecting
    <2>2. /\ command' \in [Explicit -> Nat]
          /\ command'[r] <= command[r] + 1
          /\ \A q \in Explicit : q # r => command'[q] <= command[q]
      BY <1>0, <2>1
    <2>3. /\ Waiting.at = "idle" => Waiting.request = None
          /\ \A q \in Explicit : Waiting.request # q
      BY <1>5
    <2>4. \A q \in Explicit :
             IF collector[c].request = q THEN command'[q] <= command[q] + 1
                                         ELSE command'[q] <= command[q]
      BY <2>2
    <2> QED BY <2>1, <2>2, <2>3, <2>4, CommandsMove
  <1>11. ASSUME UNCHANGED <<command, collector>> PROVE Commands'
    BY <1>0, <1>1, <1>11
  <1>12. \/ UNCHANGED <<command, collector>>
         \/ \E r \in Explicit : Submit(r) \/ DuplicateCommand(r)
         \/ \E c \in Collectors : CollectorStep(c) \/ CollectorFails(c)
    BY DEF Next, Redelivery, AnalystStep, GatewayStep, vars,
           GatewayPublished, GatewayRefused, GatewayRequeues, GatewayDies,
           Poll, PollExpires, DispatcherPublished, Expire, IncidentEnds,
           DuplicateContext, AnalystFails, Enrich, Receive, Admit, Coalesce, Prepare, Commit,
           Superseded, Announce, AnalystGivesUp, AnalystRecords
  <1> QED BY <1>2, <1>3, <1>4, <1>7, <1>8, <1>9, <1>10, <1>11, <1>12 DEF CollectorStep

(* An analyst's step changes its own hands and the copies of one event. *)
LEMMA ContextsMove ==
  ASSUME IInv, Contexts, NEW a \in Analysts, NEW x, analyst' = [analyst EXCEPT ![a] = x],
         x.at = "idle" => x.request = None,
         context' \in [Requests -> Nat],
         \A r \in Requests :
            \/ (analyst[a].request = r <=> x.request = r) /\ context'[r] <= context[r]
            \/ analyst[a].request = r /\ x.request # r /\ context'[r] <= context[r] + 1
            \/ analyst[a].request # r /\ x.request = r /\ context'[r] + 1 <= context[r]
  PROVE  Contexts'
  <1>1. /\ analyst'[a] = x
        /\ \A b \in Analysts : b # a => analyst'[b] = analyst[b]
    BY DEF IInv, Typed
  <1>2. \A b \in Analysts : analyst'[b].at = "idle" => analyst'[b].request = None
    BY <1>1 DEF Contexts
  <1>3. ASSUME NEW r \in Requests
        PROVE  context'[r] + Cardinality(AnalystsOf(r)') <= MaxCopies
    <2> DEFINE before == Cardinality(AnalystsOf(r))
               after == Cardinality(AnalystsOf(r)')
    <2>1. /\ before \in Nat /\ after \in Nat
          /\ (analyst[a].request = r <=> x.request = r) => after = before
          /\ analyst[a].request = r /\ x.request # r => before = after + 1
          /\ analyst[a].request # r /\ x.request = r => after = before + 1
      <3>1. /\ a \in AnalystsOf(r) <=> analyst[a].request = r
            /\ a \in AnalystsOf(r)' <=> x.request = r
            /\ AnalystsOf(r) \ {a} = AnalystsOf(r)' \ {a}
        BY <1>1 DEF AnalystsOf
      <3>2. IsFiniteSet(AnalystsOf(r)) /\ IsFiniteSet(AnalystsOf(r)')
        BY FiniteAssumption, FS_Subset DEF AnalystsOf
      <3> QED BY <3>1, <3>2, Hands
    <2>2. /\ context[r] \in Nat /\ context'[r] \in Nat /\ MaxCopies \in Nat
          /\ context[r] + before <= MaxCopies
      BY LimitsAssumption DEF Contexts, IInv, Typed
    <2> HIDE DEF before, after
    <2>3. context'[r] + after <= context[r] + before
      BY <2>1, <2>2
    <2>4. context'[r] + after <= MaxCopies
      BY <2>1, <2>2, <2>3
    <2> QED BY <2>4 DEF after
  <1> QED BY <1>2, <1>3 DEF Contexts

(* An event is repeated only while there is room for another copy of it. *)
LEMMA ContextSpare ==
  ASSUME IInv, Contexts, NEW r \in Requests, ContextCopies < MaxCopies
  PROVE  context[r] + Cardinality(AnalystsOf(r)) < MaxCopies
  <1> DEFINE Busy == {a \in Analysts : analyst[a].request # None}
             Slots == {c \in Requests \X (1..MaxCopies) : c[2] <= context[c[1]]}
             Mine == {r} \X (1..context[r])
  <1>1. /\ MaxCopies \in Nat /\ context[r] \in Nat
        /\ Cardinality(AnalystsOf(r)) \in Nat
        /\ context[r] + Cardinality(AnalystsOf(r)) <= MaxCopies
    BY LimitsAssumption, Crews DEF Contexts, IInv, Typed
  <1>2. IsFiniteSet(Busy) /\ Cardinality(AnalystsOf(r)) <= Cardinality(Busy)
    <2>1. AnalystsOf(r) \subseteq Busy /\ Busy \subseteq Analysts
      BY RequestKinds DEF AnalystsOf
    <2> HIDE DEF Busy
    <2> QED BY <2>1, FiniteAssumption, FS_Subset
  <1>3. IsFiniteSet(Slots)
    <2>1. IsFiniteSet(1..MaxCopies)
      BY <1>1, FS_Interval
    <2>2. IsFiniteSet(Requests \X (1..MaxCopies))
      BY <2>1, FiniteAssumption, FS_Product
    <2>3. Slots \subseteq Requests \X (1..MaxCopies)
      OBVIOUS
    <2> HIDE DEF Slots
    <2> QED BY <2>2, <2>3, FS_Subset
  <1>4. Cardinality(Mine) = context[r]
    <2> DEFINE R == {r}
               I == 1..context[r]
    <2>1. IsFiniteSet(I) /\ Cardinality(I) = context[r]
      <3>1. ASSUME NEW n \in Nat PROVE IsFiniteSet(1..n) /\ Cardinality(1..n) = n
        BY FS_Interval
      <3> QED BY <1>1, <3>1
    <2>2. IsFiniteSet(R) /\ Cardinality(R) = 1
      BY FS_Singleton
    <2>3. Cardinality(R \X I) = 1 * context[r]
      <3> HIDE DEF R, I
      <3> QED BY <2>1, <2>2, FS_Product
    <2> QED BY <1>1, <2>3
  <1>5. Mine \subseteq Slots
    <2> SUFFICES ASSUME NEW i \in 1..context[r] PROVE <<r, i>> \in Slots
      OBVIOUS
    <2> QED BY <1>1
  <1>6. Cardinality(Mine) <= Cardinality(Slots)
    <2> HIDE DEF Mine, Slots
    <2> QED BY <1>3, <1>5, FS_Subset
  <1>7. Cardinality(Busy) \in Nat /\ Cardinality(Slots) \in Nat
    <2> HIDE DEF Busy, Slots
    <2> QED BY <1>2, <1>3, FS_CardinalityType
  <1>8. Cardinality(Busy) + Cardinality(Slots) < MaxCopies
    BY DEF ContextCopies
  <1> HIDE DEF Busy, Slots, Mine
  <1> QED BY <1>1, <1>2, <1>4, <1>6, <1>7, <1>8

LEMMA ContextsStep ==
  ASSUME IInv, Collecting, Contexts, [Next]_vars
  PROVE  Contexts'
  <1> USE DEF rowVars, evidenceVars, answerVars
  <1>0. /\ context \in [Requests -> Nat] /\ analyst \in [Analysts -> AnalystRow]
        /\ MaxCopies \in Nat \ {0}
        /\ \A r \in Requests : /\ context[r] + Cardinality(AnalystsOf(r)) <= MaxCopies
                               /\ Cardinality(AnalystsOf(r)) \in Nat
    BY LimitsAssumption, Crews DEF Contexts, IInv, Typed
  <1>1. ASSUME UNCHANGED analyst,
               \A r \in Requests : context'[r] + Cardinality(AnalystsOf(r)) <= MaxCopies
        PROVE  Contexts'
    <2>1. \A r : AnalystsOf(r)' = AnalystsOf(r)
      BY <1>1 DEF AnalystsOf
    <2> QED BY <1>1, <2>1 DEF Contexts
  <1>2. ASSUME NEW r \in Requests, DuplicateContext(r) PROVE Contexts'
    <2>1. /\ context' = [context EXCEPT ![r] = @ + 1] /\ UNCHANGED analyst
          /\ context[r] + Cardinality(AnalystsOf(r)) < MaxCopies
      BY <1>2, ContextSpare DEF DuplicateContext
    <2>2. \A q \in Requests : context'[q] + Cardinality(AnalystsOf(q)) <= MaxCopies
      BY <1>0, <2>1
    <2> QED BY <1>1, <2>1, <2>2
  <1>3. ASSUME NEW r \in Requests, snap[r] = 0, context' = [context EXCEPT ![r] = 1],
               UNCHANGED analyst
        PROVE  Contexts'
    <2>1. AnalystsOf(r) = {}
      <3> SUFFICES ASSUME NEW a \in Analysts PROVE analyst[a].request # r
        BY DEF AnalystsOf
      <3>1. CASE analyst[a].at = "idle"
        BY <3>1, RequestKinds DEF Contexts
      <3>2. CASE analyst[a].at # "idle"
        BY <1>3, <3>2 DEF IInv, Evidenced
      <3> QED BY <3>1, <3>2
    <2>2. Cardinality(AnalystsOf(r)) = 0
      BY <2>1, Crews
    <2>3. \A q \in Requests : context'[q] + Cardinality(AnalystsOf(q)) <= MaxCopies
      BY <1>0, <1>3, <2>2
    <2> QED BY <1>1, <1>3, <2>3
  <1>4. ASSUME NEW c \in Collectors, NEW last \in BOOLEAN, Collect(c, last) PROVE Contexts'
    <2>1. collector[c].request \in Requests
      BY <1>4, RequestKinds DEF Collect, Collecting
    <2> QED BY <1>0, <1>1, <1>3, <1>4, <2>1 DEF Collect
  <1>5. ASSUME NEW b \in Background, Enrich(b) PROVE Contexts'
    <2>1. b \in Requests /\ snap[b] = 0 /\ context' = [context EXCEPT ![b] = 1] /\ UNCHANGED analyst
      BY <1>5, RequestKinds DEF Enrich
    <2> QED BY <1>3, <2>1
  <1>6. ASSUME NEW a \in Analysts, NEW r \in Requests, Receive(a, r) PROVE Contexts'
    <2> DEFINE x == [at |-> Entry(r), request |-> r, parent |-> snap[r], attempt |-> 1]
    <2>1. x.at # "idle" /\ x.request = r
      BY EntryRow
    <2>2. /\ analyst' = [analyst EXCEPT ![a] = x]
          /\ context' = [context EXCEPT ![r] = @ - 1] /\ context[r] > 0
          /\ analyst[a].at = "idle"
      BY <1>6 DEF Receive
    <2> HIDE DEF x
    <2>3. \A q \in Requests : analyst[a].request # q
      BY <2>2, RequestKinds DEF Contexts
    <2>4. /\ context' \in [Requests -> Nat]
          /\ \A q \in Requests : IF q = r THEN context'[q] + 1 <= context[q]
                                          ELSE context'[q] <= context[q]
      BY <1>0, <2>2
    <2>5. \A q \in Requests :
             \/ (analyst[a].request = q <=> x.request = q) /\ context'[q] <= context[q]
             \/ analyst[a].request # q /\ x.request = q /\ context'[q] + 1 <= context[q]
      BY <2>1, <2>3, <2>4
    <2>6. x.at = "idle" => x.request = None
      BY <2>1
    <2> QED BY <2>2, <2>4, <2>5, <2>6, ContextsMove
  <1>7. ASSUME NEW a \in Analysts, NEW x, analyst' = [analyst EXCEPT ![a] = x],
               x.at # "idle", x.request = analyst[a].request, UNCHANGED context
        PROVE  Contexts'
    <2>1. \A r \in Requests : context'[r] <= context[r]
      BY <1>0, <1>7
    <2> QED BY <1>0, <1>7, <2>1, ContextsMove
  <1>8. ASSUME NEW a \in Analysts, NEW at \in {"preparing", "failing", "announcing"},
               analyst' = [analyst EXCEPT ![a].at = at], UNCHANGED context
        PROVE  Contexts'
    <2> DEFINE x == [analyst[a] EXCEPT !.at = at]
    <2>1. x.at # "idle" /\ x.request = analyst[a].request
      BY <1>0 DEF AnalystRow
    <2>2. analyst' = [analyst EXCEPT ![a] = x]
      BY <1>0, <1>8
    <2> HIDE DEF x
    <2> QED BY <1>7, <1>8, <2>1, <2>2
  <1>9. /\ Resting.at = "idle" /\ Resting.request = None
        /\ \A r \in Requests : Resting.request # r
    BY RequestKinds DEF Resting
  <1>10. ASSUME NEW a \in Analysts, analyst' = [analyst EXCEPT ![a] = Resting],
                context' \in [Requests -> Nat],
                \A r \in Requests :
                   \/ context'[r] <= context[r]
                   \/ analyst[a].request = r /\ context'[r] <= context[r] + 1
         PROVE  Contexts'
    <2>1. \A r \in Requests : context[r] \in Nat /\ context'[r] \in Nat
      BY <1>0, <1>10
    <2>2. \A r \in Requests :
             \/ (analyst[a].request = r <=> Resting.request = r) /\ context'[r] <= context[r]
             \/ analyst[a].request = r /\ Resting.request # r /\ context'[r] <= context[r] + 1
      BY <1>9, <1>10, <2>1
    <2> QED BY <1>9, <1>10, <2>2, ContextsMove
  <1>11. ASSUME NEW a \in Analysts, analyst' = [analyst EXCEPT ![a] = Resting],
                UNCHANGED context
         PROVE  Contexts'
    <2>1. context' \in [Requests -> Nat] /\ \A r \in Requests : context'[r] <= context[r]
      BY <1>0, <1>11
    <2> QED BY <1>10, <1>11, <2>1
  <1>12. ASSUME NEW a \in Analysts, \/ Admit(a) \/ Coalesce(a) \/ Announce(a) \/ Commit(a)
                                    \/ AnalystGivesUp(a) \/ AnalystRecords(a)
         PROVE  Contexts'
    BY <1>8, <1>11, <1>12 DEF Admit, Coalesce, Announce, Commit, AnalystGivesUp, AnalystRecords
  <1>13. ASSUME NEW a \in Analysts, AnalystFails(a) PROVE Contexts'
    <2>1. /\ analyst' = [analyst EXCEPT ![a] = Resting]
          /\ context' = [context EXCEPT ![analyst[a].request] = @ + 1]
          /\ analyst[a].request \in Requests
      BY <1>13, AtWork DEF AnalystFails
    <2>2. /\ context' \in [Requests -> Nat]
          /\ \A r \in Requests : \/ context'[r] <= context[r]
                                 \/ analyst[a].request = r /\ context'[r] <= context[r] + 1
      BY <1>0, <2>1
    <2> QED BY <1>10, <2>1, <2>2
  <1>14. ASSUME NEW a \in Analysts, Prepare(a) PROVE Contexts'
    <2> DEFINE p == IF analyst[a].parent = newest THEN analyst[a].parent ELSE Refreshed
               x == [[analyst[a] EXCEPT !.parent = p] EXCEPT !.at = "investigating"]
    <2>1. x.at # "idle" /\ x.request = analyst[a].request
      BY <1>0 DEF AnalystRow
    <2>2. analyst' = [analyst EXCEPT ![a] = x] /\ UNCHANGED context
      BY <1>0, <1>14 DEF Prepare, AnalystRow
    <2> HIDE DEF x
    <2> QED BY <1>7, <2>1, <2>2
  <1>15. ASSUME NEW a \in Analysts, Superseded(a) PROVE Contexts'
    <2> DEFINE x == [[[analyst[a] EXCEPT !.parent = Refreshed]
                        EXCEPT !.attempt = analyst[a].attempt + 1]
                        EXCEPT !.at = Entry(analyst[a].request)]
    <2>1. x.at # "idle" /\ x.request = analyst[a].request
      BY <1>0, EntryRow DEF AnalystRow
    <2>2. analyst' = [analyst EXCEPT ![a] = x] /\ UNCHANGED context
      BY <1>0, <1>15 DEF Superseded, AnalystRow
    <2> HIDE DEF x
    <2> QED BY <1>7, <2>1, <2>2
  <1>16. ASSUME UNCHANGED <<context, analyst>> PROVE Contexts'
    BY <1>0, <1>1, <1>16
  <1>17. \/ UNCHANGED <<context, analyst>>
         \/ \E r \in Requests : DuplicateContext(r)
         \/ \E c \in Collectors, last \in BOOLEAN : Collect(c, last)
         \/ \E b \in Background : Enrich(b)
         \/ \E a \in Analysts : AnalystStep(a) \/ AnalystFails(a)
    BY DEF Next, Redelivery, CollectorStep, GatewayStep, vars,
           Submit, GatewayPublished, GatewayRefused, GatewayRequeues, GatewayDies,
           Poll, PollExpires, DispatcherPublished, Expire, IncidentEnds, DuplicateCommand,
           CollectorFails, TakeCommand, CollectorGivesUp, CollectorRecords
  <1> QED
    BY <1>2, <1>4, <1>5, <1>6, <1>12, <1>13, <1>14, <1>15, <1>16, <1>17 DEF AnalystStep

-----------------------------------------------------------------------------
(* Type correctness.                                                       *)

\* What the other parts of the invariant say nothing of.
Recorded ==
  /\ scene \in Scenes
  /\ over \in BOOLEAN
  /\ expired \subseteq Explicit /\ polled \subseteq Explicit
  /\ sender \in [Explicit -> {"idle", "publishing", "requeueing"}]
  /\ announced \subseteq Requests /\ dead \subseteq Requests

LEMMA RecordedStep ==
  ASSUME IInv, Collecting, Recorded, [Next]_vars
  PROVE  Recorded'
  <1> USE DEF Recorded, rowVars, evidenceVars, answerVars
  <1>1. ASSUME NEW r \in Explicit, GatewayStep(r) \/ DispatcherPublished(r) \/ Expire(r)
        PROVE  Recorded'
    <2>1. CASE Submit(r) \/ DispatcherPublished(r) \/ Expire(r)
      BY <2>1 DEF Submit, DispatcherPublished, Expire
    <2>2. CASE GatewayPublished(r) \/ GatewayRefused(r) \/ GatewayRequeues(r) \/ GatewayDies(r)
      BY <2>2 DEF GatewayPublished, GatewayRefused, GatewayRequeues, GatewayDies
    <2>3. CASE Poll(r) \/ PollExpires(r)
      BY <2>3 DEF Poll, PollExpires
    <2> QED BY <1>1, <2>1, <2>2, <2>3 DEF GatewayStep
  <1>2. CASE IncidentEnds
    BY <1>2 DEF IncidentEnds
  <1>3. CASE Redelivery
    BY <1>3 DEF Redelivery, DuplicateCommand, DuplicateContext, CollectorFails, AnalystFails
  <1>4. ASSUME NEW c \in Collectors, CollectorStep(c) PROVE Recorded'
    <2>1. collector[c].at # "idle" => collector[c].request \in Requests
      BY RequestKinds DEF Collecting
    <2> QED BY <1>4, <2>1 DEF CollectorStep, TakeCommand, Collect, CollectorGivesUp, CollectorRecords
  <1>5. ASSUME NEW b \in Background, Enrich(b) PROVE Recorded'
    BY <1>5 DEF Enrich
  <1>6. ASSUME NEW a \in Analysts, AnalystStep(a) PROVE Recorded'
    <2>1. analyst[a].at # "idle" => analyst[a].request \in Requests
      BY AtWork
    <2>2. CASE \/ \E r \in Requests : Receive(a, r)
               \/ Admit(a) \/ Coalesce(a) \/ Prepare(a) \/ Commit(a) \/ Superseded(a)
      BY <2>2 DEF Receive, Admit, Coalesce, Prepare, Commit, Superseded
    <2>3. CASE Announce(a) \/ AnalystGivesUp(a) \/ AnalystRecords(a)
      BY <2>1, <2>3 DEF Announce, AnalystGivesUp, AnalystRecords
    <2> QED BY <1>6, <2>2, <2>3 DEF AnalystStep
  <1>7. CASE UNCHANGED vars
    BY <1>7 DEF vars
  <1> QED BY <1>1, <1>2, <1>3, <1>4, <1>5, <1>6, <1>7 DEF Next

Bounded ==
  /\ GaplessInv /\ Census /\ Dated
  /\ Rows /\ Commands /\ Contexts /\ Recorded

LEMMA InitBounded == Init => Bounded
  <1> SUFFICES ASSUME Init PROVE Bounded
    OBVIOUS
  <1> USE DEF Init
  <1>1. GaplessInv
    <2>1. Collecting
      BY DEF Collecting, Collector, Waiting
    <2>2. Gapless
      BY DEF Gapless
    <2> QED BY <2>1, <2>2, InitIInv DEF GaplessInv
  <1>2. Census
    <2>1. Snapped = {} /\ Answered = {}
      BY DEF Snapped, Answered
    <2> QED BY <2>1, FS_EmptySet DEF Census
  <1>3. Dated
    BY LimitsAssumption DEF Dated, Resting
  <1>4. Rows
    <2>1. Cardinality(Explicit) \in Nat
      BY RequestKinds, FiniteAssumption, FS_Subset, FS_CardinalityType
    <2> QED BY <2>1 DEF Rows
  <1>5. Commands
    <2>1. \A r \in Explicit : CollectorsOf(r) = {}
      BY RequestKinds DEF CollectorsOf, Waiting
    <2>2. \A r \in Explicit : Cardinality(CollectorsOf(r)) = 0
      BY <2>1, FS_EmptySet
    <2>3. MaxCommands \in Nat
      BY LimitsAssumption
    <2> QED BY <2>1, <2>2, <2>3 DEF Commands, Waiting
  <1>6. Contexts
    <2>1. \A r \in Requests : AnalystsOf(r) = {}
      BY RequestKinds DEF AnalystsOf, Resting
    <2>2. \A r \in Requests : Cardinality(AnalystsOf(r)) = 0
      BY <2>1, FS_EmptySet
    <2>3. MaxCopies \in Nat
      BY LimitsAssumption
    <2> QED BY <2>2, <2>3 DEF Contexts, Resting
  <1>7. Recorded
    BY DEF Recorded
  <1> QED BY <1>1, <1>2, <1>3, <1>4, <1>5, <1>6, <1>7 DEF Bounded

(* What the counts say of the snapshots, versions and copies. *)
LEMMA BoundedTypes == Bounded => TypeOK
  <1> SUFFICES ASSUME Bounded PROVE TypeOK
    OBVIOUS
  <1> DEFINE n == Cardinality(Requests)
  <1>1. Typed /\ Gapless /\ Collecting
    BY DEF Bounded, GaplessInv, IInv
  <1>2. n \in Nat
    BY FiniteAssumption, FS_CardinalityType
  <1>3. newest \in Version
    <2>1. Snapped \subseteq Requests /\ Answered \subseteq Requests
      BY DEF Snapped, Answered
    <2>2. /\ Cardinality(Snapped) <= n /\ Cardinality(Answered) <= n
          /\ Cardinality(Snapped) \in Nat /\ Cardinality(Answered) \in Nat
      BY <2>1, FiniteAssumption, FS_Subset, FS_CardinalityType
    <2>3. newest = 1 + Cardinality(Snapped) + Cardinality(Answered)
      BY DEF Bounded, Census
    <2> QED BY <1>2, <2>2, <2>3 DEF Version
  <1>4. \A v \in Nat : v <= newest => v \in Version
    BY <1>2, <1>3 DEF Version
  <1>5. status \in [Explicit -> Active \cup Terminal \cup {"none"}]
    BY <1>1 DEF Typed, Statuses
  <1>6. command \in [Explicit -> 0..MaxCommands]
    <2>1. /\ command \in [Explicit -> Nat] /\ MaxCommands \in Nat
          /\ \A r \in Explicit : /\ command[r] + Cardinality(CollectorsOf(r)) <= MaxCommands
                                 /\ Cardinality(CollectorsOf(r)) \in Nat
      BY Crews, LimitsAssumption DEF Bounded, Commands
    <2> QED BY <2>1
  <1>7. context \in [Requests -> 0..MaxCopies]
    <2>1. /\ context \in [Requests -> Nat] /\ MaxCopies \in Nat
          /\ \A r \in Requests : /\ context[r] + Cardinality(AnalystsOf(r)) <= MaxCopies
                                 /\ Cardinality(AnalystsOf(r)) \in Nat
      BY <1>1, Crews, LimitsAssumption DEF Bounded, Contexts, Typed
    <2> QED BY <2>1
  <1>8. snap \in [Requests -> Version] /\ freshest \in 0..newest
    <2>1. \A r \in Requests : snap[r] <= newest
      BY DEF Bounded, GaplessInv, IInv, Topped
    <2>2. freshest <= newest /\ newest \in Nat /\ freshest \in Nat
      BY <1>1 DEF Bounded, Dated, Typed
    <2> QED BY <1>1, <1>4, <2>1, <2>2 DEF Typed
  <1>9. reserved \in [Requests -> 0..n]
    <2>1. \A r \in Requests : reserved[r] \in Nat /\ reserved[r] <= n
      BY <1>1, VersionsCounted DEF Typed
    <2> QED BY <1>1, <1>2, <2>1 DEF Typed
  <1>10. binding \in [Requests -> Answer \cup {None}]
    <2> SUFFICES ASSUME NEW r \in Requests, binding[r] # None PROVE binding[r] \in Answer
      BY <1>1 DEF Typed
    <2>1. /\ binding[r] \in AnyAnswer /\ binding[r].snapshot <= newest
          /\ binding[r].version = reserved[r]
      BY <1>1 DEF Typed, Bounded, Dated, GaplessInv, IInv, Numbered
    <2>2. binding[r].snapshot \in Version
      BY <1>4, <2>1 DEF AnyAnswer
    <2>3. binding[r].version \in Version \ {0}
      BY <1>2, <1>9, <2>1 DEF AnyAnswer, Version
    <2> QED BY <2>1, <2>2, <2>3 DEF AnyAnswer, Answer
  <1>11. analyst \in [Analysts -> Analyst]
    <2> SUFFICES ASSUME NEW a \in Analysts PROVE analyst[a] \in Analyst
      BY <1>1 DEF Typed
    <2>1. /\ analyst[a] \in AnalystRow /\ analyst[a].parent <= newest
          /\ analyst[a].attempt \in 1..MaxAttempts
      BY <1>1 DEF Typed, Bounded, Dated
    <2>2. analyst[a].parent \in Version
      BY <1>4, <2>1 DEF AnalystRow
    <2> QED BY <2>1, <2>2 DEF AnalystRow, Analyst
  <1>12. /\ born \in [Explicit -> 0..Cardinality(Explicit)]
         /\ coalesced \subseteq Background /\ yielded \subseteq Background
    BY <1>1 DEF Bounded, Rows, Typed
  <1>13. collector \in [Collectors -> Collector]
    BY <1>1 DEF Collecting
  <1>14. Recorded
    BY DEF Bounded
  <1> QED
    BY <1>3, <1>5, <1>6, <1>7, <1>8, <1>9, <1>10, <1>11, <1>12, <1>13, <1>14
    DEF TypeOK, Recorded

(* The row of every request, its copies under way, snapshots, versions, answers and *)
(* holders keep their types within the bounds of TypeOK: no more copies than the     *)
(* broker may have, no more versions than requests, two snapshots for each of them.  *)
THEOREM TypesHold == Spec => []TypeOK
  <1>1. Bounded /\ [Next]_vars => Bounded'
    <2> SUFFICES ASSUME Bounded, [Next]_vars PROVE Bounded'
      OBVIOUS
    <2> USE DEF Bounded, GaplessInv
    <2>1. IInv' /\ Collecting' /\ Gapless'
      BY StepIInv, CollectingStep, GaplessStep
    <2>2. Census' /\ Dated' /\ Rows' /\ Commands' /\ Contexts' /\ Recorded'
      BY <2>1, CensusStep, DatedStep, RowsStep, CommandsStep, ContextsStep, RecordedStep
    <2> QED BY <2>1, <2>2
  <1> QED BY <1>1, InitBounded, BoundedTypes, PTL DEF Spec

-----------------------------------------------------------------------------
(* The analyses keep the book.                                             *)

(* The cardinality AnswerBook speaks of is the one of this module. *)
LEMMA SameCount == \A S : Book!Cardinality(S) = Cardinality(S)
  BY DEF Book!Cardinality, Cardinality

(* The next version is one above the number of versions reserved so far. *)
LEMMA NextVersion ==
  ASSUME IInv, Gapless, NEW r \in Requests, reserved[r] = 0, NEW v \in Nat \ {0},
         Reserve(r, v)
  PROVE  v = Cardinality(Book!Drawn) + 1
  <1> DEFINE D == Book!Drawn
             f == [q \in D |-> reserved[q]]
  <1>1. /\ reserved \in [Requests -> Nat] /\ v - 1 \in Taken \cup {0}
        /\ \A q \in Requests : reserved[q] < v
    <2>1. \A u \in Taken : u \in Nat
      BY DEF Taken, Committed, IInv, Typed, AnyAnswer
    <2> QED BY <2>1 DEF Reserve, Taken, IInv, Typed
  <1>2. \A q \in D : q \in Requests /\ reserved[q] \in 1..(v - 1)
    BY <1>1 DEF Book!Drawn
  <1>3. \A u \in 1..(v - 1) : \E q \in D : reserved[q] = u
    <2> TAKE u \in 1..(v - 1)
    <2>1. \A t \in Taken : t # 0 => \E q \in Requests : reserved[q] = t
      BY DEF Taken, Committed, IInv, Numbered
    <2>2. PICK q \in Requests : reserved[q] = v - 1
      BY <1>1, <2>1
    <2>3. PICK p \in Requests : reserved[p] = u
      BY <2>2 DEF Gapless
    <2> QED BY <2>3 DEF Book!Drawn
  <1>4. \A p, q \in D : reserved[p] = reserved[q] => p = q
    BY DEF Book!Drawn, IInv, Numbered
  <1>5. f \in Bijection(D, 1..(v - 1))
    <2> HIDE DEF D
    <2> QED BY <1>2, <1>3, <1>4 DEF Bijection, Injection, Surjection, IsInjective
  <1>6. IsFiniteSet(D)
    BY FiniteAssumption, FS_Subset DEF Book!Drawn
  <1>7. Cardinality(D) = Cardinality(1..(v - 1))
    <2>1. ExistsBijection(D, 1..(v - 1))
      BY <1>5 DEF ExistsBijection
    <2> HIDE DEF D, f
    <2> QED BY <1>6, <2>1, FS_Bijection
  <1>8. ASSUME NEW n \in Nat PROVE Cardinality(1..n) = n
    BY FS_Interval
  <1> QED BY <1>1, <1>7, <1>8

(* A reservation draws the next number, or changes nothing. *)
LEMMA PrepareDraws ==
  ASSUME IInv, Gapless, NEW a \in Analysts, Prepare(a)
  PROVE  [Book!Next]_(Book!book)
  <1> DEFINE r == analyst[a].request
  <1>1. PICK v \in {u + 1 : u \in Taken \cup {0}} \cup {reserved[r]} : Reserve(r, v)
    BY DEF Prepare
  <1>2. r \in Requests /\ reserved \in [Requests -> Nat] /\ UNCHANGED <<binding, newest>>
    BY AtWork DEF Prepare, evidenceVars, IInv, Typed
  <1>3. reserved' = [reserved EXCEPT ![r] = v]
    BY <1>1 DEF Reserve
  <1>4. CASE reserved[r] # 0
    <2>1. reserved' = reserved
      BY <1>1, <1>2, <1>3, <1>4 DEF Reserve
    <2> QED BY <1>2, <2>1 DEF Book!book
  <1>5. CASE reserved[r] = 0
    <2>1. v \in Nat \ {0}
      BY <1>1, <1>2, ReserveFresh
    <2>2. v = Cardinality(Book!Drawn) + 1
      BY <1>1, <1>2, <1>5, <2>1, NextVersion
    <2>3. Book!Draw(r)
      BY <1>2, <1>3, <1>5, <2>2, SameCount DEF Book!Draw
    <2> QED BY <1>2, <2>3 DEF Book!Next
  <1> QED BY <1>4, <1>5

(* A commit answers a request under its number, once. *)
LEMMA CommitReplies ==
  ASSUME IInv, NEW a \in Analysts, Commit(a)
  PROVE  Book!Next
  <1> DEFINE r == analyst[a].request
  <1>1. r \in Requests /\ reserved[r] \in Nat \ {0} /\ binding[r] = None
    BY AtWork DEF Commit, Unbound, IInv, Typed
  <1>2. Versioned(reserved[r])
    BY <1>1 DEF Versioned
  <1>3. Book!Reply(r)
    BY <1>1, <1>2 DEF Commit, Book!Reply, Book!Drawn
  <1> QED BY <1>1, <1>3 DEF Book!Next

LEMMA StepKeepsBook ==
  ASSUME IInv, Gapless, [Next]_vars
  PROVE  [Book!Next]_(Book!book)
  <1> USE DEF rowVars, evidenceVars, answerVars
  <1>1. \/ UNCHANGED <<reserved, binding, newest>>
        \/ UNCHANGED <<reserved, binding>> /\ newest' = newest + 1
        \/ \E a \in Analysts : Prepare(a) \/ Commit(a)
    BY DEF Next, Redelivery, CollectorStep, AnalystStep, GatewayStep, vars,
           Submit, GatewayPublished, GatewayRefused, GatewayRequeues, GatewayDies,
           Poll, PollExpires, DispatcherPublished, Expire, IncidentEnds, DuplicateCommand,
           DuplicateContext, CollectorFails, AnalystFails, TakeCommand, Collect,
           CollectorGivesUp, CollectorRecords, Enrich, Receive, Admit, Coalesce,
           Superseded, Announce, AnalystGivesUp, AnalystRecords
  <1>2. CASE UNCHANGED <<reserved, binding>> /\ newest' = newest + 1
    BY <1>2 DEF Book!Next, Book!Observe
  <1>3. CASE \E a \in Analysts : Commit(a)
    BY <1>3, CommitReplies
  <1>4. CASE \E a \in Analysts : Prepare(a)
    BY <1>4, PrepareDraws
  <1>5. CASE UNCHANGED <<reserved, binding, newest>>
    BY <1>5 DEF Book!book
  <1> QED BY <1>1, <1>2, <1>3, <1>4, <1>5

(* The gateway, the agents and the store together implement AnswerBook: a request draws  *)
(* the next version once, and is answered at most once and under it, through every       *)
(* redelivery, refresh, retirement and pair of analysts that work on the same request.   *)
THEOREM KeepsTheBook == Spec => KeepsBook
  <1>1. Init => Book!Init
    BY DEF Init, Book!Init
  <1>2. GaplessInv /\ [Next]_vars => [Book!Next]_(Book!book)
    BY StepKeepsBook DEF GaplessInv
  <1> QED BY <1>1, <1>2, GaplessAlways, PTL DEF Spec, KeepsBook, Book!Spec
=============================================================================
