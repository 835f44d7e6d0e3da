---------------------- MODULE EvidenceCollection_proofs ----------------------
(***************************************************************************)
(* Proofs about EvidenceCollection for any sets of keys, connectors and    *)
(* workers, and any bounds.                                                *)
(***************************************************************************)
EXTENDS EvidenceCollection, WellFoundedInduction, TLAPS

\* A row is well formed: typed, and leased exactly while it is collecting.
WellFormed(row) ==
  /\ row \in JobRow
  /\ row.status = "collecting" <=> row.owner # None
  /\ row.status = "collecting" <=> row.lease # "none"

Tables(J, R) ==
  /\ J \in [Jobs -> JobRow]
  /\ \A j \in Jobs : WellFormed(J[j])
  /\ R \in [Reqs -> ReqRow]

\* A queued row still has retry budget.
Budgeted(row) == row.status \in Pending => row.attempts < MaxAttempts

\* What planning and repair may do to a row old that becomes new.
QuietRow(old, new) ==
  /\ new.status = "collected" => old.status = "collected"
  /\ old.lease = "live" \/ new.lease = "live" => new = old
  /\ old.status \in Final => new.status = old.status
  /\ Budgeted(old) => Budgeted(new)

Quiet(J, K) == \A j \in Jobs : QuietRow(J[j], K[j])

(* Releasing a row into a status other than collecting makes it well formed. *)
LEMMA ReleasedRow ==
  ASSUME NEW row \in JobRow, NEW s \in JobStatus, s # "collecting"
  PROVE  /\ WellFormed(Released(row, s))
         /\ Released(row, s).status = s
         /\ Released(row, s).attempts = row.attempts
         /\ Released(row, s).owner = None
         /\ Released(row, s).lease = "none"
  BY DEF Released, WellFormed, JobRow

(* Cancelling, superseding or dead-lettering an unleased live row is quiet. *)
LEMMA EndingIsQuiet ==
  ASSUME NEW row, WellFormed(row), row.status \in Live, row.lease # "live",
         NEW s \in {"cancelled", "superseded", "dead_letter"}
  PROVE  WellFormed(Released(row, s)) /\ QuietRow(row, Released(row, s))
  <1>1. row \in JobRow /\ s \in JobStatus /\ s # "collecting"
    BY DEF WellFormed, JobStatus, Final
  <1>2. /\ WellFormed(Released(row, s))
        /\ Released(row, s).status = s
        /\ Released(row, s).lease = "none"
    BY <1>1, ReleasedRow
  <1>3. s \notin Pending /\ s # "collected" /\ row.status \notin Final
    BY DEF Pending, Live, Final
  <1> QED BY <1>2, <1>3 DEF QuietRow, Budgeted

(* Quiet changes compose, and doing nothing is one. *)
LEMMA QuietCompose ==
  ASSUME NEW J, NEW K, NEW L
  PROVE  Quiet(J, J) /\ (Quiet(J, K) /\ Quiet(K, L) => Quiet(J, L))
  BY DEF Quiet, QuietRow

(* Retiring superseded jobs keeps the table well formed and is quiet. *)
LEMMA RetireTables ==
  ASSUME NEW J, NEW R, NEW b, Tables(J, R)
  PROVE  Tables(RetireSuperseded(J, R, b), R) /\ Quiet(J, RetireSuperseded(J, R, b))
  <1> DEFINE K == RetireSuperseded(J, R, b)
  <1>1. \A j \in Jobs : K[j] = J[j] \/ (J[j].status \in Pending /\ K[j] = Released(J[j], "superseded"))
    BY DEF RetireSuperseded
  <1>2. \A j \in Jobs : WellFormed(K[j]) /\ QuietRow(J[j], K[j])
    <2> TAKE j \in Jobs
    <2>1. WellFormed(J[j])
      BY DEF Tables
    <2>2. CASE K[j] = J[j]
      BY <2>1, <2>2 DEF QuietRow
    <2>3. CASE J[j].status \in Pending /\ K[j] = Released(J[j], "superseded")
      <3>1. J[j].status \in Live /\ J[j].lease # "live"
        BY <2>1, <2>3 DEF Live, Pending, WellFormed
      <3> QED BY <2>1, <2>3, <3>1, EndingIsQuiet
    <2> QED BY <1>1, <2>2, <2>3
  <1>3. K \in [Jobs -> JobRow]
    BY <1>2 DEF RetireSuperseded, WellFormed
  <1> QED BY <1>2, <1>3 DEF Tables, Quiet

(* Setting the status of a requirement keeps a requirement table typed. *)
LEMMA SetStatusType ==
  ASSUME NEW R \in [Reqs -> ReqRow], NEW r, NEW s \in ReqStatus
  PROVE  SetStatus(R, r, s) \in [Reqs -> ReqRow]
  BY DEF SetStatus, ReqRow

(* A job created from an inherited budget is well formed, and queued only with budget left. *)
LEMMA NewJobRow ==
  ASSUME NEW J \in [Jobs -> JobRow], NEW r \in Reqs, NEW c \in Connectors,
         NEW h \in Budgets(J, r, c)
  PROVE  /\ WellFormed(NewJob(h))
         /\ NewJob(h).status # "collected"
         /\ NewJob(h).lease = "none"
         /\ Budgeted(NewJob(h))
  <1>1. h.attempts \in 0..MaxAttempts /\ h.due \in BOOLEAN
    <2>1. CASE Predecessors(J, r, c) = {}
      <3>1. h = [attempts |-> 0, due |-> TRUE]
        BY <2>1 DEF Budgets
      <3> QED BY <3>1, AttemptsAssumption
    <2>2. CASE Predecessors(J, r, c) # {}
      <3>1. PICK j \in Predecessors(J, r, c) :
                   h = [attempts |-> J[j].attempts, due |-> J[j].due]
        BY <2>2 DEF Budgets
      <3>2. J[j] \in JobRow
        BY DEF Predecessors
      <3> QED BY <3>1, <3>2 DEF JobRow
    <2> QED BY <2>1, <2>2
  <1>2. CASE h.attempts >= MaxAttempts
    BY <1>1, <1>2 DEF NewJob, WellFormed, JobRow, JobStatus, Final, Live, Pending, Budgeted
  <1>3. CASE ~(h.attempts >= MaxAttempts)
    BY <1>1, <1>3, AttemptsAssumption
    DEF NewJob, WellFormed, JobRow, JobStatus, Final, Live, Pending, Budgeted
  <1> QED BY <1>2, <1>3

(* Scheduling a source, or blocking on one, keeps the tables well formed and is quiet. *)
LEMMA ScheduleTables ==
  ASSUME NEW J, NEW R, Tables(J, R), NEW r \in Reqs,
         NEW c \in Connectors \cup {None}, ScheduleOrBlock(J, R, r, c)
  PROVE  Tables(job', req') /\ Quiet(J, job')
  <1>1. CASE c # None /\ Schedule(J, R, r, c)
    <2>1. CASE J[<<r, c>>].status # "absent"
      BY <1>1, <2>1, QuietCompose DEF Schedule
    <2>2. CASE J[<<r, c>>].status = "absent"
      <3>1. PICK h \in Budgets(J, r, c) :
                 /\ job' = [J EXCEPT ![<<r, c>>] = NewJob(h)]
                 /\ req' = SetStatus(R, r, IF NewJob(h).status = "dead_letter"
                                           THEN "blocked" ELSE "scheduled")
        BY <1>1, <2>2 DEF Schedule
      <3>2. c \in Connectors /\ <<r, c>> \in Jobs
        BY <1>1 DEF Jobs
      <3>3. /\ WellFormed(NewJob(h)) /\ NewJob(h).status # "collected"
            /\ NewJob(h).lease = "none" /\ Budgeted(NewJob(h))
        BY <3>2, NewJobRow DEF Tables
      <3>4. req' \in [Reqs -> ReqRow]
        BY <3>1, SetStatusType DEF Tables, ReqStatus
      <3>5. \A j \in Jobs : job'[j] = IF j = <<r, c>> THEN NewJob(h) ELSE J[j]
        BY <3>1 DEF Tables
      <3>6. job' \in [Jobs -> JobRow]
        BY <3>1, <3>3 DEF Tables, WellFormed
      <3>7. QuietRow(J[<<r, c>>], NewJob(h))
        BY <2>2, <3>2, <3>3 DEF QuietRow, Tables, WellFormed, Final
      <3> QED BY <3>3, <3>4, <3>5, <3>6, <3>7 DEF Tables, Quiet, QuietRow
    <2> QED BY <2>1, <2>2
  <1>2. CASE c = None /\ job' = J /\ req' = BlockTechnical(R, r)
    BY <1>2, SetStatusType, QuietCompose DEF BlockTechnical, Tables, ReqStatus
  <1> QED BY <1>1, <1>2 DEF ScheduleOrBlock

-----------------------------------------------------------------------------
(* The four planning and repair transactions are quiet.                    *)

TablesNow == Tables(job, req)

(* Adding a requirement row, cancelling inapplicable ones and repairing     *)
(* from the ledger keep the requirement table typed.                       *)
LEMMA ReqTables ==
  ASSUME TablesNow, ledger \subseteq Jobs
  PROVE  /\ CancelInapplicable(req) \in [Reqs -> ReqRow]
         /\ FromLedger \in [Reqs -> ReqRow]
         /\ \A R \in [Reqs -> ReqRow], r \in Reqs : Identify(R, r) \in [Reqs -> ReqRow]
  <1>1. CancelInapplicable(req) \in [Reqs -> ReqRow]
    BY DEF TablesNow, Tables, CancelInapplicable, ReqRow, ReqStatus
  <1>2. FromLedger \in [Reqs -> ReqRow]
    BY DEF TablesNow, Tables, FromLedger, ReqRow, ReqStatus
  <1>3. \A R \in [Reqs -> ReqRow], r \in Reqs : Identify(R, r) \in [Reqs -> ReqRow]
    BY SetStatusType DEF Identify, ReqStatus
  <1> QED BY <1>1, <1>2, <1>3

(* Planning from a typed requirement table: retire, then schedule or block. *)
LEMMA PlanTables ==
  ASSUME TablesNow, NEW R \in [Reqs -> ReqRow], NEW b, NEW r \in Reqs,
         NEW c \in Connectors \cup {None},
         ScheduleOrBlock(RetireSuperseded(job, R, b), R, r, c)
  PROVE  TablesNow' /\ Quiet(job, job')
  <1> DEFINE K == RetireSuperseded(job, R, b)
  <1>1. Tables(job, R)
    BY DEF TablesNow, Tables
  <1>2. Tables(K, R) /\ Quiet(job, K)
    BY <1>1, RetireTables
  <1>3. Tables(job', req') /\ Quiet(K, job')
    BY <1>2, ScheduleTables
  <1> QED BY <1>2, <1>3, QuietCompose DEF TablesNow

LEMMA PersistRcaQuiet ==
  ASSUME TypeOK, TablesNow, NEW v \in Versions, PersistRca(v)
  PROVE  TablesNow' /\ Quiet(job, job')
  <1> DEFINE R0 == CancelInapplicable(req)
  <1>1. R0 \in [Reqs -> ReqRow]
    BY ReqTables DEF TypeOK
  <1>2. CASE req' = R0 /\ UNCHANGED job
    BY <1>1, <1>2, QuietCompose DEF TablesNow, Tables
  <1>3. ASSUME NEW k \in Keys, NEW c \in Connectors \cup {None},
               LET r == <<k, v>>
                   R1 == Identify(R0, r)
               IN ScheduleOrBlock(RetireSuperseded(job, R1, bound), R1, r, c)
        PROVE  TablesNow' /\ Quiet(job, job')
    <2> DEFINE r == <<k, v>>
    <2>1. r \in Reqs
      BY DEF Reqs
    <2>2. Identify(R0, r) \in [Reqs -> ReqRow]
      BY <1>1, <2>1, ReqTables DEF TypeOK
    <2> QED BY <1>3, <2>1, <2>2, PlanTables
  <1> QED BY <1>2, <1>3 DEF PersistRca

LEMMA ReconcileQuiet ==
  ASSUME TypeOK, TablesNow, Reconcile
  PROVE  TablesNow' /\ Quiet(job, job')
  <1>1. FromLedger \in [Reqs -> ReqRow]
    BY ReqTables DEF TypeOK
  <1>2. CASE req' = FromLedger /\ UNCHANGED job
    BY <1>1, <1>2, QuietCompose DEF TablesNow, Tables
  <1>3. ASSUME NEW k \in Keys, NEW c \in Connectors \cup {None},
               LET r == <<k, bound>>
                   R1 == Identify(FromLedger, r)
               IN ScheduleOrBlock(RetireSuperseded(job, R1, bound), R1, r, c)
        PROVE  TablesNow' /\ Quiet(job, job')
    <2> DEFINE r == <<k, bound>>
    <2>1. r \in Reqs
      BY VersionAssumption DEF Reconcile, TypeOK, Reqs, Versions
    <2>2. Identify(FromLedger, r) \in [Reqs -> ReqRow]
      BY <1>1, <2>1, ReqTables DEF TypeOK
    <2> QED BY <1>3, <2>1, <2>2, PlanTables
  <1> QED BY <1>2, <1>3 DEF Reconcile

LEMMA MaintainQuiet ==
  ASSUME TypeOK, TablesNow, Maintain
  PROVE  TablesNow' /\ Quiet(job, job')
  <1>1. \A j \in Jobs : WellFormed(MaintainJob(j)) /\ QuietRow(job[j], MaintainJob(j))
    <2> TAKE j \in Jobs
    <2> DEFINE row == job[j]
    <2>1. WellFormed(row) /\ row \in JobRow
      BY DEF TablesNow, Tables, WellFormed
    <2>2. CASE MaintainJob(j) = row
      BY <2>1, <2>2 DEF QuietRow
    <2>3. Unleased(j) => row.status \in Live /\ row.lease # "live"
      BY <2>1 DEF Unleased, Live, Pending, WellFormed
    <2>4. CASE Unleased(j) /\ \E s \in {"cancelled", "superseded", "dead_letter"} :
                 MaintainJob(j) = Released(row, s)
      BY <2>1, <2>3, <2>4, EndingIsQuiet
    <2>5. CASE /\ Unleased(j) /\ row.status = "collecting" /\ ~(row.attempts >= MaxAttempts)
               /\ MaintainJob(j) = [Released(row, "retry") EXCEPT !.due = TRUE]
      <3>1. "retry" \in JobStatus /\ Released(row, "retry") \in JobRow
        BY <2>1, ReleasedRow DEF JobStatus, Live, Pending, WellFormed
      <3>2. /\ WellFormed(Released(row, "retry"))
            /\ Released(row, "retry").status = "retry"
            /\ Released(row, "retry").attempts = row.attempts
            /\ Released(row, "retry").lease = "none"
        BY <2>1, <3>1, ReleasedRow
      <3>3. /\ WellFormed(MaintainJob(j))
            /\ MaintainJob(j).status = "retry"
            /\ MaintainJob(j).attempts = row.attempts
            /\ MaintainJob(j).lease = "none"
        BY <2>5, <3>1, <3>2 DEF WellFormed, JobRow
      <3> QED BY <2>1, <2>3, <2>5, <3>3, AttemptsAssumption
              DEF QuietRow, Budgeted, Final, JobRow
    <2>6. \/ MaintainJob(j) = row
          \/ Unleased(j) /\ \E s \in {"cancelled", "superseded", "dead_letter"} :
                 MaintainJob(j) = Released(row, s)
          \/ /\ Unleased(j) /\ row.status = "collecting" /\ ~(row.attempts >= MaxAttempts)
             /\ MaintainJob(j) = [Released(row, "retry") EXCEPT !.due = TRUE]
      BY DEF MaintainJob, Exhausted
    <2> QED BY <2>2, <2>4, <2>5, <2>6
  <1>2. job' = [j \in Jobs |-> MaintainJob(j)]
    BY DEF Maintain
  <1>3. req' \in [Reqs -> ReqRow]
    BY DEF Maintain, TypeOK, ReqRow, ReqStatus
  <1> QED BY <1>1, <1>2, <1>3 DEF TablesNow, Tables, Quiet, WellFormed

LEMMA RetireClosedQuiet ==
  ASSUME TypeOK, TablesNow, RetireClosed
  PROVE  TablesNow' /\ Quiet(job, job')
  <1>1. \A j \in Jobs : WellFormed(job'[j]) /\ QuietRow(job[j], job'[j])
    <2> TAKE j \in Jobs
    <2>1. WellFormed(job[j])
      BY DEF TablesNow, Tables
    <2>2. CASE Unleased(j)
      <3>1. job[j].status \in Live /\ job[j].lease # "live"
        BY <2>1, <2>2 DEF Unleased, Live, Pending, WellFormed
      <3>2. job'[j] = Released(job[j], "cancelled")
        BY <2>2 DEF RetireClosed
      <3> QED BY <2>1, <3>1, <3>2, EndingIsQuiet
    <2>3. CASE ~Unleased(j)
      <3>1. job'[j] = job[j]
        BY <2>3 DEF RetireClosed
      <3> QED BY <2>1, <3>1 DEF QuietRow
    <2> QED BY <2>2, <2>3
  <1>2. job' \in [Jobs -> JobRow]
    BY <1>1 DEF RetireClosed, WellFormed
  <1>3. req' \in [Reqs -> ReqRow]
    <2>1. \A r \in Reqs : req[r] \in ReqRow /\ [req[r] EXCEPT !.status = "cancelled"] \in ReqRow
      BY DEF TypeOK, ReqRow, ReqStatus
    <2> QED BY <2>1 DEF RetireClosed
  <1> QED BY <1>1, <1>2, <1>3 DEF TablesNow, Tables, Quiet

-----------------------------------------------------------------------------
(* The steps of one worker: what they do to its own job and to the others.  *)

\* The other jobs see at most quiet changes.
OthersQuiet(w) == \A x \in Jobs \ {worker[w].job} : QuietRow(job[x], job'[x])

(* Finishing a job without evidence: queued again below the limit, dead otherwise. *)
LEMMA FinishTables ==
  ASSUME NEW J, NEW R, Tables(J, R), NEW j, NEW a, NEW limit
  PROVE  LET K == FinishJob(J, j, a, limit) IN
         /\ Tables(K, FinishReq(R, j, a, limit))
         /\ \A x \in Jobs \ {j} : K[x] = J[x]
         /\ j \in Jobs => /\ K[j].status = IF a < limit THEN "retry" ELSE "dead_letter"
                          /\ K[j].attempts = J[j].attempts
                          /\ K[j].lease = "none"
  <1> DEFINE K == FinishJob(J, j, a, limit)
             s == IF a < limit THEN "retry" ELSE "dead_letter"
  <1>1. s \in JobStatus /\ s # "collecting"
    BY DEF JobStatus, Live, Pending, Final
  <1>2. ASSUME j \in Jobs
        PROVE  /\ WellFormed(K[j]) /\ K[j] \in JobRow /\ K[j].status = s
               /\ K[j].attempts = J[j].attempts /\ K[j].lease = "none"
    <2> DEFINE row == Released(J[j], s)
    <2>1. /\ WellFormed(row) /\ row \in JobRow /\ row.status = s
          /\ row.attempts = J[j].attempts /\ row.lease = "none"
      BY <1>1, <1>2, ReleasedRow DEF Tables, WellFormed
    <2>2. K[j] = IF a < limit THEN [row EXCEPT !.due = FALSE] ELSE row
      BY <1>2 DEF FinishJob, Tables
    <2>3. LET late == [row EXCEPT !.due = FALSE] IN
          /\ WellFormed(late) /\ late \in JobRow /\ late.status = s
          /\ late.attempts = J[j].attempts /\ late.lease = "none"
      BY <2>1 DEF WellFormed, JobRow
    <2> QED BY <2>1, <2>2, <2>3
  <1>3. \A x \in Jobs \ {j} : K[x] = J[x]
    BY DEF FinishJob, Tables
  <1>4. K \in [Jobs -> JobRow]
    <2>1. DOMAIN K = Jobs /\ K = [x \in Jobs |-> K[x]]
      BY DEF FinishJob, Tables
    <2>2. \A x \in Jobs : K[x] \in JobRow
      BY <1>2, <1>3 DEF Tables
    <2> QED BY <2>1, <2>2
  <1>5. FinishReq(R, j, a, limit) \in [Reqs -> ReqRow]
    BY SetStatusType DEF FinishReq, Tables, ReqStatus
  <1> QED BY <1>2, <1>3, <1>4, <1>5 DEF Tables

(* Each step that ends a worker's turn changes its own row and, through a   *)
(* fallback, creates others; it keeps the tables well formed.               *)
LEMMA AcceptEffect ==
  ASSUME TypeOK, TablesNow, NEW w \in Workers, Accept(w)
  PROVE  /\ TablesNow' /\ OthersQuiet(w)
         /\ job'[worker[w].job].status = "collected"
  <1> DEFINE j == worker[w].job
             row == Released(job[j], "collected")
  <1>1. j \in Jobs /\ job[j] \in JobRow
    BY DEF Accept, TypeOK
  <1>2. WellFormed(row) /\ row \in JobRow /\ row.status = "collected"
    BY <1>1, ReleasedRow DEF JobStatus, Final, WellFormed
  <1>3. job' = [job EXCEPT ![j] = row]
    BY DEF Accept
  <1>4. /\ job' \in [Jobs -> JobRow]
        /\ \A x \in Jobs : job'[x] = IF x = j THEN row ELSE job[x]
    BY <1>1, <1>2, <1>3 DEF TypeOK
  <1>5. OthersQuiet(w)
    BY <1>4 DEF OthersQuiet, QuietRow
  <1>6. req' \in [Reqs -> ReqRow]
    <2>1. \A e, r : [req EXCEPT
                       ![e] = [status |-> "collected", evidence |-> @.evidence \cup {j}],
                       ![r] = [status |-> "collected", evidence |-> {j}]] \in [Reqs -> ReqRow]
      BY <1>1 DEF TypeOK, ReqRow, ReqStatus
    <2> QED BY <2>1 DEF Accept
  <1> QED BY <1>1, <1>2, <1>4, <1>5, <1>6 DEF TablesNow, Tables

LEMMA RejectEffect ==
  ASSUME TypeOK, TablesNow, NEW w \in Workers, Reject(w)
  PROVE  /\ TablesNow' /\ OthersQuiet(w)
         /\ job'[worker[w].job].status \in {"retry", "dead_letter"}
         /\ job'[worker[w].job].status = "retry" =>
              job'[worker[w].job].attempts < MaxAttempts
  <1> DEFINE j == worker[w].job
             a == job[j].attempts
  <1>1. j \in Jobs /\ a \in 0..MaxAttempts
    BY DEF Reject, TypeOK, JobRow
  <1>2. PICK limit \in {1, MaxAttempts} :
           LET J1 == FinishJob(job, j, a, limit)
               R1 == FinishReq(req, j, a, limit)
           IN IF a < limit THEN job' = J1 /\ req' = R1
              ELSE \E c \in (Connectors \ {ConnectorOf(j)}) \cup {None} :
                     ScheduleOrBlock(J1, R1, ReqOf(j), c)
    BY DEF Reject
  <1> DEFINE J1 == FinishJob(job, j, a, limit)
             R1 == FinishReq(req, j, a, limit)
  <1>3. /\ Tables(J1, R1)
        /\ \A x \in Jobs \ {j} : J1[x] = job[x]
        /\ J1[j].status = IF a < limit THEN "retry" ELSE "dead_letter"
        /\ J1[j].attempts = a
    BY <1>1, FinishTables DEF TablesNow
  <1>4. CASE a < limit
    <2>1. job' = J1 /\ req' = R1
      BY <1>2, <1>4
    <2>2. a < MaxAttempts
      BY <1>1, <1>4, AttemptsAssumption
    <2> QED BY <1>1, <1>3, <1>4, <2>1, <2>2 DEF TablesNow, OthersQuiet, QuietRow
  <1>5. CASE ~(a < limit)
    <2>1. PICK c \in Connectors \cup {None} : ScheduleOrBlock(J1, R1, ReqOf(j), c)
      BY <1>2, <1>5
    <2>2. ReqOf(j) \in Reqs
      BY <1>1 DEF ReqOf, Jobs
    <2>3. Tables(job', req') /\ Quiet(J1, job')
      BY <1>3, <2>1, <2>2, ScheduleTables
    <2>4. OthersQuiet(w)
      BY <1>3, <2>3 DEF Quiet, OthersQuiet
    <2>5. job'[j].status = "dead_letter"
      BY <1>1, <1>3, <1>5, <2>3 DEF Quiet, QuietRow, Final
    <2> QED BY <2>3, <2>4, <2>5 DEF TablesNow
  <1> QED BY <1>4, <1>5

LEMMA ErrorWriteEffect ==
  ASSUME TypeOK, TablesNow, NEW w \in Workers, ErrorWrite(w)
  PROVE  /\ TablesNow' /\ OthersQuiet(w)
         /\ job'[worker[w].job].status \in {"retry", "dead_letter"}
         /\ (worker[w].attempts = job[worker[w].job].attempts
             /\ job'[worker[w].job].status = "retry")
            => job'[worker[w].job].attempts < MaxAttempts
  <1> DEFINE j == worker[w].job
             a == worker[w].attempts
  <1>1. j \in Jobs
    BY DEF ErrorWrite, TypeOK
  <1>2. /\ job' = FinishJob(job, j, a, MaxAttempts)
        /\ req' = FinishReq(req, j, a, MaxAttempts)
    BY DEF ErrorWrite
  <1>3. /\ Tables(job', req')
        /\ \A x \in Jobs \ {j} : job'[x] = job[x]
        /\ job'[j].status = IF a < MaxAttempts THEN "retry" ELSE "dead_letter"
        /\ job'[j].attempts = job[j].attempts
    BY <1>1, <1>2, FinishTables DEF TablesNow
  <1> QED BY <1>3 DEF TablesNow, OthersQuiet, QuietRow

LEMMA BusyWriteEffect ==
  ASSUME TypeOK, TablesNow, NEW w \in Workers, BusyWrite(w)
  PROVE  /\ TablesNow' /\ OthersQuiet(w)
         /\ job'[worker[w].job].status = "retry"
         /\ job'[worker[w].job].attempts < MaxAttempts
  <1> DEFINE j == worker[w].job
             a == worker[w].attempts
             less == IF a = 0 THEN 0 ELSE a - 1
             row == [Released(job[j], "retry") EXCEPT !.due = FALSE, !.attempts = less]
  <1>1. /\ j \in Jobs /\ job[j] \in JobRow
        /\ less \in 0..MaxAttempts /\ less < MaxAttempts
    BY AttemptsAssumption DEF BusyWrite, TypeOK, WorkerRow
  <1>2. "retry" \in JobStatus /\ "retry" # "collecting"
    BY DEF JobStatus, Live, Pending
  <1>3. /\ WellFormed(Released(job[j], "retry"))
        /\ Released(job[j], "retry").status = "retry"
    BY <1>1, <1>2, ReleasedRow
  <1>4. /\ WellFormed(row) /\ row \in JobRow
        /\ row.status = "retry" /\ row.attempts = less
    BY <1>1, <1>3 DEF WellFormed, JobRow
  <1>5. /\ job' \in [Jobs -> JobRow]
        /\ \A x \in Jobs : job'[x] = IF x = j THEN row ELSE job[x]
    BY <1>1, <1>4 DEF BusyWrite, TypeOK
  <1>6. req' = req
    BY DEF BusyWrite
  <1> QED BY <1>1, <1>4, <1>5, <1>6 DEF TablesNow, Tables, OthersQuiet, QuietRow

(* Claiming, lapsing and waiting keep the job table well formed. *)
LEMMA ClaimEffect ==
  ASSUME TypeOK, TablesNow, NEW w \in Workers, NEW j \in Jobs, Claim(w, j)
  PROVE  /\ TablesNow' /\ \A x \in Jobs \ {j} : job'[x] = job[x]
         /\ job'[j].status = "collecting" /\ job'[j].owner = w /\ job'[j].lease = "live"
  <1> DEFINE row == [status |-> "collecting", attempts |-> job[j].attempts + 1,
                     owner |-> w, lease |-> "live", due |-> job[j].due]
  <1>1. job[j].attempts + 1 \in 0..MaxAttempts /\ job[j].due \in BOOLEAN
    BY AttemptsAssumption DEF Claim, Claimable, TypeOK, JobRow
  <1>2. row \in JobRow /\ row.status = "collecting" /\ row.owner = w /\ row.lease = "live"
    BY <1>1 DEF JobRow, JobStatus, Live
  <1>3. WellFormed(row)
    BY <1>2, NoneAssumption DEF WellFormed
  <1>4. /\ job' \in [Jobs -> JobRow]
        /\ \A x \in Jobs : job'[x] = IF x = j THEN row ELSE job[x]
    BY <1>2 DEF Claim, TypeOK
  <1>5. req' = req
    BY DEF Claim
  <1> QED BY <1>2, <1>3, <1>4, <1>5 DEF TablesNow, Tables

LEMMA TimeEffect ==
  ASSUME TypeOK, TablesNow, NEW j \in Jobs, LeaseLapses(j) \/ BackoffElapses(j)
  PROVE  /\ TablesNow' /\ \A x \in Jobs \ {j} : job'[x] = job[x]
         /\ job'[j].status = job[j].status /\ job'[j].owner = job[j].owner
         /\ job'[j].attempts = job[j].attempts
         /\ BackoffElapses(j) => job'[j].lease = job[j].lease
  <1>1. WellFormed(job[j]) /\ job[j] \in JobRow
    BY DEF TablesNow, Tables
  <1>2. CASE LeaseLapses(j)
    <2> DEFINE row == [job[j] EXCEPT !.lease = "lapsed"]
    <2>1. WellFormed(row) /\ row \in JobRow /\ row.status = job[j].status
          /\ row.owner = job[j].owner /\ row.attempts = job[j].attempts
      BY <1>1, <1>2 DEF WellFormed, JobRow, LeaseLapses
    <2>2. \A x \in Jobs : job'[x] = IF x = j THEN row ELSE job[x]
      BY <1>2 DEF LeaseLapses, TypeOK
    <2>3. job' \in [Jobs -> JobRow] /\ req' = req
      BY <1>2, <2>1 DEF LeaseLapses, TypeOK
    <2>4. ~BackoffElapses(j) \/ job'[j].lease = job[j].lease
      <3>1. job[j].lease = "live" /\ job'[j].lease = "lapsed"
        BY <1>1, <1>2, <2>2 DEF LeaseLapses, JobRow
      <3>2. ASSUME BackoffElapses(j) PROVE FALSE
        <4>1. job'[j] = [job[j] EXCEPT !.due = TRUE]
          BY <3>2 DEF BackoffElapses, TypeOK
        <4>2. job'[j].lease = job[j].lease
          BY <1>1, <4>1 DEF JobRow
        <4> QED BY <3>1, <4>2
      <3> QED BY <3>2
    <2> QED BY <2>1, <2>2, <2>3, <2>4 DEF TablesNow, Tables
  <1>3. CASE BackoffElapses(j)
    <2> DEFINE row == [job[j] EXCEPT !.due = TRUE]
    <2>1. WellFormed(row) /\ row \in JobRow /\ row.status = job[j].status
          /\ row.owner = job[j].owner /\ row.attempts = job[j].attempts
          /\ row.lease = job[j].lease
      BY <1>1 DEF WellFormed, JobRow
    <2>2. \A x \in Jobs : job'[x] = IF x = j THEN row ELSE job[x]
      BY <1>3 DEF BackoffElapses, TypeOK
    <2>3. job' \in [Jobs -> JobRow] /\ req' = req
      BY <1>3, <2>1 DEF BackoffElapses, TypeOK
    <2> QED BY <2>1, <2>2, <2>3 DEF TablesNow, Tables
  <1> QED BY <1>2, <1>3

-----------------------------------------------------------------------------
(* Types and leases.                                                       *)

LEMMA TablesMeanLeases ==
  TypeOK => (TablesNow <=> LeaseDiscipline)
  BY DEF TypeOK, TablesNow, Tables, WellFormed, LeaseDiscipline

LEMMA TypeStep ==
  ASSUME TypeOK, TablesNow, [Next]_vars
  PROVE  TypeOK' /\ TablesNow'
  <1>0. CASE BindRca
    <2>1. bound' \in 0..MaxVersion /\ snapshot' \subseteq Jobs
      BY <1>0, VersionAssumption DEF BindRca, TypeOK
    <2> QED BY <1>0, <2>1 DEF BindRca, TypeOK, TablesNow, Tables
  <1>1. ASSUME NEW v \in Versions, PersistRca(v) PROVE TypeOK' /\ TablesNow'
    <2>1. TablesNow'
      BY <1>1, PersistRcaQuiet
    <2> QED BY <1>1, <2>1 DEF PersistRca, TypeOK, TablesNow, Tables
  <1>2. CASE Reconcile
    <2>1. TablesNow'
      BY <1>2, ReconcileQuiet
    <2> QED BY <1>2, <2>1 DEF Reconcile, TypeOK, TablesNow, Tables
  <1>3. ASSUME NEW w \in Workers, WorkerStep(w) \/ Crash(w)
        PROVE  TypeOK' /\ TablesNow'
    <2> DEFINE j == worker[w].job
    <2>0. [worker EXCEPT ![w] = Idle] \in [Workers -> WorkerRow]
      BY AttemptsAssumption DEF TypeOK, Idle, WorkerRow
    <2>1. ASSUME NEW x \in Jobs, Claim(w, x) PROVE TypeOK' /\ TablesNow'
      <3>1. TablesNow'
        BY <2>1, ClaimEffect
      <3>2. [pc |-> "collecting", job |-> x, attempts |-> 0] \in WorkerRow
        BY AttemptsAssumption DEF WorkerRow
      <3> QED BY <2>1, <3>1, <3>2 DEF Claim, TypeOK, TablesNow, Tables
    <2>2. CASE Accept(w)
      <3>1. TablesNow' /\ j \in Jobs
        BY <2>2, AcceptEffect DEF Accept, TypeOK
      <3> QED BY <2>0, <2>2, <3>1 DEF Accept, HandOff, TypeOK, TablesNow, Tables, Idle
    <2>3. CASE Reject(w)
      <3>1. TablesNow'
        BY <2>3, RejectEffect
      <3> QED BY <2>0, <2>3, <3>1 DEF Reject, TypeOK, TablesNow, Tables, Idle
    <2>4. CASE LostLease(w) \/ Crash(w)
      BY <2>0, <2>4 DEF LostLease, Crash, TypeOK, TablesNow, Tables, Idle
    <2>5. CASE ErrorRead(w)
      <3>1. job[j].attempts \in 0..MaxAttempts
        BY <2>5 DEF ErrorRead, TypeOK, JobRow
      <3>2. PICK kind \in {"failed", "busy"} :
               worker' = [worker EXCEPT ![w] = [pc |-> kind, job |-> j,
                                                attempts |-> job[j].attempts]]
        BY <2>5 DEF ErrorRead
      <3>3. j \in Jobs
        BY <2>5 DEF ErrorRead, TypeOK
      <3>4. [pc |-> kind, job |-> j, attempts |-> job[j].attempts] \in WorkerRow
        BY <3>1, <3>3 DEF WorkerRow
      <3> QED BY <2>5, <3>2, <3>3, <3>4 DEF ErrorRead, TypeOK, TablesNow, Tables
    <2>6. CASE ErrorWrite(w)
      <3>1. TablesNow'
        BY <2>6, ErrorWriteEffect
      <3> QED BY <2>0, <2>6, <3>1 DEF ErrorWrite, TypeOK, TablesNow, Tables, Idle
    <2>7. CASE BusyWrite(w)
      <3>1. TablesNow'
        BY <2>7, BusyWriteEffect
      <3> QED BY <2>0, <2>7, <3>1 DEF BusyWrite, TypeOK, TablesNow, Tables, Idle
    <2> QED BY <1>3, <2>1, <2>2, <2>3, <2>4, <2>5, <2>6, <2>7 DEF WorkerStep
  <1>4. ASSUME NEW j \in Jobs, LeaseLapses(j) \/ BackoffElapses(j)
        PROVE  TypeOK' /\ TablesNow'
    <2>1. TablesNow'
      BY <1>4, TimeEffect
    <2> QED BY <1>4, <2>1 DEF LeaseLapses, BackoffElapses, TypeOK, TablesNow, Tables
  <1>5. CASE CloseIncident
    BY <1>5 DEF CloseIncident, TypeOK, TablesNow, Tables
  <1>6. CASE Maintain
    <2>1. TablesNow'
      BY <1>6, MaintainQuiet
    <2> QED BY <1>6, <2>1 DEF Maintain, TypeOK, TablesNow, Tables
  <1>7. CASE RetireClosed
    <2>1. TablesNow'
      BY <1>7, RetireClosedQuiet
    <2> QED BY <1>7, <2>1 DEF RetireClosed, TypeOK, TablesNow, Tables
  <1>8. CASE UNCHANGED vars
    BY <1>8 DEF vars, TypeOK, TablesNow, Tables
  <1>9. CASE Recollect
    BY <1>9 DEF Recollect, TypeOK, TablesNow, Tables
  <1> QED BY <1>0, <1>1, <1>2, <1>3, <1>4, <1>5, <1>6, <1>7, <1>8, <1>9 DEF Next

LEMMA TypeInit == Init => TypeOK /\ TablesNow
  BY VersionAssumption, AttemptsAssumption
  DEF Init, TypeOK, TablesNow, Tables, WellFormed, NoJob, Idle, JobRow, ReqRow,
      WorkerRow, JobStatus, ReqStatus

(* Every reachable state is typed, and a job row carries an owner and a lease *)
(* exactly while it is collecting, even if leases lapse under running workers. *)
THEOREM TypesAndLeases == Spec => [](TypeOK /\ LeaseDiscipline)
  <1>1. Init => TypeOK /\ TablesNow
    BY TypeInit
  <1>2. TypeOK /\ TablesNow /\ [Next]_vars => (TypeOK /\ TablesNow)'
    BY TypeStep
  <1>3. TypeOK /\ TablesNow => LeaseDiscipline
    BY TablesMeanLeases
  <1> QED BY <1>1, <1>2, <1>3, PTL DEF Spec

-----------------------------------------------------------------------------
(* What each kind of step does, for the invariants below.                  *)

\* Steps that are no worker's and do not pass time.
PlanStep ==
  \/ BindRca \/ (\E v \in Versions : PersistRca(v)) \/ Recollect
  \/ Reconcile \/ CloseIncident \/ Maintain \/ RetireClosed
EndStep(w) == Accept(w) \/ Reject(w) \/ ErrorWrite(w) \/ BusyWrite(w)

LEMMA PlanEffect ==
  ASSUME TypeOK, TablesNow, PlanStep
  PROVE  /\ Quiet(job, job') /\ UNCHANGED <<worker, ledger, outbox>>
         /\ snapshot' \subseteq snapshot \cup ledger
  <1>0. CASE BindRca \/ Recollect
    BY <1>0, QuietCompose DEF BindRca, Recollect
  <1>1. ASSUME NEW v \in Versions, PersistRca(v)
        PROVE  Quiet(job, job') /\ UNCHANGED <<worker, ledger, snapshot, outbox>>
    BY <1>1, PersistRcaQuiet DEF PersistRca
  <1>2. CASE Reconcile
    BY <1>2, ReconcileQuiet DEF Reconcile
  <1>3. CASE CloseIncident
    BY <1>3, QuietCompose DEF CloseIncident
  <1>4. CASE Maintain
    BY <1>4, MaintainQuiet DEF Maintain
  <1>5. CASE RetireClosed
    BY <1>5, RetireClosedQuiet DEF RetireClosed
  <1> QED BY <1>0, <1>1, <1>2, <1>3, <1>4, <1>5 DEF PlanStep

LEMMA EndEffect ==
  ASSUME TypeOK, TablesNow, NEW w \in Workers, EndStep(w)
  PROVE  /\ worker[w].pc # "idle" /\ worker[w].job \in Jobs
         /\ worker' = [worker EXCEPT ![w] = Idle]
         /\ OthersQuiet(w)
         /\ job'[worker[w].job].status \in {"collected", "retry", "dead_letter"}
         /\ job'[worker[w].job].status = "collected" => Accept(w)
  <1>1. worker[w].pc # "idle" /\ worker' = [worker EXCEPT ![w] = Idle]
    BY DEF EndStep, Accept, Reject, ErrorWrite, BusyWrite
  <1>2. worker[w].job \in Jobs
    BY <1>1 DEF TypeOK
  <1>3. CASE Accept(w)
    BY <1>1, <1>2, <1>3, AcceptEffect
  <1>4. CASE Reject(w)
    BY <1>1, <1>2, <1>4, RejectEffect
  <1>5. CASE ErrorWrite(w)
    BY <1>1, <1>2, <1>5, ErrorWriteEffect
  <1>6. CASE BusyWrite(w)
    BY <1>1, <1>2, <1>6, BusyWriteEffect
  <1> QED BY <1>3, <1>4, <1>5, <1>6 DEF EndStep

(* The kinds of steps there are. *)
LEMMA StepKinds ==
  ASSUME [Next]_vars
  PROVE  \/ PlanStep
         \/ \E w \in Workers : EndStep(w)
         \/ \E w \in Workers : LostLease(w) \/ Crash(w) \/ ErrorRead(w)
         \/ \E w \in Workers, j \in Jobs : Claim(w, j)
         \/ \E j \in Jobs : LeaseLapses(j) \/ BackoffElapses(j)
         \/ UNCHANGED vars
  BY DEF Next, WorkerStep, PlanStep, EndStep

-----------------------------------------------------------------------------
(* Collected evidence reaches RCA, even when leases lapse under workers.   *)

LEMMA HandOffStep ==
  ASSUME TypeOK, TablesNow, CollectedIsHandedOff, [Next]_vars
  PROVE  CollectedIsHandedOff'
  <1> DEFINE NoneNew == \A j \in Jobs : job'[j].status = "collected"
                                          => job[j].status = "collected"
             Same == /\ UNCHANGED <<ledger, outbox>>
                     /\ snapshot' \subseteq snapshot \cup ledger
  <1>1. NoneNew /\ Same => CollectedIsHandedOff'
    BY DEF CollectedIsHandedOff
  <1>2. CASE PlanStep
    BY <1>1, <1>2, PlanEffect DEF Quiet, QuietRow
  <1>3. ASSUME NEW w \in Workers, EndStep(w) PROVE CollectedIsHandedOff'
    <2>1. CASE Accept(w)
      <3> DEFINE j == worker[w].job
      <3>1. HandOff(j)
        BY <2>1 DEF Accept
      <3>2. \A x \in Jobs \ {j} : job'[x].status = "collected" => job[x].status = "collected"
        BY <2>1, AcceptEffect DEF OthersQuiet, QuietRow
      <3>3. /\ ledger' = ledger \cup {j}
            /\ snapshot' \subseteq snapshot \cup {j}
            /\ UNION outbox' = (UNION outbox) \cup snapshot \cup {j}
        BY <3>1 DEF HandOff
      <3> QED BY <3>2, <3>3 DEF CollectedIsHandedOff
    <2>2. CASE ~Accept(w)
      <3>1. NoneNew
        BY <1>3, <2>2, EndEffect DEF OthersQuiet, QuietRow
      <3>2. Same
        BY <1>3, <2>2 DEF EndStep, Reject, ErrorWrite, BusyWrite
      <3> QED BY <1>1, <3>1, <3>2
    <2> QED BY <2>1, <2>2
  <1>4. ASSUME NEW w \in Workers, LostLease(w) \/ Crash(w) \/ ErrorRead(w)
        PROVE  CollectedIsHandedOff'
    BY <1>1, <1>4 DEF LostLease, Crash, ErrorRead
  <1>5. ASSUME NEW w \in Workers, NEW j \in Jobs, Claim(w, j) PROVE CollectedIsHandedOff'
    <2>1. NoneNew
      BY <1>5, ClaimEffect
    <2> QED BY <1>1, <1>5, <2>1 DEF Claim
  <1>6. ASSUME NEW j \in Jobs, LeaseLapses(j) \/ BackoffElapses(j)
        PROVE  CollectedIsHandedOff'
    <2>1. NoneNew
      BY <1>6, TimeEffect
    <2> QED BY <1>1, <1>6, <2>1 DEF LeaseLapses, BackoffElapses
  <1>7. CASE UNCHANGED vars
    BY <1>1, <1>7 DEF vars
  <1> QED BY <1>2, <1>3, <1>4, <1>5, <1>6, <1>7, StepKinds

(* A collected job's evidence is in the ledger and an announced snapshot      *)
(* cites it, and no snapshot cites what the ledger does not hold: with any    *)
(* number of workers, under crashes, lapsing leases, new collections and      *)
(* superseding RCA versions.                                                  *)
THEOREM HandedOff == Spec => []CollectedIsHandedOff
  <1>1. Init => TypeOK /\ TablesNow /\ CollectedIsHandedOff
    BY TypeInit DEF Init, CollectedIsHandedOff, NoJob
  <1>2. TypeOK /\ TablesNow /\ CollectedIsHandedOff /\ [Next]_vars
        => (TypeOK /\ TablesNow /\ CollectedIsHandedOff)'
    BY TypeStep, HandOffStep
  <1> QED BY <1>1, <1>2, PTL DEF Spec

-----------------------------------------------------------------------------
(* When a worker cannot outlive its lease: retry budgets, final statuses and *)
(* live leases.  Neither half of the invariant is inductive without the      *)
(* other: a worker's late write keeps the budget only if the row is still    *)
(* the one it read, and it is so only while its lease is live.               *)

HoldsLease(w) ==
  /\ Owns(w, worker[w].job)
  /\ job[worker[w].job].lease = "live"
  /\ worker[w].pc # "collecting" => worker[w].attempts = job[worker[w].job].attempts

HoldersInv ==
  /\ TypeOK
  /\ TablesNow
  /\ PendingHasBudget
  /\ RunningHoldsLease

LEMMA HoldersMeaning ==
  ASSUME TypeOK, ~PausesPossible
  PROVE  RunningHoldsLease <=> \A w \in Workers : worker[w].pc # "idle" => HoldsLease(w)
  BY DEF TypeOK, RunningHoldsLease, HoldsLease

(* A quiet change of a leased row, and a step of another worker, leave the holder alone. *)
LEMMA HolderUntouched ==
  ASSUME NEW v \in Workers, HoldsLease(v), worker'[v] = worker[v],
         QuietRow(job[worker[v].job], job'[worker[v].job])
  PROVE  HoldsLease(v)'
  BY DEF HoldsLease, Owns, QuietRow

(* Two running workers never hold the same job. *)
LEMMA HoldersDiffer ==
  ASSUME NEW v \in Workers, NEW w \in Workers, v # w, HoldsLease(v), HoldsLease(w)
  PROVE  worker[v].job # worker[w].job
  BY DEF HoldsLease, Owns

(* A step that ends a worker's turn leaves its row queued only with budget left. *)
LEMMA EndBudget ==
  ASSUME HoldersInv, ~PausesPossible, NEW w \in Workers, EndStep(w)
  PROVE  \A j \in Jobs : Budgeted(job'[j])
  <1> DEFINE own == worker[w].job
  <1>1. TypeOK /\ TablesNow /\ HoldsLease(w)
    BY EndEffect, HoldersMeaning DEF HoldersInv
  <1>2. \A j \in Jobs \ {own} : Budgeted(job'[j])
    BY <1>1, EndEffect DEF OthersQuiet, QuietRow, HoldersInv, PendingHasBudget, Budgeted
  <1>3. Budgeted(job'[own])
    <2>1. CASE Accept(w)
      BY <1>1, <2>1, AcceptEffect DEF Budgeted, Pending
    <2>2. CASE Reject(w)
      BY <1>1, <2>2, RejectEffect DEF Budgeted, Pending
    <2>3. CASE ErrorWrite(w)
      <3>1. worker[w].attempts = job[own].attempts
        BY <1>1, <2>3 DEF ErrorWrite, HoldsLease
      <3> QED BY <1>1, <2>3, <3>1, ErrorWriteEffect DEF Budgeted, Pending
    <2>4. CASE BusyWrite(w)
      BY <1>1, <2>4, BusyWriteEffect DEF Budgeted
    <2> QED BY <2>1, <2>2, <2>3, <2>4 DEF EndStep
  <1> QED BY <1>2, <1>3

LEMMA BudgetStep ==
  ASSUME HoldersInv, ~PausesPossible, [Next]_vars
  PROVE  PendingHasBudget'
  <1>0. TypeOK /\ TablesNow /\ \A j \in Jobs : Budgeted(job[j])
    BY DEF HoldersInv, PendingHasBudget, Budgeted
  <1> SUFFICES \A j \in Jobs : Budgeted(job'[j])
    BY DEF PendingHasBudget, Budgeted
  <1>1. CASE PlanStep
    BY <1>0, <1>1, PlanEffect DEF Quiet, QuietRow
  <1>2. ASSUME NEW w \in Workers, EndStep(w) PROVE \A j \in Jobs : Budgeted(job'[j])
    BY <1>2, EndBudget
  <1>3. ASSUME NEW w \in Workers, LostLease(w) \/ Crash(w) \/ ErrorRead(w)
        PROVE  \A j \in Jobs : Budgeted(job'[j])
    BY <1>0, <1>3 DEF LostLease, Crash, ErrorRead
  <1>4. ASSUME NEW w \in Workers, NEW x \in Jobs, Claim(w, x)
        PROVE  \A j \in Jobs : Budgeted(job'[j])
    <2>1. Budgeted(job'[x])
      BY <1>0, <1>4, ClaimEffect DEF Budgeted, Pending
    <2> QED BY <1>0, <1>4, <2>1, ClaimEffect
  <1>5. ASSUME NEW x \in Jobs, LeaseLapses(x) \/ BackoffElapses(x)
        PROVE  \A j \in Jobs : Budgeted(job'[j])
    <2>1. Budgeted(job'[x])
      BY <1>0, <1>5, TimeEffect DEF Budgeted
    <2> QED BY <1>0, <1>5, <2>1, TimeEffect
  <1>6. CASE UNCHANGED vars
    BY <1>0, <1>6 DEF vars
  <1> QED BY <1>1, <1>2, <1>3, <1>4, <1>5, <1>6, StepKinds

LEMMA HolderStep ==
  ASSUME HoldersInv, ~PausesPossible, [Next]_vars
  PROVE  RunningHoldsLease'
  <1>0. /\ TypeOK /\ TablesNow /\ TypeOK'
        /\ \A v \in Workers : worker[v].pc # "idle" => HoldsLease(v) /\ worker[v].job \in Jobs
    BY TypeStep, HoldersMeaning DEF HoldersInv, TypeOK
  <1> SUFFICES ASSUME NEW v \in Workers, worker'[v].pc # "idle"
               PROVE  HoldsLease(v)'
    BY <1>0 DEF TypeOK, RunningHoldsLease, HoldsLease
  <1> DEFINE own == worker[v].job
  <1>1. CASE PlanStep
    <2>1. worker' = worker /\ Quiet(job, job')
      BY <1>0, <1>1, PlanEffect
    <2> QED BY <1>0, <2>1, HolderUntouched DEF Quiet
  <1>2. ASSUME NEW w \in Workers, EndStep(w) PROVE HoldsLease(v)'
    <2>1. worker' = [worker EXCEPT ![w] = Idle] /\ OthersQuiet(w) /\ worker[w].pc # "idle"
      BY <1>0, <1>2, EndEffect
    <2>2. v # w
      BY <2>1, <1>0 DEF Idle, TypeOK
    <2>3. worker'[v] = worker[v] /\ worker[v].pc # "idle"
      BY <2>1, <2>2, <1>0 DEF TypeOK
    <2>4. own # worker[w].job /\ own \in Jobs
      BY <1>0, <2>1, <2>2, <2>3, HoldersDiffer
    <2> QED BY <1>0, <2>1, <2>3, <2>4, HolderUntouched DEF OthersQuiet
  <1>3. ASSUME NEW w \in Workers, LostLease(w) \/ Crash(w) PROVE HoldsLease(v)'
    <2>1. worker' = [worker EXCEPT ![w] = Idle] /\ job' = job
      BY <1>3 DEF LostLease, Crash
    <2>2. worker'[v] = worker[v]
      BY <2>1, <1>0 DEF Idle, TypeOK
    <2> QED BY <1>0, <2>1, <2>2 DEF HoldsLease, Owns
  <1>4. ASSUME NEW w \in Workers, ErrorRead(w) PROVE HoldsLease(v)'
    <2>1. job' = job
      BY <1>4 DEF ErrorRead
    <2>2. CASE v # w
      <3>1. worker'[v] = worker[v]
        BY <1>0, <1>4, <2>2 DEF ErrorRead, TypeOK
      <3> QED BY <1>0, <2>1, <3>1 DEF HoldsLease, Owns
    <2>3. CASE v = w
      <3>1. worker'[v].job = own /\ worker'[v].attempts = job[own].attempts
            /\ worker[v].pc # "idle"
        BY <1>0, <1>4, <2>3 DEF ErrorRead, TypeOK
      <3> QED BY <1>0, <2>1, <3>1 DEF HoldsLease, Owns
    <2> QED BY <2>2, <2>3
  <1>5. ASSUME NEW w \in Workers, NEW x \in Jobs, Claim(w, x) PROVE HoldsLease(v)'
    <2>1. /\ job'[x].status = "collecting" /\ job'[x].owner = w /\ job'[x].lease = "live"
          /\ \A y \in Jobs \ {x} : job'[y] = job[y]
      BY <1>0, <1>5, ClaimEffect
    <2>2. CASE v = w
      <3>1. worker'[v] = [pc |-> "collecting", job |-> x, attempts |-> 0]
        BY <1>0, <1>5, <2>2 DEF Claim, TypeOK
      <3> QED BY <2>1, <2>2, <3>1 DEF HoldsLease, Owns
    <2>3. CASE v # w
      <3>1. worker'[v] = worker[v]
        BY <1>0, <1>5, <2>3 DEF Claim, TypeOK
      <3>2. own # x
        BY <1>0, <1>5, <3>1 DEF Claim, Claimable, Unleased, HoldsLease, Owns, Pending
      <3> QED BY <1>0, <2>1, <3>1, <3>2 DEF HoldsLease, Owns
    <2> QED BY <2>2, <2>3
  <1>6. ASSUME NEW x \in Jobs, LeaseLapses(x) PROVE HoldsLease(v)'
    <2>1. worker' = worker /\ \A y \in Jobs \ {x} : job'[y] = job[y]
      BY <1>0, <1>6, TimeEffect DEF LeaseLapses
    <2>2. own # x
      BY <1>0, <1>6, <2>1 DEF LeaseLapses, Running, HoldsLease, Owns
    <2> QED BY <1>0, <2>1, <2>2 DEF HoldsLease, Owns
  <1>7. ASSUME NEW x \in Jobs, BackoffElapses(x) PROVE HoldsLease(v)'
    <2>1. worker' = worker
      BY <1>7 DEF BackoffElapses
    <2>2. /\ job'[own].status = job[own].status /\ job'[own].owner = job[own].owner
          /\ job'[own].lease = job[own].lease /\ job'[own].attempts = job[own].attempts
      BY <1>0, <1>7, <2>1, TimeEffect
    <2> QED BY <1>0, <2>1, <2>2 DEF HoldsLease, Owns
  <1>8. CASE UNCHANGED vars
    BY <1>0, <1>8 DEF vars, HoldsLease, Owns
  <1> QED BY <1>1, <1>2, <1>3, <1>4, <1>5, <1>6, <1>7, <1>8, StepKinds

LEMMA HoldersAlways == ~PausesPossible => (Spec => []HoldersInv)
  <1> SUFFICES ASSUME ~PausesPossible PROVE Spec => []HoldersInv
    OBVIOUS
  <1>1. Init => HoldersInv
    <2>1. Init => PendingHasBudget /\ RunningHoldsLease
      BY DEF Init, PendingHasBudget, RunningHoldsLease, NoJob, Idle, Pending
    <2> QED BY <2>1, TypeInit DEF HoldersInv
  <1>2. HoldersInv /\ [Next]_vars => HoldersInv'
    BY TypeStep, BudgetStep, HolderStep DEF HoldersInv
  <1> QED BY <1>1, <1>2, PTL DEF Spec

(* Without pauses no queued job has spent its retry budget: every queued job *)
(* can still be claimed, whatever RCA versions it was carried across.        *)
THEOREM QueuedJobsCanRun == ~PausesPossible => (Spec => []PendingHasBudget)
  <1>1. HoldersInv => PendingHasBudget
    BY DEF HoldersInv
  <1> QED BY <1>1, HoldersAlways, PTL

(* A running worker holds the live lease of its job, also between reading   *)
(* and writing in its error path.                                           *)
THEOREM RunningWorkersHoldLeases == Spec => []RunningHoldsLease
  <1>1. CASE PausesPossible
    <2>1. RunningHoldsLease
      BY <1>1 DEF RunningHoldsLease
    <2> QED BY <2>1, PTL
  <1>2. CASE ~PausesPossible
    <2>1. HoldersInv => RunningHoldsLease
      BY DEF HoldersInv
    <2> QED BY <1>2, <2>1, HoldersAlways, PTL
  <1> QED BY <1>1, <1>2

-----------------------------------------------------------------------------
(* What a step may never do, from the same invariant.                      *)

FinalStays == \A j \in Jobs : job[j].status \in Final => job'[j].status = job[j].status

LeaseStays ==
  \A j \in Jobs : \A w \in Workers :
    (job[j].lease = "live" /\ job[j].owner = w /\ job'[j].owner # w)
    => Running(w, j) /\ worker'[w] = Idle

LEMMA FinalStep ==
  ASSUME HoldersInv, ~PausesPossible, [Next]_vars
  PROVE  FinalStays
  <1>0. TypeOK /\ TablesNow
    BY DEF HoldersInv
  <1>1. CASE PlanStep
    BY <1>0, <1>1, PlanEffect DEF Quiet, QuietRow, FinalStays
  <1>2. ASSUME NEW w \in Workers, EndStep(w) PROVE FinalStays
    <2>1. OthersQuiet(w) /\ HoldsLease(w)
      BY <1>0, <1>2, EndEffect, HoldersMeaning DEF HoldersInv
    <2>2. job[worker[w].job].status \notin Final
      BY <2>1 DEF HoldsLease, Owns, Final
    <2> QED BY <2>1, <2>2 DEF OthersQuiet, QuietRow, FinalStays
  <1>3. ASSUME NEW w \in Workers, LostLease(w) \/ Crash(w) \/ ErrorRead(w) PROVE FinalStays
    BY <1>3 DEF LostLease, Crash, ErrorRead, FinalStays
  <1>4. ASSUME NEW w \in Workers, NEW x \in Jobs, Claim(w, x) PROVE FinalStays
    <2>1. job[x].status \notin Final
      BY <1>4 DEF Claim, Claimable, Unleased, Pending, Final
    <2> QED BY <1>0, <1>4, <2>1, ClaimEffect DEF FinalStays
  <1>5. ASSUME NEW x \in Jobs, LeaseLapses(x) \/ BackoffElapses(x) PROVE FinalStays
    BY <1>0, <1>5, TimeEffect DEF FinalStays
  <1>6. CASE UNCHANGED vars
    BY <1>6 DEF vars, FinalStays
  <1> QED BY <1>1, <1>2, <1>3, <1>4, <1>5, <1>6, StepKinds

LEMMA LeaseStep ==
  ASSUME HoldersInv, ~PausesPossible, [Next]_vars
  PROVE  LeaseStays
  <1>0. TypeOK /\ TablesNow
    BY DEF HoldersInv
  <1>1. CASE PlanStep
    BY <1>0, <1>1, PlanEffect DEF Quiet, QuietRow, LeaseStays
  <1>2. ASSUME NEW v \in Workers, EndStep(v) PROVE LeaseStays
    <2> DEFINE own == worker[v].job
    <2>1. /\ OthersQuiet(v) /\ HoldsLease(v)
          /\ worker[v].pc # "idle" /\ worker' = [worker EXCEPT ![v] = Idle]
      BY <1>0, <1>2, EndEffect, HoldersMeaning DEF HoldersInv
    <2>2. job[own].owner = v /\ Running(v, own) /\ worker'[v] = Idle
      BY <1>0, <2>1 DEF HoldsLease, Owns, Running, TypeOK
    <2> QED BY <2>1, <2>2 DEF OthersQuiet, QuietRow, LeaseStays
  <1>3. ASSUME NEW w \in Workers, LostLease(w) \/ Crash(w) \/ ErrorRead(w) PROVE LeaseStays
    BY <1>3 DEF LostLease, Crash, ErrorRead, LeaseStays
  <1>4. ASSUME NEW w \in Workers, NEW x \in Jobs, Claim(w, x) PROVE LeaseStays
    <2>1. job[x].lease # "live"
      <3>1. WellFormed(job[x])
        BY <1>0 DEF TablesNow, Tables
      <3> QED BY <1>4, <3>1 DEF Claim, Claimable, Unleased, Pending, WellFormed
    <2> QED BY <1>0, <1>4, <2>1, ClaimEffect DEF LeaseStays
  <1>5. ASSUME NEW x \in Jobs, LeaseLapses(x) \/ BackoffElapses(x) PROVE LeaseStays
    BY <1>0, <1>5, TimeEffect DEF LeaseStays
  <1>6. CASE UNCHANGED vars
    BY <1>6 DEF vars, LeaseStays
  <1> QED BY <1>1, <1>2, <1>3, <1>4, <1>5, <1>6, StepKinds

(* Without pauses finished work stays finished: no late worker, scheduler or *)
(* repair puts a collected, cancelled or dead-lettered job back in the queue. *)
THEOREM FinishedStaysFinished == ~PausesPossible => (Spec => FinalJobsStay)
  <1> SUFFICES ASSUME ~PausesPossible PROVE Spec => FinalJobsStay
    OBVIOUS
  <1>1. HoldersInv /\ [Next]_vars => [FinalStays]_vars
    BY FinalStep
  <1> QED BY <1>1, HoldersAlways, PTL DEF Spec, FinalJobsStay, FinalStays

(* Without pauses a live lease ends only by its holder's own step or by lapsing. *)
THEOREM LeasesAreRespected == ~PausesPossible => (Spec => LiveLeaseRespected)
  <1> SUFFICES ASSUME ~PausesPossible PROVE Spec => LiveLeaseRespected
    OBVIOUS
  <1>1. HoldersInv /\ [Next]_vars => [LeaseStays]_vars
    BY LeaseStep
  <1> QED BY <1>1, HoldersAlways, PTL DEF Spec, LiveLeaseRespected, LeaseStays

-----------------------------------------------------------------------------
(* Types alone, and where evidence comes from.                             *)

(* Every reachable state is typed, whatever leases do.                     *)
THEOREM TypesHold == Spec => []TypeOK
  <1>1. TypeOK /\ LeaseDiscipline => TypeOK
    OBVIOUS
  <1> QED BY <1>1, TypesAndLeases, PTL

FromHolder ==
  \A j \in ledger' \ ledger : \E w \in Workers :
    /\ Running(w, j) /\ job[j].owner = w
    /\ job[j].status = "collecting" /\ job[j].lease # "none"

LEMMA FromHolderStep ==
  ASSUME TypeOK, TablesNow, [Next]_vars
  PROVE  FromHolder
  <1>1. ledger' = ledger \/ \E w \in Workers : Accept(w)
    BY DEF Next, WorkerStep, vars, BindRca, PersistRca, Recollect, Reconcile, Claim, Reject, LostLease,
           ErrorRead, ErrorWrite, BusyWrite, Crash, LeaseLapses, BackoffElapses,
           CloseIncident, Maintain, RetireClosed
  <1>2. ASSUME NEW w \in Workers, Accept(w) PROVE FromHolder
    <2> DEFINE j == worker[w].job
    <2>1. j \in Jobs /\ Owns(w, j) /\ ledger' = ledger \cup {j} /\ worker[w].pc = "collecting"
      BY <1>2 DEF Accept, HandOff, TypeOK
    <2>2. WellFormed(job[j])
      BY <2>1 DEF TablesNow, Tables
    <2> QED BY <2>1, <2>2 DEF FromHolder, Owns, Running, WellFormed
  <1> QED BY <1>1, <1>2 DEF FromHolder

(* A late result of a lost claim never reaches the ledger: what enters it is  *)
(* the job a running worker owns at that moment, also when leases lapse under *)
(* running workers and jobs are claimed again meanwhile.                      *)
THEOREM OnlyHoldersAddEvidence == Spec => EvidenceFromHolder
  <1>1. TypeOK /\ TablesNow /\ [Next]_vars => (TypeOK /\ TablesNow)'
    BY TypeStep
  <1>2. TypeOK /\ TablesNow /\ [Next]_vars => [FromHolder]_vars
    BY FromHolderStep
  <1> QED BY <1>1, <1>2, TypeInit, PTL DEF Spec, EvidenceFromHolder, FromHolder

-----------------------------------------------------------------------------
(* Answers cite the ledger.  The property speaks of collected requirements;  *)
(* it is kept because every requirement, whatever its status, cites only     *)
(* records of the ledger that answer its own question.                       *)

CitesOwn(row, r, L) ==
  /\ row.evidence \subseteq L
  /\ \A j \in row.evidence : Precedes(ReqOf(j), r)
  /\ row.status = "collected" => row.evidence # {}

Cites(R, L) == \A r \in Reqs : CitesOwn(R[r], r, L)

(* A bounded set of numbers has a largest element: the least distance from  *)
(* the bound exists because the order of the natural numbers is well        *)
(* founded.                                                                 *)
LEMMA BoundedHasMax ==
  ASSUME NEW n \in Nat, NEW S \in SUBSET (0..n), S # {}
  PROVE  /\ Max(S) \in S
         /\ \A y \in S : Max(S) >= y
  <1> DEFINE R == {ss \in Nat \X Nat : ss[1] < ss[2]}
             T == {n - v : v \in S}
  <1>1. IsWellFoundedOn(R, Nat)
    BY NatLessThanWellFounded DEF OpToRel
  <1>2. \A v \in S : n - v \in Nat
    OBVIOUS
  <1>3. T \subseteq Nat /\ T # {}
    BY <1>2
  <1>4. PICK m \in T : \A y \in T : ~ (<<y, m>> \in R)
    <2> HIDE DEF R, T
    <2> QED BY <1>1, <1>3, WFMin
  <1>5. PICK x \in S : m = n - x
    BY <1>4
  <1>6. \A y \in S : x >= y
    <2> TAKE y \in S
    <2>1. n - y \in T
      OBVIOUS
    <2>2. ~(<<n - y, m>> \in R)
      BY <1>4, <2>1
    <2> QED BY <1>2, <1>5, <2>1, <2>2
  <1> QED BY <1>6 DEF Max

(* The newest equivalent of a requirement is no older than it.              *)
LEMMA LatestIsLater ==
  ASSUME NEW r \in Reqs
  PROVE  Precedes(r, LatestEquivalent(r)) /\ Precedes(r, r)
  <1> DEFINE S == {VersionOf(q) : q \in
                     {q \in Reqs : KeyOf(q) = KeyOf(r) /\ req[q].status # "absent"} \cup {r}}
  <1>1. \A q \in Reqs : VersionOf(q) \in Versions
    BY DEF Reqs, VersionOf
  <1>2. S \in SUBSET (0..MaxVersion) /\ VersionOf(r) \in S /\ MaxVersion \in Nat
    BY <1>1, VersionAssumption DEF Versions
  <1>3. Max(S) \in S /\ Max(S) >= VersionOf(r)
    BY <1>2, BoundedHasMax
  <1>4. LatestEquivalent(r) = <<KeyOf(r), Max(S)>>
    BY DEF LatestEquivalent
  <1> HIDE DEF S
  <1>5. Max(S) \in 0..MaxVersion /\ VersionOf(r) \in 0..MaxVersion
    BY <1>2, <1>3
  <1>6. KeyOf(LatestEquivalent(r)) = KeyOf(r) /\ VersionOf(LatestEquivalent(r)) = Max(S)
    BY <1>4 DEF KeyOf, VersionOf
  <1> QED BY <1>2, <1>3, <1>5, <1>6 DEF Precedes

(* Moving a requirement to an open or cancelled status keeps its citations. *)
LEMMA SetStatusCites ==
  ASSUME NEW R \in [Reqs -> ReqRow], NEW L, Cites(R, L), NEW x,
         NEW s, s # "collected"
  PROVE  Cites(SetStatus(R, x, s), L)
  <1> SUFFICES ASSUME NEW r \in Reqs PROVE CitesOwn(SetStatus(R, x, s)[r], r, L)
    BY DEF Cites
  <1>1. R[r] \in ReqRow /\ CitesOwn(R[r], r, L)
    BY DEF Cites
  <1>2. SetStatus(R, x, s)[r] = IF r = x THEN [R[r] EXCEPT !.status = s] ELSE R[r]
    BY DEF SetStatus
  <1> QED BY <1>1, <1>2 DEF CitesOwn, ReqRow

LEMMA ScheduleCites ==
  ASSUME NEW J, NEW R \in [Reqs -> ReqRow], NEW L, Cites(R, L), NEW r, NEW c,
         ScheduleOrBlock(J, R, r, c)
  PROVE  Cites(req', L)
  <1>1. \/ req' = R
        \/ \E s \in {"blocked", "scheduled"} : req' = SetStatus(R, r, s)
    BY DEF ScheduleOrBlock, Schedule, BlockTechnical
  <1> QED BY <1>1, SetStatusCites

LEMMA CitesStep ==
  ASSUME TypeOK, TablesNow, Cites(req, ledger), [Next]_vars
  PROVE  Cites(req', ledger')
  <1>0. req \in [Reqs -> ReqRow] /\ ledger \subseteq Jobs
    BY DEF TypeOK
  <1>1. CancelInapplicable(req) \in [Reqs -> ReqRow] /\ FromLedger \in [Reqs -> ReqRow]
    BY <1>0, ReqTables
  <1>2. Cites(CancelInapplicable(req), ledger)
    <2> SUFFICES ASSUME NEW r \in Reqs
                 PROVE  CitesOwn(CancelInapplicable(req)[r], r, ledger)
      BY DEF Cites
    <2>1. req[r] \in ReqRow /\ CitesOwn(req[r], r, ledger)
      BY <1>0 DEF Cites
    <2>2. \/ CancelInapplicable(req)[r] = req[r]
          \/ CancelInapplicable(req)[r] = [req[r] EXCEPT !.status = "cancelled"]
      BY DEF CancelInapplicable
    <2> QED BY <2>1, <2>2 DEF CitesOwn, ReqRow
  <1>3. Cites(FromLedger, ledger)
    BY <1>0, LatestIsLater DEF Cites, CitesOwn, FromLedger, Covered
  <1>4. \A R \in [Reqs -> ReqRow], r \in Reqs :
          Cites(R, ledger) => Cites(Identify(R, r), ledger)
    BY SetStatusCites DEF Identify
  <1>5. ASSUME NEW v \in Versions, PersistRca(v) PROVE Cites(req', ledger')
    <2>1. CASE req' = CancelInapplicable(req)
      BY <1>2, <1>5, <2>1 DEF PersistRca
    <2>2. CASE req' # CancelInapplicable(req)
      <3>1. PICK k \in Keys, c \in Connectors \cup {None} :
              LET r == <<k, v>>
                  R1 == Identify(CancelInapplicable(req), r)
              IN ScheduleOrBlock(RetireSuperseded(job, R1, bound), R1, r, c)
        BY <1>5, <2>2 DEF PersistRca
      <3> DEFINE r == <<k, v>>
                 R1 == Identify(CancelInapplicable(req), r)
      <3>2. r \in Reqs
        BY DEF Reqs
      <3>3. R1 \in [Reqs -> ReqRow] /\ Cites(R1, ledger)
        BY <1>0, <1>1, <1>2, <1>4, <3>2, ReqTables
      <3>4. ScheduleOrBlock(RetireSuperseded(job, R1, bound), R1, r, c)
        BY <3>1
      <3>5. Cites(req', ledger)
        <4> HIDE DEF R1, r
        <4> QED BY <3>3, <3>4, ScheduleCites
      <3> QED BY <1>5, <3>5 DEF PersistRca
    <2> QED BY <2>1, <2>2
  <1>6. CASE Reconcile
    <2>1. CASE req' = FromLedger
      BY <1>3, <1>6, <2>1 DEF Reconcile
    <2>2. CASE req' # FromLedger
      <3>1. PICK k \in Keys, c \in Connectors \cup {None} :
              LET r == <<k, bound>>
                  R1 == Identify(FromLedger, r)
              IN ScheduleOrBlock(RetireSuperseded(job, R1, bound), R1, r, c)
        BY <1>6, <2>2 DEF Reconcile
      <3> DEFINE r == <<k, bound>>
                 R1 == Identify(FromLedger, r)
      <3>2. r \in Reqs
        BY <1>6, VersionAssumption DEF Reconcile, TypeOK, Reqs, Versions
      <3>3. R1 \in [Reqs -> ReqRow] /\ Cites(R1, ledger)
        BY <1>0, <1>1, <1>3, <1>4, <3>2, ReqTables
      <3>4. ScheduleOrBlock(RetireSuperseded(job, R1, bound), R1, r, c)
        BY <3>1
      <3>5. Cites(req', ledger)
        <4> HIDE DEF R1, r
        <4> QED BY <3>3, <3>4, ScheduleCites
      <3> QED BY <1>6, <3>5 DEF Reconcile
    <2> QED BY <2>1, <2>2
  <1>7. ASSUME NEW w \in Workers, Accept(w) PROVE Cites(req', ledger')
    <2> DEFINE j == worker[w].job
               r == ReqOf(j)
               e == LatestEquivalent(r)
    <2>1. /\ req' = [req EXCEPT
                       ![e] = [status |-> "collected", evidence |-> @.evidence \cup {j}],
                       ![r] = [status |-> "collected", evidence |-> {j}]]
          /\ ledger' = ledger \cup {j}
      BY <1>7 DEF Accept, HandOff
    <2>2. Precedes(r, e) /\ Precedes(r, r)
      <3>1. j \in Jobs
        BY <1>7 DEF Accept, Owns, TypeOK, WorkerRow
      <3>2. r \in Reqs
        BY <3>1 DEF Jobs, ReqOf
      <3> QED BY <3>2, LatestIsLater
    <2> HIDE DEF e
    <2> SUFFICES ASSUME NEW q \in Reqs PROVE CitesOwn(req'[q], q, ledger \cup {j})
      BY <2>1 DEF Cites
    <2>3. CitesOwn(req[q], q, ledger)
      BY DEF Cites
    <2>4. req'[q] = IF q = r THEN [status |-> "collected", evidence |-> {j}]
                    ELSE IF q = e
                         THEN [status |-> "collected", evidence |-> req[q].evidence \cup {j}]
                         ELSE req[q]
      BY <1>0, <2>1
    <2>5. CASE q = r
      BY <2>2, <2>4, <2>5 DEF CitesOwn
    <2>6. CASE q # r /\ q = e
      BY <2>2, <2>3, <2>4, <2>6 DEF CitesOwn
    <2>7. CASE q # r /\ q # e
      BY <2>3, <2>4, <2>7 DEF CitesOwn
    <2> QED BY <2>5, <2>6, <2>7
  <1>8. ASSUME NEW w \in Workers, Reject(w) PROVE Cites(req', ledger')
    <2> DEFINE j == worker[w].job
               a == job[j].attempts
    <2>1. PICK limit \in {1, MaxAttempts} :
            LET J1 == FinishJob(job, j, a, limit)
                R1 == FinishReq(req, j, a, limit)
            IN IF a < limit THEN job' = J1 /\ req' = R1
               ELSE \E c \in (Connectors \ {ConnectorOf(j)}) \cup {None} :
                      ScheduleOrBlock(J1, R1, ReqOf(j), c)
      BY <1>8 DEF Reject
    <2> DEFINE J1 == FinishJob(job, j, a, limit)
               R1 == FinishReq(req, j, a, limit)
    <2>2. R1 \in [Reqs -> ReqRow] /\ Cites(R1, ledger)
      BY <1>0, SetStatusCites, SetStatusType DEF FinishReq, ReqStatus
    <2>3. Cites(req', ledger)
      <3>1. CASE a < limit
        BY <2>1, <2>2, <3>1
      <3>2. CASE ~(a < limit)
        <4>1. PICK c \in Connectors \cup {None} : ScheduleOrBlock(J1, R1, ReqOf(j), c)
          BY <2>1, <3>2
        <4> HIDE DEF J1, R1
        <4> QED BY <2>2, <4>1, ScheduleCites
      <3> QED BY <3>1, <3>2
    <2> QED BY <1>8, <2>3 DEF Reject
  <1>9. ASSUME NEW w \in Workers, ErrorWrite(w) PROVE Cites(req', ledger')
    BY <1>0, <1>9, SetStatusCites DEF ErrorWrite, FinishReq
  <1>10. CASE Maintain \/ RetireClosed
    <2> SUFFICES ASSUME NEW r \in Reqs PROVE CitesOwn(req'[r], r, ledger)
      BY <1>10 DEF Maintain, RetireClosed, Cites
    <2>1. req[r] \in ReqRow /\ CitesOwn(req[r], r, ledger)
      BY <1>0 DEF Cites
    <2>2. \/ req'[r] = req[r]
          \/ \E s \in {"blocked", "cancelled"} : req'[r] = [req[r] EXCEPT !.status = s]
      BY <1>10 DEF Maintain, RetireClosed
    <2> QED BY <2>1, <2>2 DEF CitesOwn, ReqRow
  <1>11. CASE UNCHANGED <<req, ledger>>
    BY <1>11
  <1>12. \/ (\E v \in Versions : PersistRca(v)) \/ Reconcile \/ Maintain \/ RetireClosed
         \/ \E w \in Workers : Accept(w) \/ Reject(w) \/ ErrorWrite(w)
         \/ UNCHANGED <<req, ledger>>
    BY DEF Next, WorkerStep, vars, Claim, LostLease, ErrorRead, BusyWrite, Crash,
           LeaseLapses, BackoffElapses, CloseIncident, BindRca, Recollect
  <1> QED BY <1>5, <1>6, <1>7, <1>8, <1>9, <1>10, <1>11, <1>12

(* A requirement shown as answered rests on at least one record of the ledger, *)
(* and on none that answers another question: for any keys, sources and        *)
(* workers, also when leases lapse under running workers.                      *)
THEOREM AnswersRestOnLedger == Spec => []AnswersCiteLedger
  <1>1. Init => Cites(req, ledger)
    BY DEF Init, Cites, CitesOwn
  <1>2. TypeOK /\ TablesNow /\ Cites(req, ledger) /\ [Next]_vars
        => (TypeOK /\ TablesNow /\ Cites(req, ledger))'
    BY TypeStep, CitesStep
  <1>3. Cites(req, ledger) => AnswersCiteLedger
    BY DEF Cites, CitesOwn, AnswersCiteLedger
  <1> QED BY <1>1, <1>2, <1>3, TypeInit, PTL DEF Spec

-----------------------------------------------------------------------------
(* Scheduled requirements have work.  The cutoff below which work is        *)
(* obsolete is a minimum of a maximum; the proof needs only what it cuts    *)
(* off, and that this never shrinks.                                        *)

\* Some requirement of a version above v has been raised.
RaisedAbove(R, v) == \E q \in Reqs : R[q].status # "absent" /\ VersionOf(q) > v

(* The largest version raised, or 0. *)
LEMMA LargestRaised ==
  ASSUME NEW R
  PROVE  LET S == {VersionOf(r) : r \in {q \in Reqs : R[q].status # "absent"}} \cup {0}
         IN Max(S) \in S /\ Max(S) \in 0..MaxVersion /\ \A y \in S : Max(S) >= y
  <1> DEFINE S == {VersionOf(r) : r \in {q \in Reqs : R[q].status # "absent"}} \cup {0}
  <1>1. \A q \in Reqs : VersionOf(q) \in 1..MaxVersion
    BY DEF Reqs, Versions, VersionOf
  <1>2. S \in SUBSET (0..MaxVersion) /\ S # {}
    BY <1>1, VersionAssumption
  <1> HIDE DEF S
  <1>3. Max(S) \in S /\ \A y \in S : Max(S) >= y
    BY <1>2, BoundedHasMax, VersionAssumption
  <1> QED BY <1>2, <1>3 DEF S

(* The smaller of two numbers. *)
LEMMA MinOfTwo ==
  ASSUME NEW b \in Nat, NEW m \in Nat
  PROVE  Min({b, m}) = IF b <= m THEN b ELSE m
  <1>1. \E x \in {b, m} : \A y \in {b, m} : x =< y
    OBVIOUS
  <1>2. Min({b, m}) \in {b, m} /\ \A y \in {b, m} : Min({b, m}) =< y
    BY <1>1 DEF Min
  <1> QED BY <1>2

LEMMA CutoffType ==
  ASSUME NEW b \in 0..MaxVersion, NEW R
  PROVE  Cutoff(b, R) \in 0..MaxVersion
  <1> DEFINE m == Max({VersionOf(r) : r \in {q \in Reqs : R[q].status # "absent"}} \cup {0})
  <1>1. m \in 0..MaxVersion
    BY LargestRaised
  <1>2. Cutoff(b, R) = Min({b, m})
    BY DEF Cutoff
  <1> HIDE DEF m
  <1> QED BY <1>1, <1>2, MinOfTwo

(* Work of version v is obsolete exactly when a newer version is bound and   *)
(* requirements of a newer version have been raised.                         *)
LEMMA CutoffMeaning ==
  ASSUME NEW b \in 0..MaxVersion, NEW R, NEW v \in Versions
  PROVE  v < Cutoff(b, R) <=> v < b /\ RaisedAbove(R, v)
  <1> DEFINE present == {VersionOf(r) : r \in {q \in Reqs : R[q].status # "absent"}}
             S == present \cup {0}
             m == Max(S)
  <1>1. \A q \in Reqs : VersionOf(q) \in 1..MaxVersion
    BY DEF Reqs, Versions, VersionOf
  <1>3. m \in S /\ m \in 0..MaxVersion /\ \A y \in S : m >= y
    BY LargestRaised
  <1>5. v < m <=> RaisedAbove(R, v)
    <2>1. ASSUME v < m PROVE RaisedAbove(R, v)
      <3>1. m \in present
        BY <1>3, <2>1 DEF Versions
      <3>2. PICK q \in Reqs : R[q].status # "absent" /\ m = VersionOf(q)
        BY <3>1
      <3> HIDE DEF m
      <3> QED BY <1>3, <2>1, <3>2 DEF RaisedAbove, Versions
    <2>2. ASSUME RaisedAbove(R, v) PROVE v < m
      <3>1. PICK q \in Reqs : R[q].status # "absent" /\ VersionOf(q) > v
        BY <2>2 DEF RaisedAbove
      <3>2. VersionOf(q) \in S
        BY <3>1
      <3>3. m >= VersionOf(q)
        BY <1>3, <3>2
      <3> HIDE DEF m
      <3> QED BY <1>1, <1>3, <3>1, <3>3 DEF Versions
    <2> QED BY <2>1, <2>2
  <1>6. Cutoff(b, R) = Min({b, m})
    BY DEF Cutoff
  <1> HIDE DEF m
  <1>7. Min({b, m}) = IF b <= m THEN b ELSE m
    BY <1>3, MinOfTwo
  <1> QED BY <1>3, <1>5, <1>6, <1>7 DEF Versions

\* Every requirement raised in R is raised in S.
Keeps(R, S) == \A q \in Reqs : R[q].status # "absent" => S[q].status # "absent"

(* What is obsolete stays so: bindings and requirements are only added. *)
LEMMA CutoffGrows ==
  ASSUME NEW b \in 0..MaxVersion, NEW c \in 0..MaxVersion, b <= c,
         NEW R, NEW S, Keeps(R, S), NEW v \in Versions, v < Cutoff(b, R)
  PROVE  v < Cutoff(c, S)
  <1>1. v < b /\ RaisedAbove(R, v)
    BY CutoffMeaning
  <1>2. v < c
    BY <1>1 DEF Versions
  <1>3. RaisedAbove(S, v)
    BY <1>1 DEF RaisedAbove, Keeps
  <1> QED BY <1>2, <1>3, CutoffMeaning

Working(J, r) == \E j \in Jobs : ReqOf(j) = r /\ J[j].status \in Live

\* Every scheduled requirement that is not obsolete has a job working for it.
Served(J, R, b) ==
  \A r \in Reqs : R[r].status = "scheduled" /\ ~(VersionOf(r) < Cutoff(b, R))
                  => Working(J, r)

(* Nothing new is scheduled, and no current requirement loses its job. *)
LEMMA ServedMoves ==
  ASSUME NEW b \in 0..MaxVersion, NEW c \in 0..MaxVersion, b <= c,
         NEW J, NEW K, NEW R, NEW S, Served(J, R, b), Keeps(R, S),
         \A r \in Reqs : /\ S[r].status = "scheduled"
                         /\ ~(VersionOf(r) < Cutoff(c, S))
           => \/ Working(K, r)
              \/ R[r].status = "scheduled" /\ (Working(J, r) => Working(K, r))
  PROVE  Served(K, S, c)
  <1> SUFFICES ASSUME NEW r \in Reqs, S[r].status = "scheduled",
                      ~(VersionOf(r) < Cutoff(c, S))
               PROVE  Working(K, r)
    BY DEF Served
  <1>1. VersionOf(r) \in Versions
    BY DEF Reqs, VersionOf
  <1>2. ~(VersionOf(r) < Cutoff(b, R))
    BY <1>1, CutoffGrows
  <1> QED BY <1>2 DEF Served

(* Retiring takes jobs only from obsolete requirements. *)
LEMMA RetireServes ==
  ASSUME NEW J, NEW R, NEW b \in 0..MaxVersion, Served(J, R, b)
  PROVE  Served(RetireSuperseded(J, R, b), R, b)
  <1> SUFFICES ASSUME NEW r \in Reqs, R[r].status = "scheduled",
                      ~(VersionOf(r) < Cutoff(b, R))
               PROVE  Working(RetireSuperseded(J, R, b), r)
    BY DEF Served
  <1>1. PICK j \in Jobs : ReqOf(j) = r /\ J[j].status \in Live
    BY DEF Served, Working
  <1>2. RetireSuperseded(J, R, b)[j] = J[j]
    BY <1>1 DEF RetireSuperseded
  <1> QED BY <1>1, <1>2 DEF Working

(* A requirement becomes scheduled together with the job that works for it. *)
LEMMA ScheduleServes ==
  ASSUME NEW J, NEW R, Tables(J, R), NEW b \in 0..MaxVersion, Served(J, R, b),
         NEW r \in Reqs, R[r].status # "absent",
         NEW c \in Connectors \cup {None}, ScheduleOrBlock(J, R, r, c)
  PROVE  Served(job', req', b) /\ Keeps(R, req')
  <1>0. b <= b /\ R \in [Reqs -> ReqRow] /\ J \in [Jobs -> JobRow]
    BY VersionAssumption DEF Tables
  <1>1. ASSUME NEW s \in {"blocked", "scheduled"}
        PROVE  /\ Keeps(R, SetStatus(R, r, s))
               /\ SetStatus(R, r, s)[r].status = s
               /\ \A q \in Reqs \ {r} : SetStatus(R, r, s)[q] = R[q]
    <2>1. R[r] \in ReqRow
      BY <1>0
    <2> QED BY <1>0, <2>1 DEF SetStatus, Keeps, ReqRow
  <1>2. ASSUME job' = J, req' = R \/ req' = SetStatus(R, r, "blocked")
        PROVE  Served(job', req', b) /\ Keeps(R, req')
    <2>1. /\ Keeps(R, req')
          /\ \A q \in Reqs : req'[q].status = "scheduled" => R[q].status = "scheduled"
      BY <1>1, <1>2 DEF Keeps
    <2> QED BY <1>0, <1>2, <2>1, ServedMoves
  <1>3. CASE c # None /\ Schedule(J, R, r, c) /\ J[<<r, c>>].status = "absent"
    <2>1. PICK h \in Budgets(J, r, c) :
               /\ job' = [J EXCEPT ![<<r, c>>] = NewJob(h)]
               /\ req' = SetStatus(R, r, IF NewJob(h).status = "dead_letter"
                                         THEN "blocked" ELSE "scheduled")
      BY <1>3 DEF Schedule
    <2> DEFINE j == <<r, c>>
               s == IF NewJob(h).status = "dead_letter" THEN "blocked" ELSE "scheduled"
    <2>2. j \in Jobs /\ ReqOf(j) = r
      BY <1>3 DEF Jobs, ReqOf
    <2>3. s = "scheduled" => NewJob(h).status \in Live
      BY DEF NewJob, Live, Pending
    <2>4. \A x \in Jobs : job'[x] = IF x = j THEN NewJob(h) ELSE J[x]
      BY <1>0, <2>1
    <2>5. s \in {"blocked", "scheduled"} /\ req' = SetStatus(R, r, s)
      BY <2>1
    <2> HIDE DEF s
    <2>6. /\ Keeps(R, req')
          /\ req'[r].status = s
          /\ \A q \in Reqs \ {r} : req'[q] = R[q]
      BY <1>1, <2>5
    <2>7. \A q \in Reqs \ {r} : Working(J, q) => Working(job', q)
      BY <2>2, <2>4 DEF Working
    <2>8. s = "scheduled" => Working(job', r)
      BY <2>2, <2>3, <2>4 DEF Working
    <2>9. \A q \in Reqs : req'[q].status = "scheduled" =>
             \/ Working(job', q)
             \/ R[q].status = "scheduled" /\ (Working(J, q) => Working(job', q))
      BY <2>6, <2>7, <2>8
    <2> QED BY <1>0, <2>6, <2>9, ServedMoves
  <1> QED BY <1>2, <1>3 DEF ScheduleOrBlock, Schedule, BlockTechnical

(* Planning: retire obsolete work, then schedule a requirement that exists. *)
LEMMA PlanServes ==
  ASSUME TablesNow, NEW R \in [Reqs -> ReqRow], NEW b \in 0..MaxVersion,
         Served(job, R, b), NEW r \in Reqs, NEW c \in Connectors \cup {None},
         LET R1 == Identify(R, r)
         IN ScheduleOrBlock(RetireSuperseded(job, R1, b), R1, r, c)
  PROVE  Served(job', req', b)
  <1> DEFINE R1 == Identify(R, r)
             K == RetireSuperseded(job, R1, b)
  <1>1. Tables(job, R) /\ R[r] \in ReqRow
    BY DEF TablesNow, Tables
  <1>2. /\ R1 \in [Reqs -> ReqRow]
        /\ R1[r].status # "absent"
        /\ \A q \in Reqs \ {r} : R1[q] = R[q]
        /\ R1[r].status = "scheduled" => R[r].status = "scheduled"
    <2>1. CASE R[r].status = "absent"
      <3>1. R1 = SetStatus(R, r, "identified")
        BY <2>1 DEF Identify
      <3>2. SetStatus(R, r, "identified") \in [Reqs -> ReqRow]
        BY SetStatusType DEF ReqStatus
      <3>3. R1[r] = [R[r] EXCEPT !.status = "identified"] /\ \A q \in Reqs \ {r} : R1[q] = R[q]
        BY <3>1 DEF SetStatus
      <3>4. R1[r].status = "identified"
        BY <1>1, <3>3 DEF ReqRow
      <3> QED BY <3>1, <3>2, <3>3, <3>4
    <2>2. CASE R[r].status # "absent"
      BY <2>2 DEF Identify
    <2> QED BY <2>1, <2>2
  <1> HIDE DEF R1
  <1>3. Keeps(R, R1) /\ \A q \in Reqs : R1[q].status = "scheduled" => R[q].status = "scheduled"
    BY <1>2 DEF Keeps
  <1>4. Served(job, R1, b)
    BY <1>3, ServedMoves, VersionAssumption
  <1>5. Served(K, R1, b) /\ Tables(K, R1)
    <2>1. Tables(job, R1)
      BY <1>1, <1>2 DEF Tables
    <2> QED BY <1>4, <2>1, RetireServes, RetireTables
  <1>6. ScheduleOrBlock(K, R1, r, c)
    BY DEF R1
  <1> HIDE DEF K
  <1> QED BY <1>2, <1>5, <1>6, ScheduleServes

\* While the incident is open every current scheduled requirement has work.
ServedNow == incidentOpen => Served(job, req, bound)

(* A step that creates and cancels no requirement, and keeps live jobs live. *)
LEMMA ServedStays ==
  ASSUME TypeOK, ServedNow, UNCHANGED <<incidentOpen, bound, req>>,
         \A j \in Jobs : job[j].status \in Live => job'[j].status \in Live
  PROVE  ServedNow'
  BY DEF ServedNow, Served, Working

LEMMA PlanServesNow ==
  ASSUME TypeOK, TablesNow, ServedNow, (\E v \in Versions : PersistRca(v)) \/ Reconcile
  PROVE  ServedNow'
  <1>0. /\ req \in [Reqs -> ReqRow] /\ ledger \subseteq Jobs
        /\ bound \in 0..MaxVersion
        /\ CancelInapplicable(req) \in [Reqs -> ReqRow] /\ FromLedger \in [Reqs -> ReqRow]
    BY ReqTables DEF TypeOK
  <1> SUFFICES ASSUME incidentOpen PROVE Served(job', req', bound')
    BY DEF ServedNow, PersistRca, Reconcile
  <1>1. Served(job, req, bound)
    BY DEF ServedNow
  <1>2. ASSUME NEW v \in Versions, PersistRca(v) PROVE Served(job', req', bound')
    <2> DEFINE R0 == CancelInapplicable(req)
    <2>1. bound' = bound /\ bound <= bound
      BY <1>0, <1>2 DEF PersistRca
    <2>2. /\ Keeps(req, R0)
          /\ \A q \in Reqs : R0[q].status = "scheduled" => req[q].status = "scheduled"
      <3> SUFFICES ASSUME NEW q \in Reqs
                   PROVE  /\ req[q].status # "absent" => R0[q].status # "absent"
                          /\ R0[q].status = "scheduled" => req[q].status = "scheduled"
        BY DEF Keeps
      <3>1. req[q] \in ReqRow
        BY <1>0
      <3>2. R0[q] = req[q] \/ R0[q] = [req[q] EXCEPT !.status = "cancelled"]
        BY DEF CancelInapplicable
      <3> QED BY <3>1, <3>2 DEF ReqRow
    <2>3. Served(job, R0, bound)
      <3> HIDE DEF R0
      <3> QED BY <1>0, <1>1, <2>1, <2>2, ServedMoves
    <2>4. CASE req' = R0 /\ UNCHANGED job
      BY <2>1, <2>3, <2>4
    <2>5. ASSUME NEW k \in Keys, NEW c \in Connectors \cup {None},
                 LET r == <<k, v>>
                     R1 == Identify(R0, r)
                 IN ScheduleOrBlock(RetireSuperseded(job, R1, bound), R1, r, c)
          PROVE  Served(job', req', bound')
      <3> DEFINE r == <<k, v>>
      <3>1. r \in Reqs
        BY DEF Reqs
      <3>2. LET R1 == Identify(R0, r)
            IN ScheduleOrBlock(RetireSuperseded(job, R1, bound), R1, r, c)
        BY <2>5
      <3>3. R0 \in [Reqs -> ReqRow]
        BY <1>0
      <3> HIDE DEF r, R0
      <3> QED BY <1>0, <2>1, <2>3, <3>1, <3>2, <3>3, PlanServes
    <2> QED BY <1>2, <2>4, <2>5 DEF PersistRca
  <1>3. CASE Reconcile
    <2>1. bound' = bound /\ bound <= bound /\ bound > 0
      BY <1>0, <1>3 DEF Reconcile
    <2>2. /\ Keeps(req, FromLedger)
          /\ \A q \in Reqs : FromLedger[q].status = "scheduled" => req[q].status = "scheduled"
      BY DEF Keeps, FromLedger
    <2>3. Served(job, FromLedger, bound)
      BY <1>0, <1>1, <2>1, <2>2, ServedMoves
    <2>4. CASE req' = FromLedger /\ UNCHANGED job
      BY <2>1, <2>3, <2>4
    <2>5. ASSUME NEW k \in Keys, NEW c \in Connectors \cup {None},
                 LET r == <<k, bound>>
                     R1 == Identify(FromLedger, r)
                 IN ScheduleOrBlock(RetireSuperseded(job, R1, bound), R1, r, c)
          PROVE  Served(job', req', bound')
      <3> DEFINE r == <<k, bound>>
      <3>1. r \in Reqs
        BY <1>0, <2>1 DEF Reqs, Versions
      <3>2. LET R1 == Identify(FromLedger, r)
            IN ScheduleOrBlock(RetireSuperseded(job, R1, bound), R1, r, c)
        BY <2>5
      <3> HIDE DEF r
      <3> QED BY <1>0, <2>1, <2>3, <3>1, <3>2, PlanServes
    <2> QED BY <1>3, <2>4, <2>5 DEF Reconcile
  <1> QED BY <1>2, <1>3

(* A worker that ends its turn answers its requirement, blocks it, or leaves *)
(* its job waiting for a retry.                                              *)
LEMMA EndServesNow ==
  ASSUME TypeOK, TablesNow, ServedNow, NEW w \in Workers, EndStep(w)
  PROVE  ServedNow'
  <1> DEFINE j == worker[w].job
             r == ReqOf(j)
  <1>0. /\ req \in [Reqs -> ReqRow] /\ job \in [Jobs -> JobRow]
        /\ bound \in 0..MaxVersion /\ bound <= bound
        /\ j \in Jobs /\ r \in Reqs
        /\ incidentOpen' = incidentOpen /\ bound' = bound
    <2>1. /\ req \in [Reqs -> ReqRow] /\ job \in [Jobs -> JobRow]
          /\ bound \in 0..MaxVersion /\ bound <= bound
      BY DEF TypeOK
    <2>2. j \in Jobs
      BY EndEffect
    <2>3. r \in Reqs
      BY <2>2 DEF Jobs, ReqOf
    <2>4. incidentOpen' = incidentOpen /\ bound' = bound
      BY DEF EndStep, Accept, Reject, ErrorWrite, BusyWrite
    <2> QED BY <2>1, <2>2, <2>3, <2>4
  <1> SUFFICES ASSUME incidentOpen PROVE Served(job', req', bound)
    BY <1>0 DEF ServedNow
  <1>1. Served(job, req, bound)
    BY DEF ServedNow
  <1>2. CASE Accept(w)
    <2> DEFINE e == LatestEquivalent(r)
    <2>1. /\ job' = [job EXCEPT ![j] = Released(@, "collected")]
          /\ req' = [req EXCEPT
                       ![e] = [status |-> "collected", evidence |-> @.evidence \cup {j}],
                       ![r] = [status |-> "collected", evidence |-> {j}]]
      BY <1>2 DEF Accept
    <2> HIDE DEF e
    <2>2. \A q \in Reqs : (req'[q] = req[q] /\ q # r) \/ req'[q].status = "collected"
      BY <1>0, <2>1
    <2>3. \A x \in Jobs \ {j} : job'[x] = job[x]
      BY <1>0, <2>1
    <2>4. Keeps(req, req')
      BY <2>2 DEF Keeps
    <2>5. \A q \in Reqs : req'[q].status = "scheduled" =>
             req[q].status = "scheduled" /\ (Working(job, q) => Working(job', q))
      BY <2>2, <2>3 DEF Working
    <2> QED BY <1>0, <1>1, <2>4, <2>5, ServedMoves
  <1>3. CASE BusyWrite(w)
    <2>1. \A x \in Jobs : job[x].status \in Live => job'[x].status \in Live
      <3>1. job'[j].status = "retry"
        BY <1>3, BusyWriteEffect
      <3>2. \A x \in Jobs \ {j} : job'[x] = job[x]
        BY <1>0, <1>3 DEF BusyWrite
      <3> QED BY <3>1, <3>2 DEF Live, Pending
    <2> QED BY <1>0, <1>3, <2>1, ServedStays DEF BusyWrite, ServedNow
  <1>4. ASSUME NEW a, NEW limit
        PROVE  LET J1 == FinishJob(job, j, a, limit)
                   R1 == FinishReq(req, j, a, limit)
               IN Tables(J1, R1) /\ Served(J1, R1, bound) /\ R1[r].status # "absent"
    <2> DEFINE J1 == FinishJob(job, j, a, limit)
               R1 == FinishReq(req, j, a, limit)
    <2>1. /\ Tables(J1, R1)
          /\ \A x \in Jobs \ {j} : J1[x] = job[x]
          /\ J1[j].status = IF a < limit THEN "retry" ELSE "dead_letter"
      BY <1>0, FinishTables DEF TablesNow
    <2>2. /\ R1[r].status = IF a < limit THEN "scheduled" ELSE "blocked"
          /\ \A q \in Reqs \ {r} : R1[q] = req[q]
      <3>1. req[r] \in ReqRow
        BY <1>0
      <3> QED BY <1>0, <3>1 DEF FinishReq, SetStatus, ReqRow
    <2> HIDE DEF J1, R1
    <2>3. Keeps(req, R1) /\ R1[r].status # "absent"
      BY <2>2 DEF Keeps
    <2>4. R1[r].status = "scheduled" => Working(J1, r)
      BY <1>0, <2>1, <2>2 DEF Working, Live, Pending
    <2>5. \A q \in Reqs \ {r} : Working(job, q) => Working(J1, q)
      BY <2>1 DEF Working
    <2>6. \A q \in Reqs : R1[q].status = "scheduled" =>
             \/ Working(J1, q)
             \/ req[q].status = "scheduled" /\ (Working(job, q) => Working(J1, q))
      BY <2>2, <2>4, <2>5
    <2>7. Served(J1, R1, bound)
      BY <1>0, <1>1, <2>3, <2>6, ServedMoves
    <2> QED BY <2>1, <2>3, <2>7 DEF J1, R1
  <1>5. CASE ErrorWrite(w)
    BY <1>4, <1>5 DEF ErrorWrite
  <1>6. CASE Reject(w)
    <2> DEFINE a == job[j].attempts
    <2>1. PICK limit \in {1, MaxAttempts} :
            LET J1 == FinishJob(job, j, a, limit)
                R1 == FinishReq(req, j, a, limit)
            IN IF a < limit THEN job' = J1 /\ req' = R1
               ELSE \E c \in (Connectors \ {ConnectorOf(j)}) \cup {None} :
                      ScheduleOrBlock(J1, R1, ReqOf(j), c)
      BY <1>6 DEF Reject
    <2> DEFINE J1 == FinishJob(job, j, a, limit)
               R1 == FinishReq(req, j, a, limit)
    <2>2. Tables(J1, R1) /\ Served(J1, R1, bound) /\ R1[r].status # "absent"
      BY <1>4
    <2>3. CASE a < limit
      BY <2>1, <2>2, <2>3
    <2>4. CASE ~(a < limit)
      <3>1. PICK c \in Connectors \cup {None} : ScheduleOrBlock(J1, R1, r, c)
        BY <2>1, <2>4
      <3> HIDE DEF J1, R1, j, r
      <3> QED BY <1>0, <2>2, <3>1, ScheduleServes
    <2> QED BY <2>3, <2>4
  <1> QED BY <1>2, <1>3, <1>5, <1>6 DEF EndStep

(* Maintenance ends a job only with its requirement, below the cutoff, or by *)
(* blocking the requirement.                                                 *)
LEMMA MaintainServesNow ==
  ASSUME TypeOK, TablesNow, ServedNow, Maintain
  PROVE  ServedNow'
  <1>0. /\ req \in [Reqs -> ReqRow] /\ job \in [Jobs -> JobRow]
        /\ bound \in 0..MaxVersion /\ bound <= bound
        /\ incidentOpen' = incidentOpen /\ bound' = bound
    BY DEF TypeOK, Maintain
  <1> SUFFICES ASSUME incidentOpen PROVE Served(job', req', bound)
    BY <1>0 DEF ServedNow
  <1>1. Served(job, req, bound)
    BY DEF ServedNow
  <1>2. \A r \in Reqs : \/ req'[r] = req[r] /\ ~\E j \in Jobs : /\ ReqOf(j) = r
                                                              /\ job[j].status \in Live
                                                              /\ job'[j].status = "dead_letter"
                        \/ req'[r].status = "blocked"
    <2> TAKE r \in Reqs
    <2>1. [req[r] EXCEPT !.status = "blocked"].status = "blocked"
      BY <1>0 DEF ReqRow
    <2> QED BY <2>1 DEF Maintain
  <1>3. Keeps(req, req')
    BY <1>2 DEF Keeps
  <1>4. ASSUME NEW r \in Reqs, req'[r].status = "scheduled",
               ~(VersionOf(r) < Cutoff(bound, req')), Working(job, r)
        PROVE  Working(job', r)
    <2>1. PICK j \in Jobs : ReqOf(j) = r /\ job[j].status \in Live
      BY <1>4 DEF Working
    <2>2. req'[r] = req[r] /\ job'[j].status # "dead_letter"
      BY <1>2, <1>4, <2>1
    <2>3. VersionOf(r) \in Versions
      BY DEF Reqs, VersionOf
    <2>4. ~(VersionOf(r) < Cutoff(bound, req))
      BY <1>0, <1>3, <1>4, <2>3, CutoffGrows
    <2>5. job'[j] = MaintainJob(j) /\ job[j] \in JobRow
      BY <1>0 DEF Maintain
    <2>6. MaintainJob(j).status \in Live
      <3>1. Released(job[j], "dead_letter").status = "dead_letter"
        BY <2>5, ReleasedRow DEF JobStatus, Final
      <3>2. [Released(job[j], "retry") EXCEPT !.due = TRUE].status = "retry"
        BY <2>5 DEF Released, JobRow
      <3>3. req[r].status \notin ReqClosed
        BY <1>4, <2>2 DEF ReqClosed
      <3> QED BY <2>1, <2>2, <2>4, <2>5, <3>1, <3>2, <3>3 DEF MaintainJob, Live, Pending
    <2> QED BY <2>1, <2>5, <2>6 DEF Working
  <1>5. \A r \in Reqs : req'[r].status = "scheduled" => req[r].status = "scheduled"
    BY <1>2
  <1> QED BY <1>0, <1>1, <1>3, <1>4, <1>5, ServedMoves

LEMMA ServedStep ==
  ASSUME TypeOK, TablesNow, ServedNow, [Next]_vars
  PROVE  ServedNow'
  <1>1. CASE (\E v \in Versions : PersistRca(v)) \/ Reconcile
    BY <1>1, PlanServesNow
  <1>2. CASE CloseIncident \/ RetireClosed
    BY <1>2 DEF CloseIncident, RetireClosed, ServedNow
  <1>9. CASE BindRca
    <2>1. /\ bound \in 0..MaxVersion /\ bound' \in 0..MaxVersion /\ bound <= bound'
          /\ req' = req /\ job' = job /\ incidentOpen' = incidentOpen
      BY <1>9, VersionAssumption DEF BindRca, TypeOK
    <2>2. Keeps(req, req)
      BY DEF Keeps
    <2>3. Served(job, req, bound) => Served(job, req, bound')
      BY <2>1, <2>2, ServedMoves
    <2> QED BY <2>1, <2>3 DEF ServedNow
  <1>10. CASE Recollect
    BY <1>10, ServedStays DEF Recollect
  <1>3. CASE Maintain
    BY <1>3, MaintainServesNow
  <1>4. ASSUME NEW w \in Workers, EndStep(w) PROVE ServedNow'
    BY <1>4, EndServesNow
  <1>5. ASSUME NEW w \in Workers, LostLease(w) \/ Crash(w) \/ ErrorRead(w) PROVE ServedNow'
    BY <1>5, ServedStays DEF LostLease, Crash, ErrorRead
  <1>6. ASSUME NEW w \in Workers, NEW j \in Jobs, Claim(w, j) PROVE ServedNow'
    <2>1. \A x \in Jobs : job[x].status \in Live => job'[x].status \in Live
      BY <1>6, ClaimEffect DEF Live
    <2> QED BY <1>6, <2>1, ServedStays DEF Claim
  <1>7. ASSUME NEW j \in Jobs, LeaseLapses(j) \/ BackoffElapses(j) PROVE ServedNow'
    <2>1. \A x \in Jobs : job[x].status \in Live => job'[x].status \in Live
      BY <1>7, TimeEffect
    <2> QED BY <1>7, <2>1, ServedStays DEF LeaseLapses, BackoffElapses
  <1>8. CASE UNCHANGED vars
    BY <1>8, ServedStays DEF vars
  <1> QED BY <1>1, <1>2, <1>3, <1>4, <1>5, <1>6, <1>7, <1>8, <1>9, <1>10, StepKinds DEF PlanStep

(* No gap is orphaned: a current requirement shown as scheduled, which the    *)
(* reconciler therefore skips, has a job that is queued or being collected.   *)
(* It holds for any number of RCA versions, sources and workers, also when    *)
(* leases lapse under running workers and their late writes overwrite rows.   *)
THEOREM ScheduledIsWorkedOn == Spec => []ScheduledHasWork
  <1>1. Init => ServedNow
    BY DEF Init, ServedNow, Served
  <1>2. TypeOK /\ TablesNow /\ ServedNow /\ [Next]_vars
        => (TypeOK /\ TablesNow /\ ServedNow)'
    BY TypeStep, ServedStep
  <1>3. TypeOK /\ ServedNow => ScheduledHasWork
    <2> SUFFICES ASSUME TypeOK, ServedNow, incidentOpen, NEW r \in Reqs,
                        req[r].status = "scheduled", VersionOf(r) >= Cutoff(bound, req)
                 PROVE  Working(job, r)
      BY DEF ScheduledHasWork, Working
    <2>1. VersionOf(r) \in Versions /\ bound \in 0..MaxVersion
      BY DEF Reqs, VersionOf, TypeOK
    <2>2. Cutoff(bound, req) \in 0..MaxVersion
      BY <2>1, CutoffType
    <2>3. ~(VersionOf(r) < Cutoff(bound, req))
      BY <2>1, <2>2 DEF Versions
    <2> QED BY <2>3 DEF ServedNow, Served
  <1> QED BY <1>1, <1>2, <1>3, TypeInit, PTL DEF Spec

-----------------------------------------------------------------------------
(* Leases and statuses implement the queue of leased jobs.                 *)

(* Planning's view of one row: who holds it does not change, and a decision  *)
(* is taken only on a row nobody holds.                                      *)
LEMMA QuietKeepsHolder ==
  ASSUME NEW x \in Jobs, QuietRow(job[x], job'[x])
  PROVE  Queue!MayGiveUp(x) /\ Holder'[x] = Holder[x]
  <1>1. Holder'[x] = Holder[x]
    BY DEF Holder, QuietRow
  <1>2. CASE job[x].status \in Final \/ job'[x].status \notin Final
    BY <1>1, <1>2 DEF QuietRow, Queue!MayGiveUp, Outcome
  <1>3. CASE job[x].status \notin Final /\ job'[x].status \in Final
    <2>1. job[x].lease # "live" /\ job'[x].status # "collected"
      BY <1>3 DEF QuietRow, Final
    <2>2. Outcome[x] = "open" /\ Holder[x] = None /\ Outcome'[x] = job'[x].status
      BY <1>3, <2>1 DEF Outcome, Holder
    <2> QED BY <1>1, <1>3, <2>1, <2>2 DEF Queue!MayGiveUp
  <1> QED BY <1>1, <1>2, <1>3

LEMMA PlanKeepsQueue ==
  ASSUME TypeOK, TablesNow, PlanStep
  PROVE  Queue!Plan
  <1>1. \A x \in Jobs : Queue!MayGiveUp(x) /\ Holder'[x] = Holder[x]
    BY PlanEffect, QuietKeepsHolder DEF Quiet
  <1>2. Holder' = Holder
    BY <1>1 DEF Holder
  <1>3. ledger' = ledger
    BY PlanEffect
  <1> QED BY <1>1, <1>2, <1>3 DEF Queue!Plan

(* The steps that end a worker's turn finish its own job. *)
LEMMA EndKeepsQueue ==
  ASSUME HoldersInv, ~PausesPossible, NEW w \in Workers, EndStep(w)
  PROVE  worker[w].job \in Jobs /\ Queue!Finish(worker[w].job)
  <1> DEFINE own == worker[w].job
  <1>0. TypeOK /\ TablesNow /\ TablesNow'
    BY TypeStep DEF HoldersInv, Next, WorkerStep, EndStep
  <1>1. /\ own \in Jobs /\ OthersQuiet(w) /\ HoldsLease(w)
        /\ job'[own].status \in {"collected", "retry", "dead_letter"}
        /\ job'[own].status = "collected" => Accept(w)
    BY <1>0, EndEffect, HoldersMeaning DEF HoldersInv
  <1>2. Holder[own] # None /\ Outcome[own] = "open"
    BY <1>1, NoneAssumption DEF Holder, Outcome, HoldsLease, Owns, Final
  <1>3. \A x \in Jobs \ {own} : Queue!MayGiveUp(x) /\ Holder'[x] = Holder[x]
    BY <1>1, QuietKeepsHolder DEF OthersQuiet
  <1>4. job'[own].lease = "none"
    BY <1>0, <1>1 DEF TablesNow, Tables, WellFormed
  <1>5. Holder' = [Holder EXCEPT ![own] = None]
    <2>1. Holder'[own] = None
      BY <1>1, <1>4 DEF Holder
    <2>2. DOMAIN Holder = Jobs /\ Holder' = [x \in Jobs |-> Holder'[x]]
      BY DEF Holder
    <2> QED BY <1>1, <1>3, <2>1, <2>2
  <1>6. /\ Outcome'[own] \in Final \cup {"open"}
        /\ Outcome'[own] = "collected" <=> job'[own].status = "collected"
    BY <1>1 DEF Outcome, Final
  <1>7. ledger' = IF Outcome'[own] = "collected" THEN ledger \cup {own} ELSE ledger
    <2>1. CASE Accept(w)
      BY <1>0, <1>6, <2>1, AcceptEffect DEF Accept, HandOff
    <2>2. CASE ~Accept(w)
      BY <1>1, <1>6, <2>2 DEF EndStep, Reject, ErrorWrite, BusyWrite
    <2> QED BY <2>1, <2>2
  <1> QED BY <1>1, <1>2, <1>3, <1>5, <1>6, <1>7 DEF Queue!Finish

LEMMA ClaimKeepsQueue ==
  ASSUME TypeOK, TablesNow, NEW w \in Workers, NEW j \in Jobs, Claim(w, j)
  PROVE  Queue!Take(w, j)
  <1>1. /\ job'[j].status = "collecting" /\ job'[j].owner = w /\ job'[j].lease = "live"
        /\ \A x \in Jobs \ {j} : job'[x] = job[x]
    BY ClaimEffect
  <1>2. job[j].status \notin Final /\ job[j].lease # "live"
    <2>1. WellFormed(job[j])
      BY DEF TablesNow, Tables
    <2> QED BY <2>1 DEF Claim, Claimable, Unleased, Pending, Final, WellFormed
  <1>3. Outcome[j] = "open" /\ Holder[j] = None
    BY <1>2 DEF Outcome, Holder
  <1>4. Outcome' = Outcome
    BY <1>1, <1>2 DEF Outcome, Final
  <1>5. Holder' = [Holder EXCEPT ![j] = w]
    BY <1>1 DEF Holder
  <1> QED BY <1>3, <1>4, <1>5 DEF Queue!Take, Claim

LEMMA TimeKeepsQueue ==
  ASSUME TypeOK, TablesNow, NEW j \in Jobs, LeaseLapses(j) \/ BackoffElapses(j)
  PROVE  Queue!Lapse(j) \/ UNCHANGED Queue!queue
  <1>1. /\ \A x \in Jobs \ {j} : job'[x] = job[x]
        /\ job'[j].status = job[j].status /\ job'[j].owner = job[j].owner
        /\ BackoffElapses(j) => job'[j].lease = job[j].lease
    BY TimeEffect
  <1>2. Outcome' = Outcome /\ ledger' = ledger
    BY <1>1 DEF Outcome, LeaseLapses, BackoffElapses
  <1>3. CASE BackoffElapses(j)
    <2>1. Holder' = Holder
      BY <1>1, <1>3 DEF Holder
    <2> QED BY <1>2, <2>1 DEF Queue!queue
  <1>4. CASE LeaseLapses(j)
    <2>1. job'[j].lease = "lapsed"
      BY <1>4 DEF LeaseLapses, TypeOK, JobRow
    <2>2. Holder' = [Holder EXCEPT ![j] = None]
      BY <1>1, <2>1 DEF Holder
    <2> QED BY <1>2, <2>2 DEF Queue!Lapse
  <1> QED BY <1>3, <1>4

LEMMA StepKeepsQueue ==
  ASSUME HoldersInv, ~PausesPossible, [Next]_vars
  PROVE  [Queue!Next]_(Queue!queue)
  <1>0. TypeOK /\ TablesNow
    BY DEF HoldersInv
  <1>1. CASE PlanStep
    BY <1>0, <1>1, PlanKeepsQueue DEF Queue!Next
  <1>2. ASSUME NEW w \in Workers, EndStep(w) PROVE Queue!Next
    BY <1>2, EndKeepsQueue DEF Queue!Next
  <1>3. ASSUME NEW w \in Workers, LostLease(w) \/ Crash(w) \/ ErrorRead(w)
        PROVE  UNCHANGED Queue!queue
    BY <1>3 DEF LostLease, Crash, ErrorRead, Queue!queue, Outcome, Holder
  <1>4. ASSUME NEW w \in Workers, NEW j \in Jobs, Claim(w, j) PROVE Queue!Next
    BY <1>0, <1>4, ClaimKeepsQueue DEF Queue!Next
  <1>5. ASSUME NEW j \in Jobs, LeaseLapses(j) \/ BackoffElapses(j)
        PROVE  [Queue!Next]_(Queue!queue)
    BY <1>0, <1>5, TimeKeepsQueue DEF Queue!Next
  <1>6. CASE UNCHANGED vars
    BY <1>6 DEF vars, Queue!queue, Outcome, Holder
  <1> QED BY <1>1, <1>2, <1>3, <1>4, <1>5, <1>6, StepKinds

(* Without pauses evidence collection is a queue of leased jobs: a job that   *)
(* is held is decided by its holder alone, no decision is undone, and the     *)
(* ledger keeps evidence exactly of what a holder delivered.                  *)
THEOREM KeepsTheQueue == ~PausesPossible => (Spec => KeepsQueue)
  <1> SUFFICES ASSUME ~PausesPossible PROVE Spec => KeepsQueue
    OBVIOUS
  <1>1. Init => Queue!Init
    <2>1. Init => Outcome = [j \in Jobs |-> "open"] /\ Holder = [j \in Jobs |-> None]
      BY DEF Init, Outcome, Holder, NoJob, Final
    <2> QED BY <2>1 DEF Init, Queue!Init
  <1>2. HoldersInv /\ [Next]_vars => [Queue!Next]_(Queue!queue)
    BY StepKeepsQueue
  <1> QED BY <1>1, <1>2, HoldersAlways, PTL DEF Spec, KeepsQueue, Queue!Spec
=============================================================================
