------------------------------- MODULE WorkQueue -------------------------------
(***************************************************************************)
(* What a durable queue of leased jobs promises, however work is planned,  *)
(* repaired and retried: a job that somebody holds is decided by its       *)
(* holder alone, a decision is final, and a result is kept exactly when    *)
(* its job's holder delivers it.                                           *)
(***************************************************************************)
CONSTANTS
  Jobs, Workers, None,
  Outcomes  \* what may become of a job, "collected" among them

VARIABLES
  outcome,  \* what became of each job, "open" until then
  holder,   \* who holds it, or None
  kept      \* the jobs whose result is kept

queue == <<outcome, holder, kept>>

Init ==
  /\ outcome = [j \in Jobs |-> "open"]
  /\ holder = [j \in Jobs |-> None]
  /\ kept = {}

\* Planning and repair may give up what nobody holds.
MayGiveUp(j) ==
  \/ outcome'[j] = outcome[j]
  \/ /\ outcome[j] = "open" /\ holder[j] = None
     /\ outcome'[j] \in Outcomes \ {"collected"}

Plan ==
  /\ \A j \in Jobs : MayGiveUp(j)
  /\ UNCHANGED <<holder, kept>>

Take(w, j) ==
  /\ outcome[j] = "open" /\ holder[j] = None
  /\ holder' = [holder EXCEPT ![j] = w]
  /\ UNCHANGED <<outcome, kept>>

Lapse(j) ==
  /\ holder' = [holder EXCEPT ![j] = None]
  /\ UNCHANGED <<outcome, kept>>

\* The holder delivers its result, gives the job up or gives it back; that may be the
\* occasion to plan again.
Finish(j) ==
  /\ holder[j] # None /\ outcome[j] = "open"
  /\ outcome'[j] \in Outcomes \cup {"open"}
  /\ \A i \in Jobs \ {j} : MayGiveUp(i)
  /\ holder' = [holder EXCEPT ![j] = None]
  /\ kept' = IF outcome'[j] = "collected" THEN kept \cup {j} ELSE kept

Next ==
  \/ Plan
  \/ \E j \in Jobs : Finish(j) \/ Lapse(j) \/ \E w \in Workers : Take(w, j)

Spec == Init /\ [][Next]_queue
================================================================================
