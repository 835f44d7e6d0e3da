----------------------------- MODULE AlertIntake -----------------------------
(***************************************************************************)
(* From a firing alert of Alertmanager to one incident under               *)
(* investigation. The monitoring adapter lands each notification as a file *)
(* that its own request and the watcher of the ingestion worker both try   *)
(* to claim, publishes it, and answers. Handlers of alert-intelligence     *)
(* then attach the alert to the incident that owns the problem, or open    *)
(* the next one, each in one transaction under InnoDB's repeatable reads:  *)
(* what a handler knows of earlier deliveries and of the incident is the   *)
(* snapshot of its first read, what it knows of the ownership is current.  *)
(*                                                                         *)
(* One problem (tenant, project, environment, service, fingerprint) whose  *)
(* outages begin at the times 1, 2, ... Each publication has an alert id   *)
(* of its own, so an occurrence is named by its notification; the          *)
(* identity of a notification that has been dealt with is used again.      *)
(***************************************************************************)
EXTENDS Naturals, Sequences

CONSTANTS
  Notices,      \* identities of notifications under way
  Handlers,     \* consumers of raw alerts
  LastOnset,    \* bound: outages of the problem
  Scenes,       \* bound: the identities of one history and what may go wrong in it
  None

ASSUME NamesAssumption ==
  Handlers \cap {None, "none", "queued", "handled", "dead"} = {}
ASSUME BoundsAssumption == LastOnset \in Nat \ {0}

\* "steal": the watcher claims the file of a request; "failure": a publication fails;
\* "stop": the adapter or a handler dies; "redelivery": a delivery is taken back from a
\* handler that goes on; "poison": a message is dead-lettered; "decision": an approval
\* decision writes to a closed incident; "lapse": outages lie further apart than the
\* correlation window of an incident.
Faults == {"steal", "failure", "stop", "redelivery", "poison", "decision", "lapse"}

ASSUME ScenesAssumption == Scenes \subseteq SUBSET (Notices \cup Faults)

VARIABLES
  scene,         \* the identities and the faults of this history; never changes
  now,           \* the latest onset: its alert is firing
  notice,        \* per notification: its onset, its file, its request
  keys,          \* _ALERTMANAGER_RECENT_DELIVERIES: onsets of suppressed repeats
  raw,           \* messages on raw-alerts: none, queued, held by a handler, handled, dead
  occurrence,    \* incident_occurrences rows: the generation an alert is attached to, or 0
  owner,         \* incident_correlation_ownership rows by generation
  incident,      \* status of the incident of each generation
  aged,          \* the incidents up to this generation are older than five minutes
  investigated,  \* generations whose investigation has been sent or enqueued
  handler        \* what each handler holds in its local variables

intakeVars == <<notice, keys>>
ledgerVars == <<occurrence, owner, incident, aged, investigated>>
vars == <<scene, now, intakeVars, raw, ledgerVars, handler>>

Idle == [step |-> "idle", alert |-> None, seen |-> 0, copies |-> <<>>]
After(h, step) == [Idle EXCEPT !.step = step, !.alert = handler[h].alert]

Statuses == {"open", "closed"}
Generations == 1 .. Len(owner)
Onset(n) == notice[n].onset

-----------------------------------------------------------------------------
(* The monitoring adapter. *)

InHand(n) == \E h \in Handlers : handler[h].alert = n

Free(n) ==
  \/ notice[n].file = "none"
  \/ /\ notice[n].file = "archived"
     /\ notice[n].request # "open"
     /\ raw[n] \in {"none", "handled", "dead"}
     /\ ~InHand(n)
     /\ Onset(n) \notin keys

\* A firing notification that is not suppressed: it is recorded as processed and written
\* to the input directory, in this order and without a pause.
Notify(n) ==
  /\ n \in scene /\ Free(n)
  /\ now \notin keys
  /\ keys' = keys \cup {now}
  /\ notice' = [notice EXCEPT ![n] = [onset |-> now, file |-> "landed", request |-> "open"]]
  /\ raw' = [raw EXCEPT ![n] = "none"]
  /\ occurrence' = [occurrence EXCEPT ![n] = 0]
  /\ UNCHANGED <<scene, now, owner, incident, aged, investigated, handler>>

Claim(n) ==
  /\ notice[n].file = "landed" /\ notice[n].request = "open"
  /\ notice' = [notice EXCEPT ![n].file = "claimed"]
  /\ UNCHANGED <<scene, now, keys, raw, ledgerVars, handler>>

\* The watcher finds the record that the request has written and takes the file for a
\* duplicate. (Names of more than 32 characters are cut in the record and not found.)
TakenByWatcher(n) ==
  /\ notice[n].file = "landed"
  /\ notice[n].request = "open" => "steal" \in scene
  /\ notice' = [notice EXCEPT ![n].file = "archived"]
  /\ UNCHANGED <<scene, now, keys, raw, ledgerVars, handler>>

PublishRaw(n) ==
  /\ notice[n].file = "claimed" /\ notice[n].request = "open"
  /\ notice' = [notice EXCEPT ![n].file = "published"]
  /\ raw' = [raw EXCEPT ![n] = "queued"]
  /\ UNCHANGED <<scene, now, keys, ledgerVars, handler>>

\* Fault: an onset stays suppressed although its alert was not accepted.
FaultReadmitted(n) == keys

\* The next notification of the onset is to be let in.
Readmitted(n) == keys \ {Onset(n)}

\* The broker may have accepted a publication that is reported as failed.
PublishRawFails(n) ==
  /\ "failure" \in scene
  /\ notice[n].file = "claimed" /\ notice[n].request = "open"
  /\ notice' = [notice EXCEPT ![n].file = "archived", ![n].request = "answered"]
  /\ keys' = Readmitted(n)
  /\ \E accepted \in BOOLEAN :
       raw' = IF accepted THEN [raw EXCEPT ![n] = "queued"] ELSE raw
  /\ UNCHANGED <<scene, now, ledgerVars, handler>>

Answer(n) ==
  /\ notice[n].file = "published" /\ notice[n].request = "open"
  /\ notice' = [notice EXCEPT ![n].file = "archived", ![n].request = "answered"]
  /\ UNCHANGED <<scene, now, keys, raw, ledgerVars, handler>>

\* The request finds its file gone.
ClaimLost(n) ==
  /\ notice[n].file = "archived" /\ notice[n].request = "open"
  /\ notice' = [notice EXCEPT ![n].request = "answered"]
  /\ keys' = Readmitted(n)
  /\ UNCHANGED <<scene, now, raw, ledgerVars, handler>>

RecoverStaleClaim(n) ==
  /\ notice[n].file \in {"claimed", "published"} /\ notice[n].request = "broken"
  /\ notice' = [notice EXCEPT ![n].file = "landed"]
  /\ UNCHANGED <<scene, now, keys, raw, ledgerVars, handler>>

\* The process dies: its requests break off and it forgets what it has let in.
AdapterStops ==
  /\ "stop" \in scene
  /\ \E n \in Notices : notice[n].request = "open"
  /\ keys' = {}
  /\ notice' = [n \in Notices |->
                  IF notice[n].request = "open" THEN [notice[n] EXCEPT !.request = "broken"]
                  ELSE notice[n]]
  /\ UNCHANGED <<scene, now, raw, ledgerVars, handler>>

\* ALERTMANAGER_DEDUP_TTL_SECONDS have passed.
KeyExpires(o) ==
  /\ o \in keys
  /\ \A n \in Notices : Onset(n) = o => notice[n].request # "open"
  /\ keys' = keys \ {o}
  /\ UNCHANGED <<scene, now, notice, raw, ledgerVars, handler>>

-----------------------------------------------------------------------------
(* Alert intelligence. *)

\* A handler takes a delivery; its first query fixes what it will see of the rows that it
\* reads without a lock.
Take(h, n) ==
  /\ handler[h].step = "idle"
  /\ raw[n] = "queued"
  /\ raw' = [raw EXCEPT ![n] = h]
  /\ handler' = [handler EXCEPT ![h] = [step |-> "read", alert |-> n,
                                        seen |-> occurrence[n], copies |-> incident]]
  /\ UNCHANGED <<scene, now, intakeVars, ledgerVars>>

Latest == Len(owner)

\* Fault: another alert of the latest onset is not historical.
FaultHistorical(o) == Latest # 0 /\ o < owner[Latest].last

\* The problem has seen this onset, or a later one.
Historical(o) == Latest # 0 /\ o <= owner[Latest].last

Terminal(g) == owner[g].state = "closed"

Expired(g, o) == "lapse" \in scene /\ owner[g].first < o

\* The latest generation takes the alert; otherwise the alert opens the next one.
Owned(o) ==
  /\ Latest # 0
  /\ Historical(o) \/ ~(Terminal(Latest) \/ Expired(Latest, o))

\* Fault: the ownership is committed before the incident is saved.
FaultOpen(h) ==
  LET n == handler[h].alert o == Onset(n)
  IN  /\ handler[h].step = "read" /\ handler[h].seen = 0
      /\ occurrence[n] = 0
      /\ ~Owned(o)
      /\ owner' = Append(owner, [first |-> o, last |-> o, state |-> "open"])
      /\ UNCHANGED <<scene, now, intakeVars, raw, occurrence, incident, aged, investigated, handler>>

\* The alert opens the next incident of its problem.
Open(h) ==
  LET n == handler[h].alert o == Onset(n)
  IN  /\ handler[h].step = "read" /\ handler[h].seen = 0
      /\ occurrence[n] = 0
      /\ ~Owned(o)
      /\ owner' = Append(owner, [first |-> o, last |-> o, state |-> "open"])
      /\ incident' = Append(incident, "open")
      /\ occurrence' = [occurrence EXCEPT ![n] = Latest + 1]
      /\ handler' = [handler EXCEPT ![h] = After(h, "publish")]
      /\ UNCHANGED <<scene, now, intakeVars, raw, aged, investigated>>

\* save_incident of a copy: a closed incident is not opened by one that was open.
Merged(g, copy) == IF incident[g] = "closed" /\ copy = "open" THEN "closed" ELSE copy

\* Fault: a duplicate never recovers an investigation.
FaultRecovered(g, copy) == investigated

\* An incident that is still open after five minutes and has no investigation gets one
\* with the next alert attached to it.
Recovered(g, copy) ==
  IF copy = "open" /\ g <= aged THEN investigated \cup {g} ELSE investigated

\* The row of the incident that a duplicate is attached to is written back from the copy,
\* and the state of its ownership with it.
Write(h, g, last) ==
  LET copy == handler[h].copies[g]
  IN  /\ incident' = [incident EXCEPT ![g] = Merged(g, copy)]
      /\ owner' = [owner EXCEPT ![g].last = last,
                                ![g].state = IF Merged(g, copy) = copy THEN copy ELSE @]
      /\ investigated' = Recovered(g, copy)
      /\ handler' = [handler EXCEPT ![h] = After(h, "acknowledge")]
      /\ UNCHANGED <<scene, now, intakeVars, raw, aged>>

\* The alert is one more of its problem's latest incident.
Join(h) ==
  LET n == handler[h].alert o == Onset(n)
  IN  /\ handler[h].step = "read" /\ handler[h].seen = 0
      /\ occurrence[n] = 0
      /\ Owned(o)
      /\ Latest <= Len(handler[h].copies)
      /\ occurrence' = [occurrence EXCEPT ![n] = Latest]
      /\ Write(h, Latest, IF Historical(o) THEN owner[Latest].last ELSE o)

\* An earlier delivery has attached the alert: no lock is taken on the ownership.
Retry(h) ==
  /\ handler[h].step = "read" /\ handler[h].seen # 0
  /\ Write(h, handler[h].seen, owner[handler[h].seen].last)
  /\ UNCHANGED occurrence

\* The handler lets go of its delivery; the broker gives the message out again if it was
\* still this handler's.
Returned(h) ==
  LET n == handler[h].alert
  IN  IF raw[n] = h THEN [raw EXCEPT ![n] = "queued"] ELSE raw

\* The snapshot does not have the row that the current ownership, or the unique key of
\* the occurrence, speaks of: the transaction is rolled back.
Conflict(h) ==
  LET n == handler[h].alert
  IN  /\ handler[h].step = "read" /\ handler[h].seen = 0
      /\ \/ occurrence[n] # 0
         \/ Owned(Onset(n)) /\ Latest > Len(handler[h].copies)
      /\ raw' = Returned(h)
      /\ handler' = [handler EXCEPT ![h] = Idle]
      /\ UNCHANGED <<scene, now, intakeVars, ledgerVars>>

\* The handler that has opened an incident starts its investigation.
PublishEnriched(h) ==
  /\ handler[h].step = "publish"
  /\ investigated' = investigated \cup {occurrence[handler[h].alert]}
  /\ handler' = [handler EXCEPT ![h] = After(h, "acknowledge")]
  /\ UNCHANGED <<scene, now, intakeVars, raw, occurrence, owner, incident, aged>>

PublishEnrichedFails(h) ==
  /\ "failure" \in scene
  /\ handler[h].step = "publish"
  /\ raw' = Returned(h)
  /\ handler' = [handler EXCEPT ![h] = Idle]
  /\ UNCHANGED <<scene, now, intakeVars, ledgerVars>>

Acknowledge(h) ==
  LET n == handler[h].alert
  IN  /\ handler[h].step = "acknowledge"
      /\ raw' = IF raw[n] = h THEN [raw EXCEPT ![n] = "handled"] ELSE raw
      /\ handler' = [handler EXCEPT ![h] = Idle]
      /\ UNCHANGED <<scene, now, intakeVars, ledgerVars>>

HandlerStops(h) ==
  /\ "stop" \in scene
  /\ handler[h].step # "idle"
  /\ raw' = Returned(h)
  /\ handler' = [handler EXCEPT ![h] = Idle]
  /\ UNCHANGED <<scene, now, intakeVars, ledgerVars>>

Redeliver(n) ==
  /\ "redelivery" \in scene
  /\ raw[n] \in Handlers
  /\ raw' = [raw EXCEPT ![n] = "queued"]
  /\ UNCHANGED <<scene, now, intakeVars, ledgerVars, handler>>

DeadLetter(n) ==
  /\ "poison" \in scene
  /\ raw[n] = "queued"
  /\ raw' = [raw EXCEPT ![n] = "dead"]
  /\ UNCHANGED <<scene, now, intakeVars, ledgerVars, handler>>

-----------------------------------------------------------------------------
(* The rest of the system. *)

\* The outage ends and another begins.
NextOnset ==
  /\ now < LastOnset
  /\ now' = now + 1
  /\ UNCHANGED <<scene, intakeVars, raw, ledgerVars, handler>>

Ages ==
  /\ aged < Latest
  /\ aged' = aged + 1
  /\ UNCHANGED <<scene, now, intakeVars, raw, occurrence, owner, incident, investigated, handler>>

Close(g) ==
  /\ incident[g] = "open"
  /\ incident' = [incident EXCEPT ![g] = "closed"]
  /\ owner' = [owner EXCEPT ![g].state = "closed"]
  /\ UNCHANGED <<scene, now, intakeVars, raw, occurrence, aged, investigated, handler>>

\* A decision sets the status of a closed incident and leaves the ownership as it is.
Decide(g) ==
  /\ "decision" \in scene
  /\ incident[g] = "closed"
  /\ incident' = [incident EXCEPT ![g] = "open"]
  /\ UNCHANGED <<scene, now, intakeVars, raw, occurrence, owner, aged, investigated, handler>>

-----------------------------------------------------------------------------

Init ==
  /\ scene \in Scenes
  /\ now = 1
  /\ notice = [n \in Notices |-> [onset |-> 1, file |-> "none", request |-> "none"]]
  /\ keys = {}
  /\ raw = [n \in Notices |-> "none"]
  /\ occurrence = [n \in Notices |-> 0]
  /\ owner = <<>>
  /\ incident = <<>>
  /\ aged = 0
  /\ investigated = {}
  /\ handler = [h \in Handlers |-> Idle]

Request(n) == Claim(n) \/ PublishRaw(n) \/ Answer(n) \/ ClaimLost(n)

Consumption(h) ==
  \/ \E n \in Notices : Take(h, n)
  \/ Open(h) \/ Join(h) \/ Retry(h) \/ Conflict(h)
  \/ PublishEnriched(h) \/ Acknowledge(h)

Breakdown ==
  \/ AdapterStops
  \/ \E n \in Notices : PublishRawFails(n) \/ Redeliver(n) \/ DeadLetter(n)
  \/ \E h \in Handlers : PublishEnrichedFails(h) \/ HandlerStops(h)

Next ==
  \/ \E n \in Notices : Notify(n) \/ Request(n) \/ TakenByWatcher(n) \/ RecoverStaleClaim(n)
  \/ \E o \in 1 .. LastOnset : KeyExpires(o)
  \/ \E h \in Handlers : Consumption(h)
  \/ Breakdown
  \/ NextOnset \/ Ages
  \/ \E g \in Generations : Close(g) \/ Decide(g)

Spec == Init /\ [][Next]_vars

-----------------------------------------------------------------------------
\* The watcher scans every few seconds and a request claims its file at once: they do not
\* meet each time.
Stolen == \E n \in Notices : TakenByWatcher(n) /\ notice[n].request = "open"

\* Alertmanager repeats what is firing, requests and handlers go on, time passes, the
\* watcher clears what is left, and breakdowns are not for ever.
Fairness ==
  /\ WF_vars(\E n \in Notices : Notify(n))
  /\ \A n \in Notices :
       /\ WF_vars(Request(n))
       /\ WF_vars(TakenByWatcher(n) /\ notice[n].request # "open")
       /\ WF_vars(RecoverStaleClaim(n))
  /\ \A o \in 1 .. LastOnset : WF_vars(KeyExpires(o))
  /\ \A h \in Handlers : WF_vars(Consumption(h))
  /\ WF_vars(Ages)
  /\ <>[][~Breakdown /\ ~Stolen]_vars

FairSpec == Spec /\ Fairness

-----------------------------------------------------------------------------
(* Properties. *)

TypeOK ==
  /\ scene \in Scenes
  /\ now \in 1 .. LastOnset
  /\ notice \in [Notices -> [onset : 1 .. LastOnset,
                             file : {"none", "landed", "claimed", "published", "archived"},
                             request : {"none", "open", "broken", "answered"}]]
  /\ keys \subseteq 1 .. LastOnset
  /\ raw \in [Notices -> {"none", "queued", "handled", "dead"} \cup Handlers]
  /\ owner \in Seq([first : 1 .. LastOnset, last : 1 .. LastOnset, state : Statuses])
  /\ incident \in Seq(Statuses) /\ Len(incident) = Len(owner)
  /\ occurrence \in [Notices -> 0 .. Latest]
  /\ aged \in 0 .. Latest
  /\ investigated \subseteq Generations
  /\ handler \in [Handlers -> [step : {"idle", "read", "publish", "acknowledge"},
                               alert : Notices \cup {None}, seen : 0 .. Latest,
                               copies : Seq(Statuses)]]
  /\ \A h \in Handlers : Len(handler[h].copies) <= Latest

\* A problem has one incident at a time: the next one is opened by an onset later than
\* anything its predecessor has seen, and only when the predecessor is closed or its window
\* is over. Handlers decide on the ownership rows, not on the incidents, and concurrently
\* (repository.py:2236-2269); a decision on a closed incident is outside the claim, since
\* it leaves the ownership terminal.
OneOwner ==
  \A g \in Generations : \A later \in g + 1 .. Latest :
    /\ owner[later].first > owner[g].last
    /\ \/ "decision" \in scene
       \/ incident[g] = "closed"
       \/ Expired(g, owner[later].first)

\* Repeats of an onset are suppressed only while an alert of it is being taken in or has
\* been accepted by the bus, whoever claimed the file and however the publication ended.
SuppressedIsAccepted ==
  \A o \in keys : \E n \in Notices :
    Onset(n) = o /\ (notice[n].request = "open" \/ raw[n] # "none")

\* What keeps firing is investigated: the latest onset is attached to an incident, and that
\* incident's investigation is sent or recovered or the incident is closed, whichever
\* request, publication, delivery or handler breaks down on the way.
FiringIsInvestigated ==
  \A o \in 1 .. LastOnset :
    now = o ~> \/ now # o
               \/ /\ Latest # 0 /\ owner[Latest].last = o
                  /\ Latest \in investigated \/ incident[Latest] = "closed"

\* An answered notification has been accepted by the bus: "HTTP 200 means the durable feed
\* and message bus have actually accepted it" (monitoring-adapter/app.py:5346).
AnsweredIsAccepted ==
  \A n \in Notices : notice[n].request = "answered" => raw[n] # "none"

=============================================================================
