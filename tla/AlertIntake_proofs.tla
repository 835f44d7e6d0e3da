-------------------------- MODULE AlertIntake_proofs --------------------------
(***************************************************************************)
(* Proofs about AlertIntake for any notifications and handlers, and any    *)
(* number of outages.                                                      *)
(***************************************************************************)
EXTENDS AlertIntake, SequenceTheorems, TLAPS

\* A message on the bus has a file; a notification without one has no request, and a
\* published file has its message.
Landed ==
  \A n \in Notices :
    /\ raw[n] # "none" => notice[n].file # "none"
    /\ notice[n].file = "none" => notice[n].request # "open"
    /\ notice[n].file = "published" => raw[n] # "none"

Notice ==
  [onset : 1 .. LastOnset, file : {"none", "landed", "claimed", "published", "archived"},
   request : {"none", "open", "broken", "answered"}]

Message == {"none", "queued", "handled", "dead"} \cup Handlers

IntakeTypes ==
  /\ now \in 1 .. LastOnset
  /\ notice \in [Notices -> Notice]
  /\ keys \subseteq 1 .. LastOnset
  /\ raw \in [Notices -> Message]

Intake == IntakeTypes /\ Landed /\ SuppressedIsAccepted

Owner == [first : 1 .. LastOnset, last : 1 .. LastOnset, state : Statuses]

LedgerTypes ==
  /\ owner \in Seq(Owner)
  /\ incident \in Seq(Statuses) /\ Len(incident) = Len(owner)
  /\ aged \in 0 .. Latest
  /\ investigated \subseteq Generations

Ordered == \A g \in Generations : owner[g].first <= owner[g].last

\* An ownership is closed with its incident. (It stays so when a decision opens the
\* incident again, and it stays open when a stale copy is written over a closed incident.)
Agreed ==
  "decision" \notin scene =>
    \A g \in Generations : owner[g].state = "closed" => incident[g] = "closed"

Ledger == LedgerTypes /\ Ordered /\ Agreed /\ OneOwner

Hand ==
  [step : {"idle", "read", "publish", "acknowledge"}, alert : Notices \cup {None},
   seen : Nat, copies : Seq(Statuses)]

\* What a handler has read is still there when it writes: the incident of an earlier
\* delivery is in its snapshot, and its alert's row is not given to another notification.
Handling ==
  \A h \in Handlers :
    LET n == handler[h].alert
    IN  /\ handler[h].seen <= Latest /\ Len(handler[h].copies) <= Latest
        /\ handler[h].step # "idle" => n \in Notices /\ notice[n].file # "none"
        /\ handler[h].step = "read" => handler[h].seen <= Len(handler[h].copies)
        /\ handler[h].step = "publish" => occurrence[n] # 0

Hands ==
  /\ occurrence \in [Notices -> 0 .. Latest]
  /\ handler \in [Handlers -> Hand]
  /\ Handling

IInv == scene \in Scenes /\ Intake /\ Ledger /\ Hands

-----------------------------------------------------------------------------
(* What the invariant says of the rows.                                    *)

LEMMA Rows ==
  ASSUME Ledger
  PROVE  /\ Latest \in Nat
         /\ \A g \in Generations :
              /\ owner[g] \in Owner /\ incident[g] \in Statuses
              /\ owner[g].first \in Nat /\ owner[g].last \in Nat
  <1>1. /\ Latest \in Nat /\ owner \in [1 .. Latest -> Owner]
        /\ incident \in [1 .. Latest -> Statuses]
    BY DEF Ledger, LedgerTypes, Latest
  <1> QED BY <1>1, BoundsAssumption DEF Generations, Latest, Owner

(* Files are not unmade, and messages neither: what the adapter's steps keep of a        *)
(* notification, written once for all of them.                                           *)
LEMMA OneNotice ==
  ASSUME IntakeTypes, NEW n \in Notices, NEW row \in Notice,
         notice' = [notice EXCEPT ![n] = row]
  PROVE  /\ notice' \in [Notices -> Notice]
         /\ notice'[n] = row
         /\ \A m \in Notices \ {n} : notice'[m] = notice[m]
  BY DEF IntakeTypes

(* What the other actors do to the bus: a message stays a message. *)
LEMMA BusStep ==
  ASSUME Intake, UNCHANGED <<now, notice, keys>>, raw' \in [Notices -> Message],
         \A n \in Notices : raw'[n] = "none" <=> raw[n] = "none"
  PROVE  Intake'
  <1>1. IntakeTypes'
    BY DEF Intake, IntakeTypes
  <1>2. Landed'
    BY DEF Intake, Landed
  <1>3. SuppressedIsAccepted'
    BY DEF Intake, SuppressedIsAccepted, Onset
  <1> QED BY <1>1, <1>2, <1>3 DEF Intake

(* One message of the bus moves. *)
LEMMA OneMessage ==
  ASSUME Intake, UNCHANGED <<now, notice, keys>>, NEW n, raw[n] # "none" \/ n \notin Notices,
         NEW state \in Message \ {"none"}, raw' = [raw EXCEPT ![n] = state]
  PROVE  Intake'
  <1>1. /\ raw' \in [Notices -> Message]
        /\ \A m \in Notices : raw'[m] = "none" <=> raw[m] = "none"
    BY DEF Intake, IntakeTypes
  <1> QED BY <1>1, BusStep

-----------------------------------------------------------------------------
(* The monitoring adapter.                                                 *)

AdapterStep(n) ==
  \/ Claim(n) \/ TakenByWatcher(n) \/ PublishRaw(n) \/ PublishRawFails(n)
  \/ Answer(n) \/ ClaimLost(n) \/ RecoverStaleClaim(n)

(* How a notification that is under way moves: the file stays made, the request leaves   *)
(* "open" only with its message on the bus or its onset let in again.                    *)
LEMMA AdapterMoves ==
  ASSUME Intake, NEW n \in Notices, AdapterStep(n)
  PROVE  \E f \in {"landed", "claimed", "published", "archived"},
            r \in {"open", "broken", "answered", "none"} :
           /\ notice' = [notice EXCEPT ![n] = [onset |-> Onset(n), file |-> f, request |-> r]]
           /\ raw' \in {raw, [raw EXCEPT ![n] = "queued"]}
           /\ keys' \in {keys, keys \ {Onset(n)}}
           /\ f = "published" => raw'[n] # "none"
           /\ Onset(n) \in keys' => r = notice[n].request \/ raw'[n] # "none"
           /\ notice[n].file # "none"
           /\ UNCHANGED <<scene, now, ledgerVars, handler>>
  <1>1. /\ notice \in [Notices -> Notice] /\ notice[n] \in Notice /\ n \in DOMAIN raw
        /\ notice[n].file = "published" => raw[n] # "none"
        /\ notice[n].request \in {"open", "broken", "answered", "none"}
        /\ notice[n].file \in {"none", "landed", "claimed", "published", "archived"}
    BY DEF Intake, IntakeTypes, Landed, Notice
  <1>2. \A f \in {"landed", "claimed", "published", "archived"},
           r \in {"open", "broken", "answered", "none"} :
          /\ [notice EXCEPT ![n].file = f] =
               [notice EXCEPT ![n] = [onset |-> Onset(n), file |-> f,
                                      request |-> notice[n].request]]
          /\ [notice EXCEPT ![n].request = r] =
               [notice EXCEPT ![n] = [onset |-> Onset(n), file |-> notice[n].file,
                                      request |-> r]]
          /\ [notice EXCEPT ![n].file = f, ![n].request = r] =
               [notice EXCEPT ![n] = [onset |-> Onset(n), file |-> f, request |-> r]]
    <2> TAKE f \in {"landed", "claimed", "published", "archived"},
             r \in {"open", "broken", "answered", "none"}
    <2>1. [notice[n] EXCEPT !.file = f] =
            [onset |-> Onset(n), file |-> f, request |-> notice[n].request]
      BY <1>1 DEF Notice, Onset
    <2>2. [notice[n] EXCEPT !.request = r] =
            [onset |-> Onset(n), file |-> notice[n].file, request |-> r]
      BY <1>1 DEF Notice, Onset
    <2>3. [notice[n] EXCEPT !.file = f, !.request = r] =
            [onset |-> Onset(n), file |-> f, request |-> r]
      <3>1. [notice[n] EXCEPT !.file = f, !.request = r] =
              [[notice[n] EXCEPT !.file = f] EXCEPT !.request = r]
        BY <1>1 DEF Notice
      <3>2. [[onset |-> Onset(n), file |-> f, request |-> notice[n].request] EXCEPT !.request = r]
              = [onset |-> Onset(n), file |-> f, request |-> r]
        OBVIOUS
      <3> QED BY <2>1, <3>1, <3>2
    <2>4. [notice EXCEPT ![n].file = f, ![n].request = r] =
            [notice EXCEPT ![n] = [notice[n] EXCEPT !.file = f, !.request = r]]
      BY <1>1
    <2> QED BY <1>1, <2>1, <2>2, <2>3, <2>4
  <1>3. CASE Claim(n)
    BY <1>1, <1>2, <1>3 DEF Claim
  <1>4. CASE TakenByWatcher(n)
    BY <1>1, <1>2, <1>4 DEF TakenByWatcher
  <1>5. CASE PublishRaw(n)
    BY <1>1, <1>2, <1>5 DEF PublishRaw
  <1>6. CASE PublishRawFails(n)
    BY <1>1, <1>2, <1>6 DEF PublishRawFails, Readmitted
  <1>7. CASE Answer(n)
    BY <1>1, <1>2, <1>7 DEF Answer
  <1>8. CASE ClaimLost(n)
    BY <1>1, <1>2, <1>8 DEF ClaimLost, Readmitted
  <1>9. CASE RecoverStaleClaim(n)
    BY <1>1, <1>2, <1>9 DEF RecoverStaleClaim
  <1> QED BY <1>3, <1>4, <1>5, <1>6, <1>7, <1>8, <1>9 DEF AdapterStep

LEMMA AdapterIntake ==
  ASSUME Intake, NEW n \in Notices, AdapterStep(n)
  PROVE  Intake'
  <1>1. PICK f \in {"landed", "claimed", "published", "archived"},
             r \in {"open", "broken", "answered", "none"} :
           /\ notice' = [notice EXCEPT ![n] = [onset |-> Onset(n), file |-> f, request |-> r]]
           /\ raw' \in {raw, [raw EXCEPT ![n] = "queued"]}
           /\ keys' \in {keys, keys \ {Onset(n)}}
           /\ f = "published" => raw'[n] # "none"
           /\ Onset(n) \in keys' => r = notice[n].request \/ raw'[n] # "none"
           /\ notice[n].file # "none"
           /\ UNCHANGED <<scene, now, ledgerVars, handler>>
    BY AdapterMoves
  <1> DEFINE row == [onset |-> Onset(n), file |-> f, request |-> r]
  <1>2. row \in Notice /\ row.onset = Onset(n) /\ row.file = f /\ row.request = r
    BY DEF Intake, IntakeTypes, Notice, Onset
  <1>3. notice' = [notice EXCEPT ![n] = row]
    BY <1>1
  <1> HIDE DEF row
  <1>4. /\ notice' \in [Notices -> Notice] /\ notice'[n] = row
        /\ \A m \in Notices \ {n} : notice'[m] = notice[m]
    BY <1>2, <1>3, OneNotice DEF Intake
  <1>5. /\ raw' \in [Notices -> Message]
        /\ \A m \in Notices : raw[m] # "none" => raw'[m] # "none"
        /\ \A m \in Notices \ {n} : raw'[m] = raw[m]
    BY <1>1 DEF Intake, IntakeTypes, Message
  <1>6. IntakeTypes'
    BY <1>1, <1>4, <1>5 DEF Intake, IntakeTypes
  <1>7. Landed'
    BY <1>1, <1>2, <1>4, <1>5 DEF Intake, Landed
  <1>8. SuppressedIsAccepted'
    <2> SUFFICES ASSUME NEW o \in keys'
                 PROVE  \E m \in Notices :
                          notice'[m].onset = o /\ (notice'[m].request = "open" \/ raw'[m] # "none")
      BY DEF SuppressedIsAccepted, Onset
    <2>1. PICK m \in Notices : Onset(m) = o /\ (notice[m].request = "open" \/ raw[m] # "none")
      BY <1>1 DEF Intake, SuppressedIsAccepted
    <2>2. CASE m # n
      BY <1>4, <1>5, <2>1, <2>2 DEF Onset
    <2>3. CASE m = n
      BY <1>1, <1>2, <1>4, <1>5, <2>1, <2>3 DEF Onset
    <2> QED BY <2>2, <2>3
  <1> QED BY <1>6, <1>7, <1>8 DEF Intake

\* A notification that comes, one more file.
LEMMA NotifyIntake ==
  ASSUME Intake, NEW n \in Notices, Notify(n)
  PROVE  Intake'
  <1> DEFINE row == [onset |-> now, file |-> "landed", request |-> "open"]
  <1>1. /\ row \in Notice /\ row.onset = now /\ row.file = "landed" /\ row.request = "open"
    BY DEF Intake, IntakeTypes, Notice
  <1>2. /\ notice' = [notice EXCEPT ![n] = row] /\ raw' = [raw EXCEPT ![n] = "none"]
        /\ keys' = keys \cup {now} /\ now' = now
    BY DEF Notify
  <1> HIDE DEF row
  <1>3. /\ notice' \in [Notices -> Notice] /\ notice'[n] = row
        /\ \A m \in Notices \ {n} : notice'[m] = notice[m]
    BY <1>1, <1>2, OneNotice DEF Intake
  <1>4. /\ raw' \in [Notices -> Message] /\ raw'[n] = "none"
        /\ \A m \in Notices \ {n} : raw'[m] = raw[m]
    BY <1>2 DEF Intake, IntakeTypes, Message
  <1>5. IntakeTypes'
    BY <1>2, <1>3, <1>4 DEF Intake, IntakeTypes
  <1>6. Landed'
    BY <1>1, <1>3, <1>4 DEF Intake, Landed
  <1>7. SuppressedIsAccepted'
    <2> SUFFICES ASSUME NEW o \in keys'
                 PROVE  \E m \in Notices :
                          notice'[m].onset = o /\ (notice'[m].request = "open" \/ raw'[m] # "none")
      BY DEF SuppressedIsAccepted, Onset
    <2>1. CASE o = now
      BY <1>1, <1>3, <2>1
    <2>2. CASE o # now
      <3>1. PICK m \in Notices :
              Onset(m) = o /\ (notice[m].request = "open" \/ raw[m] # "none")
        BY <1>2, <2>2 DEF Intake, SuppressedIsAccepted
      <3>2. m # n
        BY <1>2, <2>2, <3>1 DEF Notify, Free, Intake, Landed
      <3> QED BY <1>3, <1>4, <3>1, <3>2 DEF Onset
    <2> QED BY <2>1, <2>2
  <1> QED BY <1>5, <1>6, <1>7 DEF Intake

\* The adapter dies and forgets what it has let in, or a suppression runs out.
LEMMA ForgottenIntake ==
  ASSUME Intake, AdapterStops \/ (\E o \in 1 .. LastOnset : KeyExpires(o)) \/ NextOnset
  PROVE  Intake'
  <1>1. CASE AdapterStops
    <2>1. \A n \in Notices :
            /\ notice'[n] \in Notice /\ notice'[n].file = notice[n].file
            /\ notice'[n].request = "open" => notice[n].request = "open"
      BY <1>1 DEF AdapterStops, Intake, IntakeTypes, Notice
    <2>2. /\ notice' \in [Notices -> Notice] /\ keys' = {} /\ UNCHANGED <<now, raw>>
      BY <1>1, <2>1 DEF AdapterStops
    <2> QED BY <2>1, <2>2 DEF Intake, IntakeTypes, Landed, SuppressedIsAccepted
  <1>2. CASE \E o \in 1 .. LastOnset : KeyExpires(o)
    <2>1. keys' \subseteq keys /\ UNCHANGED <<now, notice, raw>>
      BY <1>2 DEF KeyExpires
    <2> QED BY <2>1 DEF Intake, IntakeTypes, Landed, SuppressedIsAccepted, Onset
  <1>3. CASE NextOnset
    <2>1. now' \in 1 .. LastOnset /\ UNCHANGED <<keys, notice, raw>>
      BY <1>3, BoundsAssumption DEF NextOnset, Intake, IntakeTypes, intakeVars
    <2> QED BY <2>1 DEF Intake, IntakeTypes, Landed, SuppressedIsAccepted, Onset
  <1> QED BY <1>1, <1>2, <1>3

-----------------------------------------------------------------------------
(* What handlers hold.                                                     *)

LEMMA HandsKept ==
  ASSUME Hands, UNCHANGED <<occurrence, handler>>, Latest' = Latest,
         \A n \in Notices : notice[n].file # "none" => notice'[n].file # "none"
  PROVE  Hands'
  <1>1. Handling'
    BY DEF Hands, Handling
  <1> QED BY <1>1 DEF Hands

\* A notification that comes again is in nobody's hands.
LEMMA NotifyHands ==
  ASSUME Intake, Hands, Latest \in Nat, NEW n \in Notices, Notify(n)
  PROVE  Hands'
  <1>1. /\ UNCHANGED <<owner, handler>> /\ Latest' = Latest
        /\ occurrence' = [occurrence EXCEPT ![n] = 0]
    BY DEF Notify, Latest
  <1>2. notice'[n].file = "landed" /\ \A m \in Notices \ {n} : notice'[m] = notice[m]
    BY DEF Notify, Intake, IntakeTypes
  <1>3. \A h \in Handlers : handler[h].step = "publish" => handler[h].alert # n
    BY DEF Notify, Free, InHand, Hands, Handling
  <1>4. Handling'
    BY <1>1, <1>2, <1>3 DEF Hands, Handling
  <1>5. occurrence' \in [Notices -> 0 .. Latest']
    <2>1. 0 \in 0 .. Latest
      OBVIOUS
    <2> QED BY <1>1, <2>1 DEF Hands
  <1> QED BY <1>1, <1>4, <1>5 DEF Hands

LEMMA AfterHand ==
  ASSUME Hands, NEW h \in Handlers, NEW s \in {"publish", "acknowledge"}
  PROVE  /\ After(h, s) \in Hand /\ After(h, s).step = s
         /\ After(h, s).alert = handler[h].alert
         /\ After(h, s).seen = 0 /\ After(h, s).copies = <<>>
  <1>1. handler[h].alert \in Notices \cup {None}
    BY DEF Hands, Hand
  <1>2. [Idle EXCEPT !.step = s] = [step |-> s, alert |-> None, seen |-> 0, copies |-> <<>>]
    BY DEF Idle
  <1>3. After(h, s) = [[Idle EXCEPT !.step = s] EXCEPT !.alert = handler[h].alert]
    BY DEF After, Idle
  <1>4. [[step |-> s, alert |-> None, seen |-> 0, copies |-> <<>>]
           EXCEPT !.alert = handler[h].alert] =
        [step |-> s, alert |-> handler[h].alert, seen |-> 0, copies |-> <<>>]
    OBVIOUS
  <1>5. After(h, s) = [step |-> s, alert |-> handler[h].alert, seen |-> 0, copies |-> <<>>]
    BY <1>2, <1>3, <1>4
  <1>6. <<>> \in Seq(Statuses)
    OBVIOUS
  <1> QED BY <1>1, <1>5, <1>6 DEF Hand

\* One handler goes on to its next step.
LEMMA OneHand ==
  ASSUME Hands, Latest \in Nat, Latest' \in Nat, Latest' >= Latest, UNCHANGED notice,
         occurrence' \in [Notices -> 0 .. Latest'],
         \A n \in Notices : occurrence[n] # 0 => occurrence'[n] # 0,
         NEW h \in Handlers, NEW row \in Hand, handler' = [handler EXCEPT ![h] = row],
         row.seen <= Latest', Len(row.copies) <= Latest',
         row.step # "idle" => row.alert \in Notices /\ notice[row.alert].file # "none",
         row.step = "read" => row.seen <= Len(row.copies),
         row.step = "publish" => occurrence'[row.alert] # 0
  PROVE  Hands'
  <1>1. /\ handler' \in [Handlers -> Hand] /\ handler'[h] = row
        /\ \A k \in Handlers \ {h} : handler'[k] = handler[k]
    BY DEF Hands
  <1>2. ASSUME NEW k \in Handlers
        PROVE  LET n == handler'[k].alert
               IN  /\ handler'[k].seen <= Latest' /\ Len(handler'[k].copies) <= Latest'
                   /\ handler'[k].step # "idle" => n \in Notices /\ notice'[n].file # "none"
                   /\ handler'[k].step = "read" => handler'[k].seen <= Len(handler'[k].copies)
                   /\ handler'[k].step = "publish" => occurrence'[n] # 0
    <2>1. CASE k = h
      BY <1>1, <2>1
    <2>2. CASE k # h
      <3>1. handler'[k] = handler[k] /\ handler[k] \in Hand
        BY <1>1, <2>2 DEF Hands
      <3>2. handler[k].seen \in Nat /\ Len(handler[k].copies) \in Nat
        BY <3>1 DEF Hand
      <3>3. handler[k].seen <= Latest' /\ Len(handler[k].copies) <= Latest'
        BY <3>2 DEF Hands, Handling
      <3> QED BY <3>1, <3>3 DEF Hands, Handling
    <2> QED BY <2>1, <2>2
  <1>3. Handling'
    BY <1>2 DEF Handling
  <1> QED BY <1>1, <1>3 DEF Hands

\* A handler that lets go holds nothing.
LEMMA LetGo ==
  ASSUME Hands, Latest \in Nat, NEW h \in Handlers, handler' = [handler EXCEPT ![h] = Idle],
         UNCHANGED <<notice, occurrence, owner>>
  PROVE  Hands'
  <1>1. /\ Idle \in Hand /\ Idle.step = "idle" /\ Idle.seen = 0 /\ Len(Idle.copies) = 0
    BY DEF Idle, Hand
  <1>2. /\ Latest' = Latest /\ Latest' \in Nat /\ Latest' >= Latest
        /\ occurrence' \in [Notices -> 0 .. Latest']
        /\ \A n \in Notices : occurrence[n] # 0 => occurrence'[n] # 0
    BY DEF Latest, Hands
  <1>3. /\ Idle.seen <= Latest' /\ Len(Idle.copies) <= Latest'
        /\ Idle.step # "read" /\ Idle.step # "publish"
    BY <1>1, <1>2
  <1> HIDE DEF Idle
  <1> QED BY <1>1, <1>2, <1>3, OneHand

-----------------------------------------------------------------------------
(* The ledger of incidents.                                                *)

LEMMA LedgerKept ==
  ASSUME Ledger, UNCHANGED <<scene, owner, incident, aged, investigated>>
  PROVE  Ledger' /\ Latest' = Latest
  BY DEF Ledger, LedgerTypes, Ordered, Agreed, OneOwner, Generations, Latest, Expired

\* The rows of one generation are written. Only the newest one's window moves, no window
\* shrinks, and a closed incident stays closed unless decisions are made.
LEMMA OneGeneration ==
  ASSUME Ledger, NEW g \in Generations, NEW last \in 1 .. LastOnset,
         NEW state \in Statuses, NEW status \in Statuses,
         last >= owner[g].last, g = Latest \/ last = owner[g].last,
         "decision" \notin scene =>
           /\ state = "closed" => status = "closed"
           /\ incident[g] = "closed" => status = "closed",
         owner' = [owner EXCEPT ![g] = [first |-> owner[g].first, last |-> last, state |-> state]],
         incident' = [incident EXCEPT ![g] = status],
         UNCHANGED <<scene, aged>>, investigated' \subseteq Generations
  PROVE  Ledger' /\ Latest' = Latest
  <1> DEFINE row == [first |-> owner[g].first, last |-> last, state |-> state]
  <1>1. /\ Latest \in Nat /\ g \in 1 .. Len(owner) /\ g \in 1 .. Len(incident)
        /\ owner \in Seq(Owner) /\ incident \in Seq(Statuses)
        /\ Len(owner) = Latest /\ Len(incident) = Latest
        /\ owner[g] \in Owner
    BY Rows DEF Ledger, LedgerTypes, Generations, Latest
  <1>2. /\ row \in Owner /\ row.first = owner[g].first /\ row.last = last
        /\ row.state = state
    BY <1>1 DEF Owner
  <1>3. owner' = [owner EXCEPT ![g] = row]
    OBVIOUS
  <1> HIDE DEF row
  <1>4. /\ owner' \in Seq(Owner) /\ Len(owner') = Latest
        /\ \A j \in 1 .. Latest : owner'[j] = IF j = g THEN row ELSE owner[j]
    BY <1>1, <1>2, <1>3, ExceptSeq
  <1>5. /\ incident' \in Seq(Statuses) /\ Len(incident') = Latest
        /\ \A j \in 1 .. Latest : incident'[j] = IF j = g THEN status ELSE incident[j]
    BY <1>1, ExceptSeq
  <1>6. Latest' = Latest /\ Generations = 1 .. Latest /\ Generations' = 1 .. Latest
    BY <1>4 DEF Latest, Generations
  <1>7. LedgerTypes'
    BY <1>4, <1>5, <1>6 DEF Ledger, LedgerTypes
  <1>8. Ordered'
    <2>1. owner[g].first <= last
      BY Rows DEF Ledger, Ordered
    <2> QED BY <1>2, <1>4, <1>6, <2>1 DEF Ledger, Ordered
  <1>9. Agreed'
    BY <1>2, <1>4, <1>5, <1>6 DEF Ledger, Agreed
  <1>10. OneOwner'
    <2> SUFFICES ASSUME NEW e \in 1 .. Latest, NEW later \in e + 1 .. Latest
                 PROVE  /\ owner'[later].first > owner'[e].last
                        /\ \/ "decision" \in scene
                           \/ incident'[e] = "closed"
                           \/ "lapse" \in scene /\ owner'[e].first < owner'[later].first
      BY <1>6 DEF OneOwner, Expired
    <2>1. later \in 1 .. Latest /\ e # Latest
      BY <1>1
    <2>2. /\ owner[later].first > owner[e].last
          /\ \/ "decision" \in scene
             \/ incident[e] = "closed"
             \/ "lapse" \in scene /\ owner[e].first < owner[later].first
      BY <1>6 DEF Ledger, OneOwner, Expired
    <2>3. owner'[later].first = owner[later].first /\ owner'[e].first = owner[e].first
      BY <1>2, <1>4, <2>1
    <2>4. owner'[e].last = owner[e].last
      BY <1>2, <1>4, <2>1
    <2>5. "decision" \notin scene /\ incident[e] = "closed" => incident'[e] = "closed"
      BY <1>5
    <2> QED BY <2>2, <2>3, <2>4, <2>5
  <1> QED BY <1>6, <1>7, <1>8, <1>9, <1>10 DEF Ledger

\* The next generation is opened: by a later onset, its predecessor closed or lapsed.
LEMMA NextGeneration ==
  ASSUME Ledger, NEW o \in 1 .. LastOnset, ~Owned(o),
         owner' = Append(owner, [first |-> o, last |-> o, state |-> "open"]),
         incident' = Append(incident, "open"), UNCHANGED <<scene, aged, investigated>>
  PROVE  Ledger' /\ Latest' = Latest + 1
  <1> DEFINE row == [first |-> o, last |-> o, state |-> "open"]
  <1>1. /\ Latest \in Nat /\ Generations = 1 .. Latest
        /\ owner \in Seq(Owner) /\ incident \in Seq(Statuses)
        /\ Len(owner) = Latest /\ Len(incident) = Latest
    BY Rows DEF Ledger, LedgerTypes, Generations, Latest
  <1>2. row \in Owner /\ row.first = o /\ row.last = o /\ row.state = "open"
    BY DEF Owner, Statuses
  <1>3. owner' = Append(owner, row)
    OBVIOUS
  <1> HIDE DEF row
  <1>4. /\ owner' \in Seq(Owner) /\ Len(owner') = Latest + 1
        /\ \A j \in 1 .. Latest : owner'[j] = owner[j]
        /\ owner'[Latest + 1] = row
    BY <1>1, <1>2, <1>3, AppendProperties
  <1>5. /\ incident' \in Seq(Statuses) /\ Len(incident') = Latest + 1
        /\ \A j \in 1 .. Latest : incident'[j] = incident[j]
    BY <1>1, AppendProperties DEF Statuses
  <1>6. Latest' = Latest + 1 /\ Generations' = 1 .. Latest + 1
    BY <1>4 DEF Latest, Generations
  <1>7. LedgerTypes'
    BY <1>1, <1>4, <1>5, <1>6 DEF Ledger, LedgerTypes
  <1>8. Ordered'
    BY <1>1, <1>2, <1>4, <1>6 DEF Ledger, Ordered
  <1>9. Agreed'
    BY <1>1, <1>2, <1>4, <1>5, <1>6 DEF Ledger, Agreed
  <1>10. ASSUME NEW e \in 1 .. Latest
         PROVE  /\ o > owner[e].last
                /\ \/ "decision" \in scene
                   \/ incident[e] = "closed"
                   \/ "lapse" \in scene /\ owner[e].first < o
    <2>1. Latest # 0 /\ Latest \in Generations
      BY <1>1
    <2>2. o > owner[Latest].last /\ (Terminal(Latest) \/ Expired(Latest, o))
      <3>1. o \in Nat /\ owner[Latest].last \in Nat
        BY <2>1, Rows
      <3> QED BY <2>1, <3>1 DEF Owned, Historical
    <2>3. CASE e = Latest
      BY <1>1, <2>1, <2>2, <2>3 DEF Terminal, Expired, Ledger, Agreed
    <2>4. CASE e # Latest
      <3>1. Latest \in e + 1 .. Latest
        BY <1>1, <2>4
      <3>2. /\ owner[Latest].first > owner[e].last
            /\ \/ "decision" \in scene
               \/ incident[e] = "closed"
               \/ "lapse" \in scene /\ owner[e].first < owner[Latest].first
        BY <1>1, <3>1 DEF Ledger, OneOwner, Expired
      <3>3. owner[Latest].first <= owner[Latest].last
        BY <2>1 DEF Ledger, Ordered
      <3>4. /\ owner[Latest].first \in Nat /\ owner[Latest].last \in Nat
            /\ owner[e].first \in Nat /\ owner[e].last \in Nat
        BY <1>1, <2>1, Rows
      <3>5. o \in Nat /\ o > owner[Latest].first
        BY <2>2, <3>3, <3>4
      <3>6. o > owner[e].last
        BY <3>2, <3>4, <3>5
      <3>7. owner[e].first < owner[Latest].first => owner[e].first < o
        BY <3>4, <3>5
      <3> QED BY <3>2, <3>6, <3>7
    <2> QED BY <2>3, <2>4
  <1>11. OneOwner'
    <2> SUFFICES ASSUME NEW e \in 1 .. Latest + 1, NEW later \in e + 1 .. Latest + 1
                 PROVE  /\ owner'[later].first > owner'[e].last
                        /\ \/ "decision" \in scene
                           \/ incident'[e] = "closed"
                           \/ "lapse" \in scene /\ owner'[e].first < owner'[later].first
      BY <1>6 DEF OneOwner, Expired
    <2>1. e \in 1 .. Latest /\ owner'[e] = owner[e] /\ incident'[e] = incident[e]
      BY <1>1, <1>4, <1>5
    <2>2. CASE later = Latest + 1
      BY <1>2, <1>4, <1>10, <2>1, <2>2
    <2>3. CASE later # Latest + 1
      <3>1. later \in e + 1 .. Latest /\ owner'[later] = owner[later]
        BY <1>1, <1>4, <2>3
      <3> QED BY <1>1, <2>1, <3>1 DEF Ledger, OneOwner, Expired
    <2> QED BY <2>2, <2>3
  <1> QED BY <1>6, <1>7, <1>8, <1>9, <1>11 DEF Ledger

-----------------------------------------------------------------------------
(* Alert intelligence.                                                     *)

LEMMA ReturnedIntake ==
  ASSUME Intake, NEW h \in Handlers, UNCHANGED <<now, notice, keys>>, raw' = Returned(h)
  PROVE  Intake'
  <1> DEFINE n == handler[h].alert
  <1>1. h # "none"
    BY NamesAssumption
  <1>2. CASE raw[n] = h
    BY <1>1, <1>2, OneMessage DEF Returned, Message
  <1>3. CASE raw[n] # h
    <2>1. raw' = raw
      BY <1>3 DEF Returned
    <2> QED BY <2>1, BusStep DEF Intake, IntakeTypes
  <1> QED BY <1>2, <1>3

\* A handler takes a delivery.
LEMMA TakeInv ==
  ASSUME IInv, NEW h \in Handlers, NEW n \in Notices, Take(h, n)
  PROVE  IInv'
  <1> DEFINE row == [step |-> "read", alert |-> n, seen |-> occurrence[n], copies |-> incident]
  <1>1. /\ raw[n] = "queued" /\ raw' = [raw EXCEPT ![n] = h]
        /\ handler' = [handler EXCEPT ![h] = row]
        /\ UNCHANGED <<scene, now, notice, keys, occurrence, owner, incident, aged, investigated>>
    BY DEF Take, intakeVars, ledgerVars
  <1>2. h \in Message \ {"none"}
    BY NamesAssumption DEF Message
  <1>3. Intake'
    BY <1>1, <1>2, OneMessage DEF IInv
  <1>4. Ledger' /\ Latest' = Latest /\ Latest \in Nat
    BY <1>1, LedgerKept, Rows DEF IInv
  <1>5. /\ incident \in Seq(Statuses) /\ Len(incident) = Latest
        /\ occurrence[n] \in Nat /\ occurrence[n] <= Latest
    BY <1>4 DEF IInv, Ledger, LedgerTypes, Latest, Hands
  <1>6. /\ row \in Hand /\ row.seen = occurrence[n] /\ row.copies = incident
        /\ row.step = "read" /\ row.alert = n
    BY <1>5 DEF Hand
  <1>7. notice[n].file # "none"
    BY <1>1 DEF IInv, Intake, Landed
  <1> HIDE DEF row
  <1>8. Hands'
    <2>1. occurrence' \in [Notices -> 0 .. Latest']
      BY <1>1, <1>4 DEF IInv, Hands
    <2>2. /\ Latest' \in Nat /\ Latest' >= Latest /\ row.seen <= Latest'
          /\ Len(row.copies) <= Latest' /\ row.seen <= Len(row.copies)
      BY <1>4, <1>5, <1>6
    <2>3. row.step # "publish"
      BY <1>6
    <2> QED BY <1>1, <1>4, <1>6, <1>7, <2>1, <2>2, <2>3, OneHand DEF IInv
  <1> QED BY <1>1, <1>3, <1>4, <1>8 DEF IInv

\* A handler lets go of its delivery, or is done with it.
LEMMA DoneInv ==
  ASSUME IInv, NEW h \in Handlers,
         \/ Conflict(h) \/ PublishEnrichedFails(h) \/ HandlerStops(h)
         \/ Acknowledge(h)
  PROVE  IInv'
  <1>1. /\ handler' = [handler EXCEPT ![h] = Idle]
        /\ UNCHANGED <<scene, now, notice, keys, occurrence, owner, incident, aged, investigated>>
    BY DEF Conflict, PublishEnrichedFails, HandlerStops, Acknowledge, intakeVars, ledgerVars
  <1>2. Intake'
    <2>1. CASE raw' = Returned(h)
      BY <1>1, <2>1, ReturnedIntake DEF IInv
    <2>2. CASE Acknowledge(h)
      <3> DEFINE n == handler[h].alert
      <3>1. CASE raw[n] = h
        <4>1. h # "none" /\ raw' = [raw EXCEPT ![n] = "handled"]
          BY <2>2, <3>1, NamesAssumption DEF Acknowledge
        <4> QED BY <1>1, <3>1, <4>1, OneMessage DEF IInv, Message
      <3>2. CASE raw[n] # h
        <4>1. raw' = raw
          BY <2>2, <3>2 DEF Acknowledge
        <4> QED BY <1>1, <4>1, BusStep DEF IInv, Intake, IntakeTypes
      <3> QED BY <3>1, <3>2
    <2> QED BY <2>1, <2>2 DEF Conflict, PublishEnrichedFails, HandlerStops
  <1>3. Ledger' /\ Latest \in Nat
    BY <1>1, LedgerKept, Rows DEF IInv
  <1>4. Hands'
    BY <1>1, <1>3, LetGo DEF IInv
  <1> QED BY <1>1, <1>2, <1>3, <1>4 DEF IInv

\* A message is taken back or set aside.
LEMMA BrokerInv ==
  ASSUME IInv, NEW n \in Notices, Redeliver(n) \/ DeadLetter(n)
  PROVE  IInv'
  <1>1. UNCHANGED <<scene, now, notice, keys, occurrence, owner, incident, aged, investigated,
                    handler>>
    BY DEF Redeliver, DeadLetter, intakeVars, ledgerVars
  <1>2. /\ raw[n] # "none"
        /\ \/ raw' = [raw EXCEPT ![n] = "queued"] \/ raw' = [raw EXCEPT ![n] = "dead"]
    BY NamesAssumption DEF Redeliver, DeadLetter
  <1>3. Intake'
    BY <1>1, <1>2, OneMessage DEF IInv, Message
  <1>4. Ledger' /\ Latest' = Latest
    BY <1>1, LedgerKept DEF IInv
  <1>5. Hands'
    BY <1>1, <1>4, HandsKept DEF IInv
  <1> QED BY <1>1, <1>3, <1>4, <1>5 DEF IInv

\* A handler goes on to publish or to acknowledge; the rest of the ledger is given.
LEMMA AfterHands ==
  ASSUME IInv, Ledger', Latest' >= Latest, UNCHANGED notice,
         occurrence' \in [Notices -> 0 .. Latest'],
         \A n \in Notices : occurrence[n] # 0 => occurrence'[n] # 0,
         NEW h \in Handlers, handler[h].step # "idle",
         NEW s \in {"publish", "acknowledge"},
         s = "publish" => occurrence'[handler[h].alert] # 0,
         handler' = [handler EXCEPT ![h] = After(h, s)]
  PROVE  Hands'
  <1> DEFINE row == After(h, s)
  <1>1. /\ row \in Hand /\ row.step = s /\ row.alert = handler[h].alert
        /\ row.seen = 0 /\ row.copies = <<>>
    BY AfterHand DEF IInv
  <1>2. Latest \in Nat /\ Latest' \in Nat
    <2>1. Ledger' => Latest' \in Nat
      BY DEF Ledger, LedgerTypes, Latest
    <2> QED BY <2>1, Rows DEF IInv
  <1>3. row.alert \in Notices /\ notice[row.alert].file # "none"
    BY <1>1 DEF IInv, Hands, Handling
  <1>4. handler' = [handler EXCEPT ![h] = row]
    OBVIOUS
  <1>5. row.step # "read" /\ (row.step = "publish" => occurrence'[row.alert] # 0)
    BY <1>1
  <1> HIDE DEF row
  <1>6. row.seen <= Latest' /\ Len(row.copies) <= Latest'
    BY <1>1, <1>2
  <1> QED BY <1>1, <1>2, <1>3, <1>4, <1>5, <1>6, OneHand DEF IInv

\* What a handler has in its hands.
LEMMA InHands ==
  ASSUME IInv, NEW h \in Handlers, handler[h].step # "idle"
  PROVE  /\ handler[h].alert \in Notices
         /\ Onset(handler[h].alert) \in 1 .. LastOnset
         /\ occurrence[handler[h].alert] \in 0 .. Latest
         /\ handler[h].copies \in Seq(Statuses) /\ handler[h].seen \in Nat
         /\ handler[h].seen <= Latest
         /\ handler[h].step = "read" => handler[h].seen <= Len(handler[h].copies)
  <1>1. handler[h].alert \in Notices /\ handler[h] \in Hand
    BY DEF IInv, Hands, Handling
  <1> QED BY <1>1 DEF IInv, Hands, Handling, Hand, Intake, IntakeTypes, Notice, Onset

LEMMA OpenInv ==
  ASSUME IInv, NEW h \in Handlers, Open(h)
  PROVE  IInv'
  <1> DEFINE n == handler[h].alert
             o == Onset(n)
  <1>1. /\ handler[h].step = "read" /\ ~Owned(o)
        /\ owner' = Append(owner, [first |-> o, last |-> o, state |-> "open"])
        /\ incident' = Append(incident, "open")
        /\ occurrence' = [occurrence EXCEPT ![n] = Latest + 1]
        /\ handler' = [handler EXCEPT ![h] = After(h, "publish")]
        /\ UNCHANGED <<scene, now, notice, keys, raw, aged, investigated>>
    BY DEF Open, intakeVars
  <1>2. n \in Notices /\ o \in 1 .. LastOnset /\ Latest \in Nat
    BY <1>1, InHands, Rows DEF IInv
  <1> HIDE DEF o
  <1>3. Ledger' /\ Latest' = Latest + 1
    BY <1>1, <1>2, NextGeneration DEF IInv
  <1>4. Intake'
    BY <1>1, BusStep DEF IInv, Intake, IntakeTypes
  <1>5. /\ occurrence' \in [Notices -> 0 .. Latest'] /\ occurrence'[n] # 0
        /\ \A m \in Notices : occurrence[m] # 0 => occurrence'[m] # 0
    <2>1. 0 .. Latest \subseteq 0 .. Latest + 1 /\ Latest + 1 \in 0 .. Latest + 1
      BY <1>2
    <2> QED BY <1>1, <1>2, <1>3, <2>1 DEF IInv, Hands
  <1>6. Hands'
    <2>1. Latest' >= Latest
      BY <1>2, <1>3
    <2> QED BY <1>1, <1>3, <1>5, <2>1, AfterHands
  <1> QED BY <1>1, <1>3, <1>4, <1>6 DEF IInv

\* What a duplicate writes back: status and ownership agree, a closed incident is not
\* opened by an older copy.
LEMMA WriteLedger ==
  ASSUME IInv, NEW h \in Handlers, handler[h].step = "read", NEW g \in Generations,
         g <= Len(handler[h].copies), NEW last \in 1 .. LastOnset,
         last >= owner[g].last, g = Latest \/ last = owner[g].last, Write(h, g, last)
  PROVE  Ledger' /\ Latest' = Latest
  <1> DEFINE copy == handler[h].copies[g]
             status == Merged(g, copy)
             state == IF Merged(g, copy) = copy THEN copy ELSE owner[g].state
  <1>1. copy \in Statuses
    BY InHands DEF Generations
  <1>2. /\ Latest \in Nat /\ owner[g] \in Owner /\ incident[g] \in Statuses
        /\ owner \in Seq(Owner) /\ Generations = 1 .. Latest /\ Len(owner) = Latest
    BY Rows DEF IInv, Ledger, LedgerTypes, Generations, Latest
  <1>3. status \in Statuses /\ state \in Statuses
    BY <1>1, <1>2 DEF Merged, Owner
  <1>4. "decision" \notin scene =>
           /\ state = "closed" => status = "closed"
           /\ incident[g] = "closed" => status = "closed"
    BY <1>1, <1>2 DEF Merged, IInv, Ledger, Agreed, Statuses
  <1>5. /\ incident' = [incident EXCEPT ![g] = status]
        /\ UNCHANGED <<scene, aged>>
    BY DEF Write
  <1>6. investigated' \subseteq Generations
    BY DEF Write, Recovered, IInv, Ledger, LedgerTypes
  <1>7. owner' = [owner EXCEPT ![g].last = last, ![g].state = state]
    BY DEF Write
  <1> HIDE DEF status, state
  <1>8. owner' = [owner EXCEPT ![g] =
                    [first |-> owner[g].first, last |-> last, state |-> state]]
    <2>1. owner' = [owner EXCEPT ![g] = [owner[g] EXCEPT !.last = last, !.state = state]]
      BY <1>2, <1>7
    <2>2. [owner[g] EXCEPT !.last = last] =
            [first |-> owner[g].first, last |-> last, state |-> owner[g].state]
      BY <1>2 DEF Owner
    <2>3. [owner[g] EXCEPT !.last = last, !.state = state] =
            [[owner[g] EXCEPT !.last = last] EXCEPT !.state = state]
      BY <1>2 DEF Owner
    <2>4. [[first |-> owner[g].first, last |-> last, state |-> owner[g].state]
             EXCEPT !.state = state] =
          [first |-> owner[g].first, last |-> last, state |-> state]
      OBVIOUS
    <2> QED BY <2>1, <2>2, <2>3, <2>4
  <1> QED BY <1>3, <1>4, <1>5, <1>6, <1>8, OneGeneration DEF IInv

LEMMA WriteInv ==
  ASSUME IInv, NEW h \in Handlers, Join(h) \/ Retry(h)
  PROVE  IInv'
  <1> DEFINE n == handler[h].alert
             o == Onset(n)
             seen == handler[h].seen
             copies == handler[h].copies
  <1>1. handler[h].step = "read"
    BY DEF Join, Retry
  <1>2. /\ n \in Notices /\ o \in 1 .. LastOnset /\ Len(copies) \in Nat
        /\ seen \in Nat /\ seen <= Latest /\ seen <= Len(copies) /\ Latest \in Nat
    BY <1>1, InHands, Rows DEF IInv
  <1>3. \A g \in Generations : owner[g].last \in 1 .. LastOnset /\ owner[g].last \in Nat
    BY Rows DEF IInv, Owner
  <1>4. /\ Ledger' /\ Latest' = Latest
        /\ handler' = [handler EXCEPT ![h] = After(h, "acknowledge")]
        /\ UNCHANGED <<scene, now, notice, keys, raw>>
        /\ \/ UNCHANGED occurrence
           \/ Latest # 0 /\ occurrence' = [occurrence EXCEPT ![n] = Latest]
    <2>1. CASE Join(h)
      <3> DEFINE last == IF Historical(o) THEN owner[Latest].last ELSE o
      <3>1. /\ Latest # 0 /\ Latest <= Len(copies) /\ Write(h, Latest, last)
            /\ occurrence' = [occurrence EXCEPT ![n] = Latest]
        BY <2>1 DEF Join, Owned
      <3>2. Latest \in Generations
        BY <1>2, <3>1 DEF Generations, Latest
      <3>3. last \in 1 .. LastOnset /\ last >= owner[Latest].last
        BY <1>2, <1>3, <3>1, <3>2 DEF Historical
      <3> HIDE DEF last
      <3>4. Ledger' /\ Latest' = Latest
        BY <1>1, <3>1, <3>2, <3>3, WriteLedger
      <3> QED BY <3>1, <3>4 DEF Write, intakeVars
    <2>2. CASE Retry(h)
      <3>1. /\ seen # 0 /\ Write(h, seen, owner[seen].last) /\ UNCHANGED occurrence
        BY <2>2 DEF Retry
      <3>2. seen \in Generations
        BY <1>2, <3>1 DEF Generations, Latest
      <3>3. owner[seen].last \in 1 .. LastOnset /\ owner[seen].last >= owner[seen].last
        BY <1>3, <3>2
      <3>4. Ledger' /\ Latest' = Latest
        BY <1>1, <1>2, <3>1, <3>2, <3>3, WriteLedger
      <3> QED BY <3>1, <3>4 DEF Write, intakeVars
    <2> QED BY <2>1, <2>2
  <1>5. Intake'
    BY <1>4, BusStep DEF IInv, Intake, IntakeTypes
  <1>6. /\ occurrence' \in [Notices -> 0 .. Latest']
        /\ \A m \in Notices : occurrence[m] # 0 => occurrence'[m] # 0
    BY <1>2, <1>4 DEF IInv, Hands
  <1>7. Latest' >= Latest /\ handler[h].step # "idle"
    BY <1>1, <1>2, <1>4
  <1>8. Hands'
    BY <1>4, <1>6, <1>7, AfterHands
  <1> QED BY <1>4, <1>5, <1>8 DEF IInv

\* The investigation of an incident that a handler has opened.
LEMMA PublishInv ==
  ASSUME IInv, NEW h \in Handlers, PublishEnriched(h)
  PROVE  IInv'
  <1> DEFINE n == handler[h].alert
  <1>1. /\ handler[h].step = "publish"
        /\ investigated' = investigated \cup {occurrence[n]}
        /\ handler' = [handler EXCEPT ![h] = After(h, "acknowledge")]
        /\ UNCHANGED <<scene, now, notice, keys, raw, occurrence, owner, incident, aged>>
    BY DEF PublishEnriched, intakeVars
  <1>2. occurrence[n] \in 1 .. Latest /\ Latest \in Nat
    <2>1. occurrence[n] \in 0 .. Latest /\ occurrence[n] # 0 /\ Latest \in Nat
      BY <1>1, InHands, Rows DEF IInv, Hands, Handling
    <2> QED BY <2>1
  <1>3. Ledger' /\ Latest' = Latest
    BY <1>1, <1>2
    DEF IInv, Ledger, LedgerTypes, Ordered, Agreed, OneOwner, Generations, Latest, Expired
  <1>4. Intake'
    BY <1>1, BusStep DEF IInv, Intake, IntakeTypes
  <1>5. occurrence' \in [Notices -> 0 .. Latest'] /\ Latest' >= Latest
    BY <1>1, <1>2, <1>3 DEF IInv, Hands
  <1>6. Hands'
    BY <1>1, <1>3, <1>5, AfterHands
  <1> QED BY <1>1, <1>3, <1>4, <1>6 DEF IInv

-----------------------------------------------------------------------------
(* The rest of the system.                                                 *)

LEMMA WorldInv ==
  ASSUME IInv, NextOnset \/ Ages \/ (\E g \in Generations : Close(g) \/ Decide(g))
  PROVE  IInv'
  <1>1. UNCHANGED <<scene, notice, keys, raw, occurrence, handler>>
    BY DEF NextOnset, Ages, Close, Decide, intakeVars, ledgerVars
  <1>2. Intake'
    <2>1. CASE NextOnset
      BY <2>1, ForgottenIntake DEF IInv
    <2>2. CASE ~NextOnset
      <3>1. UNCHANGED now
        BY <2>2 DEF Ages, Close, Decide
      <3> QED BY <1>1, <3>1, BusStep DEF IInv, Intake, IntakeTypes
    <2> QED BY <2>1, <2>2
  <1>3. Ledger' /\ Latest' = Latest
    <2>1. CASE NextOnset
      BY <2>1, LedgerKept DEF NextOnset, ledgerVars, IInv
    <2>2. CASE Ages
      <3>1. aged' \in 0 .. Latest /\ UNCHANGED <<scene, owner, incident, investigated>>
        BY <2>2, Rows DEF Ages, IInv, Ledger, LedgerTypes
      <3> QED BY <3>1
          DEF IInv, Ledger, LedgerTypes, Ordered, Agreed, OneOwner, Generations, Latest, Expired
    <2>3. ASSUME NEW g \in Generations, Close(g) \/ Decide(g)
          PROVE  Ledger' /\ Latest' = Latest
      <3>1. /\ owner[g] \in Owner /\ owner[g].last \in 1 .. LastOnset /\ owner[g].last \in Nat
            /\ owner \in Seq(Owner) /\ g \in 1 .. Len(owner)
        BY Rows DEF IInv, Ledger, LedgerTypes, Owner, Generations
      <3>2. investigated' \subseteq Generations /\ UNCHANGED <<scene, aged>>
        BY <2>3 DEF Close, Decide, IInv, Ledger, LedgerTypes
      <3> DEFINE last == owner[g].last
      <3>3. ASSUME NEW state \in Statuses, NEW status \in Statuses,
                   "decision" \notin scene =>
                     /\ state = "closed" => status = "closed"
                     /\ incident[g] = "closed" => status = "closed",
                   owner' = [owner EXCEPT ![g] = [first |-> owner[g].first, last |-> last,
                                                  state |-> state]],
                   incident' = [incident EXCEPT ![g] = status]
            PROVE  Ledger' /\ Latest' = Latest
        <4>1. last \in 1 .. LastOnset /\ last >= owner[g].last /\ last = owner[g].last
          BY <3>1
        <4> HIDE DEF last
        <4> QED BY <3>2, <3>3, <4>1, OneGeneration DEF IInv
      <3>4. CASE Close(g)
        <4>1. owner' = [owner EXCEPT ![g] = [first |-> owner[g].first, last |-> owner[g].last,
                                             state |-> "closed"]]
          <5>1. [owner[g] EXCEPT !.state = "closed"] =
                  [first |-> owner[g].first, last |-> owner[g].last, state |-> "closed"]
            BY <3>1 DEF Owner
          <5> QED BY <3>1, <3>4, <5>1 DEF Close
        <4>2. incident' = [incident EXCEPT ![g] = "closed"]
          BY <3>4 DEF Close
        <4> QED BY <3>3, <4>1, <4>2 DEF Statuses
      <3>5. CASE Decide(g)
        <4>1. owner' = [owner EXCEPT ![g] = [first |-> owner[g].first, last |-> owner[g].last,
                                             state |-> owner[g].state]]
          <5>1. owner[g] = [first |-> owner[g].first, last |-> owner[g].last,
                            state |-> owner[g].state]
            BY <3>1 DEF Owner
          <5>2. owner' = owner /\ [owner EXCEPT ![g] = owner[g]] = owner
            BY <3>1, <3>5 DEF Decide
          <5> QED BY <5>1, <5>2
        <4>2. incident' = [incident EXCEPT ![g] = "open"] /\ "decision" \in scene
          BY <3>5 DEF Decide
        <4>3. owner[g].state \in Statuses
          BY <3>1 DEF Owner
        <4> QED BY <3>3, <4>1, <4>2, <4>3 DEF Statuses
      <3> QED BY <2>3, <3>4, <3>5
    <2> QED BY <2>1, <2>2, <2>3
  <1>4. Hands'
    BY <1>1, <1>3, HandsKept DEF IInv
  <1> QED BY <1>1, <1>2, <1>3, <1>4 DEF IInv

LEMMA AdapterInv ==
  ASSUME IInv, NEW n \in Notices, AdapterStep(n)
  PROVE  IInv'
  <1>1. /\ UNCHANGED <<scene, ledgerVars, handler>>
        /\ \A m \in Notices : notice[m].file # "none" => notice'[m].file # "none"
    <2>1. PICK f \in {"landed", "claimed", "published", "archived"},
               r \in {"open", "broken", "answered", "none"} :
            /\ notice' = [notice EXCEPT ![n] = [onset |-> Onset(n), file |-> f, request |-> r]]
            /\ UNCHANGED <<scene, ledgerVars, handler>>
      BY AdapterMoves DEF IInv
    <2> QED BY <2>1 DEF IInv, Intake, IntakeTypes
  <1>2. Intake'
    BY AdapterIntake DEF IInv
  <1>3. Ledger' /\ Latest' = Latest
    BY <1>1, LedgerKept DEF ledgerVars, IInv
  <1>4. Hands'
    BY <1>1, <1>3, HandsKept DEF ledgerVars, IInv
  <1> QED BY <1>1, <1>2, <1>3, <1>4 DEF IInv

LEMMA NotifyInv ==
  ASSUME IInv, NEW n \in Notices, Notify(n)
  PROVE  IInv'
  <1>1. UNCHANGED <<scene, owner, incident, aged, investigated>>
    BY DEF Notify
  <1>2. Intake' /\ Ledger'
    BY <1>1, NotifyIntake, LedgerKept DEF IInv
  <1>3. Hands'
    BY NotifyHands, Rows DEF IInv
  <1> QED BY <1>1, <1>2, <1>3 DEF IInv

LEMMA ForgottenInv ==
  ASSUME IInv, AdapterStops \/ (\E o \in 1 .. LastOnset : KeyExpires(o))
  PROVE  IInv'
  <1>1. /\ UNCHANGED <<scene, occurrence, owner, incident, aged, investigated, handler>>
        /\ \A n \in Notices : notice'[n].file = notice[n].file
    BY DEF AdapterStops, KeyExpires, ledgerVars, IInv, Intake, IntakeTypes, Notice
  <1>2. Intake' /\ Ledger' /\ Latest' = Latest
    BY <1>1, ForgottenIntake, LedgerKept DEF IInv
  <1>3. Hands'
    BY <1>1, <1>2, HandsKept DEF IInv
  <1> QED BY <1>1, <1>2, <1>3 DEF IInv

-----------------------------------------------------------------------------
(* The invariant.                                                          *)

LEMMA InitIInv == Init => IInv
  <1> SUFFICES ASSUME Init PROVE IInv
    OBVIOUS
  <1>1. Intake
    BY BoundsAssumption
    DEF Init, Intake, IntakeTypes, Notice, Message, Landed, SuppressedIsAccepted
  <1>2. Len(owner) = 0 /\ Latest = 0 /\ Generations = {}
    BY DEF Init, Latest, Generations
  <1>3. Ledger
    BY <1>2 DEF Init, Ledger, LedgerTypes, Ordered, Agreed, OneOwner
  <1>4. Idle \in Hand /\ Idle.step = "idle" /\ Idle.seen = 0 /\ Len(Idle.copies) = 0
    BY DEF Idle, Hand
  <1>5. /\ handler = [h \in Handlers |-> Idle] /\ occurrence = [n \in Notices |-> 0]
        /\ scene \in Scenes
    BY DEF Init
  <1> HIDE DEF Idle
  <1>6. Hands
    BY <1>2, <1>4, <1>5 DEF Hands, Handling
  <1> QED BY <1>1, <1>3, <1>5, <1>6 DEF IInv

LEMMA StepIInv == IInv /\ [Next]_vars => IInv'
  <1> SUFFICES ASSUME IInv, [Next]_vars PROVE IInv'
    OBVIOUS
  <1>1. ASSUME NEW n \in Notices, Request(n) \/ TakenByWatcher(n) \/ RecoverStaleClaim(n)
        PROVE  IInv'
    BY <1>1, AdapterInv DEF Request, AdapterStep
  <1>2. ASSUME NEW h \in Handlers, Consumption(h)
        PROVE  IInv'
    BY <1>2, TakeInv, OpenInv, WriteInv, DoneInv, PublishInv DEF Consumption
  <1>3. CASE Breakdown
    BY <1>3, ForgottenInv, AdapterInv, BrokerInv, DoneInv DEF Breakdown, AdapterStep
  <1>4. CASE UNCHANGED vars
    <2>1. /\ UNCHANGED <<scene, now, notice, keys, raw, occurrence, owner, incident, aged,
                         investigated, handler>>
      BY <1>4 DEF vars, intakeVars, ledgerVars
    <2>2. Intake' /\ Ledger' /\ Latest' = Latest
      BY <2>1, BusStep, LedgerKept DEF IInv, Intake, IntakeTypes
    <2> QED BY <2>1, <2>2, HandsKept DEF IInv
  <1> QED
    BY <1>1, <1>2, <1>3, <1>4, NotifyInv, ForgottenInv, WorldInv DEF Next

LEMMA IInvAlways == Spec => []IInv
  <1> QED BY InitIInv, StepIInv, PTL DEF Spec

-----------------------------------------------------------------------------
(* The theorems.                                                           *)

(* Types: every occurrence, snapshot and aged incident is of a generation that exists. *)
THEOREM TypesHold == Spec => []TypeOK
  <1>1. IInv => TypeOK
    <2> SUFFICES ASSUME IInv PROVE TypeOK
      OBVIOUS
    <2>1. Latest \in Nat
      BY Rows DEF IInv
    <2>2. handler \in [Handlers -> [step : {"idle", "read", "publish", "acknowledge"},
                                    alert : Notices \cup {None}, seen : 0 .. Latest,
                                    copies : Seq(Statuses)]]
      BY <2>1 DEF IInv, Hands, Handling, Hand
    <2>3. \A h \in Handlers : Len(handler[h].copies) <= Latest
      BY DEF IInv, Hands, Handling
    <2> QED BY <2>2, <2>3
        DEF TypeOK, IInv, Intake, IntakeTypes, Notice, Message, Ledger, LedgerTypes, Owner, Hands
  <1> QED BY <1>1, IInvAlways, PTL

(* One incident at a time, for any number of concurrent handlers, outages and losses: who *)
(* opens the next one has seen its predecessor closed, or its window over.                 *)
THEOREM OneIncidentAtATime == Spec => []OneOwner
  <1>1. IInv => OneOwner
    BY DEF IInv, Ledger
  <1> QED BY <1>1, IInvAlways, PTL

(* Only what is being taken in or was accepted is suppressed, whichever of the request and *)
(* the watcher had the file, and whether the adapter failed or stopped.                     *)
THEOREM SuppressionIsEarned == Spec => []SuppressedIsAccepted
  <1>1. IInv => SuppressedIsAccepted
    BY DEF IInv, Intake
  <1> QED BY <1>1, IInvAlways, PTL

=============================================================================
