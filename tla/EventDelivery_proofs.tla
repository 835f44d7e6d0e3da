------------------------ MODULE EventDelivery_proofs ------------------------
(***************************************************************************)
(* Proofs about EventDelivery for any events, dispatchers and workers, and *)
(* any bounds on retries, requeues and copies.                             *)
(***************************************************************************)
EXTENDS EventDelivery, FiniteSetTheorems, TLAPS

\* Weaker than TypeOK where the bound on copies does not matter.
Typed ==
  /\ malformed \subseteq Events
  /\ row \in [Events -> RowState]
  /\ sender \in [Events -> SenderState]
  /\ dispatch \in [Dispatchers -> DispatcherRow]
  /\ ready \in [Messages -> Nat]
  /\ worker \in [Workers -> WorkerRow]
  /\ settled \subseteq Events

\* Positions and what is held there agree.
Positions ==
  /\ \A w \in Workers :
       /\ worker[w].at # "idle" <=> worker[w].message # None
       /\ worker[w].at = "requeueing" => worker[w].message.requeues < MaxRequeues
  /\ \A d \in Dispatchers : dispatch[d].at = "marking" => dispatch[d].event \in Events

\* Everything on its way is an accepted event.
OnlyAccepted ==
  /\ \A m \in Messages : Held(m) => m.event \in Accepted
  /\ \A e \in Events : sender[e] # "idle" \/ row[e].published => row[e].stored
  /\ \A d \in Dispatchers :
       /\ \A e \in dispatch[d].batch : row[e].stored
       /\ dispatch[d].at = "marking" => row[dispatch[d].event].stored

Safe(e) == e \in settled \/ InBroker(e)

\* Whoever is about to let go of an event knows that it is safe elsewhere.
LetGo ==
  /\ \A e \in malformed : Safe(e)
  /\ \A e \in Events : row[e].published \/ sender[e] = "confirmed" => Safe(e)
  /\ \A d \in Dispatchers :
       dispatch[d].at = "marking" /\ dispatch[d].confirmed => Safe(dispatch[d].event)
  /\ \A w \in Workers :
       /\ worker[w].cache \subseteq settled
       /\ worker[w].at = "acking" =>
            \/ EventOf(w) \in settled
            \/ \E m \in Messages : /\ m.event = EventOf(w) /\ Held(m)
                                   /\ m.requeues > worker[w].message.requeues

IInv == Typed /\ Positions /\ OnlyAccepted /\ LetGo

-----------------------------------------------------------------------------
(* The initial states.                                                     *)

LEMMA InitIInv == Init => IInv
  <1> SUFFICES ASSUME Init PROVE IInv
    OBVIOUS
  <1> USE DEF Init
  <1>1. Typed
    BY BoundsAssumption DEF Typed, RowState, SenderState, DispatcherRow, WorkerRow, Idle, Messages
  <1>2. Positions
    BY DEF Positions, Idle
  <1>3. \A m \in Messages : Held(m) <=> m.event \in malformed /\ m.requeues = 0
    BY NamesAssumption DEF Held, Holders, Messages
  <1>4. OnlyAccepted
    BY <1>3 DEF OnlyAccepted, Accepted, Idle, Messages
  <1>5. LetGo
    <2>1. \A e \in malformed : InBroker(e)
      <3> TAKE e \in malformed
      <3> DEFINE m == [event |-> e, requeues |-> 0]
      <3>1. m \in Messages /\ m.event = e /\ m.requeues = 0
        BY BoundsAssumption DEF Messages
      <3> QED BY <3>1, <1>3 DEF InBroker
    <2> QED BY <2>1 DEF LetGo, Safe, Idle
  <1> QED BY <1>1, <1>2, <1>4, <1>5 DEF IInv

-----------------------------------------------------------------------------
(* Steps of a consumer loop.                                               *)

(* A consumer may step if no message but an acknowledged one leaves the    *)
(* broker, and what it remembers or will acknowledge is safe.              *)
LEMMA ConsumerStep ==
  ASSUME IInv, NEW w \in Workers, NEW x \in WorkerRow,
         worker' = [worker EXCEPT ![w] = x],
         ready' \in [Messages -> Nat],
         settled' \subseteq Events, settled \subseteq settled',
         UNCHANGED outboxVars,
         \A m \in Messages : Held(m) => Held(m)',
         \A m \in Messages : ready'[m] > 0 => Held(m) \/ m.event \in Accepted,
         x.at # "idle" <=> x.message # None,
         x.at = "requeueing" => x.message.requeues < MaxRequeues,
         x.message \in Messages => x.message.event \in Accepted,
         x.cache \subseteq settled',
         x.at = "acking" =>
            \/ x.message.event \in settled'
            \/ \E m \in Messages : /\ m.event = x.message.event /\ Held(m)'
                                   /\ m.requeues > x.message.requeues
  PROVE  IInv'
  <1> USE DEF outboxVars
  <1>1. worker' \in [Workers -> WorkerRow] /\ worker'[w] = x
        /\ \A v \in Workers \ {w} : worker'[v] = worker[v]
    BY DEF IInv, Typed
  <1>2. Typed' /\ Accepted' = Accepted
    BY <1>1 DEF IInv, Typed, Accepted
  <1>3. Positions'
    BY <1>1 DEF IInv, Positions
  <1>4. \A m \in Messages : Held(m)' => m.event \in Accepted
    <2> TAKE m \in Messages
    <2> HAVE Held(m)'
    <2>1. CASE ready'[m] > 0
      BY <2>1 DEF IInv, OnlyAccepted
    <2>2. CASE \E v \in Workers : worker'[v].message = m
      <3> PICK v \in Workers : worker'[v].message = m
        BY <2>2
      <3>1. CASE v = w
        BY <1>1, <3>1
      <3>2. CASE v # w
        BY <1>1, <3>2 DEF IInv, OnlyAccepted, Held, Holders
      <3> QED BY <3>1, <3>2
    <2> QED BY <2>1, <2>2 DEF Held, Holders
  <1>5. OnlyAccepted'
    BY <1>2, <1>4 DEF IInv, OnlyAccepted
  <1>6. \A e : Safe(e) => Safe(e)'
    BY DEF Safe, InBroker
  <1>7. LetGo'
    <2>1. \A v \in Workers : worker'[v].cache \subseteq settled'
      BY <1>1 DEF IInv, LetGo
    <2>2. ASSUME NEW v \in Workers, worker'[v].at = "acking"
          PROVE  \/ worker'[v].message.event \in settled'
                 \/ \E m \in Messages : /\ m.event = worker'[v].message.event /\ Held(m)'
                                        /\ m.requeues > worker'[v].message.requeues
      <3>1. CASE v = w
        BY <1>1, <2>2, <3>1
      <3>2. CASE v # w
        BY <1>1, <2>2, <3>2 DEF IInv, LetGo, EventOf
      <3> QED BY <3>1, <3>2
    <2>3. \A e \in malformed : Safe(e)'
      BY <1>6 DEF IInv, LetGo
    <2>4. \A e \in Events : row[e].published \/ sender[e] = "confirmed" => Safe(e)'
      BY <1>6 DEF IInv, LetGo
    <2>5. \A d \in Dispatchers :
            dispatch[d].at = "marking" /\ dispatch[d].confirmed => Safe(dispatch[d].event)'
      BY <1>6 DEF IInv, LetGo
    <2> QED BY <2>1, <2>2, <2>3, <2>4, <2>5 DEF LetGo, EventOf, Safe, InBroker, Held, Holders
  <1> QED BY <1>2, <1>3, <1>5, <1>7 DEF IInv

(* A consumer loop between two messages.                                   *)
LEMMA Resting ==
  ASSUME NEW loop \in WorkerRow
  PROVE  /\ Rest(loop) \in WorkerRow
         /\ Rest(loop).at = "idle" /\ Rest(loop).message = None
         /\ Rest(loop).cache = loop.cache
  <1>1. 0 \in 0..MaxRetries
    BY BoundsAssumption
  <1> QED BY <1>1 DEF WorkerRow, Rest

(* Giving a message back to the broker is such a step.                     *)
LEMMA GivingBack ==
  ASSUME IInv, NEW w \in Workers, worker[w].message \in Messages,
         NEW x, x = Rest(worker[w]) \/ x = [Rest(worker[w]) EXCEPT !.cache = {}],
         worker' = [worker EXCEPT ![w] = x],
         ready' \in [Messages -> Nat],
         \A m \in Messages :
            ready'[m] >= ready[m] /\ (ready'[m] > ready[m] => m.event = EventOf(w)),
         ready'[worker[w].message] > 0,
         settled' \subseteq Events, settled \subseteq settled',
         UNCHANGED outboxVars
  PROVE  IInv'
  <1>1. worker \in [Workers -> WorkerRow] /\ ready \in [Messages -> Nat]
    BY DEF IInv, Typed
  <1>2. /\ x \in WorkerRow /\ x.at = "idle" /\ x.message = None
        /\ x.cache \subseteq worker[w].cache
    <2>1. worker[w] \in WorkerRow
      BY <1>1
    <2>2. CASE x = Rest(worker[w])
      BY <2>1, <2>2, Resting
    <2>3. CASE x = [Rest(worker[w]) EXCEPT !.cache = {}]
      BY <2>1, <2>3, Resting DEF WorkerRow
    <2> QED BY <2>2, <2>3
  <1>4. Held(worker[w].message) /\ EventOf(w) \in Accepted
    BY DEF IInv, OnlyAccepted, Held, Holders, EventOf
  <1>5. \A m \in Messages : Held(m) => Held(m)'
    <2> TAKE m \in Messages
    <2> HAVE Held(m)
    <2>1. CASE ready[m] > 0
      BY <1>1, <2>1 DEF Held
    <2>2. CASE m = worker[w].message
      BY <2>2 DEF Held
    <2>3. CASE m # worker[w].message /\ \E v \in Workers : worker[v].message = m
      <3> PICK v \in Workers \ {w} : worker[v].message = m
        BY <2>3
      <3>1. worker'[v] = worker[v]
        BY <1>1
      <3> QED BY <3>1 DEF Held, Holders
    <2> QED BY <2>1, <2>2, <2>3 DEF Held, Holders
  <1>6. \A m \in Messages : ready'[m] > 0 => Held(m) \/ m.event \in Accepted
    BY <1>1, <1>4 DEF Held, EventOf
  <1>7. x.cache \subseteq settled'
    BY <1>2 DEF IInv, LetGo
  <1>8. None \notin Messages
    BY NamesAssumption
  <1> QED BY <1>2, <1>5, <1>6, <1>7, <1>8, ConsumerStep

(* So is moving on with the same message, once what it claims is true.     *)
LEMMA MovingOn ==
  ASSUME IInv, NEW w \in Workers, worker[w].at # "idle",
         NEW x \in WorkerRow, x.message = worker[w].message, x.at # "idle",
         worker' = [worker EXCEPT ![w] = x],
         x.cache \subseteq settled',
         x.at = "acking" => EventOf(w) \in settled',
         x.at = "requeueing" => x.message.requeues < MaxRequeues,
         settled' \subseteq Events, settled \subseteq settled',
         UNCHANGED <<outboxVars, ready>>
  PROVE  IInv'
  <1>1. worker \in [Workers -> WorkerRow] /\ ready \in [Messages -> Nat]
    BY DEF IInv, Typed
  <1>2. x.message # None /\ x.message \in Messages
    BY DEF IInv, Positions, WorkerRow
  <1>3. \A m \in Messages : Held(m) => Held(m)'
    BY <1>1 DEF Held, Holders
  <1>4. Held(x.message)
    BY DEF Held, Holders
  <1>5. x.message.event \in Accepted
    BY <1>2, <1>4 DEF IInv, OnlyAccepted
  <1> QED BY <1>1, <1>2, <1>3, <1>5, ConsumerStep DEF EventOf, Held

(* A message in hand is typed, in the broker's books and accepted.         *)
LEMMA InHand ==
  ASSUME IInv, NEW w \in Workers, worker[w].at # "idle"
  PROVE  /\ worker[w] \in WorkerRow /\ worker[w].message \in Messages
         /\ Held(worker[w].message)
         /\ EventOf(w) \in Events /\ EventOf(w) \in Accepted
  <1>1. worker[w] \in WorkerRow /\ worker[w].message \in Messages
    BY DEF IInv, Typed, Positions, WorkerRow
  <1>2. Held(worker[w].message)
    BY DEF Held, Holders
  <1> QED BY <1>1, <1>2 DEF IInv, OnlyAccepted, EventOf, Messages

LEMMA TakeStep ==
  ASSUME IInv, NEW w \in Workers, NEW m \in Messages, Take(w, m)
  PROVE  IInv'
  <1> USE DEF Take
  <1> DEFINE x == [worker[w] EXCEPT
             !.at = IF m.event \in malformed THEN "quarantining" ELSE "checking",
             !.message = m]
  <1>1. worker \in [Workers -> WorkerRow] /\ ready \in [Messages -> Nat]
        /\ settled \subseteq Events /\ worker[w].message = None /\ None \notin Messages
    BY NamesAssumption DEF IInv, Typed, Positions
  <1>2. /\ x \in WorkerRow /\ x.message = m /\ x.cache = worker[w].cache
        /\ x.at \in {"quarantining", "checking"}
    BY <1>1 DEF WorkerRow
  <1>3. worker' = [worker EXCEPT ![w] = x]
    BY <1>1 DEF WorkerRow
  <1> HIDE DEF x
  <1>4. /\ ready' \in [Messages -> Nat] /\ ready'[m] = ready[m] - 1
        /\ \A n \in Messages \ {m} : ready'[n] = ready[n]
    BY <1>1
  <1>5. \A n \in Messages : Held(n) => Held(n)'
    <2> TAKE n \in Messages
    <2> HAVE Held(n)
    <2>1. CASE n = m
      BY <1>1, <1>2, <1>3, <2>1 DEF Held, Holders
    <2>2. CASE n # m /\ ready[n] > 0
      BY <1>4, <2>2 DEF Held
    <2>3. CASE \E v \in Workers : worker[v].message = n
      <3> PICK v \in Workers : worker[v].message = n
        BY <2>3
      <3>1. v # w /\ worker'[v] = worker[v]
        BY <1>1, <1>3
      <3> QED BY <3>1 DEF Held, Holders
    <2> QED BY <2>1, <2>2, <2>3 DEF Held, Holders
  <1>6. \A n \in Messages : ready'[n] > 0 => Held(n) \/ n.event \in Accepted
    BY <1>1, <1>4 DEF Held
  <1>7. m.event \in Accepted
    BY DEF IInv, OnlyAccepted, Held
  <1>8. x.cache \subseteq settled'
    BY <1>2 DEF IInv, LetGo
  <1>9. x.at \notin {"idle", "acking", "requeueing"} /\ x.message # None
    BY <1>1, <1>2
  <1> QED BY <1>1, <1>2, <1>3, <1>4, <1>5, <1>6, <1>7, <1>8, <1>9, ConsumerStep

(* An acknowledged message leaves the broker: its event was safe without it. *)
LEMMA AckStep ==
  ASSUME IInv, NEW w \in Workers, Ack(w)
  PROVE  IInv'
  <1> USE DEF Ack, outboxVars
  <1> DEFINE m == worker[w].message
  <1>1. worker[w] \in WorkerRow /\ m \in Messages
    BY InHand
  <1>2. /\ worker' \in [Workers -> WorkerRow] /\ ready \in [Messages -> Nat]
        /\ worker'[w].at = "idle" /\ worker'[w].message = None
        /\ worker'[w].cache = worker[w].cache
        /\ \A v \in Workers \ {w} : worker'[v] = worker[v]
    BY <1>1, Resting DEF IInv, Typed
  <1>3. Typed' /\ Accepted' = Accepted
    BY <1>2 DEF IInv, Typed, Accepted
  <1>4. Positions'
    BY <1>2 DEF IInv, Positions
  <1>5. None \notin Messages
    BY NamesAssumption
  <1>6. \A n \in Messages : Held(n)' => Held(n)
    BY <1>2, <1>5 DEF Held, Holders
  <1>7. \A n \in Messages : n # m /\ Held(n) => Held(n)'
    BY <1>2 DEF Held, Holders
  <1>8. OnlyAccepted'
    BY <1>3, <1>6 DEF IInv, OnlyAccepted
  <1>9. \/ m.event \in settled
        \/ \E n \in Messages : n.event = m.event /\ Held(n)' /\ n.requeues > m.requeues
    <2>1. CASE m.event \in settled
      BY <2>1
    <2>2. CASE \E n \in Messages : n.event = m.event /\ Held(n) /\ n.requeues > m.requeues
      <3> PICK n \in Messages : n.event = m.event /\ Held(n) /\ n.requeues > m.requeues
        BY <2>2
      <3>1. n.requeues \in Int /\ m.requeues \in Int
        BY <1>1, BoundsAssumption DEF Messages
      <3> QED BY <1>7, <3>1
    <2> QED BY <2>1, <2>2 DEF IInv, LetGo, EventOf
  <1>10. \A e : Safe(e) => Safe(e)'
    BY <1>7, <1>9 DEF Safe, InBroker
  <1>11. ASSUME NEW v \in Workers, worker'[v].at = "acking"
         PROVE  \/ worker'[v].message.event \in settled'
                \/ \E n \in Messages : /\ n.event = worker'[v].message.event /\ Held(n)'
                                       /\ n.requeues > worker'[v].message.requeues
    <2> DEFINE k == worker[v].message
    <2>1. v # w /\ worker'[v] = worker[v]
      BY <1>2, <1>11
    <2>2. k \in Messages
      BY <2>1, <1>11, InHand
    <2>3. CASE k.event \in settled
      BY <2>1, <2>3
    <2>4. CASE \E n \in Messages : n.event = k.event /\ Held(n) /\ n.requeues > k.requeues
      <3> PICK n \in Messages : n.event = k.event /\ Held(n) /\ n.requeues > k.requeues
        BY <2>4
      <3>1. CASE n # m
        BY <1>7, <2>1, <3>1
      <3>2. CASE n = m
        <4>1. \A i \in Messages : i.requeues \in Int
          BY BoundsAssumption DEF Messages
        <4> QED BY <1>1, <1>9, <2>1, <2>2, <3>2, <4>1
      <3> QED BY <3>1, <3>2
    <2> QED BY <1>11, <2>1, <2>3, <2>4 DEF IInv, LetGo, EventOf
  <1>12. LetGo'
    <2>1. \A v \in Workers : worker'[v].cache \subseteq settled'
      BY <1>2 DEF IInv, LetGo
    <2>2. \A e \in malformed : Safe(e)'
      BY <1>10 DEF IInv, LetGo
    <2>3. \A e \in Events : row[e].published \/ sender[e] = "confirmed" => Safe(e)'
      BY <1>10 DEF IInv, LetGo
    <2>4. \A d \in Dispatchers :
            dispatch[d].at = "marking" /\ dispatch[d].confirmed => Safe(dispatch[d].event)'
      BY <1>10 DEF IInv, LetGo
    <2> QED BY <1>11, <2>1, <2>2, <2>3, <2>4 DEF LetGo, EventOf, Safe, InBroker, Held, Holders
  <1> QED BY <1>3, <1>4, <1>8, <1>12 DEF IInv

(* The message in hand goes back, beside copies of it that were published. *)
LEMMA GiveBackStep ==
  ASSUME IInv, NEW w \in Workers, worker[w].at # "idle",
         NEW published, \A m \in published : m.event = EventOf(w),
         GiveBack(w, published),
         settled' \subseteq Events, settled \subseteq settled',
         UNCHANGED outboxVars
  PROVE  IInv'
  <1>1. ready \in [Messages -> Nat] /\ worker[w].message \in Messages
    BY InHand DEF IInv, Typed
  <1>2. worker' = [worker EXCEPT ![w] = Rest(worker[w])]
    BY DEF GiveBack
  <1> DEFINE n(m) == (IF m = worker[w].message THEN 1 ELSE 0)
                     + (IF m \in published THEN 1 ELSE 0)
  <1>3. \A m \in Messages : n(m) \in Nat /\ (n(m) > 0 => m = worker[w].message \/ m \in published)
    OBVIOUS
  <1>4. n(worker[w].message) > 0
    OBVIOUS
  <1>5. ready' = [m \in Messages |-> ready[m] + n(m)]
    <2>1. \A m \in Messages : ready[m] + n(m) = ready[m] + (IF m = worker[w].message THEN 1 ELSE 0)
                                               + (IF m \in published THEN 1 ELSE 0)
      BY <1>1
    <2> QED BY <2>1 DEF GiveBack
  <1> HIDE DEF n
  <1>6. /\ ready' \in [Messages -> Nat]
        /\ \A m \in Messages :
             ready'[m] >= ready[m] /\ (ready'[m] > ready[m] => m.event = EventOf(w))
        /\ ready'[worker[w].message] > 0
    BY <1>1, <1>3, <1>4, <1>5 DEF EventOf
  <1> QED BY <1>1, <1>2, <1>6, GivingBack

(* The position of a consumer loop changes, and nothing else of it.        *)
LEMMA Going ==
  ASSUME NEW loop \in WorkerRow, NEW at \in {"checking", "handling", "requeueing", "failing",
                                             "deadLettering", "quarantining", "acking"}
  PROVE  LET x == [loop EXCEPT !.at = at] IN
         /\ x \in WorkerRow /\ x.at = at /\ x.message = loop.message
         /\ x.cache = loop.cache
  BY DEF WorkerRow

LEMMA CheckingStep ==
  ASSUME IInv, NEW w \in Workers, SkipCancelled(w) \/ SkipDuplicate(w) \/ Admit(w)
  PROVE  IInv'
  <1> USE DEF SkipCancelled, SkipDuplicate, Admit, Goto, Settle
  <1>1. /\ worker \in [Workers -> WorkerRow] /\ settled \subseteq Events
        /\ worker[w].cache \subseteq settled /\ EventOf(w) \in Events
    BY InHand DEF IInv, Typed, LetGo
  <1>2. PICK at \in {"handling", "acking"} :
          worker' = [worker EXCEPT ![w] = [worker[w] EXCEPT !.at = at]]
          /\ (at = "acking" => EventOf(w) \in settled')
    BY <1>1
  <1>3. settled' \subseteq Events /\ settled \subseteq settled'
    BY <1>1
  <1>4. LET x == [worker[w] EXCEPT !.at = at] IN
        x \in WorkerRow /\ x.at = at /\ x.message = worker[w].message
        /\ x.cache = worker[w].cache
    <2>1. worker[w] \in WorkerRow
      BY <1>1
    <2>2. CASE at = "handling"
      BY <2>1, <2>2 DEF WorkerRow
    <2>3. CASE at = "acking"
      BY <2>1, <2>3 DEF WorkerRow
    <2> QED BY <2>2, <2>3
  <1> QED BY <1>1, <1>2, <1>3, <1>4, MovingOn

LEMMA HandlingStep ==
  ASSUME IInv, NEW w \in Workers,
         HandlerReturns(w) \/ \E transient \in BOOLEAN : HandlerFails(w, transient)
  PROVE  IInv'
  <1>1. /\ worker \in [Workers -> WorkerRow] /\ settled \subseteq Events
        /\ worker[w].cache \subseteq settled /\ EventOf(w) \in Events
        /\ worker[w].at # "idle"
    BY InHand DEF IInv, Typed, LetGo, HandlerReturns, HandlerFails
  <1>2. CASE HandlerReturns(w)
    <2> DEFINE x == [worker[w] EXCEPT !.at = "acking", !.cache = @ \cup {EventOf(w)}]
    <2>1. /\ x \in WorkerRow /\ x.at = "acking" /\ x.message = worker[w].message
          /\ x.cache = worker[w].cache \cup {EventOf(w)}
      BY <1>1 DEF WorkerRow
    <2>2. worker' = [worker EXCEPT ![w] = x]
      BY <1>1, <1>2 DEF HandlerReturns, Remember, WorkerRow
    <2>3. settled' = settled \cup {EventOf(w)} /\ UNCHANGED <<outboxVars, ready>>
      BY <1>2 DEF HandlerReturns, Settle
    <2> HIDE DEF x
    <2> QED BY <1>1, <2>1, <2>2, <2>3, MovingOn
  <1>3. ASSUME NEW transient \in BOOLEAN, HandlerFails(w, transient)
        PROVE  IInv'
    <2> USE <1>3 DEF HandlerFails
    <2>1. PICK at \in {"handling", "requeueing", "failing"}, k \in 0..MaxRetries :
            /\ worker' = [worker EXCEPT ![w].tries = k, ![w].at = at]
            /\ at = "requeueing" => worker[w].message.requeues < MaxRequeues
      <3>1. worker[w].tries \in 0..MaxRetries /\ 0 \in 0..MaxRetries
        <4>1. worker[w] \in WorkerRow
          BY <1>1
        <4>2. 0 \in 0..MaxRetries
          BY BoundsAssumption
        <4> QED BY <4>1, <4>2 DEF WorkerRow
      <3>2. (IF Retryable(worker[w].tries + 1) THEN worker[w].tries + 1 ELSE 0) \in 0..MaxRetries
        BY <3>1, BoundsAssumption DEF Retryable
      <3> QED BY <3>2
    <2> DEFINE x == [worker[w] EXCEPT !.tries = k, !.at = at]
    <2>2. x \in WorkerRow /\ x.at = at /\ x.message = worker[w].message
          /\ x.cache = worker[w].cache
      <3>1. worker[w] \in WorkerRow
        BY <1>1
      <3> QED BY <3>1 DEF WorkerRow
    <2>3. worker' = [worker EXCEPT ![w] = x]
      BY <1>1, <2>1 DEF WorkerRow
    <2> HIDE DEF x
    <2>4. x.at \notin {"idle", "acking"} /\ x.cache \subseteq settled
          /\ (x.at = "requeueing" => x.message.requeues < MaxRequeues)
      BY <1>1, <2>1, <2>2
    <2>5. UNCHANGED <<outboxVars, ready, settled>>
      OBVIOUS
    <2> QED BY <1>1, <2>2, <2>3, <2>4, <2>5, MovingOn
  <1> QED BY <1>2, <1>3

LEMMA QuarantineStep ==
  ASSUME IInv, NEW w \in Workers, NEW result \in Published, Quarantine(w, result)
  PROVE  IInv'
  <1> USE DEF Quarantine, Published, Arrived, Settle
  <1>1. /\ worker \in [Workers -> WorkerRow] /\ ready \in [Messages -> Nat]
        /\ settled \subseteq Events /\ worker[w].cache \subseteq settled
        /\ worker[w].at # "idle" /\ worker[w].message \in Messages /\ EventOf(w) \in Events
    BY InHand DEF IInv, Typed, LetGo
  <1>2. settled' \subseteq Events /\ settled \subseteq settled'
    BY <1>1
  <1>3. CASE result = "confirmed"
    <2>1. LET x == [worker[w] EXCEPT !.at = "acking"] IN
          /\ x \in WorkerRow /\ x.at = "acking" /\ x.message = worker[w].message
          /\ x.cache = worker[w].cache
      BY <1>1, Going
    <2>2. worker' = [worker EXCEPT ![w] = [worker[w] EXCEPT !.at = "acking"]]
      BY <1>1, <1>3 DEF Goto
    <2> QED BY <1>1, <1>2, <1>3, <2>1, <2>2, MovingOn
  <1>4. CASE result # "confirmed"
    BY <1>1, <1>2, <1>4, GiveBackStep
  <1> QED BY <1>3, <1>4

LEMMA DeadLetterStep ==
  ASSUME IInv, NEW w \in Workers, NEW result \in Published, DeadLetter(w, result)
  PROVE  IInv'
  <1> USE DEF DeadLetter, Published, Arrived, Settle
  <1>1. /\ worker \in [Workers -> WorkerRow] /\ ready \in [Messages -> Nat]
        /\ settled \subseteq Events /\ worker[w].cache \subseteq settled
        /\ worker[w].at # "idle" /\ worker[w].message \in Messages /\ EventOf(w) \in Events
    BY InHand DEF IInv, Typed, LetGo
  <1>2. settled' \subseteq Events /\ settled \subseteq settled'
    BY <1>1
  <1>3. CASE result = "confirmed"
    <2> DEFINE x == [worker[w] EXCEPT !.at = "acking", !.cache = @ \cup {EventOf(w)}]
    <2>1. /\ x \in WorkerRow /\ x.at = "acking" /\ x.message = worker[w].message
          /\ x.cache = worker[w].cache \cup {EventOf(w)}
      BY <1>1 DEF WorkerRow
    <2>2. worker' = [worker EXCEPT ![w] = x]
      BY <1>1, <1>3 DEF Remember, WorkerRow
    <2> HIDE DEF x
    <2> QED BY <1>1, <1>2, <1>3, <2>1, <2>2, MovingOn
  <1>4. CASE result # "confirmed"
    BY <1>1, <1>2, <1>4, GiveBackStep
  <1> QED BY <1>3, <1>4

LEMMA RecordFailureStep ==
  ASSUME IInv, NEW w \in Workers, NEW persisted \in BOOLEAN, RecordFailure(w, persisted)
  PROVE  IInv'
  <1> USE DEF RecordFailure
  <1>1. /\ worker \in [Workers -> WorkerRow] /\ ready \in [Messages -> Nat]
        /\ settled \subseteq Events /\ worker[w].cache \subseteq settled
        /\ worker[w].at # "idle" /\ worker[w].message \in Messages
    BY InHand DEF IInv, Typed, LetGo
  <1>2. CASE persisted
    <2>1. LET x == [worker[w] EXCEPT !.at = "deadLettering"] IN
          /\ x \in WorkerRow /\ x.at = "deadLettering" /\ x.message = worker[w].message
          /\ x.cache = worker[w].cache
      BY <1>1, Going
    <2>2. worker' = [worker EXCEPT ![w] = [worker[w] EXCEPT !.at = "deadLettering"]]
      BY <1>1, <1>2 DEF Goto
    <2> QED BY <1>1, <1>2, <2>1, <2>2, MovingOn
  <1>3. CASE ~persisted
    BY <1>1, <1>3, GiveBackStep
  <1> QED BY <1>2, <1>3

LEMMA InterruptedStep ==
  ASSUME IInv, NEW w \in Workers, Reconnect(w) \/ WorkerDies(w)
  PROVE  IInv'
  <1> USE DEF Reconnect, WorkerDies
  <1>1. /\ worker \in [Workers -> WorkerRow] /\ ready \in [Messages -> Nat]
        /\ settled \subseteq Events
        /\ worker[w].at # "idle" /\ worker[w].message \in Messages
    BY InHand DEF IInv, Typed, Positions
  <1>2. CASE Reconnect(w)
    BY <1>1, <1>2, GiveBackStep
  <1>3. CASE WorkerDies(w)
    <2> DEFINE m == worker[w].message
               x == [Rest(worker[w]) EXCEPT !.cache = {}]
    <2>1. worker' = [worker EXCEPT ![w] = x] /\ UNCHANGED <<outboxVars, settled>>
      BY <1>3
    <2>2. /\ ready' \in [Messages -> Nat] /\ ready'[m] > 0
          /\ \A k \in Messages : ready'[k] >= ready[k] /\ (ready'[k] > ready[k] =>
                k.event = EventOf(w))
      BY <1>1, <1>3 DEF EventOf
    <2>3. x = Rest(worker[w]) \/ x = [Rest(worker[w]) EXCEPT !.cache = {}]
      OBVIOUS
    <2> HIDE DEF x, m
    <2> QED BY <1>1, <2>1, <2>2, <2>3, GivingBack DEF m
  <1> QED BY <1>2, <1>3

LEMMA ForgetStep ==
  ASSUME IInv, NEW w \in Workers, NEW e \in Events, Forget(w, e)
  PROVE  IInv'
  <1> USE DEF Forget
  <1> DEFINE x == [worker[w] EXCEPT !.cache = @ \ {e}]
  <1>1. /\ worker \in [Workers -> WorkerRow] /\ ready \in [Messages -> Nat]
        /\ settled \subseteq Events /\ worker[w].cache \subseteq settled
    BY DEF IInv, Typed, LetGo
  <1>2. /\ x \in WorkerRow /\ x.at = worker[w].at /\ x.message = worker[w].message
        /\ x.cache \subseteq worker[w].cache
    BY <1>1 DEF WorkerRow
  <1>3. worker' = [worker EXCEPT ![w] = x]
    BY <1>1 DEF WorkerRow
  <1> HIDE DEF x
  <1>4. \A m \in Messages : Held(m) => Held(m)'
    BY <1>1, <1>2, <1>3 DEF Held, Holders
  <1>5. x.message \in Messages => x.message.event \in Accepted
    BY <1>2 DEF IInv, OnlyAccepted, Held, Holders
  <1>6. /\ x.at # "idle" <=> x.message # None
        /\ x.at = "requeueing" => x.message.requeues < MaxRequeues
    BY <1>2 DEF IInv, Positions
  <1>7. x.at = "acking" =>
            \/ x.message.event \in settled'
            \/ \E m \in Messages : /\ m.event = x.message.event /\ Held(m)'
                                   /\ m.requeues > x.message.requeues
    BY <1>2, <1>4 DEF IInv, LetGo, EventOf
  <1>8. \A m \in Messages : ready'[m] > 0 => Held(m) \/ m.event \in Accepted
    BY DEF Held
  <1> QED BY <1>1, <1>2, <1>3, <1>4, <1>5, <1>6, <1>7, <1>8, ConsumerStep

LEMMA RequeueStep ==
  ASSUME IInv, NEW w \in Workers, NEW result \in Published, Requeue(w, result)
  PROVE  IInv'
  <1> USE DEF Requeue, Published, Arrived
  <1> DEFINE m == worker[w].message
             x == [worker[w] EXCEPT !.at = "acking"]
  <1>1. /\ worker \in [Workers -> WorkerRow] /\ ready \in [Messages -> Nat]
        /\ settled \subseteq Events /\ worker[w].cache \subseteq settled
        /\ worker[w] \in WorkerRow /\ worker[w].at # "idle" /\ m \in Messages
        /\ m.event \in Accepted /\ m.requeues < MaxRequeues
    BY InHand DEF IInv, Typed, LetGo, Positions, EventOf
  <1>2. PICK copy \in Messages : /\ copy = Requeued(m) /\ copy.event = m.event
                                 /\ copy.requeues > m.requeues
    BY <1>1, BoundsAssumption DEF Messages, Requeued
  <1>3. CASE result = "confirmed"
    <2>1. x \in WorkerRow /\ x.at = "acking" /\ x.message = m /\ x.cache = worker[w].cache
      BY <1>1 DEF WorkerRow
    <2>2. worker' = [worker EXCEPT ![w] = x]
      BY <1>1, <1>3 DEF Goto
    <2>3. ready' = [ready EXCEPT ![copy] = @ + 1]
      BY <1>2, <1>3
    <2> HIDE DEF x
    <2>4. /\ ready' \in [Messages -> Nat] /\ ready'[copy] > 0
          /\ \A n \in Messages \ {copy} : ready'[n] = ready[n]
      BY <1>1, <1>2, <2>3
    <2>5. \A n \in Messages : Held(n) => Held(n)'
      <3>1. \A v \in Workers : worker'[v].message = worker[v].message
        BY <1>1, <2>1, <2>2
      <3> QED BY <2>4, <3>1 DEF Held, Holders
    <2>6. \A n \in Messages : ready'[n] > 0 => Held(n) \/ n.event \in Accepted
      BY <1>1, <1>2, <2>4 DEF Held
    <2>7. Held(copy)'
      BY <2>4 DEF Held
    <2>8. x.message # None
      BY <1>1, <2>1, NamesAssumption
    <2> QED BY <1>1, <1>2, <1>3, <2>1, <2>2, <2>4, <2>5, <2>6, <2>7, <2>8, ConsumerStep
  <1>4. CASE result # "confirmed"
    <2>1. PICK published \in SUBSET {copy} : GiveBack(w, published)
      BY <1>2, <1>4
    <2>2. \A n \in published : n.event = EventOf(w)
      BY <1>2 DEF EventOf
    <2> QED BY <1>1, <1>4, <2>1, <2>2, GiveBackStep
  <1> QED BY <1>3, <1>4

(* Whatever a consumer loop does, or happens to it.                        *)
LEMMA WorkerSteps ==
  ASSUME IInv, NEW w \in Workers,
         \/ WorkerStep(w) \/ Reconnect(w) \/ WorkerDies(w)
         \/ \E e \in Events : Forget(w, e)
  PROVE  IInv'
  BY TakeStep, AckStep, CheckingStep, HandlingStep, QuarantineStep, DeadLetterStep,
     RecordFailureStep, RequeueStep, InterruptedStep, ForgetStep DEF WorkerStep

-----------------------------------------------------------------------------
(* Steps of the outbox.                                                    *)

(* The outbox may step if it takes no message away, publishes only what is *)
(* stored, and trusts only what the broker has confirmed.                  *)
LEMMA OutboxStep ==
  ASSUME IInv, Typed', UNCHANGED <<malformed, worker, settled>>,
         \A e \in Events : row[e].stored => row'[e].stored,
         \A m \in Messages :
            ready'[m] >= ready[m] /\ (ready'[m] > ready[m] => row'[m.event].stored),
         \A e \in Events : row'[e].published \/ sender'[e] = "confirmed" =>
            row[e].published \/ sender[e] = "confirmed" \/ Safe(e) \/ InBroker(e)',
         \A e \in Events : sender'[e] # "idle" \/ row'[e].published => row'[e].stored,
         \A d \in Dispatchers :
            /\ \A e \in dispatch'[d].batch : row'[e].stored
            /\ dispatch'[d].at = "marking" =>
                 /\ dispatch'[d].event \in Events /\ row'[dispatch'[d].event].stored
                 /\ dispatch'[d].confirmed => \A e \in Events :
                      dispatch'[d].event = e => Safe(e) \/ InBroker(e)'
  PROVE  IInv'
  <1>1. Accepted \subseteq Accepted'
    BY DEF Accepted
  <1>2. ready \in [Messages -> Nat] /\ ready' \in [Messages -> Nat]
    BY DEF IInv, Typed
  <1>3. \A m \in Messages : Held(m) => Held(m)'
    BY <1>2 DEF Held, Holders
  <1>4. \A m \in Messages : Held(m)' => Held(m) \/ row'[m.event].stored
    BY <1>2 DEF Held, Holders
  <1>5. \A e : Safe(e) => Safe(e)'
    BY <1>3 DEF Safe, InBroker
  <1>6. \A e : InBroker(e)' => Safe(e)'
    BY DEF Safe
  <1>7. Positions'
    BY DEF IInv, Positions
  <1>8. OnlyAccepted'
    <2>1. \A m \in Messages : Held(m)' => m.event \in Accepted'
      BY <1>1, <1>4 DEF IInv, OnlyAccepted, Accepted, Messages
    <2> QED BY <2>1 DEF OnlyAccepted
  <1>9. LetGo'
    <2>1. \A e \in malformed' : Safe(e)'
      BY <1>5 DEF IInv, LetGo
    <2>2. \A e \in Events : (row[e].published \/ sender[e] = "confirmed" => Safe(e))'
      BY <1>5, <1>6 DEF IInv, LetGo
    <2>3. \A d \in Dispatchers :
            (dispatch[d].at = "marking" /\ dispatch[d].confirmed => Safe(dispatch[d].event))'
      <3> TAKE d \in Dispatchers
      <3> HAVE (dispatch[d].at = "marking" /\ dispatch[d].confirmed)'
      <3>1. PICK e \in Events : dispatch'[d].event = e
        OBVIOUS
      <3>2. Safe(e)'
        BY <1>5, <1>6, <3>1
      <3> QED BY <3>1, <3>2 DEF Safe, InBroker, Held, Holders
    <2>4. ASSUME NEW w \in Workers, worker[w].at = "acking"
          PROVE  \/ EventOf(w) \in settled
                 \/ \E m \in Messages : /\ m.event = EventOf(w) /\ Held(m)'
                                        /\ m.requeues > worker[w].message.requeues
      BY <1>3, <2>4 DEF IInv, LetGo
    <2>5. \A w \in Workers : worker[w].cache \subseteq settled
      BY DEF IInv, LetGo
    <2> QED BY <2>1, <2>2, <2>3, <2>4, <2>5 DEF LetGo, EventOf
  <1> QED BY <1>7, <1>8, <1>9 DEF IInv

(* A publication adds at most copies of the event itself; one that was     *)
(* confirmed has added one.                                                *)
LEMMA Publishing ==
  ASSUME IInv, NEW e \in Events, NEW result \in Published, Publish(e, 0, result)
  PROVE  /\ ready' \in [Messages -> Nat]
         /\ \A m \in Messages : ready'[m] >= ready[m] /\ (ready'[m] > ready[m] => m.event = e)
         /\ result = "confirmed" => InBroker(e)'
  <1> DEFINE c == [event |-> e, requeues |-> 0]
  <1>1. c \in Messages /\ c.event = e
    BY BoundsAssumption DEF Messages
  <1>2. ready \in [Messages -> Nat]
    BY DEF IInv, Typed
  <1>3. CASE result \in Arrived
    <2>1. ready' = [ready EXCEPT ![c] = @ + 1]
      BY <1>3 DEF Publish
    <2> HIDE DEF c
    <2>2. ready' \in [Messages -> Nat] /\ ready'[c] = ready[c] + 1
          /\ \A m \in Messages \ {c} : ready'[m] = ready[m]
      BY <1>1, <1>2, <2>1
    <2>3. InBroker(e)'
      <3>1. ready'[c] > 0
        BY <1>1, <1>2, <2>2
      <3> QED BY <1>1, <3>1 DEF InBroker, Held
    <2> QED BY <1>1, <1>2, <2>2, <2>3
  <1>4. CASE result \notin Arrived
    BY <1>2, <1>4 DEF Publish, Arrived
  <1> QED BY <1>3, <1>4

(* Marking a row keeps it, and only a confirmed publication makes it published. *)
LEMMA Marking ==
  ASSUME NEW r \in RowState
  PROVE  /\ MarkPublished(r) \in RowState /\ MarkPublished(r).stored = r.stored
         /\ MarkRetry(r) \in RowState /\ MarkRetry(r).stored = r.stored
         /\ MarkRetry(r).published = r.published
         /\ [r EXCEPT !.due = TRUE] \in RowState
         /\ [r EXCEPT !.due = TRUE].stored = r.stored
         /\ [r EXCEPT !.due = TRUE].published = r.published
  BY DEF MarkPublished, MarkRetry, RowState

LEMMA ProducerSteps ==
  ASSUME IInv, NEW e \in Events,
         \/ \E direct, due \in BOOLEAN : Enqueue(e, direct, due)
         \/ \E r \in Published : DirectPublish(e, r)
         \/ DirectMark(e) \/ SenderDies(e) \/ BackoffElapses(e)
  PROVE  IInv'
  <1>1. /\ row \in [Events -> RowState] /\ sender \in [Events -> SenderState]
        /\ ready \in [Messages -> Nat]
    BY DEF IInv, Typed
  <1>2. /\ \A f \in Events : sender[f] # "idle" \/ row[f].published => row[f].stored
        /\ \A d \in Dispatchers :
             /\ \A f \in dispatch[d].batch : row[f].stored /\ f \in Events
             /\ dispatch[d].at = "marking" =>
                  /\ dispatch[d].event \in Events /\ row[dispatch[d].event].stored
                  /\ dispatch[d].confirmed => Safe(dispatch[d].event)
    BY DEF IInv, Typed, Positions, OnlyAccepted, LetGo, DispatcherRow
  <1>3. ASSUME NEW direct \in BOOLEAN, NEW due \in BOOLEAN, Enqueue(e, direct, due)
        PROVE  IInv'
    <2>1. /\ row' = [row EXCEPT ![e] = [stored |-> TRUE, published |-> FALSE, due |-> due]]
          /\ \E s \in {"publishing", "idle"} : sender' = [sender EXCEPT ![e] = s]
          /\ UNCHANGED <<malformed, dispatch, ready, worker, settled>>
      BY <1>3 DEF Enqueue
    <2>2. row' \in [Events -> RowState] /\ sender' \in [Events -> SenderState]
      BY <1>1, <2>1 DEF RowState, SenderState
    <2>3. Typed'
      BY <2>1, <2>2 DEF IInv, Typed
    <2> QED BY <1>1, <1>2, <2>1, <2>3, OutboxStep
  <1>4. ASSUME NEW r \in Published, DirectPublish(e, r)
        PROVE  IInv'
    <2>1. /\ sender[e] = "publishing" /\ Publish(e, 0, r)
          /\ sender' = [sender EXCEPT ![e] = IF r = "confirmed" THEN "confirmed" ELSE "refused"]
          /\ UNCHANGED <<malformed, row, dispatch, worker, settled>>
      BY <1>4 DEF DirectPublish
    <2>2. sender' \in [Events -> SenderState]
      BY <1>1, <2>1 DEF SenderState
    <2>3. /\ ready' \in [Messages -> Nat]
          /\ \A m \in Messages : ready'[m] >= ready[m] /\ (ready'[m] > ready[m] => m.event = e)
          /\ r = "confirmed" => InBroker(e)'
      BY <2>1, Publishing
    <2>4. Typed'
      BY <2>1, <2>2, <2>3 DEF IInv, Typed
    <2>5. row'[e].stored
      BY <1>2, <2>1
    <2>6. \A f \in Events : sender'[f] = "confirmed" => sender[f] = "confirmed" \/ InBroker(f)'
      <3>1. \A f \in Events : f # e => sender'[f] = sender[f]
        BY <1>1, <2>1
      <3>2. sender'[e] = "confirmed" => InBroker(e)'
        BY <1>1, <2>1, <2>3
      <3> TAKE f \in Events
      <3> QED BY <3>1, <3>2
    <2> QED BY <1>1, <1>2, <2>1, <2>3, <2>4, <2>5, <2>6, OutboxStep
  <1>5. CASE DirectMark(e) \/ SenderDies(e) \/ BackoffElapses(e)
    <2>1. UNCHANGED <<malformed, dispatch, ready, worker, settled>>
      BY <1>5 DEF DirectMark, SenderDies, BackoffElapses
    <2>2. /\ row' \in [Events -> RowState]
          /\ \A f \in Events :
               /\ row'[f].stored = row[f].stored
               /\ row'[f].published => row[f].published \/ sender[f] = "confirmed"
      <3>1. row[e] \in RowState
        BY <1>1
      <3>2. CASE DirectMark(e)
        BY <1>1, <3>1, <3>2, Marking DEF DirectMark
      <3>3. CASE SenderDies(e)
        BY <1>1, <3>3 DEF SenderDies
      <3>4. CASE BackoffElapses(e)
        <4>1. row' = [row EXCEPT ![e] = [row[e] EXCEPT !.due = TRUE]]
          BY <1>1, <3>1, <3>4 DEF BackoffElapses, RowState
        <4> QED BY <1>1, <3>1, <4>1, Marking
      <3> QED BY <1>5, <3>2, <3>3, <3>4
    <2>3. sender' = sender \/ sender' = [sender EXCEPT ![e] = "idle"]
      BY <1>5 DEF DirectMark, SenderDies, BackoffElapses
    <2>4. /\ sender' \in [Events -> SenderState]
          /\ \A f \in Events : sender'[f] # "idle" => sender'[f] = sender[f]
      BY <1>1, <2>3 DEF SenderState
    <2>5. Typed'
      BY <2>1, <2>2, <2>4 DEF IInv, Typed
    <2> QED BY <1>1, <1>2, <2>1, <2>2, <2>4, <2>5, OutboxStep
  <1> QED BY <1>3, <1>4, <1>5

LEMMA DispatcherSteps ==
  ASSUME IInv, NEW d \in Dispatchers, DispatcherStep(d) \/ DispatchFails(d) \/ LoseLock
  PROVE  IInv'
  <1>1. /\ row \in [Events -> RowState] /\ sender \in [Events -> SenderState]
        /\ ready \in [Messages -> Nat] /\ dispatch \in [Dispatchers -> DispatcherRow]
    BY DEF IInv, Typed
  <1>2. /\ \A f \in Events : sender[f] # "idle" \/ row[f].published => row[f].stored
        /\ \A c \in Dispatchers :
             /\ \A f \in dispatch[c].batch : row[f].stored /\ f \in Events
             /\ dispatch[c].at = "marking" =>
                  /\ dispatch[c].event \in Events /\ row[dispatch[c].event].stored
                  /\ dispatch[c].confirmed => Safe(dispatch[c].event)
    BY <1>1 DEF IInv, Positions, OnlyAccepted, LetGo, DispatcherRow
  <1>3. CASE BeginDispatch(d)
    <2> DEFINE batch == {e \in Events : Pending(row[e])}
               x == [Idle EXCEPT !.at = "publishing", !.batch = batch]
    <2>1. /\ dispatch' = [dispatch EXCEPT ![d] = x]
          /\ UNCHANGED <<malformed, row, sender, ready, worker, settled>>
      BY <1>3 DEF BeginDispatch
    <2>2. x \in DispatcherRow /\ x.at = "publishing" /\ x.batch = batch
      BY DEF Idle, DispatcherRow
    <2>3. \A e \in x.batch : row[e].stored
      BY <2>2 DEF Pending
    <2> HIDE DEF x
    <2>4. Typed'
      BY <2>1, <2>2 DEF IInv, Typed
    <2> QED BY <1>1, <1>2, <2>1, <2>2, <2>3, <2>4, OutboxStep
  <1>4. ASSUME NEW r \in Published, DispatchPublish(d, r)
        PROVE  IInv'
    <2>1. PICK e \in dispatch[d].batch :
            /\ Publish(e, 0, r)
            /\ dispatch' = [dispatch EXCEPT
                 ![d].at = "marking", ![d].event = e, ![d].confirmed = (r = "confirmed")]
      BY <1>4 DEF DispatchPublish
    <2> DEFINE x == [dispatch[d] EXCEPT !.at = "marking", !.event = e,
                                        !.confirmed = (r = "confirmed")]
    <2>2. e \in Events /\ row[e].stored
      BY <1>2
    <2>3. /\ x \in DispatcherRow /\ x.at = "marking" /\ x.event = e
          /\ x.batch = dispatch[d].batch /\ x.confirmed = (r = "confirmed")
      <3>1. dispatch[d] \in DispatcherRow
        BY <1>1
      <3> QED BY <2>2, <3>1 DEF DispatcherRow
    <2>4. dispatch' = [dispatch EXCEPT ![d] = x]
      BY <1>1, <2>1 DEF DispatcherRow
    <2>5. UNCHANGED <<malformed, row, sender, worker, settled>>
      BY <1>4 DEF DispatchPublish
    <2> HIDE DEF x
    <2>6. /\ ready' \in [Messages -> Nat]
          /\ \A m \in Messages : ready'[m] >= ready[m] /\ (ready'[m] > ready[m] => m.event = e)
          /\ r = "confirmed" => InBroker(e)'
      BY <2>1, <2>2, Publishing
    <2>7. Typed'
      BY <2>3, <2>4, <2>5, <2>6 DEF IInv, Typed
    <2>8. /\ dispatch'[d] = x
          /\ \A c \in Dispatchers : c # d => dispatch'[c] = dispatch[c]
      BY <1>1, <2>4
    <2>9. ASSUME NEW c \in Dispatchers
          PROVE  /\ \A f \in dispatch'[c].batch : row'[f].stored
                 /\ dispatch'[c].at = "marking" =>
                      /\ dispatch'[c].event \in Events /\ row'[dispatch'[c].event].stored
                      /\ dispatch'[c].confirmed => \A f \in Events :
                           dispatch'[c].event = f => Safe(f) \/ InBroker(f)'
      <3>1. CASE c = d
        BY <1>2, <2>2, <2>3, <2>5, <2>6, <2>8, <3>1
      <3>2. CASE c # d
        BY <1>2, <2>5, <2>8, <3>2
      <3> QED BY <3>1, <3>2
    <2> QED BY <1>2, <2>2, <2>5, <2>6, <2>7, <2>9, OutboxStep
  <1>5. CASE DispatchMark(d)
    <2> DEFINE e == dispatch[d].event
               left == dispatch[d].batch \ {e}
    <2>1. /\ e \in Events /\ dispatch[d].at = "marking"
          /\ row' = [row EXCEPT ![e] = IF dispatch[d].confirmed THEN MarkPublished(@)
                                                                ELSE MarkRetry(@)]
          /\ UNCHANGED <<malformed, sender, ready, worker, settled>>
      BY <1>2, <1>5 DEF DispatchMark
    <2>2. PICK x \in {Idle, [Idle EXCEPT !.at = "publishing", !.batch = left]} :
            dispatch' = [dispatch EXCEPT ![d] = x]
      BY <1>5 DEF DispatchMark
    <2>3. x \in DispatcherRow /\ x.at # "marking" /\ x.batch \subseteq dispatch[d].batch
      <3>1. left \subseteq Events /\ left \subseteq dispatch[d].batch
        BY <1>2
      <3> HIDE DEF left
      <3>2. CASE x = Idle
        BY <3>2 DEF Idle, DispatcherRow
      <3>3. CASE x = [Idle EXCEPT !.at = "publishing", !.batch = left]
        BY <3>1, <3>3 DEF Idle, DispatcherRow
      <3> QED BY <3>2, <3>3
    <2>4. /\ row' \in [Events -> RowState]
          /\ \A f \in Events :
               /\ row'[f].stored = row[f].stored
               /\ row'[f].published => row[f].published \/ (f = e /\ dispatch[d].confirmed)
      <3>1. row[e] \in RowState
        BY <1>1, <2>1
      <3> QED BY <1>1, <2>1, <3>1, Marking
    <2> HIDE DEF e
    <2>5. Typed'
      BY <2>1, <2>2, <2>3, <2>4 DEF IInv, Typed
    <2>6. \A f \in Events : row'[f].published => row[f].published \/ Safe(f)
      BY <1>2, <2>1, <2>4 DEF e
    <2>7. /\ dispatch'[d] = x
          /\ \A c \in Dispatchers : c # d => dispatch'[c] = dispatch[c]
      BY <1>1, <2>2
    <2>8. ASSUME NEW c \in Dispatchers
          PROVE  /\ \A f \in dispatch'[c].batch : row'[f].stored
                 /\ dispatch'[c].at = "marking" =>
                      /\ dispatch'[c].event \in Events /\ row'[dispatch'[c].event].stored
                      /\ dispatch'[c].confirmed => \A f \in Events :
                           dispatch'[c].event = f => Safe(f) \/ InBroker(f)'
      <3>1. CASE c = d
        BY <1>2, <2>3, <2>4, <2>7, <3>1
      <3>2. CASE c # d
        BY <1>2, <2>4, <2>7, <3>2
      <3> QED BY <3>1, <3>2
    <2>9. \A f \in Events :
            /\ row[f].stored => row'[f].stored
            /\ sender'[f] # "idle" \/ row'[f].published => row'[f].stored
            /\ row'[f].published \/ sender'[f] = "confirmed" =>
                 row[f].published \/ sender[f] = "confirmed" \/ Safe(f)
      <3>1. Safe(e) \/ ~dispatch[d].confirmed
        BY <1>2, <2>1 DEF e
      <3>2. row[e].stored
        BY <1>2, <2>1 DEF e
      <3> QED BY <1>2, <2>1, <2>4, <3>1, <3>2
    <2>10. \A m \in Messages : ready'[m] = ready[m] /\ ready[m] \in Nat
      BY <1>1, <2>1
    <2> QED BY <2>1, <2>5, <2>8, <2>9, <2>10, OutboxStep
  <1>6. CASE DispatchFails(d) \/ LoseLock
    <2>1. /\ dispatch' = dispatch \/ dispatch' = [dispatch EXCEPT ![d] = Idle]
          /\ UNCHANGED <<malformed, row, sender, ready, worker, settled>>
      BY <1>6 DEF DispatchFails, LoseLock
    <2>2. Idle \in DispatcherRow /\ Idle.at # "marking" /\ Idle.batch = {}
      BY DEF Idle, DispatcherRow
    <2>3. Typed'
      BY <1>1, <2>1, <2>2 DEF IInv, Typed
    <2> QED BY <1>1, <1>2, <2>1, <2>2, <2>3, OutboxStep
  <1> QED BY <1>3, <1>4, <1>5, <1>6 DEF DispatcherStep

-----------------------------------------------------------------------------
(* The theorems.                                                           *)

LEMMA StepIInv == IInv /\ [Next]_vars => IInv'
  <1> SUFFICES ASSUME IInv, [Next]_vars PROVE IInv'
    OBVIOUS
  <1>1. CASE \E e \in Events : Cancel(e)
    BY <1>1 DEF Cancel, vars, outboxVars, IInv, Typed, Positions, OnlyAccepted, LetGo,
       Accepted, Safe, InBroker, Held, Holders, EventOf
  <1>2. CASE UNCHANGED vars
    BY <1>2 DEF vars, outboxVars, IInv, Typed, Positions, OnlyAccepted, LetGo,
       Accepted, Safe, InBroker, Held, Holders, EventOf
  <1>3. CASE LoseLock
    <2>1. lock' = None /\ UNCHANGED <<malformed, row, sender, dispatch, ready, worker, settled>>
      BY <1>3 DEF LoseLock
    <2> QED BY <2>1 DEF IInv, Typed, Positions, OnlyAccepted, LetGo,
       Accepted, Safe, InBroker, Held, Holders, EventOf
  <1> QED BY <1>1, <1>2, <1>3, ProducerSteps, DispatcherSteps, WorkerSteps DEF Next

(* No accepted event is ever held by nobody without an outcome: whatever   *)
(* breaks, its row is unpublished, the broker has it, or it is settled.    *)
THEOREM EventNeverLost == Spec => []NeverLost
  <1>1. IInv => NeverLost
    BY DEF IInv, Typed, OnlyAccepted, LetGo, NeverLost, Safe, Accepted
  <1> QED BY <1>1, InitIInv, StepIInv, PTL DEF Spec

(* An event is settled by one step of a consumer, and only when it has been *)
(* accepted: every step is a step of Delivery or leaves it as it is.        *)
LEMMA StepDelivers == IInv /\ [Next]_vars => [Promise!Next]_(Promise!vars)
  <1> SUFFICES ASSUME IInv, [Next]_vars PROVE [Promise!Next]_(Promise!vars)
    OBVIOUS
  <1> USE DEF Promise!Next, Promise!vars, Promise!Accept, Promise!Settle
  <1>1. ASSUME NEW e \in Events, settled' = settled,
               Accepted' = Accepted \cup {e}
        PROVE  [Promise!Next]_(Promise!vars)
    BY <1>1
  <1>2. ASSUME UNCHANGED <<malformed, settled>>,
               \A f \in Events : row'[f].stored = row[f].stored
        PROVE  [Promise!Next]_(Promise!vars)
    BY <1>2 DEF Accepted
  <1>3. ASSUME NEW w \in Workers, worker[w].at # "idle", UNCHANGED outboxVars,
               settled' = settled \cup {EventOf(w)} \/ settled' = settled
        PROVE  [Promise!Next]_(Promise!vars)
    <2>1. EventOf(w) \in Accepted /\ EventOf(w) \in Events /\ Accepted' = Accepted
      BY <1>3, InHand DEF outboxVars, Accepted
    <2>2. CASE EventOf(w) \in settled
      BY <1>3, <2>1, <2>2
    <2>3. CASE EventOf(w) \notin settled
      BY <1>3, <2>1, <2>3
    <2> QED BY <2>2, <2>3
  <1>4. row \in [Events -> RowState]
    BY DEF IInv, Typed
  <1>5. ASSUME NEW e \in Events, NEW direct \in BOOLEAN, NEW due \in BOOLEAN,
               Enqueue(e, direct, due)
        PROVE  [Promise!Next]_(Promise!vars)
    <2>1. Accepted' = Accepted \cup {e} /\ settled' = settled
      BY <1>4, <1>5 DEF Enqueue, Accepted, RowState
    <2> QED BY <1>1, <2>1
  <1>6. ASSUME NEW e \in Events,
               \/ \E r \in Published : DirectPublish(e, r)
               \/ DirectMark(e) \/ SenderDies(e) \/ BackoffElapses(e) \/ Cancel(e)
        PROVE  [Promise!Next]_(Promise!vars)
    <2>1. row[e] \in RowState
      BY <1>4
    <2>2. \A f \in Events : row'[f].stored = row[f].stored
      <3>1. CASE DirectMark(e)
        BY <1>4, <2>1, <3>1, Marking DEF DirectMark
      <3>2. CASE BackoffElapses(e)
        <4>1. row' = [row EXCEPT ![e] = [row[e] EXCEPT !.due = TRUE]]
          BY <1>4, <2>1, <3>2 DEF BackoffElapses, RowState
        <4> QED BY <1>4, <2>1, <4>1, Marking
      <3>3. CASE SenderDies(e) \/ Cancel(e)
        BY <3>3 DEF SenderDies, Cancel, outboxVars
      <3>4. CASE \E r \in Published : DirectPublish(e, r)
        BY <3>4 DEF DirectPublish
      <3> QED BY <1>6, <3>1, <3>2, <3>3, <3>4
    <2>3. UNCHANGED <<malformed, settled>>
      BY <1>6 DEF DirectPublish, DirectMark, SenderDies, BackoffElapses, Cancel, outboxVars
    <2> QED BY <1>2, <1>4, <2>2, <2>3
  <1>7. ASSUME NEW d \in Dispatchers, DispatcherStep(d) \/ DispatchFails(d) \/ LoseLock
        PROVE  [Promise!Next]_(Promise!vars)
    <2>1. UNCHANGED <<malformed, settled>>
      BY <1>7 DEF DispatcherStep, BeginDispatch, DispatchPublish, DispatchMark,
         DispatchFails, LoseLock
    <2>2. CASE DispatchMark(d)
      <3>1. dispatch[d].event \in Events
        BY <2>2 DEF DispatchMark, IInv, Positions
      <3>2. row[dispatch[d].event] \in RowState
        BY <1>4, <3>1
      <3>3. \E b \in BOOLEAN : row' = [row EXCEPT ![dispatch[d].event] =
                                          IF b THEN MarkPublished(@) ELSE MarkRetry(@)]
        BY <2>2, <3>1 DEF DispatchMark, IInv, Typed, DispatcherRow
      <3>4. \A f \in Events : row'[f].stored = row[f].stored
        BY <1>4, <3>1, <3>2, <3>3, Marking
      <3> QED BY <1>2, <2>1, <3>4
    <2>3. CASE UNCHANGED row
      BY <1>2, <2>1, <2>3
    <2> QED BY <1>7, <2>2, <2>3 DEF DispatcherStep, BeginDispatch, DispatchPublish,
         DispatchFails, LoseLock
  <1>8. ASSUME NEW w \in Workers, \/ \E m \in Messages : Take(w, m)
                                  \/ \E e \in Events : Forget(w, e)
        PROVE  [Promise!Next]_(Promise!vars)
    BY <1>2, <1>8 DEF Take, Forget, outboxVars
  <1>9. ASSUME NEW w \in Workers, \/ SkipCancelled(w) \/ SkipDuplicate(w) \/ Admit(w)
                                  \/ HandlerReturns(w) \/ Ack(w)
                                  \/ Reconnect(w) \/ WorkerDies(w)
        PROVE  [Promise!Next]_(Promise!vars)
    <2>1. worker[w].at # "idle"
      BY <1>9 DEF SkipCancelled, SkipDuplicate, Admit, HandlerReturns, Ack, Reconnect,
         WorkerDies, IInv, Positions
    <2> QED BY <1>3, <1>9, <2>1 DEF SkipCancelled, SkipDuplicate, Admit, HandlerReturns, Ack,
         Reconnect, WorkerDies, Settle
  <1>10. ASSUME NEW w \in Workers,
                \/ \E b \in BOOLEAN : HandlerFails(w, b) \/ RecordFailure(w, b)
                \/ \E r \in Published : Quarantine(w, r) \/ Requeue(w, r) \/ DeadLetter(w, r)
         PROVE  [Promise!Next]_(Promise!vars)
    <2>1. worker[w].at # "idle"
      BY <1>10 DEF HandlerFails, RecordFailure, Quarantine, Requeue, DeadLetter
    <2> QED BY <1>3, <1>10, <2>1 DEF HandlerFails, RecordFailure, Quarantine, Requeue,
         DeadLetter, Settle
  <1>11. CASE UNCHANGED vars
    BY <1>2, <1>11 DEF vars, outboxVars
  <1>12. CASE LoseLock
    BY <1>2, <1>12 DEF LoseLock
  <1> QED BY <1>5, <1>6, <1>7, <1>8, <1>9, <1>10, <1>11, <1>12 DEF Next, WorkerStep

(* Outbox, broker and consumers implement the steps of Delivery: an event   *)
(* is settled after it was accepted, and is never unsettled or disowned.    *)
THEOREM ImplementsDelivery == Spec => Promise!Steps
  <1>1. Init => Promise!Init
    BY DEF Init, Promise!Init, Accepted
  <1> QED BY <1>1, InitIInv, StepIInv, StepDelivers, PTL DEF Spec, Promise!Steps

-----------------------------------------------------------------------------
(* Copies of a message, with those in a consumer's hand, are bounded.      *)

\* The number of consumer loops that hold m.
InHands(m) == Cardinality(Holders(m))

Counted == \A m \in Messages : ready[m] + InHands(m) <= MaxCopies

Spare(m) == ready[m] + InHands(m) < MaxCopies

(* Two finite sets that agree but for one element differ in size by one at most. *)
LEMMA SizesDiffer ==
  ASSUME NEW H, NEW K, IsFiniteSet(H), IsFiniteSet(K), NEW s, H \ {s} = K \ {s}
  PROVE  /\ Cardinality(H) \in Nat /\ Cardinality(K) \in Nat
         /\ s \in H /\ s \in K => Cardinality(K) = Cardinality(H)
         /\ s \notin H /\ s \notin K => Cardinality(K) = Cardinality(H)
         /\ s \in H /\ s \notin K => Cardinality(H) = Cardinality(K) + 1
         /\ s \notin H /\ s \in K => Cardinality(K) = Cardinality(H) + 1
  <1>1. Cardinality(H) \in Nat /\ Cardinality(K) \in Nat
    BY FS_CardinalityType
  <1>2. (s \in H <=> s \in K) => H = K
    OBVIOUS
  <1>3. ASSUME s \in H, s \notin K PROVE Cardinality(H) = Cardinality(K) + 1
    <2>1. H = K \cup {s}
      BY <1>3
    <2> QED BY <1>3, <2>1, FS_AddElement
  <1>4. ASSUME s \notin H, s \in K PROVE Cardinality(K) = Cardinality(H) + 1
    <2>1. K = H \cup {s}
      BY <1>4
    <2> QED BY <1>4, <2>1, FS_AddElement
  <1> QED BY <1>1, <1>2, <1>3, <1>4

LEMMA HandsCounted == \A m : InHands(m) \in Nat
  <1> TAKE m
  <1>1. Holders(m) \subseteq Workers
    BY DEF Holders
  <1>2. IsFiniteSet(Holders(m))
    BY <1>1, WorkersAssumption, FS_Subset
  <1> QED BY <1>2, FS_CardinalityType DEF InHands

(* There is room for a copy of every message of an event that may be published. *)
LEMMA RoomForCopies ==
  ASSUME Typed, Counted, NEW e \in Events, Copies(e) < MaxCopies,
         NEW m \in Messages, m.event = e
  PROVE  Spare(m)
  <1> DEFINE Kinds == [event : {e}, requeues : 0..MaxRequeues]
             Slots == {c \in Messages \X (1..MaxCopies) :
                         c[1].event = e /\ c[2] <= ready[c[1]] + InHands(c[1])}
             One == {m}
             All == 1..MaxCopies
  <1>1. MaxCopies \in Nat /\ ready[m] \in Nat /\ InHands(m) \in Nat
    BY BoundsAssumption, HandsCounted DEF Typed
  <1>2. IsFiniteSet(Kinds)
    <2> DEFINE Counts == 0..MaxRequeues
               f == [i \in Counts |-> [event |-> e, requeues |-> i]]
    <2>1. IsFiniteSet(Counts)
      BY BoundsAssumption, FS_Interval
    <2>2. f \in Surjection(Counts, Kinds)
      <3>1. f \in [Counts -> Kinds]
        OBVIOUS
      <3>2. \A k \in Kinds : k.requeues \in Counts /\ f[k.requeues] = k
        OBVIOUS
      <3> QED BY <3>1, <3>2 DEF Surjection
    <2> HIDE DEF f, Counts, Kinds
    <2> QED BY <2>1, <2>2, FS_Surjection
  <1>3. IsFiniteSet(All) /\ Cardinality(All) = MaxCopies
    <2>1. ASSUME NEW n \in Nat PROVE IsFiniteSet(1..n) /\ Cardinality(1..n) = n
      BY FS_Interval
    <2> QED BY <1>1, <2>1
  <1>4. IsFiniteSet(Slots)
    <2>1. Slots \subseteq Kinds \X All
      <3> SUFFICES ASSUME NEW c \in Slots PROVE c \in Kinds \X All
        OBVIOUS
      <3>1. c \in Messages \X All /\ c[1].event = e
        OBVIOUS
      <3>2. c[1] \in Kinds /\ c[2] \in All /\ c = <<c[1], c[2]>>
        BY <3>1 DEF Messages
      <3> QED BY <3>2
    <2>2. IsFiniteSet(Kinds \X All)
      <3> HIDE DEF Kinds, All
      <3> QED BY <1>2, <1>3, FS_Product
    <2> HIDE DEF Slots, Kinds, All
    <2> QED BY <2>1, <2>2, FS_Subset
  <1>5. Cardinality(Slots) < MaxCopies
    BY DEF Copies, InHands
  <1>6. SUFFICES ASSUME ~Spare(m) PROVE FALSE
    OBVIOUS
  <1>7. ready[m] + InHands(m) = MaxCopies
    BY <1>1, <1>6 DEF Spare, Counted
  <1>8. One \X All \subseteq Slots
    BY <1>7
  <1>9. Cardinality(One \X All) = MaxCopies
    <2>1. IsFiniteSet(One) /\ Cardinality(One) = 1
      BY FS_Singleton
    <2>2. Cardinality(One \X All) = 1 * MaxCopies
      <3> HIDE DEF One, All
      <3> QED BY <1>3, <2>1, FS_Product
    <2> HIDE DEF One, All
    <2> QED BY <1>1, <2>2
  <1>10. Cardinality(One \X All) <= Cardinality(Slots) /\ Cardinality(Slots) \in Nat
    <2> HIDE DEF One, All, Slots
    <2> QED BY <1>4, <1>8, FS_Subset, FS_CardinalityType
  <1> HIDE DEF One, All, Slots
  <1> QED BY <1>1, <1>5, <1>9, <1>10

(* A consumer loop changes its own hand and the ready copies: what it takes *)
(* leaves the queue, and only where there is room does a copy come.         *)
LEMMA CopiesMove ==
  ASSUME Typed, Counted, NEW w \in Workers, ready' \in [Messages -> Nat],
         \A v \in Workers : v # w => worker'[v].message = worker[v].message,
         \A m \in Messages :
            \/ /\ worker[w].message = m <=> worker'[w].message = m
               /\ ready'[m] <= ready[m] \/ (Spare(m) /\ ready'[m] <= ready[m] + 1)
            \/ /\ worker[w].message = m /\ worker'[w].message # m
               /\ ready'[m] <= ready[m] + 1
            \/ /\ worker[w].message # m /\ worker'[w].message = m
               /\ ready'[m] + 1 <= ready[m]
  PROVE  Counted'
  <1> SUFFICES ASSUME NEW m \in Messages PROVE ready'[m] + InHands(m)' <= MaxCopies
    BY DEF Counted
  <1>1. /\ InHands(m) \in Nat /\ InHands(m)' \in Nat
        /\ (worker[w].message = m <=> worker'[w].message = m) => InHands(m)' = InHands(m)
        /\ worker[w].message = m /\ worker'[w].message # m => InHands(m) = InHands(m)' + 1
        /\ worker[w].message # m /\ worker'[w].message = m => InHands(m)' = InHands(m) + 1
    <2>1. /\ w \in Holders(m) <=> worker[w].message = m
          /\ w \in Holders(m)' <=> worker'[w].message = m
          /\ Holders(m) \ {w} = Holders(m)' \ {w}
      BY DEF Holders
    <2>2. IsFiniteSet(Holders(m)) /\ IsFiniteSet(Holders(m)')
      BY WorkersAssumption, FS_Subset DEF Holders
    <2> QED BY <2>1, <2>2, SizesDiffer DEF InHands
  <1>2. /\ ready[m] \in Nat /\ ready'[m] \in Nat /\ MaxCopies \in Nat
        /\ ready[m] + InHands(m) <= MaxCopies
    BY BoundsAssumption DEF Typed, Counted
  <1>3. CASE worker[w].message = m <=> worker'[w].message = m
    BY <1>1, <1>2, <1>3 DEF Spare
  <1>4. CASE ~(worker[w].message = m <=> worker'[w].message = m)
    BY <1>1, <1>2, <1>4
  <1> QED BY <1>3, <1>4

(* Without a change in the consumers' hands, only a publication adds a copy. *)
LEMMA CopiesStay ==
  ASSUME Typed, Counted, ready' \in [Messages -> Nat],
         \A v \in Workers : worker'[v].message = worker[v].message,
         \A m \in Messages : ready'[m] <= ready[m] \/ (Spare(m) /\ ready'[m] <= ready[m] + 1)
  PROVE  Counted'
  <1> SUFFICES ASSUME NEW m \in Messages PROVE ready'[m] + InHands(m)' <= MaxCopies
    BY DEF Counted
  <1>1. Holders(m)' = Holders(m)
    BY DEF Holders
  <1>2. /\ ready[m] \in Nat /\ ready'[m] \in Nat /\ MaxCopies \in Nat
        /\ ready[m] + InHands(m) <= MaxCopies /\ InHands(m) \in Nat
    BY BoundsAssumption, HandsCounted DEF Typed, Counted
  <1> QED BY <1>1, <1>2 DEF InHands, Spare

(* What a consumer loop gives back returns to the queue from its hand. *)
LEMMA GiveBackCounted ==
  ASSUME Typed, ready' \in [Messages -> Nat], Counted, NEW w \in Workers,
         worker[w].message \in Messages,
         NEW published, \A m \in published : m # worker[w].message /\ (m \in Messages => Spare(m)),
         GiveBack(w, published)
  PROVE  Counted'
  <1>1. worker' = [worker EXCEPT ![w] = Rest(worker[w])] /\ worker[w] \in WorkerRow
    BY DEF GiveBack, Typed
  <1>2. /\ worker'[w].message = None
        /\ \A v \in Workers : v # w => worker'[v].message = worker[v].message
    BY <1>1, Resting DEF Typed
  <1>3. ASSUME NEW m \in Messages
        PROVE  /\ worker'[w].message # m /\ ready[m] \in Nat
               /\ m = worker[w].message => ready'[m] = ready[m] + 1
               /\ m # worker[w].message => ready'[m] <= ready[m] \/ (Spare(m) /\ ready'[m] <= ready[m] + 1)
    <2>1. worker'[w].message # m /\ ready[m] \in Nat
      BY <1>2, NamesAssumption DEF Typed
    <2>2. ready'[m] = ready[m] + (IF m = worker[w].message THEN 1 ELSE 0)
                               + (IF m \in published THEN 1 ELSE 0)
      BY DEF GiveBack
    <2>3. CASE m \in published
      BY <2>1, <2>2, <2>3
    <2>4. CASE m \notin published
      BY <2>1, <2>2, <2>4
    <2> QED BY <2>1, <2>3, <2>4
  <1>4. \A m \in Messages :
            \/ /\ worker[w].message = m <=> worker'[w].message = m
               /\ ready'[m] <= ready[m] \/ (Spare(m) /\ ready'[m] <= ready[m] + 1)
            \/ /\ worker[w].message = m /\ worker'[w].message # m
               /\ ready'[m] <= ready[m] + 1
    BY <1>3
  <1> QED BY <1>2, <1>4, CopiesMove

(* A loop that goes on with its message leaves the copies as they are. *)
LEMMA GoingCounted ==
  ASSUME Typed, Counted, UNCHANGED ready,
         \A v \in Workers : worker'[v].message = worker[v].message
  PROVE  Counted'
  <1>1. ready' \in [Messages -> Nat] /\ \A m \in Messages : ready'[m] <= ready[m]
    BY DEF Typed
  <1> QED BY <1>1, CopiesStay

LEMMA ConsumerCounted ==
  ASSUME IInv, IInv', Counted, NEW w \in Workers,
         \/ WorkerStep(w) \/ Reconnect(w) \/ WorkerDies(w)
         \/ \E e \in Events : Forget(w, e)
  PROVE  Counted'
  <1> USE DEF outboxVars
  <1>0. /\ Typed /\ ready' \in [Messages -> Nat] /\ worker \in [Workers -> WorkerRow]
        /\ ready \in [Messages -> Nat]
    BY DEF IInv, Typed
  <1>1. ASSUME NEW at, Goto(w, at), UNCHANGED ready PROVE Counted'
    <2>1. \A v \in Workers : worker'[v].message = worker[v].message
      BY <1>0, <1>1 DEF Goto, WorkerRow
    <2> QED BY <1>0, <1>1, <2>1, GoingCounted
  <1>2. ASSUME Remember(w), UNCHANGED ready PROVE Counted'
    <2>1. \A v \in Workers : worker'[v].message = worker[v].message
      BY <1>0, <1>2 DEF Remember, WorkerRow
    <2> QED BY <1>0, <1>2, <2>1, GoingCounted
  <1>3. ASSUME GiveBack(w, {}), worker[w].at # "idle" PROVE Counted'
    <2>1. worker[w].message \in Messages
      BY <1>3, InHand
    <2> QED BY <1>0, <1>3, <2>1, GiveBackCounted
  <1>4. ASSUME NEW m \in Messages, Take(w, m) PROVE Counted'
    <2>1. /\ worker[w].message = None /\ ready[m] > 0
          /\ ready' = [ready EXCEPT ![m] = @ - 1]
          /\ worker'[w].message = m
          /\ \A v \in Workers : v # w => worker'[v].message = worker[v].message
      BY <1>0, <1>4 DEF Take, IInv, Positions, WorkerRow
    <2>2. \A n \in Messages : worker[w].message # n
      BY <2>1, NamesAssumption
    <2>3. \A n \in Messages : IF n = m THEN ready'[n] + 1 <= ready[n] ELSE ready'[n] <= ready[n]
      BY <1>0, <2>1
    <2>4. \A n \in Messages :
            \/ /\ worker[w].message = n <=> worker'[w].message = n
               /\ ready'[n] <= ready[n]
            \/ /\ worker[w].message # n /\ worker'[w].message = n
               /\ ready'[n] + 1 <= ready[n]
      BY <2>1, <2>2, <2>3
    <2> QED BY <1>0, <2>1, <2>4, CopiesMove
  <1>5. ASSUME SkipCancelled(w) \/ SkipDuplicate(w) \/ Admit(w) PROVE Counted'
    BY <1>1, <1>5 DEF SkipCancelled, SkipDuplicate, Admit
  <1>6. ASSUME HandlerReturns(w) PROVE Counted'
    BY <1>2, <1>6 DEF HandlerReturns
  <1>7. ASSUME NEW transient \in BOOLEAN, HandlerFails(w, transient) PROVE Counted'
    <2>1. PICK k, at : worker' = [worker EXCEPT ![w].tries = k, ![w].at = at]
      BY <1>7 DEF HandlerFails
    <2>2. \A v \in Workers : worker'[v].message = worker[v].message
      BY <1>0, <2>1 DEF WorkerRow
    <2> QED BY <1>0, <1>7, <2>2, GoingCounted DEF HandlerFails
  <1>8. ASSUME NEW persisted \in BOOLEAN, RecordFailure(w, persisted) PROVE Counted'
    BY <1>1, <1>3, <1>8 DEF RecordFailure
  <1>9. ASSUME NEW r \in Published, Quarantine(w, r) \/ DeadLetter(w, r) PROVE Counted'
    BY <1>1, <1>2, <1>3, <1>9 DEF Quarantine, DeadLetter
  <1>10. ASSUME NEW r \in Published, Requeue(w, r) PROVE Counted'
    <2> DEFINE m == worker[w].message
               copy == Requeued(m)
    <2>1. /\ m \in Messages /\ EventOf(w) \in Events /\ m.event = EventOf(w)
          /\ m.requeues < MaxRequeues
      BY <1>10, InHand DEF Requeue, EventOf, IInv, Positions
    <2>2. copy \in Messages /\ copy.event = EventOf(w) /\ copy # m
      BY <2>1, BoundsAssumption DEF Messages, Requeued
    <2>3. CASE r = "confirmed"
      <3>1. Spare(copy)
        BY <1>0, <1>10, <2>1, <2>2, <2>3, RoomForCopies DEF Requeue, Arrived
      <3>2. ready' = [ready EXCEPT ![copy] = @ + 1] /\ Goto(w, "acking")
        BY <1>10, <2>3 DEF Requeue
      <3>3. \A v \in Workers : worker'[v].message = worker[v].message
        BY <1>0, <3>2 DEF Goto, WorkerRow
      <3> HIDE DEF copy
      <3>4. \A n \in Messages : ready'[n] <= ready[n] \/ (Spare(n) /\ ready'[n] <= ready[n] + 1)
        BY <1>0, <2>2, <3>1, <3>2
      <3> QED BY <1>0, <3>3, <3>4, CopiesStay
    <2>4. CASE r = "unconfirmed"
      <3>1. Spare(copy)
        BY <1>0, <1>10, <2>1, <2>2, <2>4, RoomForCopies DEF Requeue, Arrived
      <3>2. GiveBack(w, {copy})
        BY <1>10, <2>4 DEF Requeue
      <3> QED BY <1>0, <2>1, <2>2, <3>1, <3>2, GiveBackCounted
    <2>5. CASE r = "refused"
      BY <1>3, <1>10, <2>5 DEF Requeue
    <2> QED BY <2>3, <2>4, <2>5 DEF Published
  <1>11. ASSUME worker[w].at # "idle", worker'[w].message = None,
                \A v \in Workers : v # w => worker'[v].message = worker[v].message,
                \A m \in Messages : ready'[m] <= ready[m]
                                    \/ (m = worker[w].message /\ ready'[m] <= ready[m] + 1)
         PROVE  Counted'
    <2>1. \A m \in Messages : worker'[w].message # m
      BY <1>11, NamesAssumption
    <2>2. \A m \in Messages : ready[m] \in Nat /\ ready'[m] \in Nat
      BY <1>0
    <2>3. \A m \in Messages :
            \/ /\ worker[w].message = m <=> worker'[w].message = m
               /\ ready'[m] <= ready[m]
            \/ /\ worker[w].message = m /\ worker'[w].message # m
               /\ ready'[m] <= ready[m] + 1
      BY <1>11, <2>1, <2>2
    <2> QED BY <1>0, <1>11, <2>3, CopiesMove
  <1>12. ASSUME Ack(w) PROVE Counted'
    <2>1. /\ worker[w].at # "idle" /\ worker'[w].message = None
          /\ \A v \in Workers : v # w => worker'[v].message = worker[v].message
      BY <1>0, <1>12, Resting DEF Ack
    <2>2. \A m \in Messages : ready'[m] <= ready[m]
      BY <1>0, <1>12 DEF Ack
    <2> QED BY <1>11, <2>1, <2>2
  <1>13. ASSUME Reconnect(w) PROVE Counted'
    BY <1>3, <1>13 DEF Reconnect, IInv, Positions
  <1>14. ASSUME WorkerDies(w) PROVE Counted'
    <2> DEFINE x == [Rest(worker[w]) EXCEPT !.cache = {}]
    <2>1. worker[w].at # "idle" /\ Rest(worker[w]) \in WorkerRow /\ Rest(worker[w]).message = None
      BY <1>0, <1>14, Resting DEF WorkerDies, IInv, Positions
    <2>2. x.message = None
      BY <2>1 DEF WorkerRow
    <2>3. worker' = [worker EXCEPT ![w] = x]
      BY <1>14 DEF WorkerDies
    <2> HIDE DEF x
    <2>4. /\ worker'[w].message = None
          /\ \A v \in Workers : v # w => worker'[v].message = worker[v].message
      BY <1>0, <2>2, <2>3
    <2>5. \A m \in Messages : ready'[m] <= ready[m]
                              \/ (m = worker[w].message /\ ready'[m] <= ready[m] + 1)
      BY <1>0, <1>14 DEF WorkerDies
    <2> QED BY <1>11, <2>1, <2>4, <2>5
  <1>15. ASSUME NEW e \in Events, Forget(w, e) PROVE Counted'
    <2>1. \A v \in Workers : worker'[v].message = worker[v].message
      BY <1>0, <1>15 DEF Forget, WorkerRow
    <2> QED BY <1>0, <1>15, <2>1, GoingCounted DEF Forget
  <1> QED
    BY <1>4, <1>5, <1>6, <1>7, <1>8, <1>9, <1>10, <1>12, <1>13, <1>14, <1>15 DEF WorkerStep

LEMMA PublishCounted ==
  ASSUME Typed, ready' \in [Messages -> Nat], Counted, NEW e \in Events, NEW r \in Published,
         Publish(e, 0, r), UNCHANGED worker
  PROVE  Counted'
  <1> DEFINE m == [event |-> e, requeues |-> 0]
  <1>1. m \in Messages /\ m.event = e
    BY BoundsAssumption DEF Messages
  <1> HIDE DEF m
  <1>2. CASE r \in Arrived
    <2>1. Spare(m) /\ ready' = [ready EXCEPT ![m] = @ + 1]
      BY <1>1, <1>2, RoomForCopies DEF Publish, m
    <2>2. \A n \in Messages : ready'[n] <= ready[n] \/ (Spare(n) /\ ready'[n] <= ready[n] + 1)
      BY <1>1, <2>1 DEF Typed
    <2> QED BY <2>2, CopiesStay
  <1>3. CASE r \notin Arrived
    BY <1>3, GoingCounted DEF Publish
  <1> QED BY <1>2, <1>3

LEMMA CountedStep ==
  ASSUME IInv, IInv', Counted, [Next]_vars
  PROVE  Counted'
  <1>0. Typed /\ ready' \in [Messages -> Nat]
    BY DEF IInv, Typed
  <1>1. ASSUME NEW e \in Events, NEW r \in Published, DirectPublish(e, r) PROVE Counted'
    BY <1>0, <1>1, PublishCounted DEF DirectPublish
  <1>2. ASSUME NEW d \in Dispatchers, NEW r \in Published, DispatchPublish(d, r) PROVE Counted'
    <2>1. PICK e \in dispatch[d].batch : Publish(e, 0, r)
      BY <1>2 DEF DispatchPublish
    <2>2. e \in Events
      BY <1>0 DEF Typed, DispatcherRow
    <2> QED BY <1>0, <1>2, <2>1, <2>2, PublishCounted DEF DispatchPublish
  <1>3. ASSUME UNCHANGED <<ready, worker>> PROVE Counted'
    BY <1>0, <1>3, GoingCounted
  <1>4. ASSUME NEW e \in Events,
               \/ \E direct, due \in BOOLEAN : Enqueue(e, direct, due)
               \/ DirectMark(e) \/ SenderDies(e) \/ BackoffElapses(e) \/ Cancel(e)
        PROVE  Counted'
    BY <1>3, <1>4 DEF Enqueue, DirectMark, SenderDies, BackoffElapses, Cancel, outboxVars
  <1>5. ASSUME NEW d \in Dispatchers, BeginDispatch(d) \/ DispatchMark(d) \/ DispatchFails(d)
        PROVE  Counted'
    BY <1>3, <1>5 DEF BeginDispatch, DispatchMark, DispatchFails
  <1>6. CASE LoseLock \/ UNCHANGED vars
    BY <1>3, <1>6 DEF LoseLock, vars
  <1> QED BY <1>1, <1>2, <1>4, <1>5, <1>6, ConsumerCounted DEF Next, DispatcherStep

-----------------------------------------------------------------------------
(* Type correctness.                                                       *)

\* What the other parts of the invariant say nothing of.
Locked == lock \in Dispatchers \cup {None} /\ cancelled \subseteq Events

LEMMA LockedStep ==
  ASSUME Locked, [Next]_vars
  PROVE  Locked'
  <1> USE DEF Locked, outboxVars
  <1>1. ASSUME NEW e \in Events, Cancel(e) PROVE Locked'
    BY <1>1 DEF Cancel
  <1>2. ASSUME NEW d \in Dispatchers, BeginDispatch(d) \/ DispatchMark(d) \/ DispatchFails(d)
        PROVE  Locked'
    BY <1>2 DEF BeginDispatch, DispatchMark, DispatchFails
  <1>3. CASE LoseLock
    BY <1>3 DEF LoseLock
  <1>4. ASSUME UNCHANGED <<lock, cancelled>> PROVE Locked'
    BY <1>4
  <1>5. ASSUME NEW w \in Workers,
               \/ WorkerStep(w) \/ Reconnect(w) \/ WorkerDies(w)
               \/ \E e \in Events : Forget(w, e)
        PROVE  UNCHANGED <<lock, cancelled>>
    BY <1>5 DEF WorkerStep, Reconnect, WorkerDies, Forget, Take, SkipCancelled, SkipDuplicate,
       Admit, HandlerReturns, HandlerFails, RecordFailure, Quarantine, Requeue, DeadLetter, Ack
  <1>6. ASSUME NEW e \in Events,
               \/ \E direct, due \in BOOLEAN : Enqueue(e, direct, due)
               \/ \E r \in Published : DirectPublish(e, r)
               \/ DirectMark(e) \/ SenderDies(e) \/ BackoffElapses(e)
        PROVE  UNCHANGED <<lock, cancelled>>
    BY <1>6 DEF Enqueue, DirectPublish, DirectMark, SenderDies, BackoffElapses
  <1>7. ASSUME NEW d \in Dispatchers, NEW r \in Published, DispatchPublish(d, r)
        PROVE  UNCHANGED <<lock, cancelled>>
    BY <1>7 DEF DispatchPublish
  <1>8. CASE UNCHANGED vars
    BY <1>8 DEF vars
  <1> QED BY <1>1, <1>2, <1>3, <1>4, <1>5, <1>6, <1>7, <1>8 DEF Next, DispatcherStep

Bounded == IInv /\ Counted /\ Locked

(* Rows, locks, batches, queues and the consumers' hands keep their types, and the *)
(* broker never has more copies of a message than the bound, handed out or ready.  *)
THEOREM TypesHold == Spec => []TypeOK
  <1>1. Init => Bounded
    <2> SUFFICES ASSUME Init PROVE Counted /\ Locked
      BY InitIInv DEF Bounded
    <2>1. \A m \in Messages : ready[m] <= MaxCopies /\ ready[m] \in Nat /\ MaxCopies \in Nat
      BY BoundsAssumption DEF Init
    <2>2. \A m \in Messages : InHands(m) = 0
      <3>1. \A m \in Messages : Holders(m) = {}
        BY NamesAssumption DEF Init, Holders
      <3> QED BY <3>1, FS_EmptySet DEF InHands
    <2> QED BY <2>1, <2>2 DEF Counted, Locked, Init
  <1>2. Bounded /\ [Next]_vars => Bounded'
    BY StepIInv, CountedStep, LockedStep DEF Bounded
  <1>3. Bounded => TypeOK
    <2> SUFFICES ASSUME Bounded PROVE TypeOK
      OBVIOUS
    <2>1. ready \in [Messages -> 0..MaxCopies]
      <3>1. /\ ready \in [Messages -> Nat] /\ MaxCopies \in Nat
            /\ \A m \in Messages : ready[m] + InHands(m) <= MaxCopies /\ InHands(m) \in Nat
        BY BoundsAssumption, HandsCounted DEF Bounded, IInv, Typed, Counted
      <3> QED BY <3>1
    <2> QED BY <2>1 DEF Bounded, IInv, Typed, Locked, TypeOK
  <1> QED BY <1>1, <1>2, <1>3, PTL DEF Spec
=============================================================================
