------------------------------ MODULE AnswerBook ------------------------------
(***************************************************************************)
(* What the analyses of one incident promise, whoever asks for them and    *)
(* however often they are delivered, refreshed or investigated at once: a  *)
(* request draws the next free number, for good, and is answered at most   *)
(* once, under its number and on a snapshot of its own, which is newer     *)
(* than everything observed before.                                        *)
(***************************************************************************)
EXTENDS Naturals, FiniteSets

CONSTANTS Requests, None

VARIABLES
  number,  \* the number a request has drawn; 0 before it has
  answer,  \* its answer, or None
  latest   \* the latest snapshot of what is known of the incident

book == <<number, answer, latest>>

Init ==
  /\ number = [r \in Requests |-> 0]
  /\ answer = [r \in Requests |-> None]
  /\ latest = 1

Drawn == {r \in Requests : number[r] # 0}

Draw(r) ==
  /\ number[r] = 0
  /\ number' = [number EXCEPT ![r] = Cardinality(Drawn) + 1]
  /\ UNCHANGED <<answer, latest>>

Observe ==
  /\ latest' = latest + 1
  /\ UNCHANGED <<number, answer>>

Reply(r) ==
  /\ r \in Drawn /\ answer[r] = None
  /\ answer' = [answer EXCEPT ![r] = [version |-> number[r], snapshot |-> latest + 1]]
  /\ latest' = latest + 1
  /\ UNCHANGED number

Next == Observe \/ \E r \in Requests : Draw(r) \/ Reply(r)

Spec == Init /\ [][Next]_book
===============================================================================
