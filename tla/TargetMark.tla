------------------------------ MODULE TargetMark ------------------------------
(***************************************************************************)
(* What selecting a character promises, with no tree, walk or memory in    *)
(* sight.  The game does what it likes with the slots of its controllers   *)
(* and shows a request ever more evidence.  A request marks at most one    *)
(* controller, in one step and on evidence: that it is a controller, and   *)
(* that some character carries the id and stands on a map.  It answers     *)
(* success only while the mark is there; and an answer that something was  *)
(* missing or unknown means that it marked nothing.                        *)
(***************************************************************************)
CONSTANTS
  Requests, Controllers, Ids, NoId,
  Denials    \* answers that say something was missing or unknown

VARIABLES
  slot,      \* [Controllers -> the id selected there]
  target,    \* the id each request asks for, NoId without a request
  evidence,  \* what the game has shown each request
  marked,    \* controllers each request has written to
  answer,    \* what the driver answers, "PENDING" before it does
  report     \* what the user of the client is told

vars == <<slot, target, evidence, marked, answer, report>>

Init ==
  /\ target = [r \in Requests |-> NoId]
  /\ marked = [r \in Requests |-> {}]
  /\ answer = [r \in Requests |-> "PENDING"]
  /\ report = [r \in Requests |-> "none"]

OthersKeepEvidence(r) == \A q \in Requests \ {r} : evidence'[q] = evidence[q]

\* The game changes; evidence is never taken back.
Drift ==
  /\ \A r \in Requests :
       \A kind \in DOMAIN evidence[r] : evidence[r][kind] \subseteq evidence'[r][kind]
  /\ UNCHANGED <<target, marked, answer, report>>

\* The client refuses what it need not ask the driver.
Refuse(r) ==
  /\ target[r] = NoId
  /\ report' = [report EXCEPT ![r] = "error"]
  /\ UNCHANGED <<slot, target, evidence, marked, answer>>

Ask(r, i) ==
  /\ target[r] = NoId
  /\ target' = [target EXCEPT ![r] = i]
  /\ report' = [report EXCEPT ![r] = "none"]
  /\ OthersKeepEvidence(r)
  /\ UNCHANGED <<slot, marked, answer>>

Mark(r, c) ==
  /\ target[r] # NoId /\ answer[r] = "PENDING" /\ marked[r] = {}
  /\ c \in evidence[r].controllers
  /\ evidence[r].named \cap evidence[r].near # {}
  /\ slot' = [slot EXCEPT ![c] = target[r]]
  /\ marked' = [marked EXCEPT ![r] = {c}]
  /\ UNCHANGED <<target, evidence, answer, report>>

Answer(r) ==
  /\ target[r] # NoId /\ answer[r] = "PENDING"
  /\ \A q \in Requests \ {r} : answer'[q] = answer[q]
  /\ answer'[r] = "SUCCESS" => \E c \in marked[r] : slot[c] = target[r]
  /\ answer'[r] \in Denials => marked[r] = {}
  /\ UNCHANGED <<slot, target, evidence, marked, report>>

Tell(r) ==
  /\ answer[r] # "PENDING"
  /\ report' = [report EXCEPT ![r] = IF answer[r] = "SUCCESS" THEN "selected" ELSE "error"]
  /\ target' = [target EXCEPT ![r] = NoId]
  /\ marked' = [marked EXCEPT ![r] = {}]
  /\ answer' = [answer EXCEPT ![r] = "PENDING"]
  /\ OthersKeepEvidence(r)
  /\ UNCHANGED slot

Next ==
  \/ Drift
  \/ \E r \in Requests :
       \/ Refuse(r) \/ Answer(r) \/ Tell(r)
       \/ \E i \in Ids : Ask(r, i)
       \/ \E c \in Controllers : Mark(r, c)

Spec == Init /\ [][Next]_vars
=============================================================================
