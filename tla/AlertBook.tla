------------------------------- MODULE AlertBook -------------------------------
(***************************************************************************)
(* What the sentinel store promises about the alerts it finds again by     *)
(* what they are about, sensor alerts by their rule and dashboard alerts   *)
(* by the dashboard's id (edge/sentinel/internal/store), with every        *)
(* operation one atomic step:                                              *)
(*                                                                         *)
(*   - an alert is opened for a rule only while the rule has no active     *)
(*     alert ("keyed by rule name while active", README.md);               *)
(*   - once closed (resolved or stale) it is never active again: a later   *)
(*     message about a sensor's rule opens another alert, and one about a  *)
(*     dashboard alert refreshes the closed row;                           *)
(*   - closed alerts may be closed again under another status (a human     *)
(*     resolves a stale alert) and rows may be forgotten by retention.     *)
(*                                                                         *)
(* SensorAlerts and DashboardFeed refine this book: there the operations   *)
(* are run by several goroutines, SensorAlerts' in several statements.     *)
(***************************************************************************)

CONSTANTS
    Rules,      \* what an alert is about: Marshal rule names, dashboard alert ids
    Ids,        \* alert ids (a row's primary key)
    NoRule      \* the rule of an id that has no row

VARIABLES
    status,     \* status[i]: the status column of row i, "none" without a row
    ruleOf      \* ruleOf[i]: the rule column of row i

book == <<status, ruleOf>>

Closed == {"resolved", "stale"}
Status == {"none", "active"} \cup Closed

ActiveFor(r) == {i \in Ids : status[i] = "active" /\ ruleOf[i] = r}

Init ==
    /\ status = [i \in Ids |-> "none"]
    /\ ruleOf = [i \in Ids |-> NoRule]

\* A "new", an orphan "repeat" or a dashboard alert without a row: the rule gets
\* its one active alert.
Open(i, r) ==
    /\ status[i] = "none"
    /\ ActiveFor(r) = {}
    /\ status' = [status EXCEPT ![i] = "active"]
    /\ ruleOf' = [ruleOf EXCEPT ![i] = r]

\* Resolved by Marshal, the dashboard or a person, or found stale by the sweeper.
Close(i, s) ==
    /\ status[i] # "none"
    /\ status' = [status EXCEPT ![i] = s]
    /\ UNCHANGED ruleOf

\* Retention removes rows.
Forget(S) ==
    /\ status' = [i \in Ids |-> IF i \in S THEN "none" ELSE status[i]]
    /\ ruleOf' = [i \in Ids |-> IF i \in S THEN NoRule ELSE ruleOf[i]]

Next ==
    \/ \E i \in Ids, r \in Rules : Open(i, r)
    \/ \E i \in Ids, s \in Closed : Close(i, s)
    \/ \E S \in SUBSET Ids : Forget(S)

Spec == Init /\ [][Next]_book

================================================================================
