------------------------------- MODULE ReviewBook -------------------------------
(***************************************************************************)
(* What the sentinel store promises about camera alerts (Store.UpsertReview *)
(* and Resolve, edge/sentinel/README.md "What it ingests"), with every     *)
(* operation one atomic step: a review has one alert; later messages only  *)
(* add to its clips; once ended it is never active again.                  *)
(***************************************************************************)

CONSTANTS
    Reviews,    \* Frigate review ids
    Clips       \* ids of the detections Frigate has clips of

VARIABLES
    status,     \* status[r]: the status of r's alert, "none" without a row
    clips       \* clips[r]: its event_ids

book == <<status, clips>>

Put(f, r, v) == [f EXCEPT ![r] = v]

Init ==
    /\ status = [r \in Reviews |-> "none"]
    /\ clips = [r \in Reviews |-> {}]

\* The first message that says the review is an alert.
Open(r, D, s) ==
    /\ status[r] = "none"
    /\ status' = Put(status, r, s)
    /\ clips' = Put(clips, r, D)

\* A later message: it adds clips, and may end the alert.
Merge(r, D, s) ==
    /\ status[r] # "none"
    /\ s \in {status[r], "ended"}
    /\ status' = Put(status, r, s)
    /\ clips' = Put(clips, r, clips[r] \cup D)

\* Retention removes rows.
Forget(S) ==
    /\ status' = [r \in Reviews |-> IF r \in S THEN "none" ELSE status[r]]
    /\ clips' = [r \in Reviews |-> IF r \in S THEN {} ELSE clips[r]]

Next ==
    \/ \E r \in Reviews, D \in SUBSET Clips, s \in {"active", "ended"} :
        Open(r, D, s) \/ Merge(r, D, s)
    \/ \E S \in SUBSET Reviews : Forget(S)

Spec == Init /\ [][Next]_book

================================================================================
