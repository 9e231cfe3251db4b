----------------------------- MODULE CameraReviews -----------------------------
(***************************************************************************)
(* The life of a camera alert in sentinel: Frigate's review messages       *)
(* (internal/ingest/frigate.go), the rows Store.UpsertReview makes of      *)
(* them, the app's resolve and retention.                                  *)
(*                                                                         *)
(* Frigate publishes a review when it begins, whenever it grows (another   *)
(* detection, a promotion from detection to alert) and when it ends; each  *)
(* message carries the whole review.  They are handled in any order and    *)
(* perhaps twice.  As in SensorAlerts, a statement is a step and an        *)
(* operation several.                                                      *)
(*                                                                         *)
(* The inbox is folded into the broker's queue: a message waiting in it    *)
(* may be handled next, or be lost (inbox full, crash).  Age is one bit: a *)
(* row not updated for the retention period is old.  Objects, zones and    *)
(* texts follow the clips; the notifier is PersonalHistory's subject.      *)
(***************************************************************************)
EXTENDS Naturals

CONSTANTS
    Reviews,    \* Frigate review ids
    Clips,      \* ids of the detections Frigate has clips of
    MaxEvents   \* bound: messages published and faults, all together

ASSUME CameraReviewsAssumption == MaxEvents \in Nat

VARIABLES
    review,     \* review[r]: the review as Frigate has it
    queue,      \* messages not yet handled
    sent,       \* how many messages Frigate has published
    status,     \* alerts.status of the row of review r, "none" without
    clips,      \* alerts.event_ids
    ending,     \* ending[r]: alerts.end_ts is known (not 0)
    dated,      \* dated[r]: alerts.resolved_at is not NULL
    old,        \* reviews whose row has not been updated for the retention period
    disp,       \* the dispatcher goroutine
    faults,
    announced   \* announced[r]: first-sighting notifications sent for r's row

world == <<review, queue, sent>>
tables == <<status, clips, ending, dated, old>>
vars == <<world, tables, disp, faults, announced>>

Review ==
    [state : {"none", "open", "over"}, severity : {"detection", "alert"}, clips : SUBSET Clips]

Message ==
    [review : Reviews, severity : {"detection", "alert"}, clips : SUBSET Clips, over : BOOLEAN]

Exists(r) == status[r] # "none"

DispIdle == [pc |-> "idle"]

DispBusy ==
    [pc : {"select", "insert"}, msg : Message] \cup
    [pc : {"update"}, msg : Message, have : SUBSET Clips] \cup
    [pc : {"read"}, review : Reviews, made : BOOLEAN] \cup
    [pc : {"notify"}, review : Reviews, made : BOOLEAN, snap : {"active", "ended"}]

TypeOK ==
    /\ review \in [Reviews -> Review]
    /\ queue \in SUBSET Message
    /\ sent \in Nat
    /\ status \in [Reviews -> {"none", "active", "ended"}]
    /\ clips \in [Reviews -> SUBSET Clips]
    /\ ending \in [Reviews -> BOOLEAN]
    /\ dated \in [Reviews -> BOOLEAN]
    /\ old \in SUBSET Reviews
    /\ disp \in {DispIdle} \cup DispBusy
    /\ faults \in Nat
    /\ announced \in [Reviews -> Nat]

Init ==
    /\ review = [r \in Reviews |-> [state |-> "none", severity |-> "detection", clips |-> {}]]
    /\ queue = {}
    /\ sent = 0
    /\ status = [r \in Reviews |-> "none"]
    /\ clips = [r \in Reviews |-> {}]
    /\ ending = [r \in Reviews |-> FALSE]
    /\ dated = [r \in Reviews |-> FALSE]
    /\ old = {}
    /\ disp = DispIdle
    /\ faults = 0
    /\ announced = [r \in Reviews |-> 0]

Fault == sent + faults < MaxEvents /\ faults' = faults + 1

--------------------------------------------------------------------------------
(* Frigate and the broker.                                                 *)

\* review r becomes v, and Frigate publishes it.
Publish(r, v) ==
    /\ sent + faults < MaxEvents
    /\ sent' = sent + 1
    /\ review' = [review EXCEPT ![r] = v]
    /\ queue' = queue \cup {[review |-> r, severity |-> v.severity, clips |-> v.clips,
                             over |-> v.state = "over"]}
    /\ UNCHANGED <<tables, disp, faults, announced>>

Begin(r, v) ==
    /\ review[r].state = "none"
    /\ v.state = "open"
    /\ Publish(r, v)

\* Another detection, or the promotion to an alert.
Grow(r, v) ==
    /\ review[r].state = "open"
    /\ v.state = "open"
    /\ v # review[r]
    /\ review[r].clips \subseteq v.clips
    /\ review[r].severity = "alert" => v.severity = "alert"
    /\ Publish(r, v)

Finish(r) ==
    /\ review[r].state = "open"
    /\ Publish(r, [review[r] EXCEPT !.state = "over"])

\* The inbox is full, or the process dies with the message in it.
Lose(m) ==
    /\ Fault
    /\ m \in queue
    /\ queue' = queue \ {m}
    /\ UNCHANGED <<review, sent, tables, disp, announced>>

--------------------------------------------------------------------------------
(* The dispatcher: handleReview, UpsertReview, emit.                       *)

others == <<world, faults>>

\* Handled, and handled again when the ack was lost with the connection.
Take(m) ==
    /\ disp = DispIdle
    /\ m \in queue
    /\ \/ queue' = queue \ {m} /\ UNCHANGED faults
       \/ Fault /\ UNCHANGED queue
    /\ disp' = [pc |-> "select", msg |-> m]
    /\ UNCHANGED <<review, sent, tables, announced>>

\* SELECT id, event_ids, objects WHERE review_id = ?
Select ==
    /\ disp.pc = "select"
    /\ LET m == disp.msg
       IN  disp' = IF Exists(m.review)
                   THEN [pc |-> "update", msg |-> m, have |-> clips[m.review]]
                   ELSE IF m.severity = "alert" THEN [pc |-> "insert", msg |-> m]
                   ELSE DispIdle
    /\ UNCHANGED <<others, tables, announced>>

\* The row is written; Get comes next.
Written(r, made) == disp' = [pc |-> "read", review |-> r, made |-> made]

\* An INSERT for a review without a row; review_id is unique, and only this
\* goroutine inserts reviews.
Insert ==
    /\ disp.pc = "insert"
    /\ LET m == disp.msg
           r == m.review
       IN  /\ status' = [status EXCEPT ![r] = IF m.over THEN "ended" ELSE "active"]
           /\ clips' = [clips EXCEPT ![r] = m.clips]
           /\ ending' = [ending EXCEPT ![r] = m.over]
           /\ dated' = [dated EXCEPT ![r] = m.over]
           /\ old' = old \ {r}
           /\ announced' = [announced EXCEPT ![r] = 0]
           /\ Written(r, TRUE)
    /\ UNCHANGED others

\* status = CASE WHEN status = 'ended' THEN status ELSE ? END
StatusAfter(r, over) == IF status[r] = "ended" \/ over THEN "ended" ELSE "active"

\* Faulty variant: without the COALESCE.
DatedOverwritten(r, over) == over

\* resolved_at = COALESCE(resolved_at, ?)
DatedAfter(r, over) == dated[r] \/ over

\* Faulty variant: the message's clips replace the row's.
ClipsReplaced(D) == D

\* union(have, m.EventIDs)
ClipsAfter(D) == disp.have \cup D

\* The UPDATE by id: the clips merged with those SELECT had read, and the end time
\* of this very message.  A row pruned meanwhile is not updated.
Update ==
    /\ disp.pc = "update"
    /\ LET m == disp.msg
           r == m.review
       IN  /\ IF Exists(r)
              THEN /\ status' = [status EXCEPT ![r] = StatusAfter(r, m.over)]
                   /\ clips' = [clips EXCEPT ![r] = ClipsAfter(m.clips)]
                   /\ ending' = [ending EXCEPT ![r] = m.over]
                   /\ dated' = [dated EXCEPT ![r] = DatedAfter(r, m.over)]
                   /\ old' = old \ {r}
              ELSE UNCHANGED tables
           /\ Written(r, FALSE)
    /\ UNCHANGED <<others, announced>>

\* Faulty variant: Get's ErrNotFound is ignored.
ReadUnchecked ==
    /\ disp.pc = "read"
    /\ disp' = [pc |-> "notify", review |-> disp.review, made |-> disp.made,
                snap |-> status[disp.review]]
    /\ UNCHANGED <<others, tables, announced>>

\* Get: the copy of the row the event will carry, or ErrNotFound.
Read ==
    /\ disp.pc = "read"
    /\ disp' = IF Exists(disp.review)
               THEN [pc |-> "notify", review |-> disp.review, made |-> disp.made,
                     snap |-> status[disp.review]]
               ELSE DispIdle
    /\ UNCHANGED <<others, tables, announced>>

\* Faulty variant: a message about an active alert is a first sighting.
FirstSightingByStatus == disp.snap = "active"

FirstSighting == disp.made

\* Hub.OnEvent.
Notify ==
    /\ disp.pc = "notify"
    /\ announced' = IF FirstSighting THEN [announced EXCEPT ![disp.review] = @ + 1] ELSE announced
    /\ disp' = DispIdle
    /\ UNCHANGED <<others, tables>>

\* A statement fails or the 15 s are over: the message is not handled further.
DispatcherFails ==
    /\ Fault
    /\ disp.pc \in {"select", "insert", "update", "read"}
    /\ disp' = DispIdle
    /\ UNCHANGED <<world, tables, announced>>

--------------------------------------------------------------------------------
(* The app, retention, crashes.                                            *)

\* POST /v1/alerts/{id}/resolve ends a camera alert; its Get is part of the step.
Resolve(r) ==
    /\ Exists(r)
    /\ status' = [status EXCEPT ![r] = "ended"]
    /\ dated' = [dated EXCEPT ![r] = TRUE]
    /\ old' = old \ {r}
    /\ UNCHANGED <<world, clips, ending, disp, faults, announced>>

\* The retention period passes without an update of the row.
Age(r) ==
    /\ Exists(r)
    /\ r \notin old
    /\ old' = old \cup {r}
    /\ UNCHANGED <<world, status, clips, ending, dated, disp, faults, announced>>

\* Faulty variant: alerts still active are kept.
PrunedIfEnded == {r \in old : status[r] = "ended"}

\* DELETE FROM alerts WHERE updated_at < ?, whatever the status.
Pruned == old

Prune ==
    /\ Pruned # {}
    /\ LET Cleared(f, v) == [r \in Reviews |-> IF r \in Pruned THEN v ELSE f[r]]
       IN  /\ status' = Cleared(status, "none")
           /\ clips' = Cleared(clips, {})
           /\ ending' = Cleared(ending, FALSE)
           /\ dated' = Cleared(dated, FALSE)
           /\ announced' = Cleared(announced, 0)
    /\ old' = old \ Pruned
    /\ UNCHANGED <<world, disp, faults>>

\* The process dies and starts again on the same database file.
Crash ==
    /\ Fault
    /\ disp' = DispIdle
    /\ UNCHANGED <<world, tables, announced>>

--------------------------------------------------------------------------------

Next ==
    \/ \E r \in Reviews :
        Finish(r) \/ Resolve(r) \/ Age(r) \/ \E v \in Review : Begin(r, v) \/ Grow(r, v)
    \/ \E m \in queue : Lose(m) \/ Take(m)
    \/ Select \/ Insert \/ Update \/ Read \/ Notify \/ DispatcherFails
    \/ Prune \/ Crash

\* Time passes and the sweeper prunes.
Fairness == (\A r \in Reviews : WF_vars(Age(r))) /\ WF_vars(Prune)

Spec == Init /\ [][Next]_vars

FairSpec == Spec /\ Fairness

--------------------------------------------------------------------------------
(* Properties.                                                             *)

\* status and resolved_at agree, although the app's resolve and Frigate's end write
\* them in either order and a late update may follow both.
EndedIsDated == \A r \in Reviews : dated[r] <=> status[r] = "ended"

\* One alert is announced as a first sighting at most once, through redelivery,
\* promotion and crashes.
AnnouncedOnce == \A r \in Reviews : announced[r] <= 1

\* The statements, in any order, look like the atomic book: clips are only added, an
\* ended alert is never active again.
Book == INSTANCE ReviewBook WITH
    Reviews <- Reviews, Clips <- Clips, status <- status, clips <- clips
ImplementsBook == Book!Spec

\* A camera alert whose end was lost is never stale (only rules have a repeat window):
\* it is active until retention deletes it, and retention does.
EveryReviewCloses == \A r \in Reviews : status[r] = "active" ~> status[r] # "active"

================================================================================
