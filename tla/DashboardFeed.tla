----------------------------- MODULE DashboardFeed -----------------------------
(***************************************************************************)
(* How sentinel mirrors the dashboard's alerts                             *)
(* (internal/dashboard/dashboard.go, README "Dashboard alerts").           *)
(*                                                                         *)
(* The runner lists the dashboard's alerts (backfill), then opens its      *)
(* event stream, which has no replay, and does both again after every      *)
(* disconnection.  Another goroutine lists the alerts every five minutes   *)
(* and resolves the rows that are no longer listed.  People dismiss alerts *)
(* in the dashboard's bell, or resolve them in the app, which then marks   *)
(* them seen in the dashboard in a goroutine of its own.                   *)
(*                                                                         *)
(* A dashboard alert has one row at a time: its external id stands for it. *)
(* Retention deletes rows that nothing has touched for its period (Age is  *)
(* one bit), whatever the dashboard lists.  Left out: bodies and links,    *)
(* and the streaming of events to the app (PersonalHistory).               *)
(***************************************************************************)
EXTENDS Naturals, Sequences, FiniteSets

CONSTANTS
    Ext,          \* dashboard alert ids
    NoAlert,      \* what a runner that handles no alert holds
    MarkSeen,     \* DASHBOARD_MARK_SEEN
    MaxFaults     \* bound: failed requests and statements, disconnections, crashes,
                  \* rows that grow old

ASSUME DashboardFeedAssumption ==
    /\ NoAlert \notin Ext
    /\ MarkSeen \in BOOLEAN
    /\ MaxFaults \in Nat

VARIABLES
    \* The dashboard.
    bell,      \* bell[e]: "none" before it fires, then "unseen" or "seen"
    pinned,    \* alerts pinned in the bell
    wire,      \* alerts sent on the open stream and not yet read
    \* sentinel.
    row,       \* row[e]: status of the row whose external id is e, "none" without
    old,       \* alerts whose row has not been updated for the retention period
    runner,    \* the runner's place in Run, and what its backfill has still to handle
    job,       \* the alert whose row the runner has written, with the created flag
    recon,     \* the reconcile goroutine
    marking,   \* alerts whose MarkSeen goroutine is running
    faults,
    \* Observed, for the properties only.
    pushed     \* pushed[e]: how often e's row was announced as a first sighting

outside == <<bell, pinned>>
table == <<row, old>>
vars == <<outside, wire, table, runner, job, recon, marking, faults, pushed>>

NoJob == [ext |-> NoAlert, made |-> FALSE]

TypeOK ==
    /\ bell \in [Ext -> {"none", "unseen", "seen"}]
    /\ pinned \in SUBSET Ext
    /\ wire \in Seq(Ext)
    /\ row \in [Ext -> {"none", "active", "resolved"}]
    /\ old \in SUBSET Ext
    /\ runner \in [pc : {"start", "backfill", "connect", "stream", "down"}, todo : SUBSET Ext]
    /\ runner.pc # "backfill" => runner.todo = {}
    /\ runner.pc # "stream" => wire = <<>>
    /\ job \in {NoJob} \cup [ext : Ext, made : BOOLEAN]
    /\ recon \in {[pc |-> "idle"]}
                   \cup [pc : {"listed"}, listed : SUBSET Ext]
                   \cup [pc : {"resolve"}, todo : SUBSET Ext]
    /\ marking \in SUBSET Ext
    /\ faults \in Nat
    /\ pushed \in [Ext -> Nat]

Init ==
    /\ bell = [e \in Ext |-> "none"]
    /\ pinned = {}
    /\ wire = <<>>
    /\ row = [e \in Ext |-> "none"]
    /\ old = {}
    /\ runner = [pc |-> "start", todo |-> {}]
    /\ job = NoJob
    /\ recon = [pc |-> "idle"]
    /\ marking = {}
    /\ faults = 0
    /\ pushed = [e \in Ext |-> 0]

Fault == faults < MaxFaults /\ faults' = faults + 1

--------------------------------------------------------------------------------
(* The dashboard.                                                          *)

\* What GET /api/alerts returns: "unseen-or-pinned alerts (its only list)".
Listed == {e \in Ext : bell[e] = "unseen" \/ e \in pinned}

\* An alert fires; the streams that are open get it.
Fire(e) ==
    /\ bell[e] = "none"
    /\ bell' = [bell EXCEPT ![e] = "unseen"]
    /\ wire' = IF runner.pc = "stream" THEN Append(wire, e) ELSE wire
    /\ UNCHANGED <<pinned, table, runner, job, recon, marking, faults, pushed>>

\* Someone dismisses it in the bell.
Dismiss(e) ==
    /\ bell[e] = "unseen"
    /\ bell' = [bell EXCEPT ![e] = "seen"]
    /\ UNCHANGED <<pinned, wire, table, runner, job, recon, marking, faults, pushed>>

Pin(e) ==
    /\ bell[e] # "none"
    /\ pinned' = IF e \in pinned THEN pinned \ {e} ELSE pinned \cup {e}
    /\ UNCHANGED <<bell, wire, table, runner, job, recon, marking, faults, pushed>>

--------------------------------------------------------------------------------
(* The runner: Run, backfill, Stream, handle.                              *)

Enter(pc) == runner' = [pc |-> pc, todo |-> {}]

\* Faulty variant: the refresh makes the row active again.
UpsertReopening(e) == row' = [row EXCEPT ![e] = "active"] /\ old' = old \ {e}

\* UpsertDashboard: a row is inserted active, or an existing one refreshed with
\* its status untouched.  SELECT and write are one step: no other goroutine
\* inserts rows with a dashboard id, and when retention deletes the row between
\* them, handle fails as in HandleFails.
Upsert(e) ==
    /\ row' = [row EXCEPT ![e] = IF @ = "none" THEN "active" ELSE @]
    /\ old' = old \ {e}

\* Faulty variant: an alert still active counts as created.
CreatedByStatus(e) == row[e] # "resolved"

\* No row was there: the alert's first sighting.
Created(e) == row[e] = "none"

\* handle, up to the event.
Handle(e) ==
    /\ job = NoJob
    /\ Upsert(e)
    /\ job' = [ext |-> e, made |-> Created(e)]

Backfill ==
    /\ runner.pc = "start"
    /\ runner' = [pc |-> "backfill", todo |-> Listed]
    /\ UNCHANGED <<outside, wire, table, job, recon, marking, faults, pushed>>

BackfillOne(e) ==
    /\ runner.pc = "backfill"
    /\ e \in runner.todo
    /\ Handle(e)
    /\ runner' = [runner EXCEPT !.todo = @ \ {e}]
    /\ UNCHANGED <<outside, wire, recon, marking, faults, pushed>>

BackfillDone ==
    /\ runner = [pc |-> "backfill", todo |-> {}]
    /\ job = NoJob
    /\ Enter("connect")
    /\ UNCHANGED <<outside, wire, table, job, recon, marking, faults, pushed>>

Open ==
    /\ runner.pc = "connect"
    /\ Enter("stream")
    /\ UNCHANGED <<outside, wire, table, job, recon, marking, faults, pushed>>

OnAlert ==
    /\ runner.pc = "stream"
    /\ wire # <<>>
    /\ Handle(Head(wire))
    /\ wire' = Tail(wire)
    /\ UNCHANGED <<outside, runner, recon, marking, faults, pushed>>

\* handle's OnEvent: only a created alert is a first sighting.
Announce ==
    /\ job # NoJob
    /\ pushed' = IF job.made THEN [pushed EXCEPT ![job.ext] = @ + 1] ELSE pushed
    /\ job' = NoJob
    /\ UNCHANGED <<outside, wire, table, runner, recon, marking, faults>>

\* The back-off is over.
Reconnect ==
    /\ runner.pc = "down"
    /\ job = NoJob
    /\ Enter("start")
    /\ UNCHANGED <<outside, wire, table, job, recon, marking, faults, pushed>>

Run ==
    \/ Backfill \/ BackfillDone \/ Open \/ OnAlert \/ Announce \/ Reconnect
    \/ \E e \in Ext : BackfillOne(e)

\* ListUnseen fails: no backfill this time, the stream is opened all the same.
BackfillFails ==
    /\ Fault
    /\ runner.pc = "start"
    /\ Enter("connect")
    /\ UNCHANGED <<outside, wire, table, job, recon, marking, pushed>>

\* Faulty variant: what the broken stream had sent would still be read.
WireKept == UNCHANGED wire

\* What was sent and not read is gone with the connection.
WireLost == wire' = <<>>

\* The stream cannot be opened, or breaks while an alert is being handled or not.
StreamEnds ==
    /\ Fault
    /\ runner.pc \in {"connect", "stream"}
    /\ Enter("down")
    /\ WireLost
    /\ UNCHANGED <<outside, table, job, recon, marking, pushed>>

\* handle's statement fails: logged, and the alert is not looked at again before
\* the next backfill.  When only the Get after the write failed, the row is there.
HandleFails ==
    /\ Fault
    /\ job = NoJob
    /\ \E e \in Ext :
        /\ \/ /\ runner.pc = "backfill" /\ e \in runner.todo
              /\ runner' = [runner EXCEPT !.todo = @ \ {e}]
              /\ UNCHANGED wire
           \/ /\ runner.pc = "stream" /\ wire # <<>> /\ e = Head(wire)
              /\ wire' = Tail(wire)
              /\ UNCHANGED runner
        /\ Upsert(e) \/ UNCHANGED table
    /\ UNCHANGED <<outside, job, recon, marking, pushed>>

--------------------------------------------------------------------------------
(* The reconcile goroutine.                                                *)

ReconcileList ==
    /\ recon.pc = "idle"
    /\ recon' = [pc |-> "listed", listed |-> Listed]
    /\ UNCHANGED <<outside, wire, table, runner, job, marking, faults, pushed>>

\* ActiveExternalIDs, after the list has come back.
ReconcileActive ==
    /\ recon.pc = "listed"
    /\ recon' = [pc |-> "resolve", todo |-> {e \in Ext : row[e] = "active"} \ recon.listed]
    /\ UNCHANGED <<outside, wire, table, runner, job, marking, faults, pushed>>

\* Store.Resolve on a row that is there.
Resolve(e) ==
    /\ row' = [row EXCEPT ![e] = "resolved"]
    /\ old' = old \ {e}

\* Resolve by id and OnEvent, which pushes nothing for an update of this kind.
ReconcileResolve(e) ==
    /\ recon.pc = "resolve"
    /\ e \in recon.todo
    /\ Resolve(e)
    /\ recon' = [recon EXCEPT !.todo = @ \ {e}]
    /\ UNCHANGED <<outside, wire, runner, job, marking, faults, pushed>>

\* Faulty variant: the loop ends after the first pass.
ReconcileEndsForGood == UNCHANGED recon

\* Back to waiting for the ticker.
ReconcileEnds == recon' = [pc |-> "idle"]

ReconcileDone ==
    /\ recon = [pc |-> "resolve", todo |-> {}]
    /\ ReconcileEnds
    /\ UNCHANGED <<outside, wire, table, runner, job, marking, faults, pushed>>

Reconcile ==
    \/ ReconcileList \/ ReconcileActive \/ ReconcileDone
    \/ \E e \in Ext : ReconcileResolve(e)

\* The list or a statement fails, or the 20 s are over: until the next tick.
ReconcileFails ==
    /\ Fault
    /\ recon.pc # "idle"
    /\ recon' = [pc |-> "idle"]
    /\ UNCHANGED <<outside, wire, table, runner, job, marking, pushed>>

--------------------------------------------------------------------------------
(* Retention.                                                              *)

\* The retention period passes without an update of the row.  No event is that
\* long in the making.
Age(e) ==
    /\ Fault
    /\ row[e] # "none"
    /\ job.ext # e
    /\ old' = old \cup {e}
    /\ UNCHANGED <<outside, wire, row, runner, job, recon, marking, pushed>>

\* The sweeper deletes the old rows, listed in the dashboard or not.  What the
\* reconcile goroutine was to resolve by a deleted row's id it no longer finds.
Prune ==
    /\ old # {}
    /\ row' = [e \in Ext |-> IF e \in old THEN "none" ELSE row[e]]
    /\ old' = {}
    /\ pushed' = [e \in Ext |-> IF e \in old THEN 0 ELSE pushed[e]]
    /\ recon' = IF recon.pc = "resolve" THEN [recon EXCEPT !.todo = @ \ old] ELSE recon
    /\ UNCHANGED <<outside, wire, runner, job, marking, faults>>

--------------------------------------------------------------------------------
(* The app, and crashes.                                                   *)

\* POST /v1/alerts/{id}/resolve; MarkSeen runs after the answer.
ResolveInApp(e) ==
    /\ row[e] # "none"
    /\ Resolve(e)
    /\ marking' = IF MarkSeen THEN marking \cup {e} ELSE marking
    /\ UNCHANGED <<outside, wire, runner, job, recon, faults, pushed>>

Marked(e) ==
    /\ e \in marking
    /\ marking' = marking \ {e}
    /\ bell' = [bell EXCEPT ![e] = "seen"]
    /\ UNCHANGED <<pinned, wire, table, runner, job, recon, faults, pushed>>

\* Logged, never retried.
MarkFails(e) ==
    /\ Fault
    /\ e \in marking
    /\ marking' = marking \ {e}
    /\ UNCHANGED <<outside, wire, table, runner, job, recon, pushed>>

Crash ==
    /\ Fault
    /\ WireLost
    /\ Enter("start")
    /\ job' = NoJob
    /\ recon' = [pc |-> "idle"]
    /\ marking' = {}
    /\ UNCHANGED <<outside, table, pushed>>

--------------------------------------------------------------------------------

Next ==
    \/ \E e \in Ext : Fire(e) \/ Dismiss(e) \/ Pin(e)
    \/ Run \/ BackfillFails \/ StreamEnds \/ HandleFails
    \/ Reconcile \/ ReconcileFails
    \/ \E e \in Ext : Age(e) \/ ResolveInApp(e) \/ Marked(e) \/ MarkFails(e)
    \/ Prune \/ Crash

\* The two goroutines run, their requests are answered or fail, and the ticker
\* ticks.  Nothing obliges anyone to dismiss or resolve.
Fairness == WF_vars(Run) /\ WF_vars(Reconcile) /\ \A e \in Ext : WF_vars(Marked(e))

Spec == Init /\ [][Next]_vars

FairSpec == Spec /\ Fairness

--------------------------------------------------------------------------------
(* Properties.                                                             *)

\* However often an alert is listed and streamed, its row is announced at most
\* once: a second push of the alert takes a row that retention has deleted
\* (internal/dashboard/dashboard.go, handle).
PushedOnce == \A e \in Ext : pushed[e] <= 1

\* The book of alerts, with a dashboard alert's id for its rule.
Book == INSTANCE AlertBook WITH
    Rules <- Ext, Ids <- Ext, NoRule <- NoAlert, status <- row,
    ruleOf <- [e \in Ext |-> IF row[e] = "none" THEN NoAlert ELSE e]

\* Backfills, streams, the reconcile goroutine's late resolves, the app's and
\* retention keep the book's promises: an alert resolved once is not active again
\* while its row is there, though the dashboard may still list it and stream it
\* (internal/store/store.go, UpsertDashboard).
ImplementsBook == Book!Spec

\* README "Lifecycle": dismissed in the dashboard leads to resolved here, even when
\* the backfill brings it in after the dismissal.
DismissedResolves ==
    \A e \in Ext : (row[e] = "active" /\ e \notin Listed) ~> (row[e] # "active" \/ e \in Listed)

\* README "Gaps": every alert the dashboard has fired and nobody has dismissed gets
\* its row in the end.
UnseenArrives == \A e \in Ext : bell[e] = "unseen" ~> (row[e] # "none" \/ bell[e] = "seen")

================================================================================
