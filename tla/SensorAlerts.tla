------------------------------ MODULE SensorAlerts ------------------------------
(***************************************************************************)
(* The life of a sensor alert in sentinel: Marshal's messages through the  *)
(* broker and the inbox to the dispatcher (internal/ingest/mqtt.go), the   *)
(* rows they become (internal/store/store.go), the app's resolve           *)
(* (internal/api/server.go) and the hourly sweep (main.go).                *)
(*                                                                         *)
(* The store has one SQLite connection, so a single statement is atomic,   *)
(* but an operation made of several statements is not: the dispatcher, the *)
(* API handlers and the sweeper are goroutines whose statements            *)
(* interleave.  Every statement is therefore an action of its own, with    *)
(* what the operation carries from one statement to the next kept in the   *)
(* goroutine's state (disp, req, sweep).                                   *)
(*                                                                         *)
(* What is abstracted: message text, severity, device and repeat_count;    *)
(* what the notifier does with an event and with the hidden_alerts table   *)
(* (the subject of PersonalHistory); every time is a tick of one clock.    *)
(***************************************************************************)
EXTENDS Naturals, Sequences, FiniteSets

CONSTANTS
    Rules,        \* Marshal rule names
    Ids,          \* alert ids; uuid.NewString() never repeats one in use
    Requests,     \* concurrent POST /v1/alerts/{id}/resolve handlers
    NoRule,       \* the rule of an id that has no row
    NoId,         \* what an idle handler holds
    StaleAfter,   \* max(2 * repeat window, minStaleAfter), in ticks
    Retention,    \* cfg.Retention, in ticks
    InboxSize,    \* capacity of the inbox channel
    MaxTime,      \* bound: the clock stops here
    MaxEvents     \* bound: messages published, crashes, failed statements and
                  \* lost acks, all together

ASSUME ConstantsAssumption ==
    /\ NoRule \notin Rules
    /\ NoId \notin Ids
    /\ StaleAfter \in Nat
    /\ Retention \in Nat
    /\ InboxSize \in Nat
    /\ MaxTime \in Nat
    /\ MaxEvents \in Nat

VARIABLES
    \* The world outside sentinel.
    now,        \* the clock
    firing,     \* rules Marshal currently holds as firing
    queue,      \* messages the broker holds for sentinel's persistent session
    sent,       \* how many messages Marshal has published
    \* The tables.
    status,     \* alerts.status, "none" where there is no row
    ruleOf,     \* alerts.rule
    updated,    \* alerts.updated_at
    \* The process.
    inbox,      \* Engine.inbox
    disp,       \* the dispatcher goroutine
    req,        \* req[q]: the id the resolve handler q has closed, not yet told
    sweep,      \* the sweeper goroutine
    faults,     \* faults so far
    \* What was observed from outside, for the properties only.
    announced,  \* announced[i]: first-sighting notifications sent for row i
    told        \* ids whose closed status has been broadcast

world == <<now, firing, queue, sent>>
tables == <<status, ruleOf, updated>>
observed == <<announced, told>>
vars == <<world, tables, inbox, disp, req, sweep, faults, observed>>

Closed == {"resolved", "stale"}
Status == {"none", "active"} \cup Closed

Message == [type : {"new", "repeat", "resolved"}, rule : Rules, at : Nat]

Exists(i) == status[i] # "none"
Active(r) == {i \in Ids : status[i] = "active" /\ ruleOf[i] = r}

--------------------------------------------------------------------------------
(* The goroutines' local state.                                            *)

DispIdle == [pc |-> "idle"]

DispBusy ==
    [pc : {"select", "insert"}, msg : Message] \cup
    [pc : {"update", "close"}, msg : Message, id : Ids] \cup
    [pc : {"read"}, id : Ids,
     made : BOOLEAN] \cup             \* created, as UpsertSensor reports it
    [pc : {"notify", "broadcast"}, id : Ids, made : BOOLEAN,
     snap : Status \ {"none"}]        \* the status in the event's copy of the alert

SweepIdle == [pc |-> "idle"]

SweepBusy ==
    [pc : {"close", "tell"},  \* inside MarkStale, or broadcasting what it closed
     at : Nat,              \* the ticker's time: every cutoff is from it
     rules : SUBSET Rules,  \* rules of ActiveSensorRules not yet visited
     ids : SUBSET Ids,      \* rows MarkStale selected and has yet to close
     closed : SUBSET Ids]   \* rows MarkStale closed and main has yet to broadcast

TypeOK ==
    /\ now \in Nat
    /\ firing \in SUBSET Rules
    /\ queue \in SUBSET Message
    /\ sent \in Nat
    /\ status \in [Ids -> Status]
    /\ ruleOf \in [Ids -> Rules \cup {NoRule}]
    /\ updated \in [Ids -> Nat]
    /\ inbox \in Seq(Message)
    /\ disp \in {DispIdle} \cup DispBusy
    /\ req \in [Requests -> Ids \cup {NoId}]
    /\ sweep \in {SweepIdle} \cup SweepBusy
    /\ faults \in Nat
    /\ announced \in [Ids -> Nat]
    /\ told \in SUBSET Ids

Init ==
    /\ now = 0
    /\ firing = {}
    /\ queue = {}
    /\ sent = 0
    /\ status = [i \in Ids |-> "none"]
    /\ ruleOf = [i \in Ids |-> NoRule]
    /\ updated = [i \in Ids |-> 0]
    /\ inbox = <<>>
    /\ disp = DispIdle
    /\ req = [q \in Requests |-> NoId]
    /\ sweep = SweepIdle
    /\ faults = 0
    /\ announced = [i \in Ids |-> 0]
    /\ told = {}

--------------------------------------------------------------------------------
(* Outside: the clock, Marshal, the broker.                                *)

\* Something goes wrong, within the bound.
Fault == sent + faults < MaxEvents /\ faults' = faults + 1

Tick ==
    /\ now < MaxTime
    /\ now' = now + 1
    /\ UNCHANGED <<firing, queue, sent, tables, inbox, disp, req, sweep, faults, observed>>

\* Marshal publishes while a stale window is still to come before MaxTime, so
\* that the bound on the clock never keeps an alert from going stale.  A tick
\* is coarse enough that it holds two equal messages about a rule never at once.
Publish(t, r) ==
    /\ sent + faults < MaxEvents
    /\ now + StaleAfter < MaxTime
    /\ sent' = sent + 1
    /\ LET m == [type |-> t, rule |-> r, at |-> now]
       IN  m \notin queue /\ queue' = queue \cup {m}
    /\ UNCHANGED <<now, tables, inbox, disp, req, sweep, faults, observed>>

MarshalFires(r) ==
    /\ r \notin firing
    /\ firing' = firing \cup {r}
    /\ Publish("new", r)

MarshalRepeats(r) ==
    /\ r \in firing
    /\ UNCHANGED firing
    /\ Publish("repeat", r)

MarshalClears(r) ==
    /\ r \in firing
    /\ firing' = firing \ {r}
    /\ Publish("resolved", r)

\* Marshal keeps its alert state in memory: after a restart the rule is no
\* longer firing and no "resolved" is ever sent for it.
MarshalForgets(r) ==
    /\ r \in firing
    /\ firing' = firing \ {r}
    /\ UNCHANGED <<now, queue, sent, tables, inbox, disp, req, sweep, faults, observed>>

\* paho runs onMessage in a goroutine per message (SetOrderMatters(false)), so
\* any queued message may come next.  The ack follows the enqueue; when it is
\* lost with the connection the broker delivers the message again (QoS 1).
Deliver(m) ==
    /\ m \in queue
    /\ inbox' = IF Len(inbox) < InboxSize THEN Append(inbox, m) ELSE inbox
    /\ \/ queue' = queue \ {m} /\ UNCHANGED faults
       \/ Fault /\ UNCHANGED queue
    /\ UNCHANGED <<now, firing, sent, tables, disp, req, sweep, observed>>

--------------------------------------------------------------------------------
(* Statements of the store used by more than one goroutine.                *)

\* UPDATE alerts SET status, updated_at, resolved_at WHERE id = ?: there is no
\* condition on the status the row has by then; without a row it changes none.
SetStatus(i, s, at) ==
    /\ status' = IF Exists(i) THEN [status EXCEPT ![i] = s] ELSE status
    /\ updated' = IF Exists(i) THEN [updated EXCEPT ![i] = at] ELSE updated
    /\ UNCHANGED ruleOf

\* updated_at < at - d
OlderThan(i, at, d) == updated[i] + d < at

\* Hub.Broadcast of an event that carries status s for alert i.
Tell(i, s) == told' = IF s \in Closed /\ Exists(i) THEN told \cup {i} ELSE told

--------------------------------------------------------------------------------
(* The dispatcher: Engine.dispatch, handleSensor and the store operations  *)
(* it calls, one statement a step.                                         *)

others == <<world, inbox, req, sweep, faults>>

Take ==
    /\ disp = DispIdle
    /\ inbox # <<>>
    /\ disp' = [pc |-> "select", msg |-> Head(inbox)]
    /\ inbox' = Tail(inbox)
    /\ UNCHANGED <<world, tables, req, sweep, faults, observed>>

\* Faulty variant: the lookup also asks for a recent updated_at.
FoundRecent(r) == {i \in Active(r) : ~OlderThan(i, now, 0)}

\* The SELECT, by rule and status, that UpsertSensor and ResolveByRule open with.
Found(r) == Active(r)

Select ==
    /\ disp.pc = "select"
    /\ LET found == Found(disp.msg.rule)
           closing == disp.msg.type = "resolved"
       IN  \/ found = {} /\ closing /\ disp' = DispIdle
           \/ found = {} /\ ~closing /\ disp' = [disp EXCEPT !.pc = "insert"]
           \/ \E i \in found :
                disp' = [pc |-> IF closing THEN "close" ELSE "update",
                         msg |-> disp.msg, id |-> i]
    /\ UNCHANGED <<others, tables, observed>>

\* An id that no row has and no goroutine holds.
Fresh(i) ==
    /\ ~Exists(i)
    /\ \A q \in Requests : req[q] # i
    /\ sweep # SweepIdle => i \notin sweep.ids \cup sweep.closed

\* The row is written; Get comes next.
Written(i, made) == [pc |-> "read", id |-> i, made |-> made]

\* The alert's copy with status s, as the event carries it.
Event(s) == [pc |-> "notify", id |-> disp.id, made |-> disp.made, snap |-> s]

Insert ==
    /\ disp.pc = "insert"
    /\ \E i \in Ids :
        /\ Fresh(i)
        /\ status' = [status EXCEPT ![i] = "active"]
        /\ ruleOf' = [ruleOf EXCEPT ![i] = disp.msg.rule]
        /\ updated' = [updated EXCEPT ![i] = disp.msg.at]
        /\ disp' = Written(i, TRUE)
        /\ announced' = [announced EXCEPT ![i] = 0]
        /\ told' = told \ {i}
    /\ UNCHANGED others

\* Faulty variant: a message about an alert makes it active again.
UpdateReopens ==
    /\ disp.pc = "update"
    /\ SetStatus(disp.id, "active", disp.msg.at)
    /\ disp' = Written(disp.id, FALSE)
    /\ UNCHANGED <<others, observed>>

\* The body and the time change; status is not touched, whatever it is by now.
Update ==
    /\ disp.pc = "update"
    /\ updated' = IF Exists(disp.id) THEN [updated EXCEPT ![disp.id] = disp.msg.at] ELSE updated
    /\ disp' = Written(disp.id, FALSE)
    /\ UNCHANGED <<others, status, ruleOf, observed>>

CloseByRule ==
    /\ disp.pc = "close"
    /\ SetStatus(disp.id, "resolved", disp.msg.at)
    /\ disp' = Written(disp.id, FALSE)
    /\ UNCHANGED <<others, observed>>

\* Faulty variant: Get's ErrNotFound is ignored.
ReadUnchecked ==
    /\ disp.pc = "read"
    /\ disp' = Event(status[disp.id])
    /\ UNCHANGED <<others, tables, observed>>

\* Get: the copy of the row the event will carry, or ErrNotFound.
Read ==
    /\ disp.pc = "read"
    /\ disp' = IF Exists(disp.id) THEN Event(status[disp.id]) ELSE DispIdle
    /\ UNCHANGED <<others, tables, observed>>

\* Faulty variants: the event's Created is set for any alert still active, and
\* for a created one only while it is.
FirstSightingByStatus == disp.snap = "active"
FirstSightingIfActive == disp.made /\ disp.snap = "active"

FirstSighting == disp.made

\* Hub.OnEvent, first half: the notifier is handed the event.
Notify ==
    /\ disp.pc = "notify"
    /\ announced' = IF FirstSighting THEN [announced EXCEPT ![disp.id] = @ + 1] ELSE announced
    /\ disp' = [disp EXCEPT !.pc = "broadcast"]
    /\ UNCHANGED <<others, tables, told>>

Broadcast ==
    /\ disp.pc = "broadcast"
    /\ Tell(disp.id, disp.snap)
    /\ disp' = DispIdle
    /\ UNCHANGED <<others, tables, announced>>

DispatcherStep ==
    Take \/ Select \/ Insert \/ Update \/ CloseByRule \/ Read \/ Notify \/ Broadcast

--------------------------------------------------------------------------------
(* POST /v1/alerts/{id}/resolve: Store.Resolve, then Broadcast.            *)

\* Resolve's Get and its UPDATE are one step: a row pruned between them makes
\* the UPDATE change nothing and the last Get fail, as if it had not been found.
ResolveWrite(q, i) ==
    /\ req[q] = NoId
    /\ Exists(i)
    /\ SetStatus(i, "resolved", now)
    /\ req' = [req EXCEPT ![q] = i]
    /\ UNCHANGED <<world, inbox, disp, sweep, faults, observed>>

\* Get, then Broadcast.  One step for the same reason: no statement makes a row
\* active again, so the copy is closed whenever it is read.
ResolveTell(q) ==
    /\ req[q] # NoId
    /\ Tell(req[q], status[req[q]])
    /\ req' = [req EXCEPT ![q] = NoId]
    /\ UNCHANGED <<world, tables, inbox, disp, sweep, faults, announced>>

--------------------------------------------------------------------------------
(* The sweeper: staleness, rule by rule, then retention.                   *)

SweepStart ==
    /\ sweep = SweepIdle
    /\ sweep' = [pc |-> "close", at |-> now, rules |-> {r \in Rules : Active(r) # {}},
                 ids |-> {}, closed |-> {}]
    /\ UNCHANGED <<world, tables, inbox, disp, req, faults, observed>>

\* The rows MarkStale's SELECT returns.
Quiet(r) == {i \in Active(r) : OlderThan(i, sweep.at, StaleAfter)}

\* On to the next rule (or the prune) once every closed row has been broadcast.
RuleDone == sweep # SweepIdle /\ sweep.ids \cup sweep.closed = {}

SweepRule(r) ==
    /\ RuleDone
    /\ r \in sweep.rules
    /\ sweep' = [sweep EXCEPT !.pc = "close", !.rules = @ \ {r}, !.ids = Quiet(r)]
    /\ UNCHANGED <<world, tables, inbox, disp, req, faults, observed>>

\* setStatus by id.  Its Get is part of the step: only the sweeper removes rows
\* and no statement makes a row active again, so what it returns is closed.
SweepClose(i) ==
    /\ sweep.pc = "close"
    /\ i \in sweep.ids
    /\ SetStatus(i, "stale", sweep.at)
    /\ sweep' = [sweep EXCEPT !.ids = @ \ {i}, !.closed = @ \cup {i}]
    /\ UNCHANGED <<world, inbox, disp, req, faults, observed>>

\* The next closed row leaves the list to be broadcast.
NextClosed(i) ==
    /\ sweep # SweepIdle
    /\ sweep.ids = {}
    /\ i \in sweep.closed
    /\ sweep' = [sweep EXCEPT !.pc = "tell", !.closed = @ \ {i}]
    /\ UNCHANGED <<world, tables, inbox, disp, req, faults, announced>>

\* Faulty variant: the closed rows are not broadcast.
SweepTellNobody(i) == NextClosed(i) /\ UNCHANGED told

SweepTell(i) == NextClosed(i) /\ Tell(i, status[i])

\* Faulty variant: the sweeper's loop ends with its first sweep.
SweepOnce == UNCHANGED sweep

\* Back to waiting for the ticker.
SweepEnds == sweep' = SweepIdle

SweepPrune ==
    /\ RuleDone
    /\ sweep.rules = {}
    /\ LET old == {i \in Ids : Exists(i) /\ OlderThan(i, sweep.at, Retention)}
           Cleared(f, v) == [i \in Ids |-> IF i \in old THEN v ELSE f[i]]
       IN  /\ status' = Cleared(status, "none")
           /\ ruleOf' = Cleared(ruleOf, NoRule)
           /\ updated' = Cleared(updated, 0)
           /\ announced' = Cleared(announced, 0)
           /\ told' = told \ old
    /\ SweepEnds
    /\ UNCHANGED <<world, inbox, disp, req, faults>>

SweeperStep ==
    \/ SweepStart
    \/ \E r \in Rules : SweepRule(r)
    \/ \E i \in Ids : SweepClose(i) \/ SweepTell(i)
    \/ SweepPrune

--------------------------------------------------------------------------------
(* What goes wrong.                                                        *)

\* A statement fails, or the 15 s handler context ends: the message is logged
\* as not handled.  A row already written stays.
DispatcherFails ==
    /\ Fault
    /\ disp.pc \in {"select", "insert", "update", "close", "read"}
    /\ disp' = DispIdle
    /\ UNCHANGED <<world, tables, inbox, req, sweep, observed>>

\* The request's context ends with the connection, or the last Get fails: the
\* row is closed and nobody is told.
ResolveFails(q) ==
    /\ Fault
    /\ req[q] # NoId
    /\ req' = [req EXCEPT ![q] = NoId]
    /\ UNCHANGED <<world, tables, inbox, disp, sweep, observed>>

\* MarkStale returns early: rows it has not closed stay active, rows it closed
\* are not broadcast, and the sweep goes on to the next rule.  A failed SELECT
\* skips the rule; a failed DELETE ends the sweep.
SweeperFails ==
    /\ Fault
    /\ \/ /\ sweep.pc = "close"
          /\ ~RuleDone
          /\ sweep' = [sweep EXCEPT !.ids = {}, !.closed = {}]
       \/ /\ RuleDone
          /\ \E r \in sweep.rules : sweep' = [sweep EXCEPT !.rules = @ \ {r}]
       \/ /\ RuleDone
          /\ sweep.rules = {}
          /\ sweep' = SweepIdle
    /\ UNCHANGED <<world, tables, inbox, disp, req, observed>>

\* The process dies and starts again on the same database file.
Crash ==
    /\ Fault
    /\ inbox' = <<>>
    /\ disp' = DispIdle
    /\ req' = [q \in Requests |-> NoId]
    /\ sweep' = SweepIdle
    /\ UNCHANGED <<world, tables, observed>>

--------------------------------------------------------------------------------

Next ==
    \/ Tick
    \/ \E r \in Rules :
        MarshalFires(r) \/ MarshalRepeats(r) \/ MarshalClears(r) \/ MarshalForgets(r)
    \/ \E m \in queue : Deliver(m)
    \/ DispatcherStep
    \/ \E q \in Requests :
        ResolveTell(q) \/ ResolveFails(q) \/ \E i \in Ids : ResolveWrite(q, i)
    \/ SweeperStep
    \/ DispatcherFails \/ SweeperFails \/ Crash

\* Goroutines that can run do run, and time passes.  Nothing obliges Marshal to
\* publish, the broker to deliver or a person to resolve.
Fairness ==
    /\ WF_vars(Tick)
    /\ WF_vars(DispatcherStep)
    /\ \A q \in Requests : WF_vars(ResolveTell(q))
    /\ WF_vars(SweeperStep)

Spec == Init /\ [][Next]_vars

FairSpec == Spec /\ Fairness

--------------------------------------------------------------------------------
(* Properties.                                                             *)

\* A rule never has two active alerts, although the SELECT that finds none and
\* the INSERT that adds one are two statements with other goroutines between.
OneActivePerRule == \A r \in Rules : \A i, j \in Active(r) : i = j

\* However often a message is delivered, repeated or lost to a crash, one alert
\* is announced as a first sighting at most once.
AnnouncedAtMostOnce == \A i \in Ids : announced[i] <= 1

\* The dispatcher, with i's row just inserted, is on its way to announce it.
ToAnnounce(i) == disp.pc \in {"read", "notify"} /\ disp.id = i /\ disp.made

\* Somebody who knows that i is closed is on the way to broadcast it.
ToTell(i) ==
    \/ disp.pc = "read" /\ disp.id = i
    \/ disp.pc \in {"notify", "broadcast"} /\ disp.id = i /\ disp.snap \in Closed
    \/ \E q \in Requests : req[q] = i
    \/ sweep # SweepIdle /\ i \in sweep.closed

\* News never gets lost between the goroutines, however their statements cross:
\* until a fault, an alert that is there is announced or about to be, and one that
\* is closed is told or about to be, by one of its closers (internal/store/store.go,
\* setStatus, and whoever calls it).
NewsInHand ==
    faults = 0 =>
        \A i \in Ids :
            /\ Exists(i) => announced[i] = 1 \/ ToAnnounce(i)
            /\ status[i] \in Closed => i \in told \/ ToTell(i)

\* Every interleaving of the statements looks from outside like the atomic
\* operations of the book: one active alert per rule, closed alerts stay closed.
Book == INSTANCE AlertBook WITH
    Rules <- Rules, Ids <- Ids, NoRule <- NoRule, status <- status, ruleOf <- ruleOf
ImplementsBook == Book!Spec

\* An alert Marshal has gone quiet about does not stay active for ever, even
\* when a "resolved" was lost, overtaken by its "new", or never sent.
EveryAlertCloses == \A i \in Ids : status[i] = "active" ~> status[i] # "active"

\* An alert that was created is announced, unless a fault cut the handler short
\* or its message was already past retention and the row is gone.
CreatedIsAnnounced ==
    \A i \in Ids : (status[i] = "active" /\ announced[i] = 0)
                     ~> (announced[i] = 1 \/ status[i] = "none" \/ faults > 0)

\* Whoever closes an alert (Marshal, a person, the sweeper) tells the apps that
\* are listening, even when the closing statements of two of them cross.
ClosedIsTold ==
    \A i \in Ids : (status[i] \in Closed /\ i \notin told)
                     ~> (i \in told \/ status[i] = "none" \/ faults > 0)

================================================================================
