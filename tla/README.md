# Verification of trv-homelab

A TLA+ development kept beside the homelab's code. It models the parts of the
repository in which several actors share state: first of all **sentinel**
(`edge/sentinel`), the service that turns Marshal's, Frigate's and the
dashboard's alerts into a history, pushes and an event stream. Every definition
is translated from the source; `PROJECT.json` ("map") names the lines.

Paths below are relative to `src/`; those of sentinel to `src/edge/sentinel/`.

## The system

    Marshal ── sensors/alerts ──┐                      ┌─ APNs ─► phones
                                ├─► MQTT ─► sentinel ──┼─ SSE  ─► apps
    Frigate ── frigate/reviews ─┘             ▲        └─ HTTP ◄─ apps (resolve, settings)
    dashboard ── GET /api/alerts, SSE ────────┘

| Component | State it keeps | Operations | Hard behaviour | What makes it correct |
|---|---|---|---|---|
| store (`internal/store`) | SQLite tables alerts, hidden_alerts, person_mutes, person_policies, settings, devices; one connection | UpsertSensor, ResolveByRule, Resolve, MarkStale, Prune, UpsertReview, UpsertDashboard, SetHidden, ... | an operation is several statements, and goroutines interleave between them | one active alert per rule; closed stays closed |
| MQTT ingest (`internal/ingest`) | inbox (256), lastSeen, mirror of retained topics, client | onMessage, dispatch, handleSensor, handleReview, heartbeat, recover, PublishRetained | reordering, redelivery, a full inbox, a deaf connection | no alert stuck, none announced twice; the client comes back |
| sweeper (`main.go`) | none | hourly: MarkStale per rule, Prune | races with the dispatcher and the API | every alert closes; only quiet ones go stale |
| notifier and policy (`internal/notify`, `internal/policy`) | hidden_alerts rows | per person: decide, record, send | settings change between queries; one 30 s context for everyone | what was pushed is in the history, what is muted is not pushed |
| APNs (`internal/push`) | devices | SendAlert, prune dead tokens | 15 s time-outs, rejected tokens | a bounded delay, no live token deleted |
| SSE hub (`internal/api/events.go`) | clients, a channel of 16 each | subscribe, Broadcast, events | slow clients; events of several goroutines | never blocks; shows nobody what is hidden from them |
| dashboard feed (`internal/dashboard`) | connected, back-off; rows by external id | backfill, Stream, handle, reconcile, MarkSeen | a stream without replay; list and rows read at different times | each alert arrives and is announced once; dismissed means resolved |
| API (`internal/api`) | none of its own | resolve, mutes, policies, quiet hours, devices, actions, history pages, media | read-modify-write; two publishes in a row; a list that changes between its pages | no lost update; consistent topics; complete pages |
| rules reader (`internal/rules`) | cache of rules.yaml | RetainedTopics, RepeatWindow, Find | a file that is away for a moment, a stale cache | a list once read is never lost; a missing one is tried again |
| config, Frigate camera list, media links | cache with a time to live | | | |
| presence-sensor, nightlight-motion | none | a message becomes a record | a callback that blocks on a socket, retained replays | |
| weather-poller, shelly, device scripts | none | poll and forward | interval limits | |
| caseta-bridge | device maps | commands, button events | commands run as concurrent tasks | the last command wins |
| stream-display | ffmpeg processes, availability topic | capture, snapshot, lifecycle | two starters, a will left retained | one capture at a time |
| Jetson motion detector | set of clients | broadcast | iteration across awaits | |
| homebridge codec, mosquitto, zigbee2mqtt, SNMP maps, ansible, web tools | configuration or pure conversions | | | |

The components of sentinel meet in the store (all of them), in `Hub.OnEvent`
(dispatcher and dashboard runner call it, it calls the notifier and then
broadcasts), in `Hub.Broadcast` (sweeper and resolve handler call it directly),
and over HTTP with the dashboard (list, stream, mark seen).

## Modules

| Module | What it models | Code |
|---|---|---|
| `AlertBook` | what the store promises about sensor and dashboard alerts, each operation atomic | store.go 341-426, 556-566, 895-940 |
| `SensorAlerts` | Marshal's messages, broker, inbox, dispatcher, store statements, app resolve, sweeper, crashes | mqtt.go, sensor.go, store.go, server.go 351-374, main.go 138-176 |
| `SensorAlerts_proofs` | theorems about `SensorAlerts` | |
| `PersonalHistory` | one event through Hub.OnEvent: per-person decision, history row, APNs, broadcast, streams | notify.go, policy.go, apns.go, events.go |
| `PersonalHistory_proofs` | theorems about `PersonalHistory` | |
| `DashboardFeed` | backfill, stream, reconcile, app resolves, mark-seen and retention against the dashboard's list | dashboard.go, store.go 401-426, 556-566, 895-958 |
| `DashboardFeed_proofs` | theorems about `DashboardFeed` | |
| `ReviewBook` | what the store promises about camera alerts, each operation atomic | store.go 444-506, 556-566 |
| `CameraReviews` | Frigate's review messages, the dispatcher, UpsertReview's statements, app resolve, retention, crashes | frigate.go, mqtt.go 240-327, store.go 401-506 |
| `CameraReviews_proofs` | theorems about `CameraReviews` | |
| `MqttEngine` | the connection: paho's clients, the session, subscriptions, heartbeat, watchdog, rebuild, a request's publish | mqtt.go 113-186, 218-227, 332-374, 405-428 |
| `ActionTopics` | a rule's retained topics: parking, the action switch, the mirror, the cached rules | rules.go (api) 114-155, sources.go 337-371, mqtt.go 91-109, 188-213, 405-429, rules.go (rules) 92-160 |
| `Engine_proofs` | theorems about `MqttEngine` and `ActionTopics` | |
| `HistoryPages` | listings of the history, page by page, times compared as strings | server.go 269-336, store.go 163-306, 623 |
| `HistoryPages_proofs` | theorems about `HistoryPages` | |
| `PersonSettings` | mutes, policies, quiet hours and adoption, statement by statement | sources.go 184-335, 386-416, rules.go (api) 73-112, store.go 668-875 |
| `PersonSettings_proofs` | theorems about `PersonSettings` | |
| `PhoneRegistry` | phones registered, moved and pruned while alerts are pushed to them | server.go 395-460, apns.go 80-193, notify.go 35-64, store.go 568-602 |
| `PhoneRegistry_proofs` | theorems about `PhoneRegistry` | |
| `MCPersonalHistory`, `MCHistoryPages`, `MCPersonSettings` | constants and symmetry for TLC | |

The modules divide sentinel by the state that is shared, and each says in its
header where its neighbours begin: `SensorAlerts` and `CameraReviews` assume a
connection that loses and repeats messages, `MqttEngine` is that connection,
`ActionTopics` sees it as up or down; `PersonalHistory` decides whether a person
is told and `PhoneRegistry` which phones ring; `HistoryPages` lets rows change in
any way the others may change them.

### SensorAlerts

The store opens SQLite with one connection, so a statement is atomic and an
operation is not. Each statement is therefore one action, and what a goroutine
carries between statements is its local state: `disp` for the dispatcher (phase,
message, row id, the alert's copy in the event), `req` for resolve handlers,
`sweep` for the sweeper (cutoff time, rules to visit, rows selected, rows to
broadcast). `Select`/`Insert`/`Update`/`Read` are UpsertSensor, `Select`/
`CloseByRule`/`Read` are ResolveByRule, `Notify` and `Broadcast` are Hub.OnEvent,
`SweepStart`/`SweepRule`/`SweepClose`/`SweepTell`/`SweepPrune` the sweep. Messages
wait in `queue` as a set, since paho calls onMessage in a goroutine per message,
and may be delivered again when an ack is lost. `Crash` empties everything but
the tables and the broker's queue.

`ImplementsBook` is the refinement: the statements, in any order, look like the
atomic operations of `AlertBook`.

Abstracted: texts, severity, device, repeat_count; times are ticks of one clock
(Marshal's and sentinel's are taken as synchronised); the sweep may start at any
time, which includes every hour; a failed statement and an expired context are
one kind of failure.

### PersonalHistory

`disp` is the goroutine in Hub.OnEvent, going through People in order. `ReadPolicy`,
`SourceMute`, `KindMute`, `QuietHours` are Decide's four queries, `Record` the write
of Notifier.record, `ListDevices` the start of SendAlert, `SendDelivered`,
`SendRejected` and `SendTimesOut` one phone's APNs request, `Broadcast` the fan-out.
`Stream` is the handler of one app's stream, IsHidden included. The context is
`left`, counted in APNs time-outs (two of 15 s use up 30 s). Every statement may fail
while the context is live (`Failure`, at most MaxFailures times), and does fail once
it is used up. Either way the code goes on: default policy, not muted, no quiet
hours, a history row neither written nor deleted, no device listed, not hidden. The
difference is that after a failure in a live context a push may follow. Settings,
streams and app resolves change between any two steps.

What the properties need to see of this is kept in variables that no action reads:
`missed` are the mutes whose last lookup for the event failed, `uncleared` the hidden
alerts whose last ClearHidden failed, `blind` the hidden alerts a failed IsHidden let
through; all of them in a live context. They are the exceptions of MuteHonoured,
PushedIsVisible and StreamedIsVisible, each of just the alert or mute concerned: a
failure must not reach another person's, another alert's or another mute's. Without
the exceptions all three are violated.

Abstracted: the dispatcher and the dashboard runner may each be in OnEvent, for
different alerts; their per-alert state is disjoint, so one is modelled. Payloads,
links, the passive flag, dead tokens, and push not configured at all are left out.

### DashboardFeed

`bell` and `pinned` are the dashboard's, `Listed` is what its only list returns,
`wire` what it has sent on the open stream. `runner` and `job` are Run, backfill
and handle; `recon` is the reconcile goroutine between its list, its query and its
resolves; `marking` the mark-seen goroutines. Failures (`BackfillFails`,
`StreamEnds`, `HandleFails`, `ReconcileFails`, `MarkFails`) follow the code's error
paths; a failure to resolve one row in reconcile is folded into `ReconcileFails`.
`Age` and `Prune` are retention: `old` has the rows nothing has updated for its period,
and the sweeper deletes them whatever the dashboard lists, so that `pushed` counts the
announcements of a row, not of an alert. A row that grows old counts as a fault (it
takes 30 days without an update), and it does not while its event is in the making.

`ImplementsBook` is the refinement of `AlertBook`, with a dashboard alert's id for both
the id and the rule: a row is opened once, closed for as long as it is there, and
forgotten by retention.

### CameraReviews

`review` is Frigate's state, `queue` its messages not yet handled (the inbox is part
of it: a message in it may be handled next, or be lost). `disp` is the dispatcher in
handleReview: `Select`, then `Insert` or `Update`, then `Read` are UpsertReview, `Notify`
the event. `have` in an update is what the SELECT read and the UPDATE merges with.
`ending` says whether end_ts is known, `dated` whether resolved_at is set, `old` which
rows have not been updated for the retention period (age is one bit here; SensorAlerts
has the clock). `ImplementsBook` is the refinement of `ReviewBook`.

Abstracted: the objects are merged as the clips are, zones and texts follow them;
the person-specific part of an event is PersonalHistory's.

### MqttEngine

`status`, `routed` and `handlers` are paho's clients: how each sees its connection,
whether it routes to onMessage, whether its OnConnect handler is still to subscribe.
`owner` is the one client whose connection the broker has: all use one client id, so
a connection takes the session over. `client`, `silent` (the age of lastSeen) and
`run` (the goroutine of Run and then of heartbeat, in connect or between two
statements of a tick) are the engine's. `Tick` reads client and lastSeen,
`PublishBeat` publishes, `Check` computes the stall from what the tick read and
forgets the client in the lock (`Recover`), `Drop` disconnects it outside
(`Disconnect`), and `Dial`, `Connected` or `ConnectTimesOut` rebuild. `pub` is the
client a request's Publish has read in the lock (`PublishRead`) and uses outside it
until `PublishDone`: recover may forget and disconnect it, and connect another, in
between. ClientInUse says what is left of a guarantee then: the engine's own client is
not disconnected, and the one a Publish holds is the engine's, or is being or has been
disconnected, and the publish goes out before that or is refused and answered 502; it
never goes out on a client that works beside the engine's. One Publish is followed at a time: they share
nothing. `mail` is one QoS 1 message on an alert topic.

Time is in minutes, the heartbeat's interval. What the code bounds by seconds is
over before the next tick (`Within`): a loopback, a handler's 10 s, the 5 s retry of
a first connect that the broker would accept. Reconnecting (back-off up to 60 s) and
noticing a dead connection (keep-alive) may take several ticks. connect gives up only
while there is no broker, as its 30 s are several attempts. `Crash` is any end of the
process: the container is started again by compose, whether it exited or was
restarted from outside. An outage may take the session with it (persistence wiped).
At most one message and a handful of client objects are followed; `ConnectTimesOut`
needs an object to spare, so that outages end before the objects do. The handlers of
two connects of one client do not overlap here, and neither do `resub`'s callers.

### ActionTopics

One rule with all three topics. `retained` and `parked` are the broker's and
Marshal's: external, modelled from what rules.go and sources.go say of them.
`outbox` is what the client has accepted and not had acknowledged, sent again on a
new connection; `echoes` are messages to the mirror, handled in any order. `req` are
the requests, `Send`/`Published`/`PublishFails` the token's wait in Publish.
`SubscribeStates` is both the one on connect and the one with every heartbeat.
`file`, `cache`, `fresh` are rules.Reader. Publishing fails only while the link is
down: an answer that takes over 10 s on a live connection is not followed. A
request's 300 ms pause and its reading of the mirror change nothing. A cleared topic has
the payload "none". The module's initial predicate, next-state relation and variables
bear its name (`ActionsInit`, `actionVars`, ...), since `Engine_proofs` extends it together
with `MqttEngine`.

### HistoryPages

`walk` is one reader's listing (filter, limit asked for, cursor), `Page` one GET. A
tick is half a second: the smallest clock in which RFC3339Nano strings are out of
order (`FmtTime`: a whole second sorts after its own half). `steady` are the alerts
a listing was about when it began and to which nothing has happened since. The rows
change in every way the store changes them: a late message's older time, a review that
is over when it is inserted, the refreshing of a closed row, which stays closed, included.
Abstracted: the page's decoration; a status other than active is "closed"; bounds a
client sends are of the server's precision.

### PersonSettings

A request is the list of its statements (`Plan`), and `req` what is left of it. `Select`
and `DeleteExpired` are Mutes, `SetMute`, `ClearMute`, `Read`/`ReadFails`/`Write` the
partial updates of a policy or of quiet hours (two fields each), `Start` Adopt. `want` is
what each person last asked of each field, `crossed` the documents of which a change was
written over and `raced` the mutes renewed during a clean-up: the two races the code has
(below), which the properties name and beyond which nothing may be lost. Abstracted:
validation of bodies, the SELECT of findSource beyond its mutes, the Outpost user id.

### PhoneRegistry

`devices` is the table, `installed` the tokens APNs knows, `push[x]` a goroutine in
Notifier.OnEvent and SendAlert (people left, phones listed and still to try, a token
about to be deleted), `test` one test push. A phone's registration is good if it is
there with the environment of its app's build. `still[x]` are the phones whose
registration was good when x's alert began and has not been touched since. One test
push at a time; adoption's claim of phones without a person (store.go 850) is left out.

## Runs

| Run | Instance | Shows |
|---|---|---|
| `sensor_pass` | 1 rule, 2 ids, 1 request, InboxSize 1, MaxTime 2, MaxEvents 2 | TypeOK, one active alert per rule, one announcement per alert, news is in somebody's hands until it is delivered, refinement of AlertBook; every alert closes, is announced, and its closing is told |
| `history_pass` | 2 people (2 phones and 1), 1 alert, 4 policies, 2 time-outs to a context, channel of 1, 2 events, 2 setting changes, 1 failed statement | TypeOK, pushed is visible, streamed is visible, mutes honoured, never blocked |
| `history_budget` | same, no failed statement | **violated**: MutedIsHidden |
| `dash_pass` | 2 alerts, MarkSeen on, 2 faults (rows that grow old included) | TypeOK, a row is announced once, refinement of AlertBook, dismissed resolves |
| `dash_gap` | no faults | **violated**: UnseenArrives |
| `reviews_pass` | 1 review, 2 clips, 5 messages or faults | TypeOK, ended is dated, announced once, refinement of ReviewBook, every review closes |
| `engine_pass` | 3 client objects, a stall of 2 minutes, 3 faults | TypeOK, none left behind, clients in use are in hand, messages are heard again, the connection settles |
| `engine_queued` | a stall of 1 minute, 2 faults | **violated**: QueuedIsHandled |
| `actions_pass` | 2 requests at a time, 2 requests or foreign publishes, 2 faults | TypeOK, the retained park agrees with Marshal, the mirror settles |
| `pages_pass` | 3 alerts of 2 kinds, 3 listings (all filters between them), pages of 1 and 2, 3 ticks, 5 changes | TypeOK, pages complete, right to the second |
| `settings_pass` | 2 people, 1 key, 2 requests at a time and 3 in all, 2 times, 1 fault, symmetric requests | TypeOK, fields kept, mutes kept, mutes are one's own |
| `phones_pass` | 2 people, 2 phones (a development build and another), 2 pushing goroutines, 2 requests, 2 alerts | TypeOK, rung once, good registrations kept |

Why the bounds are enough. Rules do not interact but through ids, and the
properties speak of one rule or one alert at a time: one rule with two ids has
every race (two alerts of one rule, an id used again after retention). Two people
are the least with a first and a next; the first has two phones because two
time-outs use up the context. Two messages or faults let a new and its redelivery,
a repeat or a resolved meet a request and a sweep; two events let a repeat, a
resolve or a restart follow a first sighting, and one failed statement reaches each of
the three exceptions it makes. The four policies have each flag on its own, but for
the exemption from quiet hours, which comes with repeats so that both kinds of push meet
it. Two dashboard alerts fill a backfill
and a stream at once. Reviews do not interact at all (one row each, found by its
unique review_id): one with two clips and five messages or faults has a beginning, a
promotion, an end, a repeat and a failure. Three client objects are the engine's, one
given up on and one being connected, so that take-overs and rebuilds overlap; three
faults are an outage, a lost answer and a restart in any order. Two requests are what
can cross, and three of them one that comes after. Five changes let a listing with
pages of one or two begin and three alerts be inserted and one of them move. The
symmetry of `settings_pass` exchanges requests only, which no property tells apart and
no liveness property is checked under. In the passing runs every action is taken. What
the bounds cap is capped by a named constant in a guard (MaxEvents, MaxFaults,
MaxFailures, MaxOps, MaxChanges, MaxTime, MaxUpsets), and every safety property of the passing runs is
proved without the bounds mattering.

The violated properties are statements the repository makes about itself, quoted
in `PROJECT.json` ("findings"):

- *muted is hidden*: all people share 30 s; after two APNs time-outs the next
  person's lookups and history write fail.
- *unseen arrives*: an alert fired between the backfill's list and the opening of the
  stream is in neither.
- *queued is handled*: after a restart the broker delivers its queue as soon as the
  session is connected, before the OnConnect handler has subscribed and so added the
  route. Those messages are neither handled nor acknowledged, and come again only on
  the next connection.

Disagreements and races that the modelling met and that no run is spent on; the
properties that pass name them as their exceptions:

- MarkStale closes by id what it selected earlier (store.go 511-533), so an alert
  refreshed or resolved in between becomes stale. AlertBook's Close allows for it.
- A failed ClearHidden is only logged and the push goes out (notify.go 71-82, 56): the
  alert was pushed and is still hidden, where the comment (notify.go 68-69) has it "theirs
  again": `uncleared`.
- A failed IsMuted counts as not muted (policy.go 147, 150), so that a muted alert may
  ring: `missed`. A failed IsHidden streams a hidden alert (events.go 105): `blind`.
- An app resolve broadcasts an alert whose first sighting is still being decided about
  (server.go 361): its closing may be streamed to a person for whom it is then hidden.
- reconcile's list is older than the rows it reads (dashboard.go 374-390): an alert
  stored in between is resolved though nobody dismissed it.
- Retention deletes a row the dashboard still lists (store.go 558), one resolved in the
  app included: the next backfill opens it again, and it is announced again.
- A review's update handled after its end overwrites end_ts with 0 (store.go 468).
- A mute renewed while a request is deleting the expired one is deleted with it
  (store.go 719-721): `raced`.
- Two partial updates of one person cross, and one is lost; an update whose read fails
  starts from the defaults (sources.go 305, 401): `crossed`.
- Two requests to enable cross, or one of the two publishes fails: the retained park and
  Marshal may disagree (api/rules.go 140-146): `mixed`.
- A retained value that is cleared elsewhere is not unlearned when the message about it
  is lost: the broker has nothing to replay, so the mirror keeps the old one
  (mqtt.go 192-213). `MirrorSettles` speaks of retained values only.
- A client connect gave up on keeps its client id and takes the session from the next
  one, back and forth (mqtt.go 163): `Settles` excludes it, `HeardAgain` holds all the same.
- A test push to a token without an environment tries the sandbox (server.go 454): a
  production phone's registration is pruned as dead. `GoodKept` excludes it.

Deadlock is not checked in the runs whose cfg says so: there the system rests when all
bounded messages, requests and faults are spent.

## Fairness

Weak fairness of each goroutine's steps (dispatcher, resolve handler, sweeper,
notifier, runner, reconcile, mark-seen, heartbeat, connect, a request's handler), of
the tickers and of time (in CameraReviews only of time and retention: that suffices for
its liveness): a Go goroutine that can run does, statements return or fail, HTTP
requests are answered or end with their time-out. In MqttEngine also: the broker comes
back, and paho notices a dead connection (keep-alive), connects (its retries never end)
and calls its handler; in ActionTopics: the link comes back, a live broker takes and
acknowledges what it is sent, a deploy ends. Nothing is assumed of Marshal, the
dashboard's users, or the apps: they may never publish, dismiss, resolve or read again;
nor of the broker's deliveries to the dispatcher. The faults of a behaviour are finitely
many (they are bounded), which is what "comes back" needs. Liveness is stated up to
faults where the code gives up (an event is not retried after a failed statement).

## Proofs

Proved with TLAPS for every value of the constants (any number of rules, ids,
requests, people, phones, alerts, reviews, clips, clients; any capacity and bound), from one
named assumption per module (`ConstantsAssumption` in SensorAlerts, `<Module>Assumption`
in the others), which only say that bounds and capacities are numbers, that "none" values
are not members, that People lists each person once, that policies are sets of flags, that a listing's alerts are finitely
many and its default limit is not 0:

- `SensorAlerts_proofs`: TypeOK; OneActivePerRule; AnnouncedAtMostOnce; NewsInHand; the
  refinement of AlertBook. The inductive invariant adds `InsertIsFree` (a dispatcher about to
  insert has a rule without an active alert: only it inserts, and nobody else makes
  a row active) and `CreatedIsUnannounced` (the row an event is being made for has not
  been announced). The refinement needs both and the lemma that only the INSERT
  activates. NewsInHand is the safety half of CreatedIsAnnounced and ClosedIsTold: without
  a fault nobody who holds a piece of news drops it before it is delivered. What remains
  for TLC is that the holder goes on.
- `PersonalHistory_proofs`: TypeOK; PushedIsVisible; StreamedIsVisible; MuteHonoured,
  whichever statements fail, in a live context or a used-up one. PushedIsVisible needs that nothing is hidden or pushed before an
  alert's row exists, that the persons still to come of a first sighting have neither, and that a send goes on only for an
  alert that is visible to that person or `uncleared`. MuteHonoured needs that a mute held
  since the event began is still in force, and that a phase after a mute's lookup is
  reached only if that mute was absent, or is `missed`, or the context was already used up,
  in which case no device is listed and nothing is sent. StreamedIsVisible needs, besides, that what a
  stream has seen of an open alert was sent after that person was decided about, so that
  the first sighting, the only event that hides, is past.
- `DashboardFeed_proofs`: TypeOK; PushedOnce; the refinement of AlertBook;
  RowsAreAnnounced. PushedOnce needs that an alert whose created flag is pending, or that
  has no row, has not been announced, and that retention does not delete a row whose event
  is being made. The refinement needs that the reconcile goroutine is only still to
  resolve what has a row: resolving by the id of a deleted row opens nothing.
  RowsAreAnnounced, which no run checks, says that until a fault every row is announced or
  its event is in hand.
- `CameraReviews_proofs`: TypeOK; EndedIsDated; AnnouncedOnce; the refinement of
  ReviewBook; AlertsAreAnnounced (the camera's RowsAreAnnounced, with retention at work).
  The inductive invariant adds `CreatedIsUnannounced` and `FoundHolds`: at the INSERT
  there is still no row, and at the UPDATE the row, if it is still there, has just the
  clips the SELECT read, because only the dispatcher writes them.
- `Engine_proofs`: of MqttEngine, TypeOK; NoneLeftBehind; ClientInUse; of ActionTopics,
  ActionsTypeOK; ParkAgrees. The first's inductive invariant says of
  every point of the goroutine which client objects may be at work: none but the given up
  on before a dial, the forgotten one before it is disconnected, the awaited one while
  connecting, the engine's otherwise; and that a client object a Publish holds is not made
  anew, so that one that was disconnected stays so. ParkAgrees
  needs to follow an enable request through its two publishes (`ParkInv`): unless requests
  crossed or failed (`mixed`), at most one parks or resumes; the client holds for the
  enable_topic only the message of the step that request waits in; once the first message
  is acknowledged Marshal has resumed, and once the second is the retained value is
  cleared; and when no request is enabling, the value says what Marshal does.
- `HistoryPages_proofs`: TypeOK; PagesComplete; RightToTheSecond. The invariant behind the
  second: a steady alert still matches, has been seen once if it sorts before the cursor
  and not at all if it sorts after, so that the last page, which was not full, held all
  that was left. It rests on lemmas about the order (total, by time's string and id), about
  the page a LIMIT cuts off, and about FmtTime (two times are never one string, and times in
  different seconds are in order as strings).
- `PhoneRegistry_proofs`: TypeOK; RungOnce; GoodKept. The invariant follows a phone that is
  left alone through an alert: before its person is told, it is on no list and has not
  rung; after, it is on the list with its own environment, or has rung once, or was not
  answered; and it is never the token about to be pruned.
- `PersonSettings_proofs`: TypeOK; FieldsKept; MutesKept; MutesAreOnes. The invariant says
  where a request can be in its plan, that what it is to delete was expired when it looked
  and still is unless it was set again, that before the first start nothing is stored, and
  that the copy a partial update works on is what the person last asked for, unless another
  update crossed it.

Only model-checked: liveness and everything that rests on fairness or ENABLED, which
the prover does not handle (EveryAlertCloses, CreatedIsAnnounced, ClosedIsTold,
DismissedResolves, EveryReviewCloses, HeardAgain, Settles, MirrorSettles, NeverBlocked),
and the three statements that do not hold. No module declares a RECURSIVE operator, and no
theorem needs induction over data.

## Plan

What would come next, in this order:

1. The link between `MqttEngine` and `ActionTopics`, which sees the connection only as up
   or down and the client as rebuilt or not: a mapping under which the engine's steps are
   steps of that view.
2. The copies' contents in the streams of `PersonalHistory` (an older copy broadcast after
   a newer one).
3. A connection that falls silent in `DashboardFeed`, whose stream has no watchdog.

A question that is added takes the place of one it subsumes: the project keeps one run to a
component, and one to a statement of the repository that does not hold.

## Not modelled

The media proxy and signed links are stateless. Configuration, the camera list and the
parsing of rules.yaml only supply constants here. The presence and night-light taps, the
weather poller, the Shelly collectors and the device scripts keep nothing between two
messages or polls that another part reads. The Caseta bridge, the stream display and the
motion detector are small Python programs whose hard parts (the order of the hub's library,
operating-system processes, image processing) are not in the repository. homebridge's codec
and merge are conversions. Mosquitto, zigbee2mqtt, SNMP maps, ansible and the web tools are
configuration or third-party.
