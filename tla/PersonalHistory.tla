---------------------------- MODULE PersonalHistory ----------------------------
(***************************************************************************)
(* What one alert event becomes for each person: a push, nothing, a row in *)
(* hidden_alerts (internal/notify, internal/policy, internal/push), and    *)
(* then an event on the SSE streams (internal/api/events.go).              *)
(*                                                                         *)
(* Hub.OnEvent asks the notifier first and broadcasts afterwards.  The     *)
(* notifier takes the people in their configured order and, for each, runs *)
(* a SELECT for the policy, one for each mute, one for the quiet hours,    *)
(* the write that records the decision, and one APNs request per phone.    *)
(* The people change their minds, resolve alerts and connect their apps    *)
(* between any two of these.  All of them share one context that ends      *)
(* after 30 s; an APNs request alone may take 15 s.  Any statement may     *)
(* fail, with the context live or because it has run out; every failure    *)
(* is passed over, most of them towards sending.                           *)
(*                                                                         *)
(* One source's alerts are modelled: its name and kind are the two keys of *)
(* a mute.  Left out: payloads and links, the passive flag, and the        *)
(* removal of dead device tokens.                                          *)
(***************************************************************************)
EXTENDS Naturals, Sequences, FiniteSets

CONSTANTS
    People,       \* SENTINEL_PEOPLE, in order: a sequence of person ids
    Alerts,       \* alert ids
    Phones,       \* Phones[p]: how many phones person p has registered
    Policies,     \* the policies they choose from, by what differs from the default
    Watchers,     \* the people who open the app (one stream each)
    Patience,     \* how many APNs time-outs use up the event's context: 30 s / 15 s
    ChannelSize,  \* capacity of a stream's channel
    MaxEvents,    \* bound: events, app resolves and restarts
    MaxChanges,   \* bound: changes of a mute, a policy or the quiet hours
    MaxFailures   \* bound: statements that fail though their context is live

Persons == {People[n] : n \in 1 .. Len(People)}

\* repeats: this source's repeats push (none do by default: its severity is not
\* critical).  objects: the camera object filter leaves this source's alerts out.
\* always: exempt from quiet hours.
Flags == {"repeats", "objects", "always"}

ASSUME PersonalHistoryAssumption ==
    /\ People \in Seq(Persons)
    /\ People # <<>>
    /\ \A m, n \in 1 .. Len(People) : People[m] = People[n] => m = n
    /\ Phones \in [Persons -> Nat]
    /\ Policies \subseteq SUBSET Flags
    /\ Watchers \subseteq Persons
    /\ Patience \in Nat \ {0}
    /\ ChannelSize \in Nat \ {0}

VARIABLES
    row,       \* row[a]: the alert's row: "none", "active" or "closed"
    hidden,    \* hidden[p]: the alerts hidden_alerts keeps out of p's history
    mute,      \* mute[p]: the keys of p's mutes now in force
    policy,    \* policy[p]: the parts of p's policy that differ from the default
    quiet,     \* the people now in their quiet hours
    disp,      \* the goroutine inside Hub.OnEvent
    stream,    \* stream[p]: the SSE connection of p's app
    events, changes, failures,   \* counted against the bounds
    \* What was observed from outside, for the properties only.
    pushes,    \* pushes[p][a]: pushes about a that reached a phone of p
    held,      \* held[p]: mutes in force ever since the event at hand began
    missed,    \* the mutes whose last lookup for it failed in a live context
    uncleared, \* uncleared[p]: hidden alerts whose last ClearHidden failed in one
    streamed,  \* streamed[p]: alerts written to p's stream
    blind      \* blind[p]: alerts streamed while hidden, as IsHidden failed

prefs == <<mute, policy, quiet>>
observed == <<pushes, held, missed, uncleared, streamed, blind>>
vars == <<row, hidden, prefs, disp, stream, events, changes, failures, observed>>

Keys == {"source", "kind"}

\* first: Created.  repeat: an update of an active alert with a repeat count.
\* other: anything else (resolved, ended, merged), never a reason to push.
EventKinds == {"first", "repeat", "other"}

Idle == [pc |-> "idle"]

Busy ==
    [pc : {"policy", "source", "kind", "quiet", "record", "list", "send", "broadcast"},
     id : Alerts,
     kind : EventKinds,
     who : 1 .. Len(People),               \* the place in People
     left : 0 .. Patience,                 \* what is left of the context
     pol : SUBSET Flags,                   \* the policy read
     verdict : {"push", "deny", "hide"},
     phones : Nat]                         \* phones of this person still to send to

Off == [state |-> "off", buf |-> <<>>]

TypeOK ==
    /\ row \in [Alerts -> {"none", "active", "closed"}]
    /\ hidden \in [Persons -> SUBSET Alerts]
    /\ mute \in [Persons -> SUBSET Keys]
    /\ policy \in [Persons -> SUBSET Flags]
    /\ quiet \in SUBSET Persons
    /\ disp \in {Idle} \cup Busy
    /\ disp.pc = "send" => disp.left > 0
    /\ stream \in [Persons -> [state : {"off", "on", "cut"}, buf : Seq(Alerts)]]
    /\ \A p \in Persons : Len(stream[p].buf) <= ChannelSize
    /\ events \in Nat
    /\ changes \in Nat
    /\ failures \in Nat
    /\ pushes \in [Persons -> [Alerts -> Nat]]
    /\ held \in [Persons -> SUBSET Keys]
    /\ missed \in SUBSET Keys
    /\ uncleared \in [Persons -> SUBSET Alerts]
    /\ streamed \in [Persons -> SUBSET Alerts]
    /\ blind \in [Persons -> SUBSET Alerts]

Init ==
    /\ row = [a \in Alerts |-> "none"]
    /\ hidden = [p \in Persons |-> {}]
    /\ mute = [p \in Persons |-> {}]
    /\ policy = [p \in Persons |-> {}]
    /\ quiet = {}
    /\ disp = Idle
    /\ stream = [p \in Persons |-> Off]
    /\ events = 0
    /\ changes = 0
    /\ failures = 0
    /\ pushes = [p \in Persons |-> [a \in Alerts |-> 0]]
    /\ held = [p \in Persons |-> {}]
    /\ missed = {}
    /\ uncleared = [p \in Persons |-> {}]
    /\ streamed = [p \in Persons |-> {}]
    /\ blind = [p \in Persons |-> {}]

--------------------------------------------------------------------------------
(* The people's settings.                                                  *)

Change == changes < MaxChanges /\ changes' = changes + 1

\* A statement fails, its context still live.
Failure == failures < MaxFailures /\ failures' = failures + 1

MuteSet(p, k) ==
    /\ Change
    /\ mute' = [mute EXCEPT ![p] = @ \cup {k}]
    /\ UNCHANGED <<row, hidden, policy, quiet, disp, stream, events, failures, observed>>

\* Cleared, or run out.
MuteEnds(p, k) ==
    /\ Change
    /\ k \in mute[p]
    /\ mute' = [mute EXCEPT ![p] = @ \ {k}]
    /\ held' = [held EXCEPT ![p] = @ \ {k}]
    /\ UNCHANGED <<row, hidden, policy, quiet, disp, stream, events, failures>>
    /\ UNCHANGED <<pushes, missed, uncleared, streamed, blind>>

PolicySet(p, f) ==
    /\ Change
    /\ policy' = [policy EXCEPT ![p] = f]
    /\ UNCHANGED <<row, hidden, mute, quiet, disp, stream, events, failures, observed>>

QuietTurns(p) ==
    /\ Change
    /\ quiet' = IF p \in quiet THEN quiet \ {p} ELSE quiet \cup {p}
    /\ UNCHANGED <<row, hidden, mute, policy, disp, stream, events, failures, observed>>

--------------------------------------------------------------------------------
(* The streams: Hub.Broadcast, subscribe, unsubscribe and the SSE handler. *)

\* Faulty variant: the channel has no limit.
FannedUnbounded(a) ==
    [p \in Persons |->
        IF stream[p].state = "on" THEN [stream[p] EXCEPT !.buf = Append(@, a)] ELSE stream[p]]

\* Every connected stream gets the event; one whose channel is full is closed
\* and forgotten, and its handler sends what the channel still holds.
Fanned(a) ==
    [p \in Persons |->
        LET s == stream[p]
        IN  IF s.state # "on" THEN s
            ELSE IF Len(s.buf) < ChannelSize THEN [s EXCEPT !.buf = Append(@, a)]
            ELSE [s EXCEPT !.state = "cut"]]

Connect(p) ==
    /\ p \in Watchers
    /\ stream[p].state = "off"
    /\ stream' = [stream EXCEPT ![p] = [state |-> "on", buf |-> <<>>]]
    /\ UNCHANGED <<row, hidden, prefs, disp, events, changes, failures, observed>>

\* The app goes away, or the handler finds its channel closed and empty.
Disconnect(p) ==
    /\ stream[p].state # "off"
    /\ stream' = [stream EXCEPT ![p] = Off]
    /\ UNCHANGED <<row, hidden, prefs, disp, events, changes, failures, observed>>

\* The handler takes a from its channel and writes it to the app.
Written(p, a) ==
    /\ streamed' = [streamed EXCEPT ![p] = @ \cup {a}]
    /\ UNCHANGED failures

\* Stream, without asking whether the alert is hidden.
StreamUnfiltered(p) ==
    /\ stream[p].buf # <<>>
    /\ stream' = [stream EXCEPT ![p].buf = Tail(@)]
    /\ Written(p, Head(stream[p].buf))
    /\ UNCHANGED <<row, hidden, prefs, disp, events, changes>>
    /\ UNCHANGED <<pushes, held, missed, uncleared, blind>>

\* The handler takes an event, asks IsHidden and writes it or skips it.  When the
\* lookup fails it writes it.
Stream(p) ==
    /\ stream[p].buf # <<>>
    /\ stream' = [stream EXCEPT ![p].buf = Tail(@)]
    /\ LET a == Head(stream[p].buf)
       IN  \/ a \in hidden[p] /\ UNCHANGED <<streamed, blind, failures>>
           \/ a \notin hidden[p] /\ Written(p, a) /\ UNCHANGED blind
           \/ /\ Failure
              /\ streamed' = [streamed EXCEPT ![p] = @ \cup {a}]
              /\ blind' = IF a \in hidden[p] THEN [blind EXCEPT ![p] = @ \cup {a}] ELSE blind
    /\ UNCHANGED <<row, hidden, prefs, disp, events, changes>>
    /\ UNCHANGED <<pushes, held, missed, uncleared>>

\* POST /v1/alerts/{id}/resolve: the row is visible to the API from the moment
\* it is written, and the handler broadcasts without asking the notifier.
ResolveInApp(a) ==
    /\ events < MaxEvents
    /\ events' = events + 1
    /\ row[a] # "none"
    /\ row' = [row EXCEPT ![a] = "closed"]
    /\ stream' = Fanned(a)
    /\ UNCHANGED <<hidden, prefs, disp, changes, failures, observed>>

--------------------------------------------------------------------------------
(* The event: Hub.OnEvent, Notifier.OnEvent, Decider.Decide, SendAlert.    *)

others == <<row, prefs, stream, events, changes, held, streamed, blind>>

Person == People[disp.who]

\* The context is live.  A statement that needs it is answered, or fails.
CanQuery == disp.left > 0
Answered == CanQuery /\ UNCHANGED failures
Failed == IF CanQuery THEN Failure ELSE UNCHANGED failures

\* A repeat finds its alert active; a human may have closed the row that other
\* updates are about.
RowBefore(k) ==
    CASE k = "first" -> {"none"}
      [] k = "repeat" -> {"active"}
      [] k = "other" -> {"active", "closed"}

\* The row is written and its event handed to Hub.OnEvent.
Emit(a, k) ==
    /\ disp = Idle
    /\ events < MaxEvents
    /\ events' = events + 1
    /\ row[a] \in RowBefore(k)
    /\ row' = [row EXCEPT ![a] = IF k = "other" THEN "closed" ELSE "active"]
    /\ disp' = [pc |-> "policy", id |-> a, kind |-> k, who |-> 1, left |-> Patience,
                pol |-> {}, verdict |-> "deny", phones |-> 0]
    /\ held' = mute
    /\ UNCHANGED <<hidden, prefs, stream, changes, failures>>
    /\ UNCHANGED <<pushes, missed, uncleared, streamed, blind>>

GoTo(pc) == disp' = [disp EXCEPT !.pc = pc]
Decide(v) == disp' = [disp EXCEPT !.pc = "record", !.verdict = v]

\* The next person, or the broadcast after the last.
NextPerson(left) ==
    disp' = IF disp.who < Len(People)
            THEN [disp EXCEPT !.pc = "policy", !.who = @ + 1, !.left = left, !.pol = {},
                              !.verdict = "deny", !.phones = 0]
            ELSE [disp EXCEPT !.pc = "broadcast", !.left = left]

Pushable(pol) == disp.kind = "first" \/ (disp.kind = "repeat" /\ "repeats" \in pol)

\* GetPolicy; the default policy when it fails.  Not pushable: denied at once.
ReadPolicy ==
    /\ disp.pc = "policy"
    /\ \E pol \in {policy[Person], {}} :
        /\ (Answered /\ pol = policy[Person]) \/ (Failed /\ pol = {})
        /\ disp' = IF Pushable(pol)
                   THEN [disp EXCEPT !.pc = "source", !.pol = pol]
                   ELSE [disp EXCEPT !.pc = "record", !.pol = pol, !.verdict = "deny"]
    /\ UNCHANGED <<others, hidden, pushes, missed, uncleared>>

\* IsMuted finds the mute of key k.
Muted(k) == Answered /\ k \in mute[Person] /\ missed' = missed \ {k}

\* IsMuted finds none, or fails, which counts as not muted.
NotMuted(k) ==
    \/ Answered /\ k \notin mute[Person] /\ missed' = missed \ {k}
    \/ Failed /\ missed' = IF CanQuery THEN missed \cup {k} ELSE missed \ {k}

SourceMute ==
    /\ disp.pc = "source"
    /\ \/ Muted("source") /\ Decide("hide")
       \/ NotMuted("source") /\ GoTo("kind")
    /\ UNCHANGED <<others, hidden, pushes, uncleared>>

\* The camera object filter of the policy read before.
ObjectFilter == IF "objects" \in disp.pol THEN Decide("hide") ELSE GoTo("quiet")

\* Faulty variant: the lookup of the kind's mute is dropped.
KindMuteIgnored ==
    /\ disp.pc = "kind"
    /\ ObjectFilter
    /\ UNCHANGED <<others, hidden, pushes, missed, uncleared, failures>>

KindMute ==
    /\ disp.pc = "kind"
    /\ \/ Muted("kind") /\ Decide("hide")
       \/ NotMuted("kind") /\ ObjectFilter
    /\ UNCHANGED <<others, hidden, pushes, uncleared>>

\* A failed lookup gives the default quiet hours, which are off.
QuietHours ==
    /\ disp.pc = "quiet"
    /\ \/ /\ Answered
          /\ IF Person \in quiet /\ "always" \notin disp.pol THEN Decide("deny") ELSE Decide("push")
       \/ Failed /\ Decide("push")
    /\ UNCHANGED <<others, hidden, pushes, missed, uncleared>>

\* ClearHidden of the alert for the person, answered or failed.
ClearHidden ==
    \/ /\ Answered
       /\ hidden' = [hidden EXCEPT ![Person] = @ \ {disp.id}]
       /\ uncleared' = [uncleared EXCEPT ![Person] = @ \ {disp.id}]
    \/ /\ Failed
       /\ uncleared' = IF CanQuery /\ disp.id \in hidden[Person]
                       THEN [uncleared EXCEPT ![Person] = @ \cup {disp.id}]
                       ELSE uncleared
       /\ UNCHANGED hidden

\* SetHidden, likewise.
SetHidden ==
    /\ \/ Answered /\ hidden' = [hidden EXCEPT ![Person] = @ \cup {disp.id}]
       \/ Failed /\ UNCHANGED hidden
    /\ UNCHANGED uncleared

\* At most one of the two is called.
Recorded(clears, hides) ==
    \/ clears /\ ClearHidden
    \/ hides /\ SetHidden
    \/ ~clears /\ ~hides /\ UNCHANGED <<hidden, uncleared, failures>>

\* Faulty variant: a muted repeat hides the alert too.
WriteHistoryAlways == Recorded(disp.verdict = "push", disp.verdict = "hide")

\* Notifier.record: a push of a later event makes the alert visible again, a
\* hidden first sighting hides it.  An error is only logged.
WriteHistory ==
    Recorded(disp.verdict = "push" /\ disp.kind # "first",
             disp.verdict = "hide" /\ disp.kind = "first")

\* The write, whatever comes of it, and on to the sends if there is a push.
Record ==
    /\ disp.pc = "record"
    /\ WriteHistory
    /\ IF disp.verdict = "push" THEN GoTo("list") ELSE NextPerson(disp.left)
    /\ UNCHANGED <<others, pushes, missed>>

\* SendAlert begins with ListDevices; nobody is told when it fails.
ListDevices ==
    /\ disp.pc = "list"
    /\ \/ /\ Answered
          /\ IF Phones[Person] > 0
             THEN disp' = [disp EXCEPT !.pc = "send", !.phones = Phones[Person]]
             ELSE NextPerson(disp.left)
       \/ Failed /\ NextPerson(disp.left)
    /\ UNCHANGED <<others, hidden, pushes, missed, uncleared>>

\* After one phone: the next one, unless the context is used up and the sends
\* still to come fail at once.
AfterSend(left) ==
    IF disp.phones > 1 /\ left > 0
    THEN disp' = [disp EXCEPT !.phones = @ - 1, !.left = left]
    ELSE NextPerson(left)

SendDelivered ==
    /\ disp.pc = "send"
    /\ pushes' = [pushes EXCEPT ![Person][disp.id] = @ + 1]
    /\ AfterSend(disp.left)
    /\ UNCHANGED <<others, hidden, missed, uncleared, failures>>

SendRejected ==
    /\ disp.pc = "send"
    /\ AfterSend(disp.left)
    /\ UNCHANGED <<others, hidden, pushes, missed, uncleared, failures>>

SendTimesOut ==
    /\ disp.pc = "send"
    /\ AfterSend(disp.left - 1)
    /\ UNCHANGED <<others, hidden, pushes, missed, uncleared, failures>>

\* Faulty variant: the broadcast waits for room in every channel.
RoomForAll == \A p \in Persons : stream[p].state = "on" => Len(stream[p].buf) < ChannelSize

\* Broadcast sends without waiting.
CanBroadcast == TRUE

\* Nothing is observed of an event any more.
Over ==
    /\ disp' = Idle
    /\ held' = [p \in Persons |-> {}]
    /\ missed' = {}
    /\ UNCHANGED <<pushes, uncleared, streamed, blind>>

Broadcast ==
    /\ disp.pc = "broadcast"
    /\ CanBroadcast
    /\ stream' = Fanned(disp.id)
    /\ Over
    /\ UNCHANGED <<row, hidden, prefs, events, changes, failures>>

OnEvent ==
    \/ ReadPolicy \/ SourceMute \/ KindMute \/ QuietHours \/ Record \/ ListDevices
    \/ SendDelivered \/ SendRejected \/ SendTimesOut
    \/ Broadcast

\* The process dies and starts again: the event at hand and the streams are gone.
Restart ==
    /\ events < MaxEvents
    /\ events' = events + 1
    /\ Over
    /\ stream' = [p \in Persons |-> Off]
    /\ UNCHANGED <<row, hidden, prefs, changes, failures>>

--------------------------------------------------------------------------------

Next ==
    \/ \E p \in Persons :
        \/ \E k \in Keys : MuteSet(p, k) \/ MuteEnds(p, k)
        \/ \E f \in Policies : PolicySet(p, f)
        \/ QuietTurns(p)
        \/ Connect(p) \/ Disconnect(p) \/ Stream(p)
    \/ \E a \in Alerts : ResolveInApp(a) \/ \E k \in EventKinds : Emit(a, k)
    \/ OnEvent
    \/ Restart

\* The goroutine inside OnEvent runs; an app may read its stream slowly or never.
Fairness == WF_vars(OnEvent)

Spec == Init /\ [][Next]_vars

FairSpec == Spec /\ Fairness

--------------------------------------------------------------------------------
(* Properties.                                                             *)

\* An alert that was pushed to someone is in that person's own history, whatever
\* they muted before or after and however the event was cut short ("it reached them
\* after all and is theirs again", notify.go 68-69); but for one the push found
\* hidden and whose ClearHidden failed, which is logged and sent all the same.
PushedIsVisible ==
    \A p \in Persons, a \in Alerts :
        pushes[p][a] > 0 /\ a \in hidden[p] => a \in uncleared[p]

\* A mute that stands for as long as an event is handled keeps its push from the
\* phone, also when the context runs out and the lookups fail; but for a mute whose
\* own lookup failed in a live context (policy.go 147-152): the other one counts.
MuteHonoured ==
    [][\A p \in Persons :
         (\E a \in Alerts : pushes'[p][a] > pushes[p][a]) => held[p] \subseteq missed]_vars

\* A slow or stuck app never holds up the events: "slow clients are dropped
\* rather than allowed to block the dispatcher" (events.go).
NeverBlocked == disp # Idle ~> disp = Idle

\* README "History": "An alert is hidden from a person when its first sighting was
\* something they had asked not to hear about, a muted source, a muted kind".
MutedIsHidden ==
    [][disp.pc = "record" /\ disp.kind = "first" /\ held[Person] # {}
         /\ disp' # disp /\ events' = events
         => disp.id \in hidden'[Person]]_vars

\* "An alert hidden from their history (decided before the event is broadcast) is
\* not streamed to them either" (events.go), unless it was closed: a resolve from
\* the app broadcasts an alert whose first sighting may not be decided about yet;
\* or it was hidden already and IsHidden failed, which streams it.
StreamedIsVisible ==
    \A p \in Persons : \A a \in streamed[p] \cap hidden[p] :
        row[a] = "closed" \/ a \in blind[p]

================================================================================
