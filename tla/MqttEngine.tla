------------------------------- MODULE MqttEngine -------------------------------
(***************************************************************************)
(* The connection to the broker that sentinel's ingest keeps alive         *)
(* (internal/ingest/mqtt.go): connect, the subscription made on every      *)
(* connect, the heartbeat that is published to ourselves, the watchdog     *)
(* that rebuilds the client when it has not come back for stallTimeout.    *)
(*                                                                         *)
(* All clients use one fixed client id and a persistent session, so the    *)
(* broker lets one of them have the session and drops the one that had it. *)
(* A paho client never gives up: it retries its first connect              *)
(* (ConnectRetry) and reconnects when lost (AutoReconnect), until          *)
(* Disconnect.  What it takes for open may be a connection the broker has  *)
(* forgotten: it finds out later.                                          *)
(*                                                                         *)
(* A minute is one Tick of the heartbeat's ticker.  Everything bounded by  *)
(* seconds (a loopback, tokenWait, the retry interval, connect's 30 s)     *)
(* happens within it.  Reconnecting a lost client (back-off up to 60 s)    *)
(* and finding a connection dead (keep-alive) may take minutes.            *)
(* A request publishes on the client it read under the lock, without the   *)
(* lock; what it publishes, subscribeStates and the mirror are             *)
(* ActionTopics' subject.                                                  *)
(***************************************************************************)
EXTENDS Naturals, FiniteSets

CONSTANTS
    Clients,    \* paho client objects, as many as ever exist at a time
    None,       \* no client
    Stall,      \* stallTimeout, in minutes
    MaxFaults   \* bound: outages, lost SUBACKs and restarts, all together

ASSUME MqttEngineAssumption ==
    /\ None \notin Clients
    /\ Stall \in Nat
    /\ MaxFaults \in Nat

VARIABLES
    up,         \* the broker is running
    subscribed, \* the session holds the subscriptions of subscribe
    owner,      \* the client whose connection the broker has, or None
    beat,       \* a heartbeat is on its way back
    mail,       \* one QoS 1 message, on sensors/alerts or frigate/reviews
    status,     \* status[c]: the client object, as paho sees its connection
    routed,     \* clients that route messages to onMessage
    handlers,   \* clients whose OnConnect handler is yet to subscribe
    client,     \* Engine.client
    silent,     \* minutes since Engine.lastSeen
    run,        \* the goroutine in connect: Engine.Run's, then heartbeat's
    pub,        \* the client a request's Publish has read and not yet finished with
    abandoned,  \* history: the clients connect gave up waiting for
    faults

broker == <<up, subscribed, owner, beat, mail>>
paho == <<status, routed, handlers>>
engine == <<client, silent, run, pub>>
vars == <<broker, paho, engine, abandoned, faults>>

Alive == {"trying", "open", "lost"}

\* paho is still at work for these clients.
Working == {c \in Clients : status[c] \in Alive}

\* Client objects that may be made anew: those nobody holds any more.
Unused == {c \in Clients : status[c] \notin Alive} \ (handlers \cup {pub})

Round == [pc : {"idle", "dial"}, starting : BOOLEAN] \cup
         [pc : {"publish"}, c : Clients, stalled : BOOLEAN, starting : {FALSE}] \cup
         [pc : {"check"}, c : Clients \cup {None}, stalled : BOOLEAN, starting : {FALSE}] \cup
         [pc : {"drop"}, c : Clients, starting : {FALSE}] \cup
         [pc : {"await"}, c : Clients, starting : BOOLEAN]

TypeOK ==
    /\ up \in BOOLEAN
    /\ subscribed \in BOOLEAN
    /\ owner \in Clients \cup {None}
    /\ beat \in BOOLEAN
    /\ mail \in {"none", "queued", "unrouted", "handled", "gone"}
    /\ status \in [Clients -> Alive \cup {"unused", "closed"}]
    /\ routed \in SUBSET Clients
    /\ handlers \in SUBSET Clients
    /\ client \in Clients \cup {None}
    /\ silent \in 0 .. Stall + 1
    /\ run \in Round
    /\ pub \in Clients \cup {None}
    /\ abandoned \in SUBSET Clients
    /\ faults \in Nat

Init ==
    /\ up \in BOOLEAN
    /\ subscribed = FALSE
    /\ owner = None
    /\ beat = FALSE
    /\ mail = "none"
    /\ status = [c \in Clients |-> "unused"]
    /\ routed = {}
    /\ handlers = {}
    /\ client = None
    /\ silent = 0
    /\ run = [pc |-> "dial", starting |-> TRUE]
    /\ pub = None
    /\ abandoned = {}
    /\ faults = 0

Fault == faults < MaxFaults /\ faults' = faults + 1

\* Messages are routed to the engine.
Hears == owner # None /\ owner \in routed /\ subscribed

--------------------------------------------------------------------------------
(* The broker and paho.                                                    *)

\* The session's queue goes with the session.
Dropped == IF mail \in {"queued", "unrouted"} THEN "gone" ELSE mail

\* The broker stops, with or without its persistence.
BrokerDown ==
    /\ up
    /\ Fault
    /\ up' = FALSE
    /\ subscribed' \in {subscribed, FALSE}
    /\ owner' = None
    /\ beat' = FALSE
    /\ mail' = IF subscribed = subscribed' THEN mail ELSE Dropped
    /\ UNCHANGED <<paho, engine, abandoned>>

BrokerUp ==
    /\ ~up
    /\ up' = TRUE
    /\ UNCHANGED <<subscribed, owner, beat, mail, paho, engine, abandoned, faults>>

\* Marshal or Frigate publishes: the broker queues for the session.
Post ==
    /\ up
    /\ mail = "none"
    /\ mail' = IF subscribed THEN "queued" ELSE "gone"
    /\ UNCHANGED <<up, subscribed, owner, beat, paho, engine, abandoned, faults>>

\* The message is sent on the session's connection.  A client that has no
\* route for it yet leaves it unacknowledged, and the broker sends it again
\* when the session is next connected.
DeliverMail ==
    /\ mail = "queued"
    /\ subscribed
    /\ owner # None
    /\ mail' = IF owner \in routed THEN "handled" ELSE "unrouted"
    /\ UNCHANGED <<up, subscribed, owner, beat, paho, engine, abandoned, faults>>

\* A connection that carries nothing is lost: paho reconnects.
Notice(c) ==
    /\ status[c] = "open"
    /\ owner # c
    /\ status' = [status EXCEPT ![c] = "lost"]
    /\ UNCHANGED <<broker, routed, handlers, engine, abandoned, faults>>

\* A client connects: it takes the session from the client that had it, and
\* its OnConnect handler is called.  A lost client backs off for a second or
\* more, by when a handler that was called has subscribed or failed.
Establish(c) ==
    /\ up
    /\ status[c] = "trying" \/ (status[c] = "lost" /\ handlers = {})
    /\ status' = [status EXCEPT ![c] = "open"]
    /\ owner' = c
    /\ beat' = FALSE
    /\ mail' = IF mail = "unrouted" THEN "queued" ELSE mail
    /\ handlers' = handlers \cup {c}
    /\ UNCHANGED <<up, subscribed, routed, engine, abandoned, faults>>

\* The handler subscribes, and the broker answers.
Subscribe(c) ==
    /\ c \in handlers
    /\ owner = c
    /\ handlers' = handlers \ {c}
    /\ routed' = routed \cup {c}
    /\ subscribed' = TRUE
    /\ UNCHANGED <<up, owner, beat, mail, status, engine, abandoned, faults>>

\* The handler waits for an answer that does not come (tokenWait): the error
\* is logged, and nothing tries again before the next connect.
SubscribeTimesOut(c) ==
    /\ c \in handlers
    /\ status[c] = "open"
    /\ IF owner = c THEN Fault ELSE UNCHANGED faults
    /\ handlers' = handlers \ {c}
    /\ routed' = routed \cup {c}
    /\ UNCHANGED <<broker, status, engine, abandoned>>

\* The client is no longer connected: paho refuses before it adds a route.
SubscribeRefused(c) ==
    /\ c \in handlers
    /\ status[c] # "open"
    /\ handlers' = handlers \ {c}
    /\ UNCHANGED <<broker, status, routed, engine, abandoned, faults>>

\* onMessage: the heartbeat is back, on whichever client has the session.
LoopBack ==
    /\ beat
    /\ Hears
    /\ beat' = FALSE
    /\ silent' = 0
    /\ UNCHANGED <<up, subscribed, owner, mail, paho, client, run, pub, abandoned, faults>>

--------------------------------------------------------------------------------
(* The engine.                                                             *)

\* recover, without the assignment that forgets the old client.
RecoverKeeping == UNCHANGED client

\* recover, in the lock: the client in use is forgotten.
Recover == client' = None

\* recover, without Disconnect.
DisconnectSkipped(c) == UNCHANGED <<status, owner>>

\* recover, out of the lock: the client it forgot is disconnected for good.
Disconnect(c) ==
    /\ status' = [status EXCEPT ![c] = "closed"]
    /\ owner' = IF owner = c THEN None ELSE owner

\* Publish, in the lock: it takes the client, or fails for want of one.
PublishRead ==
    /\ pub = None
    /\ client # None
    /\ pub' = client
    /\ UNCHANGED <<broker, paho, client, silent, run, abandoned, faults>>

\* Publish, out of the lock: the client it took has sent, refused, or not answered
\* within tokenWait.
PublishDone ==
    /\ pub # None
    /\ pub' = None
    /\ UNCHANGED <<broker, paho, client, silent, run, abandoned, faults>>

\* What a minute leaves no room for: a loopback under way, a handler yet to
\* subscribe, a first connect the broker would accept.
Within == (beat /\ Hears) \/ handlers # {} \/ (up /\ \E c \in Clients : status[c] = "trying")

\* The stall as it would be if the watchdog trusted paho.
StalledIfClosed(age) == age > Stall /\ client # None /\ status[client] # "open"

Stalled(age) == age > Stall

\* The check for a connection, without the one for a client.
OpenUnchecked(c) == c = None \/ status[c] = "open"

\* The heartbeat is published only on a client with an open connection.
IsConnectionOpen(c) == c # None /\ status[c] = "open"

\* The ticker fires: the heartbeat goroutine reads client and lastSeen.
Tick ==
    /\ run.pc = "idle"
    /\ ~Within
    /\ LET age == IF silent > Stall THEN silent ELSE silent + 1 IN
       /\ silent' = age
       /\ run' = [pc |-> IF IsConnectionOpen(client) THEN "publish" ELSE "check",
                  c |-> client, stalled |-> Stalled(age), starting |-> FALSE]
    /\ UNCHANGED <<broker, paho, client, pub, abandoned, faults>>

\* The heartbeat is published at QoS 0, on a connection that may be dead.
PublishBeat ==
    /\ run.pc = "publish"
    /\ run' = [run EXCEPT !.pc = "check"]
    /\ beat' = (beat \/ (owner = run.c /\ subscribed))
    /\ UNCHANGED <<up, subscribed, owner, mail, paho, client, silent, pub, abandoned, faults>>

\* The stall was computed from what the tick read.  A client to forget is one to
\* disconnect.
Check ==
    /\ run.pc = "check"
    /\ \/ /\ ~run.stalled
          /\ run' = [pc |-> "idle", starting |-> FALSE]
          /\ UNCHANGED client
       \/ /\ run.stalled
          /\ Recover
          /\ run' = IF run.c = None
                    THEN [pc |-> "dial", starting |-> FALSE]
                    ELSE [pc |-> "drop", c |-> run.c, starting |-> FALSE]
    /\ UNCHANGED <<broker, paho, silent, pub, abandoned, faults>>

Drop ==
    /\ run.pc = "drop"
    /\ Disconnect(run.c)
    /\ run' = [pc |-> "dial", starting |-> FALSE]
    /\ UNCHANGED <<up, subscribed, beat, mail, routed, handlers, client, silent, pub>>
    /\ UNCHANGED <<abandoned, faults>>

\* connect makes a client and lets it try.
Dial ==
    /\ run.pc = "dial"
    /\ \E c \in Unused :
         /\ status' = [status EXCEPT ![c] = "trying"]
         /\ routed' = routed \ {c}
         /\ run' = [pc |-> "await", c |-> c, starting |-> run.starting]
    /\ UNCHANGED <<broker, handlers, client, silent, pub, abandoned, faults>>

\* Engine.lastSeen as connect leaves it.
SeenKept == silent

SeenNow == 0

\* connect returns: its client connected, be it lost again since.
Connected ==
    /\ run.pc = "await"
    /\ status[run.c] \in {"open", "lost"}
    /\ client' = run.c
    /\ silent' = SeenNow
    /\ run' = [pc |-> "idle", starting |-> FALSE]
    /\ UNCHANGED <<broker, paho, pub, abandoned, faults>>

\* connect gives up after 30 s, which is several attempts: there is no broker.
\* The client keeps trying.  Outages end while there are objects left.
ConnectTimesOut ==
    /\ run.pc = "await"
    /\ ~run.starting
    /\ ~up
    /\ status[run.c] = "trying"
    /\ Cardinality(Unused) > 1
    /\ abandoned' = abandoned \cup {run.c}
    /\ run' = [pc |-> "idle", starting |-> FALSE]
    /\ UNCHANGED <<broker, paho, client, silent, pub, faults>>

\* The process ends, and compose starts it again.
Restart ==
    /\ status' = [c \in Clients |-> "unused"]
    /\ routed' = {}
    /\ handlers' = {}
    /\ client' = None
    /\ pub' = None
    /\ silent' = 0
    /\ run' = [pc |-> "dial", starting |-> TRUE]
    /\ abandoned' = {}
    /\ owner' = None
    /\ beat' = FALSE
    /\ UNCHANGED <<up, subscribed, mail>>

\* Run's own connect gives up: Run returns an error and main with it.
Exit ==
    /\ run.pc = "await"
    /\ run.starting
    /\ ~up
    /\ status[run.c] = "trying"
    /\ Restart
    /\ UNCHANGED faults

Crash == Fault /\ Restart

Heartbeat == Tick \/ PublishBeat \/ Check \/ Drop

Publisher == PublishRead \/ PublishDone

Connect == Dial \/ Connected \/ ConnectTimesOut \/ Exit

Paho(c) ==
    Notice(c) \/ Establish(c) \/ Subscribe(c) \/ SubscribeTimesOut(c) \/ SubscribeRefused(c)

Next ==
    \/ BrokerDown \/ BrokerUp
    \/ \E c \in Clients : Paho(c)
    \/ LoopBack \/ Post \/ DeliverMail
    \/ Heartbeat \/ Connect \/ Publisher \/ Crash

Spec == Init /\ [][Next]_vars

\* The broker comes back; paho notices, reconnects and calls its handler; the
\* loopback and the ticker's goroutine run; a Publish ends with tokenWait.
Fairness ==
    /\ WF_vars(BrokerUp)
    /\ \A c \in Clients :
         /\ WF_vars(Notice(c))
         /\ WF_vars(Establish(c))
         /\ WF_vars(Subscribe(c) \/ SubscribeTimesOut(c) \/ SubscribeRefused(c))
    /\ WF_vars(LoopBack)
    /\ WF_vars(DeliverMail)
    /\ WF_vars(Heartbeat)
    /\ WF_vars(Dial \/ Connected)
    /\ WF_vars(PublishDone)

FairSpec == Spec /\ Fairness

--------------------------------------------------------------------------------

\* Every client object at work is the engine's, or the one recover is about to
\* disconnect or connect is waiting for, or one connect gave up on: however clients
\* are lost, taken over and rebuilt, a rebuild leaves none of its own behind
\* (mqtt.go 361-374).
NoneLeftBehind ==
    Working \subseteq
        {client} \cup abandoned \cup (IF run.pc \in {"drop", "await"} THEN {run.c} ELSE {})

\* The engine's client has not been disconnected; and the client a Publish took in
\* the lock and uses outside it (mqtt.go 417-428) is still the engine's, or is being
\* or has been disconnected by recover (361-367) and refuses from then on: a Publish
\* never goes on with a client that works beside the engine's.
ClientInUse ==
    /\ client # None => status[client] \in {"open", "lost"}
    /\ pub # None =>
         \/ pub = client
         \/ run.pc = "drop" /\ run.c = pub
         \/ status[pub] = "closed"

\* Whatever fails (the broker, its persistence, a subscription's answer, the
\* process), messages reach the engine again: a client that is connected but
\* deaf does not stay so (mqtt.go 36-39, 353-374).
HeardAgain == []<>Hears

\* When no client was given up on, the connection comes to rest: the watchdog
\* does not go on rebuilding a client that hears.
Settles == <>[](abandoned = {}) => <>[]Hears

\* mqtt.go 7-10: "this client uses a persistent session (CleanSession=false,
\* fixed client id, QoS 1) so Mosquitto queues sensors/alerts and
\* frigate/reviews while sentinel is down": what is queued is handled.
QueuedIsHandled == mail \in {"queued", "unrouted"} ~> mail \in {"handled", "gone"}
================================================================================
