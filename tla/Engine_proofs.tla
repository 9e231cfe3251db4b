----------------------------- MODULE Engine_proofs -----------------------------
(***************************************************************************)
(* Proofs about the engine's two halves, for any number of clients,        *)
(* requests and faults.  MqttEngine: it loses track of no client object    *)
(* but those connect gave up on, holds none that is disconnected, and what *)
(* a Publish has taken is its own or refuses.                              *)
(* ActionTopics: the value retained for Marshal agrees with Marshal        *)
(* between requests that ran one by one.                                   *)
(***************************************************************************)
EXTENDS MqttEngine, ActionTopics, TLAPS

\* The initial state has the types.
LEMMA InitTyped == Init => TypeOK
<1>1. 0 \in 0 .. Stall + 1
  BY MqttEngineAssumption
<1>2. [pc |-> "dial", starting |-> TRUE] \in Round
  BY DEF Round
<1>3. ASSUME Init
      PROVE  /\ up \in BOOLEAN /\ subscribed \in BOOLEAN /\ beat \in BOOLEAN
             /\ owner \in Clients \cup {None} /\ client \in Clients \cup {None}
             /\ pub \in Clients \cup {None}
             /\ mail \in {"none", "queued", "unrouted", "handled", "gone"}
             /\ routed \in SUBSET Clients /\ handlers \in SUBSET Clients
             /\ abandoned \in SUBSET Clients
  BY <1>3 DEF Init
<1>4. ASSUME Init
      PROVE  /\ status \in [Clients -> Alive \cup {"unused", "closed"}]
             /\ silent \in 0 .. Stall + 1 /\ run \in Round /\ faults \in Nat
  <2>1. status = [c \in Clients |-> "unused"] /\ run = [pc |-> "dial", starting |-> TRUE]
        /\ silent = 0 /\ faults = 0
    BY <1>4 DEF Init
  <2>2. [c \in Clients |-> "unused"] \in [Clients -> Alive \cup {"unused", "closed"}]
    OBVIOUS
  <2>3. QED
    BY <1>1, <1>2, <2>1, <2>2
<1>5. QED
  BY <1>3, <1>4 DEF TypeOK

\* What the broker and paho do keeps the types.
LEMMA BrokerTyped ==
  ASSUME TypeOK, BrokerDown \/ BrokerUp \/ Post \/ DeliverMail \/ LoopBack
  PROVE  TypeOK'
<1>1. CASE BrokerDown
  <2>1. mail' \in {mail, Dropped}
    BY <1>1 DEF BrokerDown
  <2>2. mail' \in {"none", "queued", "unrouted", "handled", "gone"}
    BY <2>1 DEF Dropped, TypeOK
  <2>3. faults' \in Nat
    BY <1>1 DEF BrokerDown, Fault, TypeOK
  <2>4. subscribed' = subscribed \/ subscribed' = FALSE
    BY <1>1 DEF BrokerDown
  <2>5. subscribed' \in BOOLEAN
    BY <2>4 DEF TypeOK
  <2>6. QED
    BY <1>1, <2>2, <2>3, <2>5 DEF BrokerDown, TypeOK, paho, engine
<1>2. CASE BrokerUp \/ Post \/ DeliverMail
  BY <1>2 DEF BrokerUp, Post, DeliverMail, TypeOK, paho, engine
<1>3. CASE LoopBack
  <2>1. 0 \in 0 .. Stall + 1
    BY MqttEngineAssumption
  <2>2. QED
    BY <1>3, <2>1 DEF LoopBack, TypeOK, paho
<1>4. QED
  BY <1>1, <1>2, <1>3

\* Paho's own steps (the dial, the subscription, the noticed loss) keep the types.
LEMMA PahoTyped ==
  ASSUME TypeOK, NEW c \in Clients, Paho(c)
  PROVE  TypeOK'
<1>1. CASE Notice(c) \/ Establish(c)
  BY <1>1 DEF Notice, Establish, Alive, TypeOK, broker, engine
<1>2. CASE Subscribe(c)
  BY <1>2 DEF Subscribe, TypeOK, engine
<1>3. CASE SubscribeTimesOut(c) \/ SubscribeRefused(c)
  BY <1>3 DEF SubscribeTimesOut, SubscribeRefused, Fault, TypeOK, broker, engine
<1>4. QED
  BY <1>1, <1>2, <1>3 DEF Paho

\* A Disconnect keeps the types.
LEMMA DisconnectTyped ==
  ASSUME TypeOK, NEW c \in Clients, Disconnect(c)
  PROVE  /\ status' \in [Clients -> Alive \cup {"unused", "closed"}]
         /\ owner' \in Clients \cup {None}
BY DEF Disconnect, TypeOK

\* What the engine does keeps the types.
LEMMA HeartbeatTyped == TypeOK /\ Heartbeat => TypeOK'
<1> SUFFICES ASSUME TypeOK, Heartbeat PROVE TypeOK'
  OBVIOUS
<1>1. CASE Tick
  <2>1. silent' \in 0 .. Stall + 1
    BY <1>1, MqttEngineAssumption DEF Tick, TypeOK
  <2>2. ASSUME NEW stalled \in BOOLEAN
        PROVE  [pc |-> IF IsConnectionOpen(client) THEN "publish" ELSE "check",
                c |-> client, stalled |-> stalled, starting |-> FALSE] \in Round
    BY DEF TypeOK, IsConnectionOpen, Round
  <2>3. \A age : Stalled(age) \in BOOLEAN
    BY DEF Stalled
  <2>4. run' \in Round
    BY <1>1, <2>2, <2>3 DEF Tick
  <2>5. QED
    BY <1>1, <2>1, <2>4 DEF Tick, TypeOK, broker, paho
<1>2. CASE PublishBeat
  <2>1. run' \in Round
    BY <1>2 DEF PublishBeat, TypeOK, Round
  <2>2. beat' \in BOOLEAN
    BY <1>2 DEF PublishBeat
  <2>3. QED
    BY <1>2, <2>1, <2>2 DEF PublishBeat, TypeOK, paho
<1>3. CASE Check
  <2>1. run.c \in Clients \cup {None}
    BY <1>3 DEF Check, TypeOK, Round
  <2>2. run' \in Round
    <3>1. [pc |-> "idle", starting |-> FALSE] \in Round /\ [pc |-> "dial", starting |-> FALSE] \in Round
      BY DEF Round
    <3>2. run.c # None => [pc |-> "drop", c |-> run.c, starting |-> FALSE] \in Round
      BY <2>1 DEF Round
    <3>3. QED
      BY <1>3, <3>1, <3>2 DEF Check
  <2>3. client' \in Clients \cup {None}
    BY <1>3 DEF Check, Recover, TypeOK
  <2>4. QED
    BY <1>3, <2>2, <2>3 DEF Check, TypeOK, broker, paho
<1>4. CASE Drop
  <2>1. run.c \in Clients
    BY <1>4 DEF Drop, TypeOK, Round
  <2>2. /\ status' \in [Clients -> Alive \cup {"unused", "closed"}]
        /\ owner' \in Clients \cup {None}
    BY <1>4, <2>1, DisconnectTyped DEF Drop
  <2>3. run' \in Round
    BY <1>4 DEF Drop, Round
  <2>4. QED
    BY <1>4, <2>2, <2>3 DEF Drop, TypeOK
<1>5. QED
  BY <1>1, <1>2, <1>3, <1>4 DEF Heartbeat

\* A Publish takes a client, and lets go of it.
LEMMA PublisherTyped == TypeOK /\ Publisher => TypeOK'
BY DEF Publisher, PublishRead, PublishDone, TypeOK, broker, paho

\* A restart leaves the types.
LEMMA RestartTyped == TypeOK /\ Restart /\ faults' \in Nat => TypeOK'
<1>1. 0 \in 0 .. Stall + 1
  BY MqttEngineAssumption
<1>2. [pc |-> "dial", starting |-> TRUE] \in Round
  BY DEF Round
<1>3. QED
  BY <1>1, <1>2 DEF Restart, TypeOK

\* A connect (the dial, its success or its time-out, the exit after one) keeps the types.
LEMMA ConnectTyped == TypeOK /\ Connect => TypeOK'
<1> SUFFICES ASSUME TypeOK, Connect PROVE TypeOK'
  OBVIOUS
<1>1. CASE Dial
  <2>1. PICK c \in Unused :
          /\ status' = [status EXCEPT ![c] = "trying"]
          /\ routed' = routed \ {c}
          /\ run' = [pc |-> "await", c |-> c, starting |-> run.starting]
    BY <1>1 DEF Dial
  <2>2. c \in Clients /\ run.starting \in BOOLEAN
    BY <1>1 DEF Unused, Dial, TypeOK, Round
  <2>3. run' \in Round
    BY <2>1, <2>2 DEF Round
  <2>4. QED
    BY <1>1, <2>1, <2>2, <2>3 DEF Dial, TypeOK, Alive, broker
<1>2. CASE Connected
  <2>1. run.c \in Clients
    BY <1>2 DEF Connected, TypeOK, Round
  <2>2. QED
    BY <1>2, <2>1, MqttEngineAssumption DEF Connected, SeenNow, TypeOK, Round, broker, paho
<1>3. CASE ConnectTimesOut
  <2>1. run.c \in Clients
    BY <1>3 DEF ConnectTimesOut, TypeOK, Round
  <2>2. QED
    BY <1>3, <2>1 DEF ConnectTimesOut, TypeOK, Round, broker, paho
<1>4. CASE Exit
  BY <1>4, RestartTyped DEF Exit, TypeOK
<1>5. QED
  BY <1>1, <1>2, <1>3, <1>4 DEF Connect

\* Every variable of MqttEngine keeps its type: the heartbeat is published
\* with a client in hand (mqtt.go, heartbeat).
THEOREM TypeCorrect == Spec => []TypeOK
<1>1. TypeOK /\ [Next]_vars => TypeOK'
  <2> SUFFICES ASSUME TypeOK, [Next]_vars PROVE TypeOK'
    OBVIOUS
  <2>1. CASE Crash
    BY <2>1, RestartTyped DEF Crash, Fault, TypeOK
  <2>2. CASE UNCHANGED vars
    BY <2>2 DEF vars, broker, paho, engine, TypeOK
  <2>3. QED
    BY <2>1, <2>2, BrokerTyped, PahoTyped, HeartbeatTyped, ConnectTyped, PublisherTyped DEF Next
<1>2. QED
  BY <1>1, InitTyped, PTL DEF Spec

--------------------------------------------------------------------------------
(* The engine's hold on its clients: it has at most one, as long as it is  *)
(* connected or lost, forgets it before it disconnects it and dials, and   *)
(* checks the one that the tick read; the one a Publish has taken is it or *)
(* has been.                                                               *)

\* The second part of ClientInUse.
Taken ==
    pub # None =>
        \/ pub = client
        \/ run.pc = "drop" /\ run.c = pub
        \/ status[pub] = "closed"

Held ==
    /\ client # None => status[client] \in {"open", "lost"}
    /\ run.pc \in {"drop", "dial", "await"} => client = None
    /\ run.pc \in {"publish", "check"} => run.c = client
    /\ Taken

Tracked == Held /\ NoneLeftBehind

\* Nothing but the engine changes its hold, and paho makes no client work.
LEMMA OthersTrack ==
  ASSUME TypeOK, Tracked,
         UNCHANGED <<client, run, pub, abandoned>>,
         \A c \in Clients : \/ status'[c] = status[c]
                            \/ status[c] \in Alive /\ status'[c] \in {"open", "lost"}
  PROVE  Tracked'
<1>1. Working' \subseteq Working
  BY DEF Working, Alive
<1>2. Held'
  <2>1. Taken'
    BY DEF Tracked, Held, Taken, TypeOK, Alive
  <2>2. QED
    BY <2>1 DEF Tracked, Held, TypeOK
<1>3. NoneLeftBehind'
  BY <1>1 DEF Tracked, NoneLeftBehind
<1>4. QED
  BY <1>2, <1>3 DEF Tracked

\* Paho's own steps leave the engine holding the client that works.
LEMMA PahoTracks ==
  ASSUME TypeOK, Tracked, NEW c \in Clients, Paho(c)
  PROVE  Tracked'
<1>1. UNCHANGED <<client, run, pub, abandoned>>
  BY DEF Paho, Notice, Establish, Subscribe, SubscribeTimesOut, SubscribeRefused, engine
<1>2. \A d \in Clients : \/ status'[d] = status[d]
                         \/ status[d] \in Alive /\ status'[d] \in {"open", "lost"}
  BY DEF Paho, Notice, Establish, Subscribe, SubscribeTimesOut, SubscribeRefused, Alive, TypeOK
<1>3. QED
  BY <1>1, <1>2, OthersTrack

\* The heartbeat goroutine gives up on a client before it makes another.
LEMMA HeartbeatTracks == TypeOK /\ Tracked /\ Heartbeat => Tracked'
<1> SUFFICES ASSUME TypeOK, Tracked, Heartbeat PROVE Tracked'
  OBVIOUS
<1>1. CASE Tick
  <2>1. /\ run' = [pc |-> IF IsConnectionOpen(client) THEN "publish" ELSE "check",
                   c |-> client, stalled |-> Stalled(silent'), starting |-> FALSE]
        /\ run.pc = "idle"
        /\ UNCHANGED <<status, client, pub, abandoned>>
    BY <1>1 DEF Tick, paho
  <2>2. run'.pc \in {"publish", "check"} /\ run'.c = client
    BY <2>1
  <2>3. QED
    BY <2>1, <2>2 DEF Tracked, Held, Taken, NoneLeftBehind, Working
<1>2. CASE PublishBeat
  <2>1. run'.pc = "check" /\ run'.c = run.c
    BY <1>2 DEF PublishBeat, TypeOK, Round
  <2>2. run.pc = "publish" /\ UNCHANGED <<status, client, pub, abandoned>>
    BY <1>2 DEF PublishBeat, paho
  <2>3. QED
    BY <2>1, <2>2 DEF Tracked, Held, Taken, NoneLeftBehind, Working
<1>3. CASE Check /\ ~run.stalled
  <2>1. /\ run.pc = "check" /\ run'.pc = "idle"
        /\ UNCHANGED <<status, client, pub, abandoned>>
    BY <1>3 DEF Check, paho
  <2>2. QED
    BY <2>1 DEF Tracked, Held, Taken, NoneLeftBehind, Working
<1>4. CASE Check /\ run.stalled
  <2>1. /\ run.pc = "check" /\ run.c = client /\ client' = None
        /\ UNCHANGED <<status, pub, abandoned>>
    BY <1>4 DEF Check, Recover, Tracked, Held, paho
  <2>2. IF client = None THEN run'.pc = "dial" ELSE run'.pc = "drop" /\ run'.c = client
    BY <1>4, <2>1 DEF Check
  <2>3. NoneLeftBehind'
    BY <2>1, <2>2, MqttEngineAssumption DEF Tracked, NoneLeftBehind, Working
  <2>4. Taken'
    BY <2>1, <2>2 DEF Tracked, Held, Taken
  <2>5. QED
    BY <2>1, <2>2, <2>3, <2>4 DEF Tracked, Held
<1>5. CASE Drop
  <2>1. /\ run.pc = "drop" /\ run'.pc = "dial" /\ client = None /\ run.c \in Clients
        /\ UNCHANGED <<client, pub, abandoned>>
    BY <1>5 DEF Drop, Tracked, Held, TypeOK, Round
  <2>2. status' = [status EXCEPT ![run.c] = "closed"]
    BY <1>5 DEF Drop, Disconnect
  <2>3. Working' \subseteq Working \ {run.c}
    BY <2>1, <2>2 DEF Working, Alive, TypeOK
  <2>4. Working \subseteq {client, run.c} \cup abandoned
    BY <2>1 DEF Tracked, NoneLeftBehind
  <2>5. NoneLeftBehind'
    BY <2>1, <2>3, <2>4 DEF NoneLeftBehind
  <2>6. Taken'
    BY <2>1, <2>2 DEF Tracked, Held, Taken, TypeOK
  <2>7. QED
    BY <2>1, <2>5, <2>6 DEF Tracked, Held
<1>6. QED
  BY <1>1, <1>2, <1>3, <1>4, <1>5 DEF Heartbeat

\* A Publish takes the client the engine has.
LEMMA PublisherTracks == TypeOK /\ Tracked /\ Publisher => Tracked'
<1> SUFFICES ASSUME TypeOK, Tracked, Publisher PROVE Tracked'
  OBVIOUS
<1>1. UNCHANGED <<status, client, run, abandoned>> /\ pub' \in {client, None}
  BY DEF Publisher, PublishRead, PublishDone, paho
<1>2. QED
  BY <1>1 DEF Tracked, Held, Taken, NoneLeftBehind, Working

\* A new process holds no client, and has left none behind.
LEMMA RestartTracks == Restart => Tracked'
BY MqttEngineAssumption DEF Restart, Tracked, Held, Taken, NoneLeftBehind, Working, Alive

\* A connect that times out leaves behind the client it marks abandoned, and no other.
LEMMA ConnectTracks == TypeOK /\ Tracked /\ Connect => Tracked'
<1> SUFFICES ASSUME TypeOK, Tracked, Connect PROVE Tracked'
  OBVIOUS
<1>1. CASE Dial
  <2>1. PICK c \in Unused :
          /\ status' = [status EXCEPT ![c] = "trying"]
          /\ run' = [pc |-> "await", c |-> c, starting |-> run.starting]
    BY <1>1 DEF Dial
  <2>2. /\ c \in Clients /\ c # pub /\ run.pc = "dial" /\ client = None
        /\ UNCHANGED <<client, pub, abandoned>>
    BY <1>1 DEF Unused, Dial, Tracked, Held
  <2>3. Working' \subseteq Working \cup {c}
    BY <2>1, <2>2 DEF Working, TypeOK
  <2>4. Working \subseteq {client} \cup abandoned
    BY <2>2 DEF Tracked, NoneLeftBehind
  <2>5. NoneLeftBehind'
    BY <2>1, <2>2, <2>3, <2>4 DEF NoneLeftBehind
  <2>6. Taken'
    BY <2>1, <2>2 DEF Tracked, Held, Taken, TypeOK
  <2>7. QED
    BY <2>1, <2>2, <2>5, <2>6 DEF Tracked, Held
<1>2. CASE Connected
  <2>1. /\ run.pc = "await" /\ run'.pc = "idle" /\ client' = run.c /\ client = None
        /\ status[run.c] \in {"open", "lost"} /\ UNCHANGED <<status, pub, abandoned>>
    BY <1>2 DEF Connected, Tracked, Held, paho
  <2>2. Working \subseteq {None, run.c} \cup abandoned
    BY <2>1 DEF Tracked, NoneLeftBehind
  <2>3. NoneLeftBehind'
    BY <2>1, <2>2, MqttEngineAssumption DEF NoneLeftBehind, Working
  <2>4. QED
    BY <2>1, <2>3 DEF Tracked, Held, Taken
<1>3. CASE ConnectTimesOut
  <2>1. /\ run.pc = "await" /\ run'.pc = "idle" /\ client = None
        /\ abandoned' = abandoned \cup {run.c} /\ UNCHANGED <<client, status, pub>>
    BY <1>3 DEF ConnectTimesOut, Tracked, Held, paho
  <2>2. NoneLeftBehind'
    BY <2>1 DEF Tracked, NoneLeftBehind, Working
  <2>3. QED
    BY <2>1, <2>2 DEF Tracked, Held, Taken
<1>4. CASE Exit
  BY <1>4, RestartTracks DEF Exit
<1>5. QED
  BY <1>1, <1>2, <1>3, <1>4 DEF Connect

\* The engine keeps its hold in every reachable state.
LEMMA AlwaysTracked == Spec => []Tracked
<1>1. Init => Tracked
  BY MqttEngineAssumption DEF Init, Tracked, Held, Taken, NoneLeftBehind, Working, Alive
<1>2. TypeOK /\ Tracked /\ [Next]_vars => Tracked'
  <2> SUFFICES ASSUME TypeOK, Tracked, [Next]_vars PROVE Tracked'
    OBVIOUS
  <2>1. CASE BrokerDown \/ BrokerUp \/ Post \/ DeliverMail \/ LoopBack \/ UNCHANGED vars
    <3>1. UNCHANGED <<client, run, pub, abandoned, status>>
      BY <2>1 DEF BrokerDown, BrokerUp, Post, DeliverMail, LoopBack, vars, paho, engine
    <3>2. QED
      BY <3>1, OthersTrack
  <2>2. QED
    BY <2>1, PahoTracks, HeartbeatTracks, ConnectTracks, PublisherTracks, RestartTracks
    DEF Next, Crash
<1>3. QED
  BY <1>1, <1>2, TypeCorrect, PTL DEF Spec

\* A rebuild leaves no client of its own behind: what is at work is the
\* engine's, connect's, or was given up on (mqtt.go, recover, connect).
THEOREM NoClientLost == Spec => []NoneLeftBehind
<1>1. Tracked => NoneLeftBehind
  BY DEF Tracked
<1>2. QED
  BY <1>1, AlwaysTracked, PTL

\* The engine never holds a client it has disconnected, and the client a Publish
\* uses without the lock is the engine's, or one recover disconnects or has
\* disconnected (mqtt.go, recover, Publish).
THEOREM ClientsInHand == Spec => []ClientInUse
<1>1. Tracked => ClientInUse
  BY DEF Tracked, Held, Taken, ClientInUse
<1>2. QED
  BY <1>1, AlwaysTracked, PTL
--------------------------------------------------------------------------------
(* ActionTopics: types.                                                    *)

\* A request that is under way.
Waits == [pc : {"publish", "wait"}, op : Ops, step : 1 .. 2]

\* What a message is taken for keeps the types of the broker's and Marshal's
\* states, and what the mirror is told is a topic it mirrors with a payload.
LEMMA TakeTyped ==
  ASSUME ActionsTypeOK, NEW topic \in Topics, NEW payload \in Payloads,
         NEW retain \in BOOLEAN, Take(topic, payload, retain)
  PROVE  /\ retained' \in [Topics -> Payloads] /\ parked' \in BOOLEAN
         /\ echoes' \in SUBSET (Mirrored \X Payloads)
<1>1. parked' \in BOOLEAN
  BY DEF ActionsTypeOK, Take, ParkedBy
<1>2. retained' \in [Topics -> Payloads]
  <2>1. \A b \in BOOLEAN : OwnerIf(b) \in Payloads
    BY DEF OwnerIf, Payloads
  <2>2. (IF topic = "enable" THEN ParkedBy(payload) ELSE parked) \in BOOLEAN
    BY DEF ActionsTypeOK, ParkedBy
  <2>3. QED
    BY <2>1, <2>2 DEF ActionsTypeOK, Take, Topics
<1>3. \A set \in SUBSET Topics : Told(set, retained') \subseteq Mirrored \X Payloads
  BY <1>2 DEF Told, Topics
<1>4. echoes' \in SUBSET (Mirrored \X Payloads)
  <2>1. {"state"} \subseteq Topics /\ {topic} \subseteq Topics
    BY DEF Topics, Mirrored
  <2>2. QED
    BY <1>3, <2>1 DEF ActionsTypeOK, Take
<1>5. QED
  BY <1>1, <1>2, <1>4

\* What a request publishes is a message.
LEMMA MessageTyped ==
  ASSUME NEW op \in Ops, NEW step \in 1 .. 2
  PROVE  /\ Message(op, step)[1] \in Topics /\ Message(op, step)[2] \in Payloads
         /\ Message(op, step)[3] \in BOOLEAN
BY DEF Message, Ops, Topics, Payloads, Mirrored

\* Reading the rules leaves the cache with a list, and fresh.
LEMMA RulesTyped ==
  ASSUME ActionsTypeOK, Rules
  PROVE  /\ file' \in BOOLEAN /\ cache' \in {"empty", "rules"} /\ fresh' \in BOOLEAN
BY DEF ActionsTypeOK, Rules, Known

\* The first state has the types.
LEMMA ActionsInitTyped == ActionsInit => ActionsTypeOK
<1> SUFFICES ASSUME ActionsInit PROVE ActionsTypeOK
  OBVIOUS
<1>1. retained \in [Topics -> Payloads] /\ mirror \in [Mirrored -> Payloads]
  BY DEF ActionsInit, Payloads
<1>2. req \in [Requests -> [pc : {"idle"}] \cup Waits]
  BY DEF ActionsInit, Idle
<1>3. /\ parked \in BOOLEAN /\ link \in BOOLEAN /\ listening \in BOOLEAN
      /\ file \in BOOLEAN /\ fresh \in BOOLEAN /\ mixed \in BOOLEAN
      /\ fresh => cache # "nil"
  BY DEF ActionsInit
<1>4. QED
  BY <1>1, <1>2, <1>3 DEF ActionsInit, ActionsTypeOK, Waits

\* Each step keeps the types.
LEMMA ActionsStepTyped == ActionsTypeOK /\ [ActionsNext]_actionVars => ActionsTypeOK'
<1> SUFFICES ASSUME ActionsTypeOK, [ActionsNext]_actionVars PROVE ActionsTypeOK'
  OBVIOUS
<1>1. ASSUME NEW p \in {"none", "true", "false"}, PublishElsewhere(p) PROVE ActionsTypeOK'
  <2>1. p \in Payloads /\ "active" \in Topics
    BY DEF Payloads, Topics, Mirrored
  <2>2. /\ retained' \in [Topics -> Payloads] /\ parked' \in BOOLEAN
        /\ echoes' \in SUBSET (Mirrored \X Payloads)
    BY <1>1, <2>1, TakeTyped DEF PublishElsewhere
  <2>3. ops' \in Nat
    <3>1. ops \in Nat /\ ops' = ops + 1
      BY <1>1 DEF PublishElsewhere, Op, ActionsTypeOK
    <3>2. QED
      BY <3>1
  <2>4. UNCHANGED <<link, listening, outbox, mirror, file, cache, fresh, req, mixed, upsets>>
    BY <1>1 DEF PublishElsewhere, reader
  <2>5. QED
    BY <2>2, <2>3, <2>4 DEF ActionsTypeOK
<1>2. ASSUME NEW starts \in BOOLEAN, MarshalReturns(starts) PROVE ActionsTypeOK'
  <2>1. parked' \in BOOLEAN
    BY <1>2 DEF MarshalReturns, ActionsTypeOK
  <2>2. retained' \in [Topics -> Payloads]
    BY <1>2, <2>1 DEF MarshalReturns, ActionsTypeOK, OwnerIf, Payloads
  <2>3. echoes' \in SUBSET (Mirrored \X Payloads)
    <3>1. Told({"state"}, retained') \subseteq Mirrored \X Payloads
      BY <2>2 DEF Told, Topics
    <3>2. QED
      BY <1>2, <3>1 DEF MarshalReturns, ActionsTypeOK
  <2>4. mixed' \in BOOLEAN /\ upsets' \in Nat
    <3>1. mixed' \in BOOLEAN
      BY <1>2 DEF MarshalReturns, ActionsTypeOK
    <3>2. upsets' = upsets + 1
      BY <1>2 DEF MarshalReturns, Upset
    <3>3. QED
      BY <3>1, <3>2 DEF ActionsTypeOK
  <2>5. QED
    BY <1>2, <2>1, <2>2, <2>3, <2>4 DEF MarshalReturns, ActionsTypeOK, reader
<1>3. ASSUME NEW m \in outbox, Arrive(m) \/ Ack(m) PROVE ActionsTypeOK'
  <2>1. m \in Publish
    BY DEF ActionsTypeOK
  <2>2. outbox' \in SUBSET Publish
    <3>1. [m EXCEPT !.sent = TRUE] \in Publish
      BY <2>1 DEF Publish
    <3>2. outbox' = (outbox \ {m}) \cup {[m EXCEPT !.sent = TRUE]} \/ outbox' = outbox \ {m}
      BY <1>3 DEF Arrive, Ack
    <3>3. QED
      BY <3>1, <3>2 DEF ActionsTypeOK
  <2>3. CASE Arrive(m)
    <3>1. /\ retained' \in [Topics -> Payloads] /\ parked' \in BOOLEAN
          /\ echoes' \in SUBSET (Mirrored \X Payloads)
      BY <2>1, <2>3, TakeTyped DEF Arrive, Publish
    <3>2. QED
      BY <2>2, <2>3, <3>1 DEF Arrive, ActionsTypeOK, reader
  <2>4. CASE Ack(m)
    BY <2>2, <2>4 DEF Ack, ActionsTypeOK, reader, shared
  <2>5. QED
    BY <1>3, <2>3, <2>4
<1>4. ASSUME NEW rebuilt \in BOOLEAN, LinkDown(rebuilt) PROVE ActionsTypeOK'
  <2>1. outbox' \in SUBSET Publish
    <3>1. \A m \in Publish : [m EXCEPT !.sent = FALSE] \in Publish
      BY DEF Publish
    <3>2. outbox' = {} \/ outbox' = {[m EXCEPT !.sent = FALSE] : m \in outbox}
      BY <1>4 DEF LinkDown
    <3>3. QED
      BY <3>1, <3>2 DEF ActionsTypeOK
  <2>2. req' \in [Requests -> [pc : {"idle"}] \cup Waits]
    BY <1>4 DEF LinkDown, ActionsTypeOK, Idle, Waits
  <2>3. mixed' \in BOOLEAN /\ upsets' \in Nat /\ link' \in BOOLEAN
    <3>1. mixed' \in BOOLEAN /\ link' \in BOOLEAN
      BY <1>4 DEF LinkDown, ActionsTypeOK
    <3>2. QED
      BY <1>4, <3>1 DEF LinkDown, Upset, ActionsTypeOK
  <2>4. echoes' \in SUBSET (Mirrored \X Payloads)
    BY <1>4 DEF LinkDown, ActionsTypeOK
  <2>5. QED
    BY <1>4, <2>1, <2>2, <2>3, <2>4 DEF LinkDown, ActionsTypeOK, shared, reader, Waits
<1>5. CASE LinkUp \/ Deploy \/ FileBack \/ Expire
  <2>1. CASE LinkUp
    BY <2>1 DEF LinkUp, ActionsTypeOK, shared, reader
  <2>2. CASE Deploy \/ FileBack
    <3>1. file' \in BOOLEAN /\ UNCHANGED <<cache, fresh, mixed>>
      BY <2>2 DEF Deploy, FileBack, ActionsTypeOK
    <3>2. QED
      BY <2>2, <3>1 DEF Deploy, FileBack, Upset, ActionsTypeOK, shared, conn
  <2>3. CASE Expire
    BY <2>3 DEF Expire, ActionsTypeOK, shared, conn
  <2>4. QED
    BY <1>5, <2>1, <2>2, <2>3
<1>6. CASE SubscribeStates
  <2>1. file' \in BOOLEAN /\ cache' \in {"empty", "rules"} /\ fresh' \in BOOLEAN
    BY <1>6, RulesTyped DEF SubscribeStates
  <2>2. /\ listening' \in BOOLEAN
        /\ echoes' \in SUBSET (Mirrored \X Payloads)
    <3>1. {<<t, retained[t]>> : t \in {u \in Mirrored : retained[u] # "none"}}
            \subseteq Mirrored \X Payloads
      <4>1. \A t \in Mirrored : retained[t] \in Payloads
        BY DEF ActionsTypeOK, Topics
      <4>2. \A t \in Mirrored : <<t, retained[t]>> \in Mirrored \X Payloads
        BY <4>1
      <4>3. QED
        BY <4>2
    <3>2. QED
      BY <1>6, <3>1 DEF SubscribeStates, ActionsTypeOK
  <2>3. QED
    BY <1>6, <2>1, <2>2 DEF SubscribeStates, ActionsTypeOK, shared
<1>7. ASSUME NEW e \in echoes, OnState(e) PROVE ActionsTypeOK'
  <2>1. e[1] \in Mirrored /\ e[2] \in Payloads
    BY DEF ActionsTypeOK
  <2>2. QED
    BY <1>7, <2>1 DEF OnState, ActionsTypeOK, shared, reader
<1>8. ASSUME NEW q \in Requests, NEW op \in Ops, Request(q, op) PROVE ActionsTypeOK'
  <2>1. file' \in BOOLEAN /\ cache' \in {"empty", "rules"} /\ fresh' \in BOOLEAN
    BY <1>8, RulesTyped DEF Request
  <2>2. req' \in [Requests -> [pc : {"idle"}] \cup Waits]
    BY <1>8 DEF Request, ActionsTypeOK, Waits
  <2>3. mixed' \in BOOLEAN /\ ops' \in Nat
    BY <1>8 DEF Request, Op, Parking, ActionsTypeOK
  <2>4. QED
    BY <1>8, <2>1, <2>2, <2>3 DEF Request, ActionsTypeOK, shared, conn, Waits
<1>9. ASSUME NEW q \in Requests, Handler(q) PROVE ActionsTypeOK'
  <2>1. req[q].pc # "idle" => req[q] \in Waits
    BY DEF ActionsTypeOK, Waits
  <2>2. CASE Send(q)
    <3>1. req[q] \in Waits
      BY <2>1, <2>2 DEF Send
    <3>2. LET m == Message(req[q].op, req[q].step) IN
            [from |-> q, topic |-> m[1], payload |-> m[2], retain |-> m[3], sent |-> FALSE] \in Publish
      BY <3>1, MessageTyped DEF Waits, Publish
    <3>3. outbox' \in SUBSET Publish
      BY <2>2, <3>2 DEF Send, ActionsTypeOK
    <3>4. req' \in [Requests -> [pc : {"idle"}] \cup Waits]
      <4>1. [req[q] EXCEPT !.pc = "wait"] \in Waits
        BY <3>1 DEF Waits
      <4>2. QED
        BY <2>2, <4>1 DEF Send, ActionsTypeOK, Waits
    <3>5. QED
      BY <2>2, <3>3, <3>4 DEF Send, ActionsTypeOK, shared, reader, Waits
  <2>3. CASE Published(q)
    <3>1. req[q] \in Waits
      BY <2>1, <2>3 DEF Published
    <3>2. req' \in [Requests -> [pc : {"idle"}] \cup Waits]
      BY <2>3, <3>1 DEF Published, ActionsTypeOK, Waits, Idle
    <3>3. mirror' \in [Mirrored -> Payloads]
      <4>1. Message(req[q].op, 1)[2] \in Payloads
        BY <3>1, MessageTyped DEF Waits
      <4>2. QED
        BY <2>3, <4>1 DEF Published, ActionsTypeOK
    <3>4. QED
      BY <2>3, <3>2, <3>3 DEF Published, ActionsTypeOK, shared, conn, reader, Waits
  <2>4. CASE PublishFails(q)
    BY <2>4 DEF PublishFails, Parking, ActionsTypeOK, shared, conn, reader, Idle
  <2>5. QED
    BY <1>9, <2>2, <2>3, <2>4 DEF Handler
<1>10. CASE UNCHANGED actionVars
  BY <1>10 DEF actionVars, shared, conn, reader, ActionsTypeOK
<1>11. QED
  BY <1>1, <1>2, <1>3, <1>4, <1>5, <1>6, <1>7, <1>8, <1>9, <1>10 DEF ActionsNext

\* Every variable of the shared topics keeps its type.
THEOREM ActionsTypeCorrect == ActionsSpec => []ActionsTypeOK
<1>1. QED
  BY ActionsInitTyped, ActionsStepTyped, PTL DEF ActionsSpec

--------------------------------------------------------------------------------
(* ActionTopics: Marshal and the value retained for it agree.  A disable   *)
(* changes both at once; an enable resumes Marshal first and clears the    *)
(* retained park after, so in between Marshal is known to be resumed.      *)

\* What q has published and the broker has not taken, or has forgotten, on the
\* enable_topic.
Unsent(q) == \E m \in outbox : m.from = q /\ m.topic = "enable" /\ ~m.sent

\* At most one request parks or resumes.
OneParking == \A o, q \in Requests : Parking(o) /\ Parking(q) => o = q

\* What the client holds for the enable_topic is the message of the step its
\* request is waiting in.
HeldForStep ==
    \A m \in outbox : m.topic = "enable" =>
        /\ Parking(m.from)
        /\ req[m.from].pc = "wait"
        /\ <<m.topic, m.payload, m.retain>> = Message(req[m.from].op, req[m.from].step)

\* The retained value says what Marshal does.
Agree == parked <=> retained["enable"] = "false"

\* How far an enable request has got: Marshal has resumed once the first message
\* is acknowledged, and the retained value is cleared once the second is.
Enabling(q) == req[q].pc # "idle" /\ req[q].op = "enable"

EnableAsFar(q) ==
    /\ req[q].step = 1 /\ req[q].pc = "wait" => ~parked \/ Unsent(q)
    /\ req[q].step = 2 => ~parked
    /\ req[q].step = 2 /\ req[q].pc = "wait" => retained["enable"] = "none" \/ Unsent(q)

ParkInv ==
    mixed \/ /\ OneParking
             /\ HeldForStep
             /\ \A q \in Requests : Enabling(q) => EnableAsFar(q)
             /\ (\A q \in Requests : ~Enabling(q)) => Agree

\* A step that no park request, no message on the enable_topic and no start of
\* Marshal is concerned with.
LEMMA Unconcerned ==
  ASSUME ActionsTypeOK, ParkInv, mixed => mixed',
         retained'["enable"] = retained["enable"], parked' = parked,
         \A q \in Requests : (Parking(q) \/ Parking(q)') => req'[q] = req[q],
         \A m \in outbox' : m.topic = "enable" => m \in outbox,
         \A m \in outbox : m.topic = "enable" => m \in outbox' \/ ~Parking(m.from) \/ m.sent
  PROVE  ParkInv'
<1> SUFFICES ASSUME ~mixed' PROVE ParkInv'
  BY DEF ParkInv
<1>1. /\ OneParking /\ HeldForStep
      /\ \A q \in Requests : Enabling(q) => EnableAsFar(q)
      /\ (\A q \in Requests : ~Enabling(q)) => Agree
  BY DEF ParkInv
<1>2. \A q \in Requests : Parking(q)' <=> Parking(q)
  BY DEF Parking
<1>3. \A q \in Requests : Enabling(q) => Parking(q)
  BY DEF Enabling, Parking
<1>4. \A q \in Requests : Enabling(q)' => Parking(q)'
  BY DEF Enabling, Parking
<1>5. OneParking'
  BY <1>1, <1>2 DEF OneParking
<1>6. HeldForStep'
  <2>1. ASSUME NEW m \in outbox', m.topic = "enable"
        PROVE  /\ Parking(m.from)' /\ req'[m.from].pc = "wait"
               /\ <<m.topic, m.payload, m.retain>> = Message(req'[m.from].op, req'[m.from].step)
    <3>1. m \in outbox /\ m.from \in Requests
      BY <2>1 DEF ActionsTypeOK, Publish
    <3>2. Parking(m.from) /\ req'[m.from] = req[m.from]
      BY <1>1, <2>1, <3>1 DEF HeldForStep
    <3>3. QED
      BY <1>1, <1>2, <2>1, <3>1, <3>2 DEF HeldForStep
  <2>2. QED
    BY <2>1 DEF HeldForStep
<1>7. ASSUME NEW q \in Requests, Enabling(q)' PROVE EnableAsFar(q)'
  <2>1. Parking(q) /\ req'[q] = req[q] /\ Enabling(q)
    BY <1>2, <1>4, <1>7 DEF Enabling
  <2>2. Unsent(q) => Unsent(q)'
    BY <2>1 DEF Unsent
  <2>3. QED
    BY <1>1, <2>1, <2>2 DEF EnableAsFar
<1>8. (\A q \in Requests : ~Enabling(q)') => Agree'
  <2>1. ASSUME NEW q \in Requests, Enabling(q) PROVE Enabling(q)'
    BY <1>3, <2>1 DEF Enabling
  <2>2. QED
    BY <1>1, <2>1 DEF Agree
<1>9. QED
  BY <1>5, <1>6, <1>7, <1>8 DEF ParkInv

\* A message on the enable_topic is one of three: park for good, resume, and
\* the one that clears the park.
LEMMA EnableMessages ==
  ASSUME ActionsTypeOK, NEW q \in Requests, Parking(q),
         NEW m, <<m.topic, m.payload, m.retain>> = Message(req[q].op, req[q].step)
  PROVE  /\ m.topic = "enable"
         /\ req[q].op = "disable" => m.payload = "false" /\ m.retain = TRUE
         /\ req[q].op = "enable" /\ req[q].step = 1 => m.payload = "true" /\ m.retain = FALSE
         /\ req[q].op = "enable" /\ req[q].step # 1 => m.payload = "none" /\ m.retain = TRUE
BY DEF Parking, Message

\* Nothing is parked, and nobody asks, at first.
LEMMA ParkInit == ActionsInit => ParkInv
<1> SUFFICES ASSUME ActionsInit PROVE ParkInv
  OBVIOUS
<1>1. \A q \in Requests : ~Parking(q) /\ ~Enabling(q)
  BY DEF ActionsInit, Idle, Parking, Enabling
<1>2. Agree
  BY DEF ActionsInit, Agree, Topics
<1>3. HeldForStep
  BY DEF ActionsInit, HeldForStep
<1>4. QED
  BY <1>1, <1>2, <1>3 DEF ParkInv, OneParking

\* A message on the enable_topic reaches Marshal and the broker.
LEMMA ArrivePark ==
  ASSUME ActionsTypeOK, ParkInv, NEW m \in outbox, m.topic = "enable", Arrive(m)
  PROVE  ParkInv'
<1> SUFFICES ASSUME ~mixed PROVE ParkInv'
  BY DEF ParkInv, Arrive
<1> DEFINE q == m.from
           n == [m EXCEPT !.sent = TRUE]
<1>1. /\ OneParking /\ HeldForStep
      /\ \A o \in Requests : Enabling(o) => EnableAsFar(o)
      /\ (\A o \in Requests : ~Enabling(o)) => Agree
  BY DEF ParkInv
<1>2. m \in Publish /\ q \in Requests
  BY DEF ActionsTypeOK, Publish
<1>3. /\ Parking(q) /\ req[q].pc = "wait"
      /\ <<m.topic, m.payload, m.retain>> = Message(req[q].op, req[q].step)
  BY <1>1 DEF HeldForStep
<1>4. /\ req' = req /\ mixed' = mixed /\ outbox' = (outbox \ {m}) \cup {n}
      /\ Take("enable", m.payload, m.retain)
  BY DEF Arrive
<1>5. /\ n.from = m.from /\ n.topic = m.topic /\ n.payload = m.payload /\ n.retain = m.retain
      /\ n.sent = TRUE
  BY <1>2 DEF Publish
<1>6. /\ parked' = ParkedBy(m.payload)
      /\ retained'["enable"] = IF m.retain THEN m.payload ELSE retained["enable"]
  BY <1>4 DEF Take, ActionsTypeOK, Topics, Mirrored
<1>7. OneParking'
  BY <1>1, <1>4 DEF OneParking, Parking
<1>8. HeldForStep'
  BY <1>1, <1>3, <1>4, <1>5 DEF HeldForStep, Parking
<1>9. \A o \in Requests : Enabling(o)' <=> Enabling(o)
  BY <1>4 DEF Enabling
<1>10. CASE req[q].op = "disable"
  <2>1. m.payload = "false" /\ m.retain = TRUE
    BY <1>2, <1>3, <1>10, EnableMessages
  <2>2. parked' = TRUE /\ retained'["enable"] = "false"
    BY <1>6, <2>1 DEF ParkedBy
  <2>3. \A o \in Requests : ~Enabling(o)
    BY <1>1, <1>2, <1>3, <1>10 DEF OneParking, Enabling, Parking
  <2>4. QED
    BY <1>7, <1>8, <1>9, <2>2, <2>3 DEF ParkInv, Agree
<1>11. CASE req[q].op # "disable"
  <2>1. Enabling(q) /\ EnableAsFar(q)
    BY <1>1, <1>2, <1>3, <1>11 DEF Parking, Enabling
  <2>2. \A o \in Requests : Enabling(o) => o = q
    BY <1>1, <1>2, <1>3 DEF OneParking, Enabling, Parking
  <2>3. EnableAsFar(q)'
    <3>1. CASE req[q].step = 1
      <4>1. m.payload = "true"
        BY <1>2, <1>3, <2>1, <3>1, EnableMessages DEF Enabling
      <4>2. parked' = FALSE
        BY <1>6, <4>1 DEF ParkedBy
      <4>3. QED
        BY <1>4, <3>1, <4>2 DEF EnableAsFar
    <3>2. CASE req[q].step # 1
      <4>1. m.payload = "none" /\ m.retain = TRUE
        BY <1>2, <1>3, <2>1, <3>2, EnableMessages DEF Enabling
      <4>2. req[q].step = 2
        BY <1>2, <1>3, <3>2 DEF ActionsTypeOK
      <4>3. parked' = parked /\ retained'["enable"] = "none"
        BY <1>6, <4>1 DEF ParkedBy
      <4>4. ~parked
        BY <2>1, <4>2 DEF EnableAsFar
      <4>5. QED
        BY <1>4, <3>2, <4>3, <4>4 DEF EnableAsFar
    <3>3. QED
      BY <3>1, <3>2
  <2>4. QED
    BY <1>2, <1>7, <1>8, <1>9, <2>1, <2>2, <2>3 DEF ParkInv
<1>12. QED
  BY <1>10, <1>11

\* A park request that begins finds nobody else's under way, so Marshal and the
\* retained value agree.
LEMMA RequestPark ==
  ASSUME ActionsTypeOK, ParkInv, NEW q \in Requests, NEW op \in Ops, Request(q, op)
  PROVE  ParkInv'
<1>1. UNCHANGED <<retained, parked, outbox>> /\ req[q] = Idle /\ (mixed => mixed')
  BY DEF Request, shared, conn
<1>2. CASE op \in {"on", "off"} \/ Known # "rules"
  <2>1. \A o \in Requests : req'[o] # req[o] =>
          o = q /\ req'[o] = [pc |-> "publish", op |-> op, step |-> 1] /\ op \in {"on", "off"}
    BY <1>2 DEF Request, ActionsTypeOK
  <2>2. \A o \in Requests : Parking(o) \/ Parking(o)' => req'[o] = req[o]
    BY <1>1, <2>1 DEF Parking, Idle
  <2>3. QED
    BY <1>1, <2>2, Unconcerned
<1>3. CASE op \notin {"on", "off"} /\ Known = "rules"
  <2> SUFFICES ASSUME ~mixed' PROVE ParkInv'
    BY DEF ParkInv
  <2>1. op \in {"enable", "disable"}
    BY <1>3 DEF Ops
  <2>2. \A o \in Requests : ~Parking(o)
    BY <2>1 DEF Request
  <2>3. /\ req'[q] = [pc |-> "publish", op |-> op, step |-> 1]
        /\ \A o \in Requests : o # q => req'[o] = req[o]
    BY <1>3 DEF Request, ActionsTypeOK
  <2>4. ~mixed /\ Agree /\ \A m \in outbox : m.topic # "enable"
    <3>1. \A m \in outbox : m.from \in Requests
      BY DEF ActionsTypeOK, Publish
    <3>2. QED
      BY <1>1, <2>2, <3>1 DEF ParkInv, Enabling, Parking, HeldForStep
  <2>5. \A o \in Requests : Parking(o)' => o = q
    BY <2>2, <2>3 DEF Parking
  <2>6. \A o \in Requests : Enabling(o)' => o = q
    BY <2>5 DEF Enabling, Parking
  <2>7. EnableAsFar(q)'
    BY <2>3 DEF EnableAsFar
  <2>8. OneParking' /\ HeldForStep' /\ Agree'
    BY <1>1, <2>4, <2>5 DEF OneParking, HeldForStep, Agree
  <2>9. QED
    BY <2>6, <2>7, <2>8 DEF ParkInv
<1>4. QED
  BY <1>2, <1>3

\* A park request hands its message to the client.
LEMMA SendPark ==
  ASSUME ActionsTypeOK, ParkInv, NEW q \in Requests, Send(q)
  PROVE  ParkInv'
<1> DEFINE w == Message(req[q].op, req[q].step)
           n == [from |-> q, topic |-> w[1], payload |-> w[2], retain |-> w[3], sent |-> FALSE]
<1>1. /\ UNCHANGED <<retained, parked, mixed>> /\ req[q].pc = "publish"
      /\ outbox' = outbox \cup {n}
      /\ req[q] \in Waits
  BY DEF Send, shared, ActionsTypeOK, Waits
<1>2. /\ req'[q].pc = "wait" /\ req'[q].op = req[q].op /\ req'[q].step = req[q].step
      /\ \A o \in Requests : o # q => req'[o] = req[o]
  BY <1>1 DEF Send, ActionsTypeOK, Waits
<1>3. n.from = q /\ n.topic = w[1] /\ n.payload = w[2] /\ n.retain = w[3] /\ n.sent = FALSE
  OBVIOUS
<1>4. CASE ~Parking(q)
  <2>1. req[q].op \in {"on", "off"}
    BY <1>1, <1>4 DEF Parking, Waits, Ops
  <2>2. n.topic # "enable"
    BY <1>3, <2>1 DEF Message
  <2>3. \A o \in Requests : Parking(o) \/ Parking(o)' => req'[o] = req[o]
    BY <1>2, <1>4, <2>1 DEF Parking
  <2>4. QED
    BY <1>1, <2>2, <2>3, Unconcerned
<1>5. CASE Parking(q)
  <2> SUFFICES ASSUME ~mixed PROVE ParkInv'
    BY <1>1 DEF ParkInv
  <2>1. /\ OneParking /\ HeldForStep
        /\ \A o \in Requests : Enabling(o) => EnableAsFar(o)
        /\ (\A o \in Requests : ~Enabling(o)) => Agree
    BY DEF ParkInv
  <2>2. \A o \in Requests : (Parking(o)' <=> Parking(o)) /\ (Enabling(o)' <=> Enabling(o))
    BY <1>1, <1>2 DEF Parking, Enabling
  <2>3. \A o \in Requests : Enabling(o) => o = q
    BY <1>5, <2>1 DEF OneParking, Enabling, Parking
  <2>4. OneParking'
    BY <2>1, <2>2 DEF OneParking
  <2>5. w[1] = "enable" /\ w = <<w[1], w[2], w[3]>>
    BY <1>5 DEF Message, Parking
  <2>6. HeldForStep'
    <3>1. ASSUME NEW m \in outbox', m.topic = "enable"
          PROVE  /\ Parking(m.from)' /\ req'[m.from].pc = "wait"
                 /\ <<m.topic, m.payload, m.retain>> = Message(req'[m.from].op, req'[m.from].step)
      <4>1. CASE m \in outbox
        <5>1. /\ m.from \in Requests /\ Parking(m.from) /\ req[m.from].pc = "wait"
              /\ <<m.topic, m.payload, m.retain>> = Message(req[m.from].op, req[m.from].step)
          BY <2>1, <3>1, <4>1 DEF HeldForStep, ActionsTypeOK, Publish
        <5>2. m.from # q
          BY <1>1, <5>1
        <5>3. QED
          BY <1>2, <2>2, <5>1, <5>2
      <4>2. CASE m = n
        BY <1>2, <1>3, <1>5, <2>2, <2>5, <4>2
      <4>3. QED
        BY <1>1, <4>1, <4>2
    <3>2. QED
      BY <3>1 DEF HeldForStep
  <2>7. ASSUME Enabling(q) PROVE EnableAsFar(q)'
    <3>1. EnableAsFar(q)
      BY <2>1, <2>7
    <3>2. Unsent(q)'
      BY <1>1, <1>3, <2>5 DEF Unsent
    <3>3. QED
      BY <1>1, <1>2, <3>1, <3>2 DEF EnableAsFar
  <2>8. (\A o \in Requests : ~Enabling(o)') => Agree'
    BY <1>1, <2>1, <2>2 DEF Agree
  <2>9. QED
    BY <2>2, <2>3, <2>4, <2>6, <2>7, <2>8 DEF ParkInv
<1>6. QED
  BY <1>4, <1>5

\* A park request whose message was acknowledged goes on or is answered.
LEMMA PublishedPark ==
  ASSUME ActionsTypeOK, ParkInv, NEW q \in Requests, Published(q)
  PROVE  ParkInv'
<1>1. /\ UNCHANGED <<retained, parked, outbox, mixed>> /\ req[q].pc = "wait" /\ ~Waiting(q)
      /\ req[q] \in Waits
      /\ \A o \in Requests : o # q => req'[o] = req[o]
  BY DEF Published, shared, conn, ActionsTypeOK, Waits
<1>2. CASE ~Parking(q)
  <2>1. req[q].op # "enable"
    BY <1>1, <1>2 DEF Parking
  <2>2. req'[q] = Idle
    BY <2>1 DEF Published, ActionsTypeOK
  <2>3. ~Parking(q)'
    BY <2>2 DEF Parking, Idle
  <2>4. \A o \in Requests : Parking(o) \/ Parking(o)' => req'[o] = req[o]
    BY <1>1, <1>2, <2>3
  <2>5. QED
    BY <1>1, <2>4, Unconcerned
<1>3. CASE Parking(q)
  <2> SUFFICES ASSUME ~mixed PROVE ParkInv'
    BY <1>1 DEF ParkInv
  <2>1. /\ OneParking /\ HeldForStep
        /\ \A o \in Requests : Enabling(o) => EnableAsFar(o)
        /\ (\A o \in Requests : ~Enabling(o)) => Agree
    BY DEF ParkInv
  <2>2. \A o \in Requests : o # q => ~Parking(o) /\ ~Parking(o)' /\ ~Enabling(o) /\ ~Enabling(o)'
    BY <1>1, <1>3, <2>1 DEF OneParking, Parking, Enabling
  <2>3. \A m \in outbox : m.topic # "enable"
    <3>1. ASSUME NEW m \in outbox, m.topic = "enable" PROVE FALSE
      <4>1. m.from \in Requests /\ Parking(m.from)
        BY <2>1, <3>1 DEF HeldForStep, ActionsTypeOK, Publish
      <4>2. m.from = q
        BY <2>2, <4>1
      <4>3. QED
        BY <1>1, <4>2 DEF Waiting
    <3>2. QED
      BY <3>1
  <2>4. OneParking' /\ HeldForStep'
    BY <1>1, <2>2, <2>3 DEF OneParking, HeldForStep
  <2>5. ~Unsent(q)
    BY <2>3 DEF Unsent
  <2>6. CASE req[q].op = "enable" /\ req[q].step = 1
    <3>1. req'[q] = [pc |-> "publish", op |-> "enable", step |-> 2]
      BY <2>6 DEF Published, ActionsTypeOK
    <3>2. ~parked
      BY <1>1, <2>1, <2>5, <2>6 DEF Enabling, EnableAsFar
    <3>3. Enabling(q)' /\ EnableAsFar(q)'
      BY <1>1, <3>1, <3>2 DEF Enabling, EnableAsFar
    <3>4. QED
      BY <2>2, <2>4, <3>3 DEF ParkInv
  <2>7. CASE ~(req[q].op = "enable" /\ req[q].step = 1)
    <3>1. req'[q] = Idle
      BY <2>7 DEF Published, ActionsTypeOK
    <3>2. Agree
      <4>1. CASE Enabling(q)
        <5>1. req[q].step = 2
          BY <1>1, <2>7, <4>1 DEF Enabling, Waits
        <5>2. ~parked /\ retained["enable"] = "none"
          BY <1>1, <2>1, <2>5, <4>1, <5>1 DEF EnableAsFar
        <5>3. QED
          BY <5>2 DEF Agree
      <4>2. CASE ~Enabling(q)
        BY <2>1, <2>2, <4>2
      <4>3. QED
        BY <4>1, <4>2
    <3>3. ~Enabling(q)'
      BY <3>1 DEF Enabling, Idle
    <3>4. QED
      BY <1>1, <2>2, <2>4, <3>2, <3>3 DEF ParkInv, Agree
  <2>8. QED
    BY <2>6, <2>7
<1>4. QED
  BY <1>2, <1>3

\* The connection is lost: a client that is rebuilt forgets what it held, and
\* one that is kept will send it again.
LEMMA LinkDownPark ==
  ASSUME ActionsTypeOK, ParkInv, NEW rebuilt \in BOOLEAN, LinkDown(rebuilt)
  PROVE  ParkInv'
<1> SUFFICES ASSUME ~mixed' PROVE ParkInv'
  BY DEF ParkInv
<1>1. UNCHANGED <<retained, parked>> /\ ~mixed
  BY DEF LinkDown, shared
<1>2. CASE rebuilt
  <2>1. /\ outbox' = {}
        /\ req' = [q \in Requests |-> IF req[q].pc = "wait" /\ Waiting(q) THEN Idle ELSE req[q]]
        /\ \A q \in Requests : ~(Parking(q) /\ Waiting(q))
    BY <1>2 DEF LinkDown
  <2>2. \A q \in Requests : Parking(q) \/ Parking(q)' => req'[q] = req[q]
    BY <2>1 DEF Parking, Idle
  <2>3. \A m \in outbox : ~Parking(m.from)
    BY <2>1 DEF Waiting, ActionsTypeOK, Publish
  <2>4. QED
    BY <1>1, <2>1, <2>2, <2>3, Unconcerned
<1>3. CASE ~rebuilt
  <2>1. outbox' = {[m EXCEPT !.sent = FALSE] : m \in outbox} /\ req' = req
    BY <1>3 DEF LinkDown
  <2>2. \A m \in outbox : LET n == [m EXCEPT !.sent = FALSE] IN
          /\ n.from = m.from /\ n.topic = m.topic /\ n.payload = m.payload /\ n.retain = m.retain
          /\ n.sent = FALSE
    BY DEF ActionsTypeOK, Publish
  <2>3. /\ OneParking /\ HeldForStep
        /\ \A q \in Requests : Enabling(q) => EnableAsFar(q)
        /\ (\A q \in Requests : ~Enabling(q)) => Agree
    BY <1>1 DEF ParkInv
  <2>4. OneParking'
    BY <2>1, <2>3 DEF OneParking, Parking
  <2>5. HeldForStep'
    <3>1. ASSUME NEW n \in outbox', n.topic = "enable"
          PROVE  /\ Parking(n.from) /\ req[n.from].pc = "wait"
                 /\ <<n.topic, n.payload, n.retain>> = Message(req[n.from].op, req[n.from].step)
      <4>1. PICK m \in outbox : n = [m EXCEPT !.sent = FALSE]
        BY <2>1, <3>1
      <4>2. n.from = m.from /\ n.topic = m.topic /\ n.payload = m.payload /\ n.retain = m.retain
        BY <2>2, <4>1
      <4>3. QED
        BY <2>3, <3>1, <4>2 DEF HeldForStep
    <3>2. QED
      BY <2>1, <3>1 DEF HeldForStep, Parking
  <2>6. \A q \in Requests : Unsent(q) => Unsent(q)'
    BY <2>1, <2>2 DEF Unsent
  <2>7. \A q \in Requests : Enabling(q)' => EnableAsFar(q)'
    BY <1>1, <2>1, <2>3, <2>6 DEF Enabling, EnableAsFar
  <2>8. (\A q \in Requests : ~Enabling(q)') => Agree'
    BY <1>1, <2>1, <2>3 DEF Enabling, Agree
  <2>9. QED
    BY <2>4, <2>5, <2>7, <2>8 DEF ParkInv
<1>4. QED
  BY <1>2, <1>3

\* Each step keeps the park invariant.
LEMMA ParkStep == ActionsTypeOK /\ ParkInv /\ [ActionsNext]_actionVars => ParkInv'
<1> SUFFICES ASSUME ActionsTypeOK, ParkInv, [ActionsNext]_actionVars PROVE ParkInv'
  OBVIOUS
<1>1. ASSUME retained'["enable"] = retained["enable"], UNCHANGED <<parked, outbox, req, mixed>>
      PROVE  ParkInv'
  BY <1>1, Unconcerned
<1>2. ASSUME NEW p \in {"none", "true", "false"}, PublishElsewhere(p) PROVE ParkInv'
  <2>1. retained'["enable"] = retained["enable"] /\ parked' = parked
    BY <1>2 DEF PublishElsewhere, Take, ActionsTypeOK, Topics, Mirrored
  <2>2. QED
    BY <1>1, <1>2, <2>1 DEF PublishElsewhere
<1>3. ASSUME NEW starts \in BOOLEAN, MarshalReturns(starts) PROVE ParkInv'
  <2> SUFFICES ASSUME ~mixed' PROVE ParkInv'
    BY DEF ParkInv
  <2>1. ~mixed /\ ~HalfEnabled /\ UNCHANGED <<outbox, req>>
    BY <1>3 DEF MarshalReturns
  <2>2. \A q \in Requests : ~Enabling(q)
    BY <2>1 DEF HalfEnabled, Enabling
  <2>3. OneParking /\ HeldForStep /\ Agree
    BY <2>1, <2>2 DEF ParkInv
  <2>4. retained'["enable"] = retained["enable"]
    BY <1>3 DEF MarshalReturns, ActionsTypeOK, Topics, Mirrored
  <2>5. Agree'
    BY <1>3, <2>3, <2>4 DEF MarshalReturns, Agree
  <2>6. OneParking' /\ HeldForStep' /\ \A q \in Requests : ~Enabling(q)'
    BY <2>1, <2>2, <2>3 DEF OneParking, HeldForStep, Enabling, Parking
  <2>7. QED
    BY <2>5, <2>6 DEF ParkInv
<1>4. ASSUME NEW m \in outbox, Arrive(m) PROVE ParkInv'
  <2>1. m \in Publish
    BY DEF ActionsTypeOK
  <2>2. CASE m.topic = "enable"
    BY <1>4, <2>2, ArrivePark
  <2>3. CASE m.topic # "enable"
    <3>1. retained'["enable"] = retained["enable"] /\ parked' = parked /\ UNCHANGED <<req, mixed>>
      BY <1>4, <2>1, <2>3 DEF Arrive, Take, ActionsTypeOK, Publish, Topics, Mirrored
    <3>2. /\ outbox' = (outbox \ {m}) \cup {[m EXCEPT !.sent = TRUE]}
          /\ [m EXCEPT !.sent = TRUE].topic # "enable"
      BY <1>4, <2>1, <2>3 DEF Arrive, Publish
    <3>3. QED
      BY <2>3, <3>1, <3>2, Unconcerned
  <2>4. QED
    BY <2>2, <2>3
<1>5. ASSUME NEW m \in outbox, Ack(m) PROVE ParkInv'
  BY <1>5, Unconcerned DEF Ack, shared
<1>6. ASSUME NEW rebuilt \in BOOLEAN, LinkDown(rebuilt) PROVE ParkInv'
  BY <1>6, LinkDownPark
<1>7. CASE LinkUp \/ Deploy \/ FileBack \/ Expire \/ SubscribeStates
  BY <1>1, <1>7 DEF LinkUp, Deploy, FileBack, Expire, SubscribeStates, shared, conn
<1>8. ASSUME NEW e \in echoes, OnState(e) PROVE ParkInv'
  BY <1>1, <1>8 DEF OnState, shared
<1>9. ASSUME NEW q \in Requests, NEW op \in Ops, Request(q, op) PROVE ParkInv'
  BY <1>9, RequestPark
<1>10. ASSUME NEW q \in Requests, PublishFails(q) PROVE ParkInv'
  <2>1. CASE Parking(q)
    BY <1>10, <2>1 DEF PublishFails, ParkInv
  <2>2. CASE ~Parking(q)
    <3>1. /\ UNCHANGED <<retained, parked, outbox>> /\ (mixed => mixed')
          /\ req'[q] = Idle /\ \A o \in Requests : o # q => req'[o] = req[o]
      BY <1>10 DEF PublishFails, shared, conn, ActionsTypeOK
    <3>2. \A o \in Requests : Parking(o) \/ Parking(o)' => req'[o] = req[o]
      BY <2>2, <3>1 DEF Parking, Idle
    <3>3. QED
      BY <3>1, <3>2, Unconcerned
  <2>3. QED
    BY <2>1, <2>2
<1>11. CASE UNCHANGED actionVars
  BY <1>1, <1>11 DEF actionVars, shared, conn
<1>12. QED
  BY <1>2, <1>3, <1>4, <1>5, <1>6, <1>7, <1>8, <1>9, <1>10, <1>11, SendPark, PublishedPark
  DEF ActionsNext, Handler

\* The park invariant gives ParkAgrees: with nobody enabling, they agree.
LEMMA QuietAgrees == ParkInv => ParkAgrees
BY DEF ParkInv, ParkAgrees, Quiet, Enabling, Idle, Agree

\* Between park requests that ran one by one and were not answered 502, Marshal
\* does what the value retained for it says (internal/api/rules.go, enableRule).
THEOREM ParkHolds == ActionsSpec => []ParkAgrees
<1>1. ActionsInit => ActionsTypeOK /\ ParkInv
  BY ActionsInitTyped, ParkInit
<1>2. ActionsTypeOK /\ ParkInv /\ [ActionsNext]_actionVars => (ActionsTypeOK /\ ParkInv)'
  BY ActionsStepTyped, ParkStep
<1>3. QED
  BY <1>1, <1>2, QuietAgrees, PTL DEF ActionsSpec

================================================================================
