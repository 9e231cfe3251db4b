------------------------------ MODULE ActionTopics ------------------------------
(***************************************************************************)
(* What sentinel shares with Marshal on the broker, for one rule with an   *)
(* action: it parks and resumes the rule on its enable_topic               *)
(* (internal/api/rules.go, enableRule), switches the action on its         *)
(* active_topic (internal/api/sources.go, putAction), and mirrors the      *)
(* retained values of active_topic and state_topic                         *)
(* (internal/ingest/mqtt.go) as far as rules.yaml, read through a cache    *)
(* (internal/rules/rules.go), names them.                                  *)
(*                                                                         *)
(* A publish at QoS 1 stays in the client's outbox until it is             *)
(* acknowledged and is sent again on a new connection, in no given order;  *)
(* a handler waits for it tokenWait at most.  Messages to the mirror are   *)
(* sent at QoS 0 and handled in a goroutine each (SetOrderMatters(false)). *)
(* The connection itself is MqttEngine's subject: here it is up or down,   *)
(* and a rebuilt client has lost its outbox.  The two modules share no     *)
(* names, so that one module can prove theorems about both.                *)
(***************************************************************************)
EXTENDS Naturals

CONSTANTS
    Requests,   \* requests under way at a time
    MaxOps,     \* bound: requests, and publishes of others
    MaxUpsets   \* bound: lost connections, Marshal's restarts, deploys

ASSUME ActionTopicsAssumption == MaxOps \in Nat /\ MaxUpsets \in Nat

VARIABLES
    retained,   \* retained[t]: the broker's retained payload of topic t
    parked,     \* Marshal: the rule is parked
    link,       \* the engine's client is connected
    listening,  \* the session holds the mirror's subscriptions
    outbox,     \* publishes the client holds until they are acknowledged
    echoes,     \* messages on mirrored topics on their way to onState
    mirror,     \* Engine.state
    file,       \* rules.yaml is there and parses
    cache,      \* Reader.rules: "nil", "empty" or the "rules"
    fresh,      \* the cache is younger than its time to live
    req,        \* req[q]: a request to enableRule or putAction
    mixed,      \* history: the enable requests did not run one by one, undisturbed
    ops,
    upsets

shared == <<retained, parked>>
conn == <<link, listening, outbox, echoes>>
reader == <<file, cache, fresh>>
actionVars == <<shared, conn, mirror, reader, req, mixed, ops, upsets>>

Mirrored == {"active", "state"}
Topics == Mirrored \cup {"enable"}
\* "none" is a message of no bytes, which clears what is retained, and an empty
\* string in the mirror.
Payloads == {"none", "true", "false", "automation", "parked"}

Ops == {"enable", "disable", "on", "off"}

Publish == [from : Requests, topic : Topics, payload : Payloads, retain : BOOLEAN, sent : BOOLEAN]

ActionsTypeOK ==
    /\ retained \in [Topics -> Payloads]
    /\ parked \in BOOLEAN
    /\ link \in BOOLEAN
    /\ listening \in BOOLEAN
    /\ outbox \in SUBSET Publish
    /\ echoes \in SUBSET (Mirrored \X Payloads)
    /\ mirror \in [Mirrored -> Payloads]
    /\ file \in BOOLEAN
    /\ cache \in {"nil", "empty", "rules"}
    /\ fresh \in BOOLEAN
    /\ fresh => cache # "nil"
    /\ req \in [Requests -> [pc : {"idle"}] \cup
                            [pc : {"publish", "wait"}, op : Ops, step : 1 .. 2]]
    /\ mixed \in BOOLEAN
    /\ ops \in Nat
    /\ upsets \in Nat

Idle == [pc |-> "idle"]

ActionsInit ==
    /\ retained = [t \in Topics |-> IF t = "state" THEN "automation" ELSE "none"]
    /\ parked = FALSE
    /\ link \in BOOLEAN
    /\ listening = FALSE
    /\ outbox = {}
    /\ echoes = {}
    /\ mirror = [t \in Mirrored |-> "none"]
    /\ file \in BOOLEAN
    /\ cache = "nil"
    /\ fresh = FALSE
    /\ req = [q \in Requests |-> Idle]
    /\ mixed = FALSE
    /\ ops = 0
    /\ upsets = 0

Op == ops < MaxOps /\ ops' = ops + 1

Upset == upsets < MaxUpsets /\ upsets' = upsets + 1

--------------------------------------------------------------------------------
(* The broker and Marshal.                                                 *)

\* What is sent to the mirror when the topics of set change to what val says.
Told(set, val) ==
    IF link /\ listening THEN {<<t, val[t]>> : t \in set \cap Mirrored} ELSE {}

\* Marshal hears a payload on the enable_topic, and reports the owner.
ParkedBy(payload) ==
    CASE payload = "true" -> FALSE
      [] payload = "false" -> TRUE
      [] OTHER -> parked

OwnerIf(isParked) == IF isParked THEN "parked" ELSE "automation"

\* The broker takes a message: it keeps a retained one, an empty one clears it, and
\* Marshal and the mirror are told.
Take(topic, payload, retain) ==
    LET kept == IF retain THEN [retained EXCEPT ![topic] = payload] ELSE retained
        after == IF topic = "enable" THEN ParkedBy(payload) ELSE parked
    IN  /\ parked' = after
        /\ retained' = IF topic = "enable" THEN [kept EXCEPT !["state"] = OwnerIf(after)] ELSE kept
        /\ echoes' = echoes \cup Told(IF topic = "enable" THEN {"state"} ELSE {topic}, retained')

\* Somebody else sets or clears the active_topic (README.md 264-268).
PublishElsewhere(payload) ==
    /\ Op
    /\ Take("active", payload, TRUE)
    /\ UNCHANGED <<link, listening, outbox, mirror, reader, req, mixed, upsets>>

\* An enable request has published one of its two messages and not the other.
HalfEnabled == \E q \in Requests : req[q].pc # "idle" /\ req[q].op = "enable"

\* Marshal starts again, or reconnects: it applies the retained value.
MarshalReturns(starts) ==
    /\ Upset
    /\ parked' = IF starts \/ retained["enable"] # "none"
                 THEN retained["enable"] = "false" ELSE parked
    /\ retained' = [retained EXCEPT !["state"] = OwnerIf(parked')]
    /\ echoes' = echoes \cup Told({"state"}, retained')
    /\ mixed' = (mixed \/ HalfEnabled)
    /\ UNCHANGED <<link, listening, outbox, mirror, reader, req, ops>>

\* A publish of ours reaches the broker, for the first time or again.
Arrive(m) ==
    /\ link
    /\ m \in outbox
    /\ ~m.sent
    /\ Take(m.topic, m.payload, m.retain)
    /\ outbox' = (outbox \ {m}) \cup {[m EXCEPT !.sent = TRUE]}
    /\ UNCHANGED <<link, listening, mirror, reader, req, mixed, ops, upsets>>

\* It is acknowledged.
Ack(m) ==
    /\ link
    /\ m \in outbox
    /\ m.sent
    /\ outbox' = outbox \ {m}
    /\ UNCHANGED <<shared, link, listening, echoes, mirror, reader, req, mixed, ops, upsets>>

Waiting(q) == \E m \in outbox : m.from = q

Parking(q) == req[q].pc # "idle" /\ req[q].op \in {"enable", "disable"}

\* The connection is lost, with some of what was under way; with the client
\* rebuilt, its outbox is lost too, and the tokens on it fail (502).
LinkDown(rebuilt) ==
    /\ link
    /\ Upset
    /\ link' = FALSE
    /\ echoes' \in SUBSET echoes
    /\ IF rebuilt
       THEN /\ outbox' = {}
            /\ req' = [q \in Requests |-> IF req[q].pc = "wait" /\ Waiting(q) THEN Idle ELSE req[q]]
            /\ mixed' = (mixed \/ \E q \in Requests : Parking(q) /\ Waiting(q))
       ELSE /\ outbox' = {[m EXCEPT !.sent = FALSE] : m \in outbox}
            /\ UNCHANGED <<req, mixed>>
    /\ UNCHANGED <<shared, listening, mirror, reader, ops>>

LinkUp ==
    /\ ~link
    /\ link' = TRUE
    /\ UNCHANGED <<shared, listening, outbox, echoes, mirror, reader, req, mixed, ops, upsets>>

--------------------------------------------------------------------------------
(* The rules reader.                                                       *)

Deploy ==
    /\ Upset
    /\ file' = ~file
    /\ UNCHANGED <<shared, conn, mirror, cache, fresh, req, mixed, ops>>

\* A deploy ends with a file that is there.
FileBack ==
    /\ ~file
    /\ file' = TRUE
    /\ UNCHANGED <<shared, conn, mirror, cache, fresh, req, mixed, ops, upsets>>

Expire ==
    /\ fresh
    /\ fresh' = FALSE
    /\ UNCHANGED <<shared, conn, mirror, file, cache, req, mixed, ops, upsets>>

\* Reader.Rules, were a read that fails never tried again.
KnownForGood == IF cache = "nil" THEN IF file THEN "rules" ELSE "empty" ELSE cache

\* Reader.Rules, were a first read that fails to leave no list at all.
KnownAsRead == IF fresh THEN cache ELSE IF file THEN "rules" ELSE cache

\* What Reader.Rules returns: the cache while it is fresh, else the file, else
\* the last good list.
Known ==
    IF fresh /\ cache # "nil" THEN cache
    ELSE IF file THEN "rules"
    ELSE IF cache = "nil" THEN "empty" ELSE cache

\* Reader.Rules leaves the cache so.
Rules == cache' = Known /\ fresh' = TRUE /\ UNCHANGED file

--------------------------------------------------------------------------------
(* The mirror.                                                             *)

\* On connect, and with every heartbeat.
Due == link

\* subscribeStates: the topics named in the rules, answered with what is
\* retained (nothing, for a topic without a retained value).
SubscribeStates ==
    /\ Due
    /\ Rules
    /\ IF Known = "rules"
       THEN /\ listening' = TRUE
            /\ echoes' = echoes \cup
                          {<<t, retained[t]>> : t \in {u \in Mirrored : retained[u] # "none"}}
       ELSE UNCHANGED <<listening, echoes>>
    /\ UNCHANGED <<shared, link, outbox, mirror, req, mixed, ops, upsets>>

\* onState, setRetained.
OnState(e) ==
    /\ e \in echoes
    /\ echoes' = echoes \ {e}
    /\ mirror' = [mirror EXCEPT ![e[1]] = e[2]]
    /\ UNCHANGED <<shared, link, listening, outbox, reader, req, mixed, ops, upsets>>

--------------------------------------------------------------------------------
(* The handlers.                                                           *)

\* Reader.Find: a request about a rule that is not known is answered 404.
Request(q, op) ==
    /\ Op
    /\ req[q] = Idle
    /\ ~Waiting(q)
    /\ Rules
    /\ req' = IF Known = "rules" THEN [req EXCEPT ![q] = [pc |-> "publish", op |-> op, step |-> 1]]
                                 ELSE req
    /\ mixed' = (mixed \/ (op \in {"enable", "disable"} /\ \E o \in Requests : Parking(o)))
    /\ UNCHANGED <<shared, conn, mirror, upsets>>

\* Parking with a message the broker does not keep.
MessageUnretained(op, step) ==
    CASE op \in {"on", "off"} -> <<"active", IF op = "on" THEN "true" ELSE "false", TRUE>>
      [] op = "disable" -> <<"enable", "false", FALSE>>
      [] op = "enable" /\ step = 1 -> <<"enable", "true", FALSE>>
      [] OTHER -> <<"enable", "none", TRUE>>

\* What a request publishes, step by step: topic, payload, retained.
Message(op, step) ==
    CASE op \in {"on", "off"} -> <<"active", IF op = "on" THEN "true" ELSE "false", TRUE>>
      [] op = "disable" -> <<"enable", "false", TRUE>>
      [] op = "enable" /\ step = 1 -> <<"enable", "true", FALSE>>
      [] OTHER -> <<"enable", "none", TRUE>>

\* Engine.Publish hands the message to the client, connected or connecting.
Send(q) ==
    /\ req[q].pc = "publish"
    /\ LET m == Message(req[q].op, req[q].step) IN
       outbox' = outbox \cup {[from |-> q, topic |-> m[1], payload |-> m[2], retain |-> m[3],
                               sent |-> FALSE]}
    /\ req' = [req EXCEPT ![q].pc = "wait"]
    /\ UNCHANGED <<shared, link, listening, echoes, mirror, reader, mixed, ops, upsets>>

\* The token is done: enableRule goes on to its second message; PublishRetained
\* writes the mirror; the request is answered.
Published(q) ==
    /\ req[q].pc = "wait"
    /\ ~Waiting(q)
    /\ LET r == req[q] IN
       IF r.op = "enable" /\ r.step = 1
       THEN /\ req' = [req EXCEPT ![q] = [pc |-> "publish", op |-> r.op, step |-> 2]]
            /\ UNCHANGED mirror
       ELSE /\ req' = [req EXCEPT ![q] = Idle]
            /\ mirror' = IF r.op \in {"on", "off"}
                         THEN [mirror EXCEPT !["active"] = Message(r.op, 1)[2]] ELSE mirror
    /\ UNCHANGED <<shared, conn, reader, mixed, ops, upsets>>

\* tokenWait is over, or there is no client: 502.  What the client has accepted
\* stays in its outbox.
PublishFails(q) ==
    /\ \/ req[q].pc = "wait" /\ Waiting(q)
       \/ req[q].pc = "publish"
    /\ ~link
    /\ mixed' = (mixed \/ Parking(q))
    /\ req' = [req EXCEPT ![q] = Idle]
    /\ UNCHANGED <<shared, conn, mirror, reader, ops, upsets>>

Handler(q) == Send(q) \/ Published(q) \/ PublishFails(q)

ActionsNext ==
    \/ \E p \in {"none", "true", "false"} : PublishElsewhere(p)
    \/ \E starts \in BOOLEAN : MarshalReturns(starts)
    \/ \E m \in outbox : Arrive(m) \/ Ack(m)
    \/ \E rebuilt \in BOOLEAN : LinkDown(rebuilt)
    \/ LinkUp
    \/ Deploy \/ FileBack \/ Expire
    \/ SubscribeStates
    \/ \E e \in echoes : OnState(e)
    \/ \E q \in Requests : (\E op \in Ops : Request(q, op)) \/ Handler(q)

ActionsSpec == ActionsInit /\ [][ActionsNext]_actionVars

\* The connection comes back, a deploy ends, the cache ages, the heartbeat
\* ticks, goroutines run and a live broker answers.
ActionsFairness ==
    /\ WF_actionVars(LinkUp) /\ WF_actionVars(SubscribeStates)
    /\ WF_actionVars(FileBack) /\ WF_actionVars(Expire)
    /\ WF_actionVars(\E m \in outbox : Arrive(m) \/ Ack(m))
    /\ \A t \in Mirrored, p \in Payloads : WF_actionVars(OnState(<<t, p>>))
    /\ \A q \in Requests : WF_actionVars(Handler(q))

ActionsFairSpec == ActionsSpec /\ ActionsFairness

--------------------------------------------------------------------------------
(* Properties.                                                             *)

\* Whatever order the messages of a mirrored topic are handled in, whatever is
\* written over them after a publish and whichever were lost: once nobody
\* publishes, the mirror holds what the broker retains, because every heartbeat
\* subscribes again (internal/ingest/mqtt.go, subscribeStates).
MirrorSettles == \A t \in Mirrored : <>[](retained[t] # "none" => mirror[t] = retained[t])

Quiet == outbox = {} /\ \A q \in Requests : req[q] = Idle

\* Between requests that ran one by one and were not answered 502, the value
\* retained for Marshal says what Marshal does: a restart of Marshal brings
\* back the state the last request asked for (internal/api/rules.go, enableRule).
ParkAgrees == Quiet /\ ~mixed => (parked <=> retained["enable"] = "false")
================================================================================
