----------------------------- MODULE PhoneRegistry ------------------------------
(***************************************************************************)
(* The phones of sentinel: registered, moved and removed by requests       *)
(* (internal/api/server.go), rung for an alert (internal/notify/notify.go, *)
(* internal/push/apns.go), and forgotten when APNs answers that a token is *)
(* dead.  The dispatcher and the dashboard's runner each push their own    *)
(* alerts, a person at a time: the person's phones are listed, then tried  *)
(* one after the other with the token and the environment the list said,   *)
(* up to 15 s each.  The registry may have changed by then.                *)
(*                                                                         *)
(* Whether a person is to be told is PersonalHistory's subject: here       *)
(* either may be.  A build of the app has one environment, and its token   *)
(* is good there only.                                                     *)
(***************************************************************************)
EXTENDS Naturals

CONSTANTS
    People,
    Tokens,     \* APNs device tokens
    Sandbox,    \* those of development builds
    Pushers,    \* the goroutines that push alerts
    MaxOps,     \* bound: requests, and apps deleted from a phone
    MaxEvents   \* bound: alerts pushed

ASSUME PhoneRegistryAssumption ==
    /\ Sandbox \subseteq Tokens
    /\ MaxOps \in Nat
    /\ MaxEvents \in Nat

VARIABLES
    devices,    \* devices[t]: the row of token t, or NoRow
    installed,  \* tokens APNs still knows
    push,       \* push[x]: where pusher x is with its alert
    test,       \* a test push under way
    rung,       \* rung[x][t]: how often x's alert rang the phone
    owed,       \* history: owed[x], phones that x's alert has to ring
    still,      \* history: still[x], phones whose row has not changed since x's alert began
    ops,
    events

vars == <<devices, installed, push, test, rung, owed, still, ops, events>>

Envs == {"sandbox", "production"}

\* What a body may say.
Given == Envs \cup {""}

NoRow == <<>>
Device == People \X Envs

\* The environment of the app a token comes from.
Home(t) == IF t \in Sandbox THEN "sandbox" ELSE "production"

\* A phone to try, as it was listed.
Try == Tokens \X Envs

Idle == [pc |-> "idle"]
Busy == [pc : {"people"}, left : SUBSET People, todo : {{}}] \cup
        [pc : {"phones"}, left : SUBSET People, todo : SUBSET Try] \cup
        [pc : {"prune"}, left : SUBSET People, todo : SUBSET Try, token : Tokens]
Testing == [pc : {"send"}, todo : SUBSET Try] \cup
           [pc : {"prune"}, todo : SUBSET Try, token : Tokens]

TypeOK ==
    /\ devices \in [Tokens -> {NoRow} \cup Device]
    /\ installed \subseteq Tokens
    /\ push \in [Pushers -> {Idle} \cup Busy]
    /\ test \in {Idle} \cup Testing
    /\ rung \in [Pushers -> [Tokens -> Nat]]
    /\ owed \in [Pushers -> SUBSET Tokens]
    /\ still \in [Pushers -> SUBSET Tokens]
    /\ ops \in Nat
    /\ events \in Nat

Init ==
    /\ devices \in [Tokens -> {NoRow} \cup {<<p, "sandbox">> : p \in People}]
    /\ installed = Tokens
    /\ push = [x \in Pushers |-> Idle]
    /\ test = Idle
    /\ rung = [x \in Pushers |-> [t \in Tokens |-> 0]]
    /\ owed = [x \in Pushers |-> {}]
    /\ still = [x \in Pushers |-> {}]
    /\ ops = 0
    /\ events = 0

Op == ops < MaxOps /\ ops' = ops + 1

\* The row is there, and APNs would take a push to it.
Good(t) == devices[t] # NoRow /\ t \in installed /\ devices[t][2] = Home(t)

\* What is left of still when the row of t becomes row.
StillAfter(t, row) == IF devices[t] = row THEN still ELSE [x \in Pushers |-> still[x] \ {t}]

\* UpsertDevice, DeleteDevice.
Put(t, row) == devices' = [devices EXCEPT ![t] = row] /\ still' = StillAfter(t, row)

--------------------------------------------------------------------------------
(* The requests.                                                           *)

\* The environment, were it stored as it is given.
EnvAsGiven(env) == env

\* The environment of a registration or a test that names none.
EnvOr(env) == IF env = "" THEN "sandbox" ELSE env

\* registerDevice: the phone belongs to whoever registered it last.
Register(t, p, env) ==
    /\ Op
    /\ t \in installed
    /\ Put(t, <<p, EnvOr(env)>>)
    /\ UNCHANGED <<installed, push, test, rung, owed, events>>

DeleteDevice(t) ==
    /\ Op
    /\ devices[t] # NoRow
    /\ Put(t, NoRow)
    /\ UNCHANGED <<installed, push, test, rung, owed, events>>

\* The app is deleted from the phone.
Uninstall(t) ==
    /\ Op
    /\ t \in installed
    /\ installed' = installed \ {t}
    /\ still' = [x \in Pushers |-> still[x] \ {t}]
    /\ UNCHANGED <<devices, push, test, rung, owed, events>>

\* The phones to try for p, were those of all taken.
ListedOfAll(p) == {<<t, devices[t][2]>> : t \in {u \in Tokens : devices[u] # NoRow}}

\* SendAlert, SendTest: the phones listed, and those of p among them.
Listed(p) == {<<t, devices[t][2]>> : t \in {u \in Tokens : devices[u] # NoRow /\ devices[u][1] = p}}

\* testPush: to a token in the environment the body names, or to the asker's phones.
TestToken(t, env) ==
    /\ Op
    /\ test = Idle
    /\ test' = [pc |-> "send", todo |-> {<<t, EnvOr(env)>>}]
    /\ UNCHANGED <<devices, installed, push, rung, owed, still, events>>

TestMine(p) ==
    /\ Op
    /\ test = Idle
    /\ test' = [pc |-> "send", todo |-> Listed(p)]
    /\ UNCHANGED <<devices, installed, push, rung, owed, still, events>>

--------------------------------------------------------------------------------
(* One delivery: send.                                                     *)

\* The client of a try, were one used for all.
ClientOfSandbox(d) == "sandbox"

\* The APNs client the try goes to.
Client(d) == d[2]

Accepted(d) == d[1] \in installed /\ Client(d) = Home(d[1])

\* 410, Unregistered or BadDeviceToken.
Dead(d) == ~Accepted(d)

\* The test push: each phone is tried; a dead token is pruned.
TestSends ==
    /\ test.pc = "send"
    /\ IF test.todo = {}
       THEN test' = Idle
       ELSE \E d \in test.todo :
              \/ test' = [test EXCEPT !.todo = @ \ {d}]
              \/ /\ Dead(d)
                 /\ test' = [pc |-> "prune", todo |-> test.todo \ {d}, token |-> d[1]]
    /\ UNCHANGED <<devices, installed, push, rung, owed, still, ops, events>>

TestPrunes ==
    /\ test.pc = "prune"
    /\ \/ Put(test.token, NoRow)
       \/ UNCHANGED <<devices, still>>
    /\ test' = [pc |-> "send", todo |-> test.todo]
    /\ UNCHANGED <<installed, push, rung, owed, ops, events>>

--------------------------------------------------------------------------------
(* The notifier: Notifier.OnEvent, Pusher.SendAlert.                       *)

\* An alert to push: nobody is told yet.
Event(x) ==
    /\ push[x] = Idle
    /\ events < MaxEvents
    /\ events' = events + 1
    /\ push' = [push EXCEPT ![x] = [pc |-> "people", left |-> People, todo |-> {}]]
    /\ still' = [still EXCEPT ![x] = {t \in Tokens : Good(t)}]
    /\ UNCHANGED <<devices, installed, test, rung, owed, ops>>

\* The next person is told: their phones are listed.
Tell(x, p) ==
    /\ push[x].pc = "people"
    /\ p \in push[x].left
    /\ push' = [push EXCEPT ![x] = [pc |-> "phones", left |-> @.left \ {p}, todo |-> Listed(p)]]
    /\ owed' = [owed EXCEPT ![x] = @ \cup {t \in Tokens : devices[t] # NoRow /\ devices[t][1] = p}]
    /\ UNCHANGED <<devices, installed, test, rung, still, ops, events>>

\* The decision is not to tell them, or the list fails.
PassOver(x, p) ==
    /\ push[x].pc = "people"
    /\ p \in push[x].left
    /\ push' = [push EXCEPT ![x].left = @ \ {p}]
    /\ UNCHANGED <<devices, installed, test, rung, owed, still, ops, events>>

\* The phone rings.
Ring(x) ==
    /\ push[x].pc = "phones"
    /\ \E d \in push[x].todo :
         /\ Accepted(d)
         /\ push' = [push EXCEPT ![x].todo = @ \ {d}]
         /\ rung' = [rung EXCEPT ![x][d[1]] = @ + 1]
    /\ UNCHANGED <<devices, installed, test, owed, still, ops, events>>

\* APNs does not know the token there.
Reject(x) ==
    /\ push[x].pc = "phones"
    /\ \E d \in push[x].todo :
         /\ Dead(d)
         /\ push' = [push EXCEPT ![x] = [pc |-> "prune", left |-> @.left, todo |-> @.todo \ {d},
                                         token |-> d[1]]]
    /\ UNCHANGED <<devices, installed, test, rung, owed, still, ops, events>>

\* No answer in time, or another error.
NoAnswer(x) ==
    /\ push[x].pc = "phones"
    /\ \E d \in push[x].todo :
         /\ push' = [push EXCEPT ![x].todo = @ \ {d}]
         /\ owed' = [owed EXCEPT ![x] = @ \ {d[1]}]
    /\ UNCHANGED <<devices, installed, test, rung, still, ops, events>>

\* The row of the rejected token is deleted, unless the statement fails.
Prune(x) ==
    /\ push[x].pc = "prune"
    /\ \/ Put(push[x].token, NoRow)
       \/ UNCHANGED <<devices, still>>
    /\ push' = [push EXCEPT ![x] = [pc |-> "phones", left |-> @.left, todo |-> @.todo]]
    /\ UNCHANGED <<installed, test, rung, owed, ops, events>>

\* The person's phones are done.
NextPerson(x) ==
    /\ push[x].pc = "phones"
    /\ push[x].todo = {}
    /\ push' = [push EXCEPT ![x] = [pc |-> "people", left |-> @.left, todo |-> {}]]
    /\ UNCHANGED <<devices, installed, test, rung, owed, still, ops, events>>

\* Everybody has been gone through.
Told(x) == push[x].pc = "people" /\ push[x].left = {}

Finish(x) ==
    /\ Told(x)
    /\ push' = [push EXCEPT ![x] = Idle]
    /\ rung' = [rung EXCEPT ![x] = [t \in Tokens |-> 0]]
    /\ owed' = [owed EXCEPT ![x] = {}]
    /\ still' = [still EXCEPT ![x] = {}]
    /\ UNCHANGED <<devices, installed, test, ops, events>>

Pusher(x) ==
    \/ Event(x)
    \/ \E p \in People : Tell(x, p) \/ PassOver(x, p)
    \/ Ring(x) \/ Reject(x) \/ NoAnswer(x) \/ Prune(x)
    \/ NextPerson(x) \/ Finish(x)

\* The requests, and the phones' owners.
Request ==
    \/ \E t \in Tokens, p \in People, env \in Given : Register(t, p, env)
    \/ \E t \in Tokens : DeleteDevice(t) \/ Uninstall(t)
    \/ \E t \in Tokens, env \in Given : TestToken(t, env)
    \/ \E p \in People : TestMine(p)

Next ==
    \/ Request
    \/ TestSends \/ TestPrunes
    \/ \E x \in Pushers : Pusher(x)

Spec == Init /\ [][Next]_vars

--------------------------------------------------------------------------------
(* Properties.                                                             *)

\* A phone whose registration is good when an alert begins and is left alone
\* rings for it at most once, and rings in the end if its person is told and
\* APNs answers, whatever happens to the other phones, to other alerts, and to
\* test pushes meanwhile (internal/notify/notify.go, internal/push/apns.go).
RungOnce ==
    \A x \in Pushers : \A t \in still[x] :
        /\ rung[x][t] <= 1
        /\ Told(x) /\ t \in owed[x] => rung[x][t] = 1

\* What a push may delete: its token's row, unless the registration was good
\* when the alert began and has been left alone.
MayPrune(t) ==
    \/ test.pc = "prune" /\ test.token = t
    \/ \E x \in Pushers : push[x].pc = "prune" /\ push[x].token = t /\ t \notin still[x]

\* "SendAlert ... prunes dead tokens" (internal/push/apns.go:80): a good
\* registration goes only by a request, by a test push to the token, or by the
\* push of an alert that listed the phone before it was registered anew.
GoodKept ==
    [][\A t \in Tokens :
        Good(t) /\ devices'[t] = NoRow => ops' = ops + 1 \/ MayPrune(t)]_vars
================================================================================
