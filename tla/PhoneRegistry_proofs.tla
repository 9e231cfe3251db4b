-------------------------- MODULE PhoneRegistry_proofs ---------------------------
(***************************************************************************)
(* Proofs, for any people, phones, pushers, requests and alerts, that a    *)
(* phone that is registered rightly and left alone rings once for an alert *)
(* its person is told about, and keeps its registration.                   *)
(***************************************************************************)
EXTENDS PhoneRegistry, TLAPS

\* Where a pusher is determines the shape of its record.
LEMMA Shape ==
  ASSUME TypeOK, NEW x \in Pushers
  PROVE  /\ push[x].pc = "people" => push[x] \in [pc : {"people"}, left : SUBSET People, todo : {{}}]
         /\ push[x].pc = "phones" =>
              push[x] \in [pc : {"phones"}, left : SUBSET People, todo : SUBSET Try]
         /\ push[x].pc = "prune" =>
              push[x] \in [pc : {"prune"}, left : SUBSET People, todo : SUBSET Try, token : Tokens]
         /\ push[x] # Idle => push[x].pc \in {"people", "phones", "prune"}
BY DEF TypeOK, Idle, Busy

\* What the test of a push has under way, while it sends and while it prunes.
LEMMA TestShape ==
  ASSUME TypeOK
  PROVE  /\ test.pc = "send" => test \in [pc : {"send"}, todo : SUBSET Try]
         /\ test.pc = "prune" => test \in [pc : {"prune"}, todo : SUBSET Try, token : Tokens]
BY DEF TypeOK, Idle, Testing

\* A registration that names no environment gets one.
LEMMA EnvOrIsEnv == \A env \in Given : EnvOr(env) \in Envs
BY DEF Given, Envs, EnvOr

\* The phones listed are phones with an environment.
LEMMA ListedIsTry ==
  ASSUME TypeOK, NEW p \in People
  PROVE  Listed(p) \in SUBSET Try
<1>1. \A u \in Tokens : devices[u] # NoRow => devices[u][2] \in Envs
  BY DEF TypeOK, Device
<1>2. QED
  BY <1>1 DEF Listed, Try

\* Changing a row leaves still a set of phones for every pusher.
LEMMA PutTyped ==
  ASSUME TypeOK, NEW t \in Tokens, NEW row \in {NoRow} \cup Device, Put(t, row)
  PROVE  /\ devices' \in [Tokens -> {NoRow} \cup Device]
         /\ still' \in [Pushers -> SUBSET Tokens]
<1>1. devices' \in [Tokens -> {NoRow} \cup Device]
  BY DEF Put, TypeOK
<1>2. StillAfter(t, row) \in [Pushers -> SUBSET Tokens]
  BY DEF StillAfter, TypeOK
<1>3. QED
  BY <1>1, <1>2 DEF Put

\* The first state has the types.
LEMMA InitTyped == Init => TypeOK
<1> SUFFICES ASSUME Init PROVE TypeOK
  OBVIOUS
<1>1. devices \in [Tokens -> {NoRow} \cup Device]
  <2>1. {<<p, "sandbox">> : p \in People} \subseteq Device
    BY DEF Device, Envs
  <2>2. QED
    BY <2>1 DEF Init
<1>2. push \in [Pushers -> {Idle} \cup Busy]
  BY DEF Init
<1>3. rung \in [Pushers -> [Tokens -> Nat]]
  BY DEF Init
<1>4. QED
  BY <1>1, <1>2, <1>3 DEF Init, TypeOK

\* The requests keep the types.
LEMMA RequestTyped == TypeOK /\ Request => TypeOK'
<1> SUFFICES ASSUME TypeOK, Request PROVE TypeOK'
  OBVIOUS
<1>1. ASSUME NEW t \in Tokens, NEW p \in People, NEW env \in Given, Register(t, p, env)
      PROVE  TypeOK'
  <2>1. <<p, EnvOr(env)>> \in {NoRow} \cup Device
    BY EnvOrIsEnv DEF Device
  <2>2. devices' \in [Tokens -> {NoRow} \cup Device] /\ still' \in [Pushers -> SUBSET Tokens]
    BY <1>1, <2>1, PutTyped DEF Register
  <2>3. QED
    BY <1>1, <2>2 DEF Register, Op, TypeOK
<1>2. ASSUME NEW t \in Tokens, DeleteDevice(t) PROVE TypeOK'
  <2>1. devices' \in [Tokens -> {NoRow} \cup Device] /\ still' \in [Pushers -> SUBSET Tokens]
    BY <1>2, PutTyped DEF DeleteDevice
  <2>2. QED
    BY <1>2, <2>1 DEF DeleteDevice, Op, TypeOK
<1>3. ASSUME NEW t \in Tokens, Uninstall(t) PROVE TypeOK'
  BY <1>3 DEF Uninstall, Op, TypeOK
<1>4. ASSUME NEW t \in Tokens, NEW env \in Given, TestToken(t, env) PROVE TypeOK'
  <2>1. <<t, EnvOr(env)>> \in Try
    BY EnvOrIsEnv DEF Try
  <2>2. test' \in {Idle} \cup Testing
    BY <1>4, <2>1 DEF TestToken, Testing
  <2>3. QED
    BY <1>4, <2>2 DEF TestToken, Op, TypeOK
<1>5. ASSUME NEW p \in People, TestMine(p) PROVE TypeOK'
  <2>1. test' \in {Idle} \cup Testing
    BY <1>5, ListedIsTry DEF TestMine, Testing
  <2>2. QED
    BY <1>5, <2>1 DEF TestMine, Op, TypeOK
<1>6. QED
  BY <1>1, <1>2, <1>3, <1>4, <1>5 DEF Request

\* The steps of a test push keep the types.
LEMMA TestTyped == TypeOK /\ (TestSends \/ TestPrunes) => TypeOK'
<1> SUFFICES ASSUME TypeOK, TestSends \/ TestPrunes PROVE TypeOK'
  OBVIOUS
<1>1. CASE TestSends
  <2>1. test \in [pc : {"send"}, todo : SUBSET Try]
    BY <1>1, TestShape DEF TestSends
  <2>2. test' \in {Idle} \cup Testing
    <3>1. \A d \in test.todo : d[1] \in Tokens
      BY <2>1 DEF Try
    <3>2. CASE \E d \in test.todo : test' = [test EXCEPT !.todo = @ \ {d}]
      BY <3>2, <2>1 DEF Testing
    <3>3. CASE \E d \in test.todo : test' = [pc |-> "prune", todo |-> test.todo \ {d}, token |-> d[1]]
      BY <3>3, <3>1, <2>1 DEF Testing
    <3>4. QED
      BY <1>1, <3>2, <3>3 DEF TestSends
  <2>3. QED
    BY <1>1, <2>2 DEF TestSends, TypeOK
<1>2. CASE TestPrunes
  <2>1. test \in [pc : {"prune"}, todo : SUBSET Try, token : Tokens]
    BY <1>2, TestShape DEF TestPrunes
  <2>2. /\ devices' \in [Tokens -> {NoRow} \cup Device]
        /\ still' \in [Pushers -> SUBSET Tokens]
    <3>1. CASE Put(test.token, NoRow)
      BY <3>1, <2>1, PutTyped
    <3>2. CASE UNCHANGED <<devices, still>>
      BY <3>2 DEF TypeOK
    <3>3. QED
      BY <1>2, <3>1, <3>2 DEF TestPrunes
  <2>3. test' \in {Idle} \cup Testing
    BY <1>2, <2>1 DEF TestPrunes, Testing
  <2>4. QED
    BY <1>2, <2>2, <2>3 DEF TestPrunes, TypeOK
<1>3. QED
  BY <1>1, <1>2

\* A record of where a pusher is that is put in place of the one there was.
LEMMA PushTyped ==
  ASSUME TypeOK, NEW x \in Pushers, NEW r \in {Idle} \cup Busy, push' = [push EXCEPT ![x] = r]
  PROVE  push' \in [Pushers -> {Idle} \cup Busy]
BY DEF TypeOK

\* What a pusher does keeps the types.
LEMMA PusherTyped ==
  ASSUME TypeOK, NEW x \in Pushers, Pusher(x)
  PROVE  TypeOK'
<1>1. CASE Event(x)
  <2>1. [pc |-> "people", left |-> People, todo |-> {}] \in Busy
    BY DEF Busy
  <2>2. push' \in [Pushers -> {Idle} \cup Busy]
    BY <1>1, <2>1, PushTyped DEF Event
  <2>3. QED
    BY <1>1, <2>2 DEF Event, TypeOK
<1>2. ASSUME NEW p \in People, Tell(x, p) PROVE TypeOK'
  <2>1. push[x].left \in SUBSET People
    BY <1>2, Shape DEF Tell
  <2>2. [pc |-> "phones", left |-> push[x].left \ {p}, todo |-> Listed(p)] \in Busy
    BY <2>1, ListedIsTry DEF Busy
  <2>3. push' = [push EXCEPT ![x] = [pc |-> "phones", left |-> push[x].left \ {p}, todo |-> Listed(p)]]
    BY <1>2 DEF Tell, TypeOK
  <2>4. push' \in [Pushers -> {Idle} \cup Busy]
    BY <2>2, <2>3, PushTyped
  <2>5. QED
    BY <1>2, <2>4 DEF Tell, TypeOK
<1>3. ASSUME NEW p \in People, PassOver(x, p) PROVE TypeOK'
  <2>1. push[x] \in [pc : {"people"}, left : SUBSET People, todo : {{}}]
    BY <1>3, Shape DEF PassOver
  <2>2. [push[x] EXCEPT !.left = @ \ {p}] \in Busy
    BY <2>1 DEF Busy
  <2>3. push' = [push EXCEPT ![x] = [push[x] EXCEPT !.left = @ \ {p}]]
    BY <1>3 DEF PassOver
  <2>4. push' \in [Pushers -> {Idle} \cup Busy]
    BY <2>2, <2>3, PushTyped
  <2>5. QED
    BY <1>3, <2>4 DEF PassOver, TypeOK
<1>4. CASE Ring(x) \/ NoAnswer(x)
  <2>1. push[x] \in [pc : {"phones"}, left : SUBSET People, todo : SUBSET Try]
    BY <1>4, Shape DEF Ring, NoAnswer
  <2>2. PICK d \in push[x].todo :
          /\ push' = [push EXCEPT ![x].todo = @ \ {d}]
          /\ rung' \in {rung, [rung EXCEPT ![x][d[1]] = @ + 1]}
          /\ owed' \in {owed, [owed EXCEPT ![x] = @ \ {d[1]}]}
    BY <1>4 DEF Ring, NoAnswer
  <2>3. d[1] \in Tokens
    BY <2>1 DEF Try
  <2>4. [push[x] EXCEPT !.todo = @ \ {d}] \in Busy
    BY <2>1 DEF Busy
  <2>5. push' = [push EXCEPT ![x] = [push[x] EXCEPT !.todo = @ \ {d}]]
    BY <2>2
  <2>6. push' \in [Pushers -> {Idle} \cup Busy]
    BY <2>4, <2>5, PushTyped
  <2>7. rung' \in [Pushers -> [Tokens -> Nat]]
    <3>1. rung[x][d[1]] + 1 \in Nat
      BY <2>3 DEF TypeOK
    <3>2. [rung[x] EXCEPT ![d[1]] = @ + 1] \in [Tokens -> Nat]
      BY <3>1 DEF TypeOK
    <3>3. QED
      BY <2>2, <3>2 DEF TypeOK
  <2>8. owed' \in [Pushers -> SUBSET Tokens]
    BY <2>2 DEF TypeOK
  <2>9. QED
    BY <1>4, <2>6, <2>7, <2>8 DEF Ring, NoAnswer, TypeOK
<1>5. CASE Reject(x)
  <2>1. push[x] \in [pc : {"phones"}, left : SUBSET People, todo : SUBSET Try]
    BY <1>5, Shape DEF Reject
  <2>2. PICK d \in push[x].todo :
          push' = [push EXCEPT ![x] = [pc |-> "prune", left |-> push[x].left,
                                       todo |-> push[x].todo \ {d}, token |-> d[1]]]
    BY <1>5 DEF Reject, TypeOK
  <2>3. d[1] \in Tokens
    BY <2>1 DEF Try
  <2>4. [pc |-> "prune", left |-> push[x].left, todo |-> push[x].todo \ {d}, token |-> d[1]] \in Busy
    BY <2>1, <2>3 DEF Busy
  <2>5. push' \in [Pushers -> {Idle} \cup Busy]
    BY <2>2, <2>4, PushTyped
  <2>6. QED
    BY <1>5, <2>5 DEF Reject, TypeOK
<1>6. CASE Prune(x)
  <2>1. push[x] \in [pc : {"prune"}, left : SUBSET People, todo : SUBSET Try, token : Tokens]
    BY <1>6, Shape DEF Prune
  <2>2. devices' \in [Tokens -> {NoRow} \cup Device] /\ still' \in [Pushers -> SUBSET Tokens]
    <3>1. CASE Put(push[x].token, NoRow)
      BY <3>1, <2>1, PutTyped
    <3>2. CASE UNCHANGED <<devices, still>>
      BY <3>2 DEF TypeOK
    <3>3. QED
      BY <1>6, <3>1, <3>2 DEF Prune
  <2>3. [pc |-> "phones", left |-> push[x].left, todo |-> push[x].todo] \in Busy
    BY <2>1 DEF Busy
  <2>4. push' = [push EXCEPT ![x] = [pc |-> "phones", left |-> push[x].left, todo |-> push[x].todo]]
    BY <1>6 DEF Prune, TypeOK
  <2>5. push' \in [Pushers -> {Idle} \cup Busy]
    BY <2>3, <2>4, PushTyped
  <2>6. QED
    BY <1>6, <2>2, <2>5 DEF Prune, TypeOK
<1>7. CASE NextPerson(x)
  <2>1. push[x] \in [pc : {"phones"}, left : SUBSET People, todo : SUBSET Try]
    BY <1>7, Shape DEF NextPerson
  <2>2. [pc |-> "people", left |-> push[x].left, todo |-> {}] \in Busy
    BY <2>1 DEF Busy
  <2>3. push' = [push EXCEPT ![x] = [pc |-> "people", left |-> push[x].left, todo |-> {}]]
    BY <1>7 DEF NextPerson, TypeOK
  <2>4. push' \in [Pushers -> {Idle} \cup Busy]
    BY <2>2, <2>3, PushTyped
  <2>5. QED
    BY <1>7, <2>4 DEF NextPerson, TypeOK
<1>8. CASE Finish(x)
  <2>1. push' \in [Pushers -> {Idle} \cup Busy]
    BY <1>8, PushTyped DEF Finish
  <2>2. rung' \in [Pushers -> [Tokens -> Nat]]
    BY <1>8 DEF Finish, TypeOK
  <2>3. QED
    BY <1>8, <2>1, <2>2 DEF Finish, TypeOK
<1>9. QED
  BY <1>1, <1>2, <1>3, <1>4, <1>5, <1>6, <1>7, <1>8 DEF Pusher

\* Every step keeps the types.
LEMMA StepTyped == TypeOK /\ [Next]_vars => TypeOK'
<1> SUFFICES ASSUME TypeOK, [Next]_vars PROVE TypeOK'
  OBVIOUS
<1>1. CASE Next
  BY <1>1, RequestTyped, TestTyped, PusherTyped DEF Next
<1>2. CASE UNCHANGED vars
  BY <1>2 DEF vars, TypeOK
<1>3. QED
  BY <1>1, <1>2

\* Every variable of PhoneRegistry keeps its type: a pusher only ever tries
\* phones with the environment they were registered in.
THEOREM TypeCorrect == Spec => []TypeOK
<1>1. QED
  BY InitTyped, StepTyped, PTL DEF Spec

--------------------------------------------------------------------------------
(* A phone that is left alone.                                             *)

\* What is so of a phone t whose row has not changed since x's alert began:
\* it is good, it is not being pruned, it is tried once, when its person is.
LeftAlone(x, t) ==
    /\ Good(t)
    /\ push[x] # Idle
    /\ push[x].pc = "prune" => push[x].token # t
    /\ rung[x][t] <= 1
    /\ devices[t][1] \in push[x].left => rung[x][t] = 0 /\ t \notin owed[x]
    /\ \A d \in push[x].todo :
         d[1] = t => d[2] = Home(t) /\ rung[x][t] = 0 /\ devices[t][1] \notin push[x].left
    /\ t \in owed[x] => rung[x][t] = 1 \/ \E d \in push[x].todo : d[1] = t

\* Nothing is kept between two alerts.
Fresh(x) ==
    push[x] = Idle => still[x] = {} /\ owed[x] = {} /\ \A t \in Tokens : rung[x][t] = 0

IInv == \A x \in Pushers : Fresh(x) /\ \A t \in still[x] : LeftAlone(x, t)

\* No alert has been told at first, and no phone is left alone through one.
LEMMA InitInv == Init => IInv
BY DEF Init, IInv, Fresh

\* A try of a phone left alone is accepted: its environment is the app's.
LEMMA NotDead ==
  ASSUME NEW x \in Pushers, NEW t \in still[x], LeftAlone(x, t),
         NEW d \in push[x].todo, d[1] = t
  PROVE  Accepted(d)
BY DEF LeftAlone, Accepted, Client, Good

\* What leaves x's push, the rows and the phones of still[x] alone, leaves
\* LeftAlone alone.
LEMMA Undisturbed ==
  ASSUME TypeOK, IInv, NEW x \in Pushers,
         push'[x] = push[x], rung'[x] = rung[x], owed'[x] = owed[x],
         still'[x] \subseteq still[x],
         \A t \in still'[x] : devices'[t] = devices[t] /\ (t \in installed => t \in installed')
  PROVE  Fresh(x)' /\ \A t \in still'[x] : LeftAlone(x, t)'
<1>1. Fresh(x)'
  BY DEF IInv, Fresh
<1>2. ASSUME NEW t \in still'[x]
      PROVE  LeftAlone(x, t)'
  <2>1. LeftAlone(x, t) /\ devices'[t] = devices[t] /\ (t \in installed => t \in installed')
    BY <1>2 DEF IInv
  <2>2. QED
    BY <2>1 DEF LeftAlone, Good, Home
<1>3. QED
  BY <1>1, <1>2

\* Changing a row takes its phone out of still.
LEMMA PutLeaves ==
  ASSUME TypeOK, NEW t \in Tokens, NEW row, Put(t, row), NEW x \in Pushers
  PROVE  still'[x] \subseteq still[x] /\ \A u \in still'[x] : devices'[u] = devices[u]
<1>1. CASE devices[t] = row
  BY <1>1 DEF Put, StillAfter, TypeOK
<1>2. CASE devices[t] # row
  BY <1>2 DEF Put, StillAfter, TypeOK
<1>3. QED
  BY <1>1, <1>2

\* A phone whose row, or whose app, a request changes is no longer one left alone.
LEMMA RequestInv == TypeOK /\ IInv /\ Request => IInv'
<1> SUFFICES ASSUME TypeOK, IInv, Request, NEW x \in Pushers
             PROVE  Fresh(x)' /\ \A t \in still'[x] : LeftAlone(x, t)'
  BY DEF IInv
<1>1. push'[x] = push[x] /\ rung'[x] = rung[x] /\ owed'[x] = owed[x]
  BY DEF Request, Register, DeleteDevice, Uninstall, TestToken, TestMine
<1>2. /\ still'[x] \subseteq still[x]
      /\ \A t \in still'[x] : devices'[t] = devices[t] /\ (t \in installed => t \in installed')
  <2>1. ASSUME NEW t \in Tokens, NEW row, Put(t, row), installed' = installed PROVE <1>2!1 /\ <1>2!2
    BY <2>1, PutLeaves
  <2>2. ASSUME NEW t \in Tokens, Uninstall(t) PROVE <1>2!1 /\ <1>2!2
    BY <2>2 DEF Uninstall, TypeOK
  <2>3. CASE UNCHANGED <<devices, installed, still>>
    BY <2>3
  <2>4. QED
    BY <2>1, <2>2, <2>3 DEF Request, Register, DeleteDevice, TestToken, TestMine
<1>3. QED
  BY <1>1, <1>2, Undisturbed

\* A phone that a test push prunes is no longer one left alone.
LEMMA TestInv == TypeOK /\ IInv /\ (TestSends \/ TestPrunes) => IInv'
<1> SUFFICES ASSUME TypeOK, IInv, TestSends \/ TestPrunes, NEW x \in Pushers
             PROVE  Fresh(x)' /\ \A t \in still'[x] : LeftAlone(x, t)'
  BY DEF IInv
<1>1. push'[x] = push[x] /\ rung'[x] = rung[x] /\ owed'[x] = owed[x] /\ installed' = installed
  BY DEF TestSends, TestPrunes
<1>2. still'[x] \subseteq still[x] /\ \A t \in still'[x] : devices'[t] = devices[t]
  <2>1. CASE UNCHANGED <<devices, still>>
    BY <2>1
  <2>2. CASE test.pc = "prune" /\ Put(test.token, NoRow)
    BY <2>2, TestShape, PutLeaves
  <2>3. QED
    BY <2>1, <2>2 DEF TestSends, TestPrunes
<1>3. QED
  BY <1>1, <1>2, Undisturbed

\* A pusher does not disturb what another's alert has still to ring.
LEMMA OthersInv ==
  ASSUME TypeOK, IInv, NEW x \in Pushers, NEW y \in Pushers, x # y, Pusher(y)
  PROVE  Fresh(x)' /\ \A t \in still'[x] : LeftAlone(x, t)'
<1>1. push'[x] = push[x] /\ rung'[x] = rung[x] /\ owed'[x] = owed[x] /\ installed' = installed
  BY DEF Pusher, Event, Tell, PassOver, Ring, Reject, NoAnswer, Prune, NextPerson, Finish, TypeOK
<1>2. still'[x] \subseteq still[x] /\ \A t \in still'[x] : devices'[t] = devices[t]
  <2>1. CASE Prune(y)
    <3>1. CASE UNCHANGED <<devices, still>>
      BY <3>1
    <3>2. CASE Put(push[y].token, NoRow)
      <4>1. push[y].token \in Tokens
        BY <2>1, Shape DEF Prune
      <4>2. QED
        BY <3>2, <4>1, PutLeaves
    <3>3. QED
      BY <2>1, <3>1, <3>2 DEF Prune
  <2>2. CASE ~Prune(y)
    BY <2>2 DEF Pusher, Event, Tell, PassOver, Ring, Reject, NoAnswer, NextPerson, Finish, TypeOK
  <2>3. QED
    BY <2>1, <2>2
<1>3. QED
  BY <1>1, <1>2, Undisturbed

\* An alert begins with its good phones.
LEMMA EventInv ==
  ASSUME TypeOK, IInv, NEW x \in Pushers, Event(x)
  PROVE  Fresh(x)' /\ \A t \in still'[x] : LeftAlone(x, t)'
<1>1. push'[x] = [pc |-> "people", left |-> People, todo |-> {}]
  BY DEF Event, TypeOK
<1>2. push'[x] # Idle /\ push'[x].pc # "prune" /\ push'[x].todo = {}
  BY <1>1 DEF Idle
<1>3. still'[x] = {t \in Tokens : Good(t)} /\ UNCHANGED <<devices, installed, rung, owed>>
  BY DEF Event, TypeOK
<1>4. owed[x] = {} /\ \A t \in Tokens : rung[x][t] = 0
  BY DEF IInv, Fresh, Event
<1>5. QED
  BY <1>2, <1>3, <1>4 DEF Fresh, LeftAlone, Good, Home

\* A person's phones are listed as they are registered now.
LEMMA TellInv ==
  ASSUME TypeOK, IInv, NEW x \in Pushers, NEW p \in People, Tell(x, p)
  PROVE  Fresh(x)' /\ \A t \in still'[x] : LeftAlone(x, t)'
<1>1. push[x] \in [pc : {"people"}, left : SUBSET People, todo : {{}}] /\ p \in push[x].left
  BY Shape DEF Tell
<1>2. push'[x] = [pc |-> "phones", left |-> push[x].left \ {p}, todo |-> Listed(p)]
  BY DEF Tell, TypeOK
<1>3. push'[x] # Idle /\ push'[x].pc # "prune" /\ push'[x].left = push[x].left \ {p}
      /\ push'[x].todo = Listed(p)
  BY <1>2 DEF Idle
<1>4. owed'[x] = owed[x] \cup {t \in Tokens : devices[t] # NoRow /\ devices[t][1] = p}
  BY DEF Tell, TypeOK
<1>5. UNCHANGED <<devices, installed, rung, still>>
  BY DEF Tell
<1>6. ASSUME NEW t \in still[x]
      PROVE  LeftAlone(x, t)'
  <2>1. LeftAlone(x, t) /\ t \in Tokens
    BY <1>6 DEF IInv, TypeOK
  <2>2. Good(t)' /\ rung'[x][t] <= 1 /\ devices'[t] = devices[t] /\ devices[t] # NoRow
    BY <2>1, <1>5 DEF LeftAlone, Good, Home
  <2>3. devices'[t][1] \in push'[x].left => rung'[x][t] = 0 /\ t \notin owed'[x]
    BY <2>1, <1>1, <1>3, <1>4, <1>5 DEF LeftAlone
  <2>4. ASSUME NEW d \in Listed(p), d[1] = t
        PROVE  d[2] = Home(t)' /\ rung'[x][t] = 0 /\ devices'[t][1] \notin push'[x].left
    <3>1. d[2] = devices[t][2] /\ devices[t][1] = p
      BY <2>4 DEF Listed
    <3>2. QED
      BY <3>1, <2>1, <1>1, <1>3, <1>5 DEF LeftAlone, Good, Home
  <2>5. t \in owed'[x] => rung'[x][t] = 1 \/ \E d \in push'[x].todo : d[1] = t
    <3>1. CASE devices[t][1] = p
      <4>1. <<t, devices[t][2]>> \in Listed(p)
        BY <3>1, <2>1, <2>2 DEF Listed
      <4>2. QED
        BY <4>1, <1>3
    <3>2. CASE devices[t][1] # p
      BY <3>2, <2>1, <1>1, <1>4, <1>5 DEF LeftAlone
    <3>3. QED
      BY <3>1, <3>2
  <2>6. QED
    BY <2>2, <2>3, <2>4, <2>5, <1>3 DEF LeftAlone
<1>7. QED
  BY <1>3, <1>5, <1>6 DEF Fresh

\* The phone rings: it is not tried again.
LEMMA RingInv ==
  ASSUME TypeOK, IInv, NEW x \in Pushers, Ring(x)
  PROVE  Fresh(x)' /\ \A t \in still'[x] : LeftAlone(x, t)'
<1>1. push[x] \in [pc : {"phones"}, left : SUBSET People, todo : SUBSET Try]
  BY Shape DEF Ring
<1>2. PICK d \in push[x].todo :
        /\ push' = [push EXCEPT ![x].todo = @ \ {d}]
        /\ rung' = [rung EXCEPT ![x][d[1]] = @ + 1]
  BY DEF Ring
<1>3. push'[x] = [push[x] EXCEPT !.todo = @ \ {d}]
  BY <1>2 DEF TypeOK
<1>4. push'[x].pc = "phones" /\ push'[x].left = push[x].left /\ push'[x].todo = push[x].todo \ {d}
  BY <1>1, <1>3
<1>5. d[1] \in Tokens /\ d = <<d[1], d[2]>>
  BY <1>1 DEF Try
<1>6. \A t \in Tokens : rung'[x][t] = IF t = d[1] THEN rung[x][t] + 1 ELSE rung[x][t]
  BY <1>2, <1>5 DEF TypeOK
<1>7. UNCHANGED <<devices, installed, owed, still>>
  BY DEF Ring
<1>8. ASSUME NEW t \in still[x]
      PROVE  LeftAlone(x, t)'
  <2>1. LeftAlone(x, t) /\ t \in Tokens /\ rung[x][t] \in Nat
    BY <1>8 DEF IInv, TypeOK
  <2>2. Good(t)' /\ push'[x] # Idle /\ push'[x].pc # "prune" /\ Home(t)' = Home(t)
    BY <2>1, <1>4, <1>7 DEF LeftAlone, Good, Home, Idle
  <2>3. CASE t = d[1]
    <3>1. rung[x][t] = 0 /\ d[2] = Home(t) /\ devices[t][1] \notin push[x].left
      BY <2>1, <2>3 DEF LeftAlone
    <3>2. rung'[x][t] = 1
      BY <3>1, <2>1, <2>3, <1>6
    <3>3. \A e \in push[x].todo : e[1] = t => e = d
      BY <3>1, <2>1, <2>3, <1>1, <1>5 DEF LeftAlone, Try
    <3>4. \A e \in push'[x].todo : e[1] # t
      BY <3>3, <1>4
    <3>5. QED
      BY <2>2, <3>1, <3>2, <3>4, <1>4, <1>7 DEF LeftAlone
  <2>4. CASE t # d[1]
    <3>1. rung'[x][t] = rung[x][t]
      BY <2>1, <2>4, <1>6
    <3>2. t \in owed[x] => rung[x][t] = 1 \/ \E e \in push'[x].todo : e[1] = t
      BY <2>1, <2>4, <1>4 DEF LeftAlone
    <3>3. QED
      BY <2>1, <2>2, <3>1, <3>2, <1>4, <1>7 DEF LeftAlone
  <2>5. QED
    BY <2>3, <2>4
<1>9. QED
  BY <1>4, <1>7, <1>8 DEF Fresh, Idle

\* A phone left alone is not rejected.
LEMMA RejectInv ==
  ASSUME TypeOK, IInv, NEW x \in Pushers, Reject(x)
  PROVE  Fresh(x)' /\ \A t \in still'[x] : LeftAlone(x, t)'
<1>1. push[x] \in [pc : {"phones"}, left : SUBSET People, todo : SUBSET Try]
  BY Shape DEF Reject
<1>2. PICK d \in push[x].todo :
        /\ Dead(d)
        /\ push' = [push EXCEPT ![x] = [pc |-> "prune", left |-> push[x].left,
                                        todo |-> push[x].todo \ {d}, token |-> d[1]]]
  BY DEF Reject, TypeOK
<1>3. push'[x] = [pc |-> "prune", left |-> push[x].left, todo |-> push[x].todo \ {d}, token |-> d[1]]
  BY <1>2 DEF TypeOK
<1>4. UNCHANGED <<devices, installed, rung, owed, still>>
  BY DEF Reject
<1>5. ASSUME NEW t \in still[x]
      PROVE  LeftAlone(x, t)'
  <2>1. LeftAlone(x, t)
    BY <1>5 DEF IInv
  <2>2. d[1] # t
    BY <2>1, <1>2, <1>5, NotDead DEF Dead
  <2>3. t \in owed[x] => rung[x][t] = 1 \/ \E e \in push'[x].todo : e[1] = t
    BY <2>1, <2>2, <1>3 DEF LeftAlone
  <2>4. Good(t)' /\ Home(t)' = Home(t)
    BY <2>1, <1>4 DEF LeftAlone, Good, Home
  <2>5. push'[x] # Idle /\ push'[x].token # t
    BY <2>2, <1>3 DEF Idle
  <2>6. QED
    BY <2>1, <2>3, <2>4, <2>5, <1>3, <1>4 DEF LeftAlone
<1>6. QED
  BY <1>3, <1>4, <1>5 DEF Fresh, Idle

\* A phone APNs did not answer about is not owed the alert any more.
LEMMA NoAnswerInv ==
  ASSUME TypeOK, IInv, NEW x \in Pushers, NoAnswer(x)
  PROVE  Fresh(x)' /\ \A t \in still'[x] : LeftAlone(x, t)'
<1>1. push[x] \in [pc : {"phones"}, left : SUBSET People, todo : SUBSET Try]
  BY Shape DEF NoAnswer
<1>2. PICK d \in push[x].todo :
        /\ push' = [push EXCEPT ![x].todo = @ \ {d}]
        /\ owed' = [owed EXCEPT ![x] = @ \ {d[1]}]
  BY DEF NoAnswer
<1>3. push'[x] = [push[x] EXCEPT !.todo = @ \ {d}] /\ owed'[x] = owed[x] \ {d[1]}
  BY <1>2 DEF TypeOK
<1>4. push'[x].pc = "phones" /\ push'[x].left = push[x].left /\ push'[x].todo = push[x].todo \ {d}
  BY <1>1, <1>3
<1>5. UNCHANGED <<devices, installed, rung, still>>
  BY DEF NoAnswer
<1>6. ASSUME NEW t \in still[x]
      PROVE  LeftAlone(x, t)'
  <2>1. LeftAlone(x, t)
    BY <1>6 DEF IInv
  <2>2. t \in owed'[x] => rung[x][t] = 1 \/ \E e \in push'[x].todo : e[1] = t
    BY <2>1, <1>3, <1>4 DEF LeftAlone
  <2>3. Good(t)' /\ Home(t)' = Home(t) /\ push'[x] # Idle
    BY <2>1, <1>4, <1>5 DEF LeftAlone, Good, Home, Idle
  <2>4. QED
    BY <2>1, <2>2, <2>3, <1>3, <1>4, <1>5 DEF LeftAlone
<1>7. QED
  BY <1>4, <1>5, <1>6 DEF Fresh, Idle

\* Only a rejected token's row is deleted.
LEMMA PruneInv ==
  ASSUME TypeOK, IInv, NEW x \in Pushers, Prune(x)
  PROVE  Fresh(x)' /\ \A t \in still'[x] : LeftAlone(x, t)'
<1>1. push[x] \in [pc : {"prune"}, left : SUBSET People, todo : SUBSET Try, token : Tokens]
  BY Shape DEF Prune
<1>2. push'[x] = [pc |-> "phones", left |-> push[x].left, todo |-> push[x].todo]
  BY DEF Prune, TypeOK
<1>3. UNCHANGED <<installed, rung, owed>>
  BY DEF Prune
<1>4. still'[x] \subseteq still[x] /\ \A t \in still'[x] : devices'[t] = devices[t]
  <2>1. CASE UNCHANGED <<devices, still>>
    BY <2>1
  <2>2. CASE Put(push[x].token, NoRow)
    BY <2>2, <1>1, PutLeaves
  <2>3. QED
    BY <2>1, <2>2 DEF Prune
<1>5. ASSUME NEW t \in still'[x]
      PROVE  LeftAlone(x, t)'
  <2>1. LeftAlone(x, t) /\ devices'[t] = devices[t]
    BY <1>4, <1>5 DEF IInv
  <2>2. Good(t)' /\ Home(t)' = Home(t) /\ push'[x] # Idle /\ push'[x].pc # "prune"
    BY <2>1, <1>2, <1>3 DEF LeftAlone, Good, Home, Idle
  <2>3. QED
    BY <2>1, <2>2, <1>2, <1>3 DEF LeftAlone
<1>6. QED
  BY <1>2, <1>5 DEF Fresh, Idle

\* Going on to the next person, or past one.
LEMMA PassInv ==
  ASSUME TypeOK, IInv, NEW x \in Pushers,
         NextPerson(x) \/ Finish(x) \/ \E p \in People : PassOver(x, p)
  PROVE  Fresh(x)' /\ \A t \in still'[x] : LeftAlone(x, t)'
<1>1. CASE Finish(x)
  <2>1. still'[x] = {} /\ owed'[x] = {} /\ \A t \in Tokens : rung'[x][t] = 0
    BY <1>1 DEF Finish, TypeOK
  <2>2. QED
    BY <2>1 DEF Fresh
<1>2. CASE NextPerson(x) \/ \E p \in People : PassOver(x, p)
  <2>1. UNCHANGED <<devices, installed, rung, owed, still>>
    BY <1>2 DEF NextPerson, PassOver
  <2>2. /\ push'[x].pc = "people"
        /\ push'[x].left \subseteq push[x].left
        /\ push'[x].todo = push[x].todo
    <3>1. CASE NextPerson(x)
      <4>1. push'[x] = [pc |-> "people", left |-> push[x].left, todo |-> {}] /\ push[x].todo = {}
        BY <3>1 DEF NextPerson, TypeOK
      <4>2. QED
        BY <4>1
    <3>2. ASSUME NEW p \in People, PassOver(x, p)
          PROVE  <2>2!1 /\ <2>2!2 /\ <2>2!3
      <4>1. push[x] \in [pc : {"people"}, left : SUBSET People, todo : {{}}]
        BY <3>2, Shape DEF PassOver
      <4>2. push'[x] = [push[x] EXCEPT !.left = @ \ {p}]
        BY <3>2 DEF PassOver, TypeOK
      <4>3. QED
        BY <4>1, <4>2
    <3>3. QED
      BY <1>2, <3>1, <3>2
  <2>3. ASSUME NEW t \in still[x]
        PROVE  LeftAlone(x, t)'
    <3>1. LeftAlone(x, t)
      BY <2>3 DEF IInv
    <3>2. Good(t)' /\ Home(t)' = Home(t) /\ push'[x] # Idle /\ push'[x].pc # "prune"
      BY <3>1, <2>1, <2>2 DEF LeftAlone, Good, Home, Idle
    <3>3. QED
      BY <3>1, <3>2, <2>1, <2>2 DEF LeftAlone
  <2>4. QED
    BY <2>1, <2>2, <2>3 DEF Fresh, Idle
<1>3. QED
  BY <1>1, <1>2

\* At every step a phone left alone through an alert is on its list once, or answered for.
LEMMA StepInv == TypeOK /\ IInv /\ [Next]_vars => IInv'
<1> SUFFICES ASSUME TypeOK, IInv, [Next]_vars PROVE IInv'
  OBVIOUS
<1>1. ASSUME NEW y \in Pushers, Pusher(y) PROVE IInv'
  <2>1. ASSUME NEW x \in Pushers, x # y PROVE Fresh(x)' /\ \A t \in still'[x] : LeftAlone(x, t)'
    BY <1>1, <2>1, OthersInv
  <2>2. Fresh(y)' /\ \A t \in still'[y] : LeftAlone(y, t)'
    BY <1>1, EventInv, TellInv, RingInv, RejectInv, NoAnswerInv, PruneInv, PassInv DEF Pusher
  <2>3. QED
    BY <2>1, <2>2 DEF IInv
<1>2. CASE Request \/ TestSends \/ TestPrunes
  BY <1>2, RequestInv, TestInv
<1>3. CASE UNCHANGED vars
  BY <1>3 DEF vars, IInv, Fresh, LeftAlone, Good, Home
<1>4. QED
  BY <1>1, <1>2, <1>3 DEF Next

\* What RungOnce says of a phone follows from LeftAlone.
LEMMA InvRungOnce == TypeOK /\ IInv => RungOnce
<1> SUFFICES ASSUME TypeOK, IInv, NEW x \in Pushers, NEW t \in still[x]
             PROVE  rung[x][t] <= 1 /\ (Told(x) /\ t \in owed[x] => rung[x][t] = 1)
  BY DEF RungOnce
<1>1. LeftAlone(x, t)
  BY DEF IInv
<1>2. Told(x) => push[x].todo = {}
  BY Shape DEF Told
<1>3. QED
  BY <1>1, <1>2 DEF LeftAlone

\* A phone whose registration is good and is left alone rings once for an
\* alert its person is told about, if APNs answers.
THEOREM RingsOnce == Spec => []RungOnce
<1>1. QED
  BY InitTyped, StepTyped, InitInv, StepInv, InvRungOnce, PTL DEF Spec

\* What a step may do to a good registration.
LEMMA StepKeeps ==
  TypeOK /\ IInv /\ [Next]_vars =>
    [\A t \in Tokens : Good(t) /\ devices'[t] = NoRow => ops' = ops + 1 \/ MayPrune(t)]_vars
<1> SUFFICES ASSUME TypeOK, IInv, Next, NEW t \in Tokens, Good(t), devices'[t] = NoRow
             PROVE  ops' = ops + 1 \/ MayPrune(t)
  OBVIOUS
<1>1. devices'[t] # devices[t]
  BY DEF Good
<1>2. CASE Request
  BY <1>2 DEF Request, Register, DeleteDevice, Uninstall, TestToken, TestMine, Op
<1>3. CASE TestSends \/ TestPrunes
  <2>1. TestPrunes /\ Put(test.token, NoRow)
    BY <1>1, <1>3 DEF TestSends, TestPrunes
  <2>2. test.token = t
    BY <2>1, <1>1 DEF Put, TypeOK
  <2>3. QED
    BY <2>1, <2>2 DEF TestPrunes, MayPrune
<1>4. ASSUME NEW x \in Pushers, Pusher(x) PROVE MayPrune(t)
  <2>1. Prune(x) /\ Put(push[x].token, NoRow)
    BY <1>1, <1>4 DEF Pusher, Event, Tell, PassOver, Ring, Reject, NoAnswer, Prune, NextPerson, Finish
  <2>2. push[x].pc = "prune" /\ push[x].token = t
    BY <2>1, <1>1 DEF Prune, Put, TypeOK
  <2>3. t \notin still[x]
    BY <2>2 DEF IInv, LeftAlone
  <2>4. QED
    BY <2>2, <2>3 DEF MayPrune
<1>5. QED
  BY <1>2, <1>3, <1>4 DEF Next

\* A good registration goes only by a request, by a test push to the token, or
\* by the push of an alert that listed the phone before it registered anew.
THEOREM GoodIsKept == Spec => GoodKept
<1>1. QED
  BY InitTyped, StepTyped, InitInv, StepInv, StepKeeps, PTL DEF Spec, GoodKept

================================================================================
