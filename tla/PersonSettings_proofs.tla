-------------------------- MODULE PersonSettings_proofs --------------------------
(***************************************************************************)
(* Proofs, for any people, keys and requests, that partial updates lose    *)
(* nothing but where they cross, that a mute in force goes only as its     *)
(* person says, and that nothing sets a person's mute but its person.      *)
(***************************************************************************)
EXTENDS PersonSettings, TLAPS

\* What may be left of a request's plan.
Left == {<<>>, <<"select">>, <<"set", "select">>, <<"select", "set", "select">>,
         <<"clear", "select">>, <<"write", "select">>, <<"read", "write", "select">>,
         <<"select", "read", "write", "select">>, <<"read", "write">>, <<"write">>}

\* What a request begins with is a plan that may be left, and not an empty one.
LEMMA PlanLeft == \A op \in Ops : Plan(op) \in Left /\ Plan(op) # <<>>
BY DEF Ops, Updates, Plan, Left

\* No request begins with its write: the read comes first.
LEMMA PlanHead == \A op \in Ops : Head(Plan(op)) # "write"
<1>1. \A op \in Ops : Plan(op) \in
        {<<"select">>, <<"set", "select">>, <<"select", "set", "select">>, <<"clear", "select">>,
         <<"select", "read", "write", "select">>, <<"read", "write">>}
  BY DEF Ops, Updates, Plan
<1>2. QED
  BY <1>1

\* A plan is a sequence of statements.
LEMMA LeftIsSeq == Left \subseteq Seq(Statements)
BY DEF Left, Statements

\* What is left of a plan of up to four statements after the first.
LEMMA Tails ==
  ASSUME NEW a, NEW b, NEW c, NEW d
  PROVE  /\ Tail(<<a>>) = <<>> /\ Len(<<a>>) = 1
         /\ Tail(<<a, b>>) = <<b>> /\ Len(<<a, b>>) = 2
         /\ Tail(<<a, b, c>>) = <<b, c>> /\ Len(<<a, b, c>>) = 3
         /\ Tail(<<a, b, c, d>>) = <<b, c, d>> /\ Len(<<a, b, c, d>>) = 4
OBVIOUS

\* One statement less: a write comes right after its read.
LEMMA LeftTail ==
  ASSUME NEW s \in Left, s # <<>>
  PROVE  /\ Tail(s) \in Left
         /\ Tail(s) # s
         /\ Len(s) = 1 <=> Tail(s) = <<>>
         /\ Tail(s) # <<>> /\ Head(Tail(s)) = "write" => Head(s) = "read"
<1>1. CASE s = <<"select">>
  <2>1. Tail(s) = <<>> /\ Len(s) = 1
    BY <1>1, Tails
  <2>2. QED
    BY <1>1, <2>1 DEF Left
<1>2. CASE s = <<"write">>
  <2>1. Tail(s) = <<>> /\ Len(s) = 1
    BY <1>2, Tails
  <2>2. QED
    BY <1>2, <2>1 DEF Left
<1>3. CASE s = <<"set", "select">>
  <2>1. Tail(s) = <<"select">> /\ Len(s) = 2
    BY <1>3, Tails
  <2>2. QED
    BY <1>3, <2>1 DEF Left
<1>4. CASE s = <<"clear", "select">>
  <2>1. Tail(s) = <<"select">> /\ Len(s) = 2
    BY <1>4, Tails
  <2>2. QED
    BY <1>4, <2>1 DEF Left
<1>5. CASE s = <<"write", "select">>
  <2>1. Tail(s) = <<"select">> /\ Len(s) = 2
    BY <1>5, Tails
  <2>2. QED
    BY <1>5, <2>1 DEF Left
<1>6. CASE s = <<"read", "write">>
  <2>1. Tail(s) = <<"write">> /\ Len(s) = 2
    BY <1>6, Tails
  <2>2. QED
    BY <1>6, <2>1 DEF Left
<1>7. CASE s = <<"select", "set", "select">>
  <2>1. Tail(s) = <<"set", "select">> /\ Len(s) = 3
    BY <1>7, Tails
  <2>2. QED
    BY <1>7, <2>1 DEF Left
<1>8. CASE s = <<"read", "write", "select">>
  <2>1. Tail(s) = <<"write", "select">> /\ Len(s) = 3
    BY <1>8, Tails
  <2>2. QED
    BY <1>8, <2>1 DEF Left
<1>9. CASE s = <<"select", "read", "write", "select">>
  <2>1. Tail(s) = <<"read", "write", "select">> /\ Len(s) = 4
    BY <1>9, Tails
  <2>2. QED
    BY <1>9, <2>1 DEF Left
<1>10. QED
  BY <1>1, <1>2, <1>3, <1>4, <1>5, <1>6, <1>7, <1>8, <1>9 DEF Left

--------------------------------------------------------------------------------
(* Types, and the plans.                                                   *)

\* A request has statements or expired mutes left, and none of the latter
\* when it is about to write.
Planned(r) ==
    /\ r.plan \in Left
    /\ r.plan = <<>> => r.dead # {}
    /\ r.plan # <<>> /\ Head(r.plan) = "write" => r.dead = {}

\* What a request may be, whatever its step.
Sound(r) == r = Free \/ (r \in Request /\ Planned(r))

PlanInv == \A q \in Requests : Sound(req[q])

TInv == TypeOK /\ PlanInv

\* A request whose next statement is s.
LEMMA AtShape ==
  ASSUME TInv, NEW q \in Requests, NEW s, At(q, s)
  PROVE  /\ req[q] \in Request /\ Planned(req[q])
         /\ req[q].plan \in Left /\ req[q].plan # <<>>
         /\ req[q].dead = {} /\ Head(req[q].plan) = s
BY DEF TInv, PlanInv, Sound, At, Planned

\* A row is not the absence of one.
LEMMA RowIsRow ==
  /\ NoRow \notin Row
  /\ Default \in Row
  /\ \A r \in Row, f \in Fields, v \in {0, 1} : [r EXCEPT ![f] = v] \in Row
<1>1. NoRow \notin Row /\ Default \in Row
  BY DEF NoRow, Row, Default
<1>2. ASSUME NEW r \in Row, NEW f \in Fields, NEW v \in {0, 1} PROVE [r EXCEPT ![f] = v] \in Row
  <2>1. PICK a \in {0, 1}, b \in {0, 1} : r = <<a, b>>
    BY DEF Row
  <2>2. CASE f = 1
    <3>1. [r EXCEPT ![f] = v] = <<v, b>>
      BY <2>1, <2>2
    <3>2. QED
      BY <3>1 DEF Row
  <2>3. CASE f = 2
    <3>1. [r EXCEPT ![f] = v] = <<a, v>>
      BY <2>1, <2>3
    <3>2. QED
      BY <3>1 DEF Row
  <2>4. QED
    BY <2>2, <2>3 DEF Fields
<1>3. QED
  BY <1>1, <1>2

\* After a statement that changes no plan, the request is sound, and another.
LEMMA AfterSound ==
  ASSUME NEW old \in Request, Planned(old), old.plan # <<>>,
         NEW r \in Request, r.plan = old.plan,
         r.dead = {} \/ Head(old.plan) = "select"
  PROVE  /\ Sound(After(r))
         /\ After(r) # Free => After(r) \in Request /\ After(r) = [r EXCEPT !.plan = Tail(old.plan)]
         /\ After(r) # old
<1>1. /\ Tail(r.plan) \in Left /\ Tail(r.plan) # r.plan
      /\ Len(r.plan) = 1 <=> Tail(r.plan) = <<>>
      /\ Tail(r.plan) # <<>> /\ Head(Tail(r.plan)) = "write" => Head(r.plan) = "read"
  BY LeftTail DEF Planned
<1>2. CASE Len(r.plan) = 1 /\ r.dead = {}
  <2>1. After(r) = Free
    BY <1>2 DEF After
  <2>2. old # Free
    BY DEF Free
  <2>3. QED
    BY <2>1, <2>2 DEF Sound
<1>3. CASE ~(Len(r.plan) = 1 /\ r.dead = {})
  <2>1. After(r) = [r EXCEPT !.plan = Tail(r.plan)]
    BY <1>3 DEF After
  <2>2. Tail(r.plan) \in Seq(Statements)
    BY <1>1, LeftIsSeq
  <2>3. After(r) \in Request
    BY <2>1, <2>2 DEF Request
  <2>4. After(r).plan = Tail(r.plan) /\ After(r).dead = r.dead
    BY <2>1 DEF Request
  <2>5. Tail(r.plan) = <<>> => r.dead # {}
    BY <1>1, <1>3
  <2>6. Tail(r.plan) # <<>> /\ Head(Tail(r.plan)) = "write" => r.dead = {}
    BY <1>1
  <2>7. Planned(After(r))
    BY <1>1, <2>4, <2>5, <2>6 DEF Planned
  <2>8. QED
    BY <1>1, <2>1, <2>3, <2>4, <2>7 DEF Sound
<1>4. QED
  BY <1>2, <1>3

\* One request moves on, the others stay.
LEMMA ReqTyped ==
  ASSUME TInv, NEW q \in Requests, NEW r, Sound(r), up, req' = [req EXCEPT ![q] = r]
  PROVE  req' \in [Requests -> {Free} \cup Request] /\ PlanInv'
<1>1. r \in {Free} \cup Request
  BY DEF Sound
<1>2. req' \in [Requests -> {Free} \cup Request]
  BY <1>1 DEF TInv, TypeOK
<1>3. \A o \in Requests : req'[o] = IF o = q THEN r ELSE req[o]
  BY DEF TInv, TypeOK
<1>4. \A o \in Requests : Sound(req'[o])
  BY <1>3 DEF TInv, PlanInv
<1>5. QED
  BY <1>2, <1>4 DEF PlanInv, Sound, Planned

\* The first state has the types: no request is under way.
LEMMA InitTyped == Init => TInv
<1> SUFFICES ASSUME Init PROVE TInv
  OBVIOUS
<1>1. None \in {None} \cup Ends /\ Forever \in Ends
  BY PersonSettingsAssumption DEF Ends, Forever
<1>2. legacy \in [mutes : [Keys -> {None} \cup Ends], rows : [Docs -> {NoRow} \cup Row]]
  <2>1. [Keys -> {None, Forever}] \subseteq [Keys -> {None} \cup Ends]
    BY <1>1
  <2>2. <<1, 0>> \in Row
    BY DEF Row
  <2>3. [Docs -> {NoRow, <<1, 0>>}] \subseteq [Docs -> {NoRow} \cup Row]
    BY <2>2
  <2>4. QED
    BY <2>1, <2>3 DEF Init
<1>3. mutes \in [People -> [Keys -> {None} \cup Ends]]
  BY <1>1 DEF Init
<1>4. rows \in [People -> [Docs -> {NoRow} \cup Row]] /\ want \in [People -> [Docs -> Row]]
  BY RowIsRow DEF Init
<1>5. now \in 0 .. MaxTime
  BY PersonSettingsAssumption DEF Init
<1>6. req \in [Requests -> {Free} \cup Request] /\ \A q \in Requests : req[q] = Free
  BY DEF Init
<1>7. QED
  BY <1>2, <1>3, <1>4, <1>5, <1>6 DEF Init, TInv, TypeOK, PlanInv, Sound

\* A row that is taken over, or kept.
LEMMA OrIgnoreTyped ==
  ASSUME NEW D, NEW S, NEW mine \in [D -> S], NEW old \in [D -> S], NEW empty
  PROVE  OrIgnore(mine, old, empty) \in [D -> S]
BY DEF OrIgnore

\* A start, with what it adopts of the one owner's old rows, keeps the types.
LEMMA StartTyped == TInv /\ Start => TInv'
<1> SUFFICES ASSUME TInv, Start PROVE TInv'
  OBVIOUS
<1>1. /\ legacy.mutes \in [Keys -> {None} \cup Ends]
      /\ legacy.rows \in [Docs -> {NoRow} \cup Row]
  BY DEF TInv, TypeOK
<1>2. mutes' \in [People -> [Keys -> {None} \cup Ends]]
  <2>1. OrIgnore(mutes[Owner], legacy.mutes, None) \in [Keys -> {None} \cup Ends]
    BY <1>1, OrIgnoreTyped, PersonSettingsAssumption DEF TInv, TypeOK
  <2>2. QED
    BY <2>1 DEF Start, Adopt, TInv, TypeOK
<1>3. rows' \in [People -> [Docs -> {NoRow} \cup Row]]
  <2>1. OrIgnore(rows[Owner], legacy.rows, NoRow) \in [Docs -> {NoRow} \cup Row]
    BY <1>1, OrIgnoreTyped, PersonSettingsAssumption DEF TInv, TypeOK
  <2>2. QED
    BY <2>1 DEF Start, Adopt, TInv, TypeOK
<1>4. want' \in [People -> [Docs -> Row]]
  <2>1. [d \in Docs |-> IF legacy.rows[d] = NoRow THEN Default ELSE legacy.rows[d]] \in [Docs -> Row]
    BY <1>1, RowIsRow
  <2>2. QED
    BY <2>1 DEF Start, TInv, TypeOK
<1>5. adopted' \in BOOLEAN
  BY DEF Start, Adopt, TInv, TypeOK
<1>6. up' = TRUE /\ UNCHANGED <<now, legacy, req, crossed, raced, ops, faults>>
  BY DEF Start
<1>7. PlanInv'
  BY <1>6 DEF TInv, PlanInv, Sound, Planned
<1>8. QED
  BY <1>2, <1>3, <1>4, <1>5, <1>6, <1>7 DEF TInv, TypeOK

\* A restart ends every request, and keeps the types.
LEMMA RestartTyped == TInv /\ Restart => TInv'
<1> SUFFICES ASSUME TInv, Restart PROVE TInv'
  OBVIOUS
<1>1. req' \in [Requests -> {Free} \cup Request] /\ \A q \in Requests : req'[q] = Free
  BY DEF Restart
<1>2. QED
  <2>1. PlanInv'
    BY <1>1 DEF PlanInv, Sound
  <2>2. faults' \in Nat /\ up' = FALSE /\ UNCHANGED <<now, legacy, adopted, mutes, rows, history, ops>>
    BY DEF Restart, Fault, TInv, TypeOK
  <2>3. QED
    BY <1>1, <2>1, <2>2 DEF history, TInv, TypeOK

\* A request that arrives brings a plan of its operation, and keeps the types.
LEMMA AskTyped ==
  ASSUME TInv, NEW q \in Requests, Ask(q)
  PROVE  TInv'
<1>1. PICK p \in People, op \in Ops, k \in Keys, f \in Fields, v \in {0, 1} :
        req' = [req EXCEPT ![q] = Begun(p, op, k, f, v)]
  BY DEF Ask
<1>2. Begun(p, op, k, f, v) \in Request
  BY PlanLeft, LeftIsSeq, RowIsRow DEF Begun, Request
<1>3. Sound(Begun(p, op, k, f, v))
  BY <1>2, PlanLeft DEF Sound, Planned, Begun
<1>4. req' \in [Requests -> {Free} \cup Request] /\ PlanInv'
  BY <1>1, <1>3, ReqTyped DEF Ask
<1>5. ops' \in Nat /\ up' = up /\ up
  BY DEF Ask, TInv, TypeOK
<1>6. UNCHANGED <<now, legacy, adopted, mutes, rows, history, faults>>
  BY DEF Ask
<1>7. QED
  BY <1>4, <1>5, <1>6 DEF TInv, TypeOK, history

\* The part of a step that is not the request's own.
Others ==
    /\ now \in 0 .. MaxTime
    /\ legacy \in [mutes : [Keys -> {None} \cup Ends], rows : [Docs -> {NoRow} \cup Row]]
    /\ adopted \in BOOLEAN
    /\ mutes \in [People -> [Keys -> {None} \cup Ends]]
    /\ rows \in [People -> [Docs -> {NoRow} \cup Row]]
    /\ want \in [People -> [Docs -> Row]]
    /\ crossed \subseteq People \X Docs
    /\ raced \subseteq People \X Keys
    /\ ops \in Nat
    /\ faults \in Nat

\* TypeOK is the types of the requests and those of all the rest, in either state.
LEMMA Split ==
  /\ TypeOK <=> Others /\ up \in BOOLEAN /\ req \in [Requests -> {Free} \cup Request]
                /\ (up \/ \A q \in Requests : req[q] = Free)
  /\ TypeOK' <=> Others' /\ up' \in BOOLEAN /\ req' \in [Requests -> {Free} \cup Request]
                 /\ (up' \/ \A q \in Requests : req'[q] = Free)
BY DEF TypeOK, Others

\* A request's step is sound if what it replaces the request by is.
LEMMA StepSound ==
  ASSUME TInv, NEW q \in Requests, NEW r, Sound(r), req[q] # Free,
         req' = [req EXCEPT ![q] = r], up' = up, Others'
  PROVE  TInv'
<1>1. up
  BY DEF TInv, TypeOK
<1>2. QED
  BY <1>1, Split, ReqTyped DEF TInv

\* After a statement that adds no expired mutes.
LEMMA ProceedTyped ==
  ASSUME TInv, NEW q \in Requests, NEW s, At(q, s), NEW c \in Row,
         Proceeds(q, [req[q] EXCEPT !.copy = c]), up' = up, Others'
  PROVE  TInv'
<1> DEFINE r == [req[q] EXCEPT !.copy = c]
<1>1. /\ req[q] \in Request /\ Planned(req[q]) /\ req[q].plan # <<>> /\ req[q].dead = {}
  BY AtShape
<1>2. r \in Request /\ r.plan = req[q].plan /\ r.dead = {}
  BY <1>1 DEF Request
<1>3. Sound(After(r))
  BY <1>1, <1>2, AfterSound
<1>4. req[q] # Free
  BY DEF At
<1>5. QED
  BY <1>3, <1>4, StepSound DEF Proceeds

\* A request is itself with its own copy of the row.
LEMMA Unchanged ==
  ASSUME TInv, NEW q \in Requests, NEW s, At(q, s)
  PROVE  req[q].copy \in Row /\ req[q] = [req[q] EXCEPT !.copy = req[q].copy]
<1>1. req[q] \in Request
  BY AtShape
<1>2. QED
  BY <1>1 DEF Request

\* The SELECT of the mutes, with the expired ones it takes note of, keeps the types.
LEMMA SelectTyped ==
  ASSUME TInv, NEW q \in Requests, Select(q)
  PROVE  TInv'
<1> DEFINE r == [req[q] EXCEPT !.dead = {k \in Keys : Expired(mutes[req[q].who][k])}]
<1>1. /\ req[q] \in Request /\ Planned(req[q]) /\ req[q].plan # <<>>
      /\ Head(req[q].plan) = "select"
  BY AtShape DEF Select
<1>2. r \in Request /\ r.plan = req[q].plan
  BY <1>1 DEF Request
<1>3. Sound(After(r))
  BY <1>1, <1>2, AfterSound
<1>4. req' = [req EXCEPT ![q] = After(r)]
  BY DEF Select, Proceeds
<1>5. Others' /\ up' = up /\ req[q] # Free
  BY Split DEF Select, At, TInv, Others, history
<1>6. QED
  BY <1>3, <1>4, <1>5, StepSound

\* A deleted mute.
LEMMA DeletedTyped ==
  ASSUME TInv, NEW p \in People, NEW k \in Keys
  PROVE  Deleted(p, k) \in [People -> [Keys -> {None} \cup Ends]]
BY DEF Deleted, TInv, TypeOK

\* The DELETE of one expired mute keeps the types.
LEMMA DeleteTyped ==
  ASSUME TInv, NEW q \in Requests, DeleteExpired(q)
  PROVE  TInv'
<1>1. PICK k \in req[q].dead :
        /\ mutes' = Deleted(req[q].who, k)
        /\ req' = [req EXCEPT ![q] = LET r == [req[q] EXCEPT !.dead = @ \ {k}] IN
                                     IF r.dead = {} /\ r.plan = <<>> THEN Free ELSE r]
  BY DEF DeleteExpired
<1> DEFINE r == [req[q] EXCEPT !.dead = @ \ {k}]
           n == IF r.dead = {} /\ r.plan = <<>> THEN Free ELSE r
<1>2. req[q] # Free /\ req[q] \in Request /\ Planned(req[q])
  BY DEF DeleteExpired, TInv, PlanInv, Sound
<1>3. r \in Request /\ r.plan = req[q].plan /\ r.dead = req[q].dead \ {k}
  BY <1>2 DEF Request
<1>4. Sound(n)
  BY <1>2, <1>3 DEF Sound, Planned
<1>5. req' = [req EXCEPT ![q] = n]
  BY <1>1
<1>6. mutes' \in [People -> [Keys -> {None} \cup Ends]]
  BY <1>1, <1>2, DeletedTyped DEF Request
<1>7. Others' /\ up' = up
  BY <1>6, Split DEF DeleteExpired, TInv, Others, history
<1>8. QED
  BY <1>2, <1>4, <1>5, <1>7, StepSound

\* The upsert of a mute keeps the types.
LEMMA SetTyped ==
  ASSUME TInv, NEW q \in Requests, SetMute(q)
  PROVE  TInv'
<1>1. req[q] \in Request
  BY AtShape DEF SetMute
<1>2. req[q].who \in People /\ req[q].key \in Keys
  BY <1>1 DEF Request
<1>3. mutes' \in [People -> [Keys -> {None} \cup Ends]]
  BY <1>2 DEF SetMute, TInv, TypeOK
<1>4. raced' \subseteq People \X Keys
  BY <1>2 DEF SetMute, TInv, TypeOK
<1>5. Others'
  BY <1>3, <1>4, Split DEF SetMute, TInv, Others
<1>6. QED
  BY <1>5, ProceedTyped, Unchanged DEF SetMute

\* The DELETE of a mute on request keeps the types.
LEMMA ClearTyped ==
  ASSUME TInv, NEW q \in Requests, ClearMute(q)
  PROVE  TInv'
<1>1. req[q] \in Request
  BY AtShape DEF ClearMute
<1>2. mutes' \in [People -> [Keys -> {None} \cup Ends]]
  BY <1>1, DeletedTyped DEF ClearMute, Request
<1>3. Others'
  BY <1>2, Split DEF ClearMute, TInv, Others, history
<1>4. QED
  BY <1>3, ProceedTyped, Unchanged DEF ClearMute

\* What a request changes is a document of its person.
LEMMA DocTyped ==
  ASSUME NEW r \in Request
  PROVE  Doc(r) \in Docs /\ r.who \in People /\ r.field \in Fields /\ r.value \in {0, 1} /\ r.copy \in Row
BY DEF Doc, Docs, Request

\* What the read of a document returns, the default for none, is a row.
LEMMA StoredTyped ==
  ASSUME TInv, NEW r \in Request
  PROVE  Stored(r) \in Row
BY DocTyped, RowIsRow DEF Stored, TInv, TypeOK

\* The read of a document, and one that fails, keep the types.
LEMMA ReadTyped ==
  ASSUME TInv, NEW q \in Requests, Read(q) \/ ReadFails(q)
  PROVE  TInv'
<1>1. req[q] \in Request
  BY AtShape DEF Read, ReadFails
<1>2. CASE Read(q)
  <2>1. Others' /\ up' = up
    BY <1>2, Split DEF Read, TInv, Others, history
  <2>2. QED
    BY <1>1, <1>2, <2>1, StoredTyped, ProceedTyped DEF Read
<1>3. CASE ReadFails(q)
  <2>1. crossed' \subseteq People \X Docs
    BY <1>1, <1>3, DocTyped DEF ReadFails, TInv, TypeOK
  <2>2. faults' \in Nat
    BY <1>3 DEF ReadFails, Fault, TInv, TypeOK
  <2>3. Others' /\ up' = up
    BY <1>3, <2>1, <2>2, Split DEF ReadFails, TInv, Others
  <2>4. QED
    BY <1>3, <2>3, RowIsRow, ProceedTyped DEF ReadFails
<1>4. QED
  BY <1>2, <1>3

\* The write of a document keeps the types.
LEMMA WriteTyped ==
  ASSUME TInv, NEW q \in Requests, Write(q)
  PROVE  TInv'
<1>1. req[q] \in Request
  BY AtShape DEF Write
<1> DEFINE r == req[q]
<1>2. Doc(r) \in Docs /\ r.who \in People /\ r.field \in Fields /\ r.value \in {0, 1} /\ r.copy \in Row
  BY <1>1, DocTyped
<1>3. Changed(r) \in Row
  BY <1>2, RowIsRow DEF Changed
<1>4. rows' \in [People -> [Docs -> {NoRow} \cup Row]]
  BY <1>2, <1>3 DEF Write, TInv, TypeOK
<1>5. want' \in [People -> [Docs -> Row]]
  <2>1. [want[r.who][Doc(r)] EXCEPT ![r.field] = r.value] \in Row
    BY <1>2, RowIsRow DEF TInv, TypeOK
  <2>2. want' = [want EXCEPT ![r.who][Doc(r)] = [want[r.who][Doc(r)] EXCEPT ![r.field] = r.value]]
    BY <1>2 DEF Write, TInv, TypeOK
  <2>3. QED
    BY <1>2, <2>1, <2>2 DEF TInv, TypeOK
<1>6. crossed' \subseteq People \X Docs
  BY <1>2 DEF Write, TInv, TypeOK
<1>7. Others' /\ up' = up
  BY <1>4, <1>5, <1>6, Split DEF Write, TInv, Others
<1>8. QED
  BY <1>7, ProceedTyped, Unchanged DEF Write

\* A request whose caller goes away keeps the types.
LEMMA AbandonTyped ==
  ASSUME TInv, NEW q \in Requests, Abandon(q)
  PROVE  TInv'
<1>1. Others' /\ up' = up
  BY Split DEF Abandon, TInv, Others, history
<1>2. QED
  BY <1>1, StepSound DEF Abandon, Sound

\* Every step keeps the types and the plans.
LEMMA StepTyped == TInv /\ [Next]_vars => TInv'
<1> SUFFICES ASSUME TInv, [Next]_vars PROVE TInv'
  OBVIOUS
<1>1. CASE Tick
  <2>1. now \in 0 .. MaxTime /\ now < MaxTime /\ now' = now + 1
    BY <1>1 DEF Tick, TInv, TypeOK
  <2>2. now' \in 0 .. MaxTime
    BY <2>1, PersonSettingsAssumption
  <2>3. UNCHANGED <<up, legacy, adopted, mutes, rows, req, history, ops, faults>>
    BY <1>1 DEF Tick
  <2>4. PlanInv'
    BY <2>3 DEF TInv, PlanInv, Sound, Planned
  <2>5. QED
    BY <2>2, <2>3, <2>4 DEF history, TInv, TypeOK
<1>2. ASSUME NEW q \in Requests, Handler(q) PROVE TInv'
  BY <1>2, SelectTyped, DeleteTyped, SetTyped, ClearTyped, ReadTyped, WriteTyped, AbandonTyped
  DEF Handler
<1>3. CASE UNCHANGED vars
  BY <1>3 DEF vars, history, TInv, TypeOK, PlanInv, Sound, Planned
<1>4. QED
  BY <1>1, <1>2, <1>3, StartTyped, RestartTyped, AskTyped DEF Next

\* Every variable of PersonSettings keeps its type: no request is under way
\* while the server is down, and what is stored is whole.
THEOREM TypeCorrect == Spec => []TypeOK
<1>1. TInv => TypeOK
  BY DEF TInv
<1>2. QED
  BY <1>1, InitTyped, StepTyped, PTL DEF Spec

--------------------------------------------------------------------------------
(* Mutes.                                                                  *)

\* A mute that a request is about to delete is over, or has been set again.
DeadInv ==
    \A q \in Requests : req[q] # Free =>
        \A k \in req[q].dead : mutes[req[q].who][k] > now => <<req[q].who, k>> \in raced

\* No request has noted an expired mute at first.
LEMMA InitDead == Init => DeadInv
BY DEF Init, DeadInv

\* Times are numbers.
LEMMA TimesAreNumbers ==
  ASSUME TInv
  PROVE  /\ now \in Nat
         /\ \A p \in People, k \in Keys : mutes[p][k] \in Nat
<1>1. {None} \cup Ends \subseteq Nat
  BY PersonSettingsAssumption DEF None, Ends, Forever
<1>2. now \in Nat
  BY PersonSettingsAssumption DEF TInv, TypeOK
<1>3. QED
  BY <1>1, <1>2 DEF TInv, TypeOK

\* A mute that a step deletes is none any more, and the others are as they were.
LEMMA DeletedIs ==
  ASSUME TInv, NEW p \in People, NEW k \in Keys, mutes' = Deleted(p, k)
  PROVE  /\ mutes'[p][k] = None
         /\ \A o \in People, j \in Keys : <<o, j>> # <<p, k>> => mutes'[o][j] = mutes[o][j]
BY DEF Deleted, TInv, TypeOK

\* Where a request stands after a step, as far as its expired mutes go.
LEMMA DeadAfter ==
  ASSUME TInv, NEW q \in Requests, NEW s, At(q, s), NEW c \in Row,
         Proceeds(q, [req[q] EXCEPT !.copy = c])
  PROVE  /\ req'[q] # Free => req'[q].dead = {}
         /\ \A o \in Requests : o # q => req'[o] = req[o]
<1> DEFINE r == [req[q] EXCEPT !.copy = c]
<1>1. /\ req[q] \in Request /\ Planned(req[q]) /\ req[q].plan # <<>> /\ req[q].dead = {}
  BY AtShape
<1>2. r \in Request /\ r.plan = req[q].plan /\ r.dead = {}
  BY <1>1 DEF Request
<1>3. After(r) # Free => After(r) = [r EXCEPT !.plan = Tail(req[q].plan)]
  BY <1>1, <1>2, AfterSound
<1>4. After(r) # Free => After(r).dead = {}
  BY <1>2, <1>3 DEF Request
<1>5. req' = [req EXCEPT ![q] = After(r)]
  BY DEF Proceeds
<1>6. QED
  BY <1>4, <1>5 DEF TInv, TypeOK

\* A person's request, as far as mutes go.
LEMMA ReqTypes ==
  ASSUME TInv, NEW q \in Requests, req[q] # Free
  PROVE  req[q] \in Request /\ req[q].who \in People /\ req[q].key \in Keys /\ req[q].dead \subseteq Keys
BY DEF TInv, PlanInv, Sound, Request

\* What a SELECT notes as expired is not in force.
LEMMA SelectDead ==
  ASSUME TInv, DeadInv, NEW q \in Requests, Select(q)
  PROVE  DeadInv'
<1> DEFINE D == {k \in Keys : Expired(mutes[req[q].who][k])}
           r == [req[q] EXCEPT !.dead = D]
<1>1. /\ req[q] \in Request /\ Planned(req[q]) /\ req[q].plan # <<>>
      /\ Head(req[q].plan) = "select"
  BY AtShape DEF Select
<1>2. r \in Request /\ r.plan = req[q].plan /\ r.dead = D /\ r.who = req[q].who
  BY <1>1 DEF Request
<1>3. After(r) # Free => After(r) = [r EXCEPT !.plan = Tail(req[q].plan)]
  BY <1>1, <1>2, AfterSound
<1>4. After(r) # Free => After(r).dead = D /\ After(r).who = req[q].who
  <2>1. [r EXCEPT !.plan = Tail(req[q].plan)].dead = r.dead
        /\ [r EXCEPT !.plan = Tail(req[q].plan)].who = r.who
    BY <1>2 DEF Request
  <2>2. QED
    BY <1>2, <1>3, <2>1
<1>5. req' = [req EXCEPT ![q] = After(r)] /\ UNCHANGED <<now, mutes, raced>>
  BY DEF Select, Proceeds, history
<1>6. \A o \in Requests : o # q => req'[o] = req[o]
  BY <1>5 DEF TInv, TypeOK
<1>7. req'[q] = After(r)
  BY <1>5 DEF TInv, TypeOK
<1>8. req[q].who \in People
  BY <1>1 DEF Request
<1>9. \A k \in D : ~(mutes[req[q].who][k] > now)
  BY <1>8, TimesAreNumbers DEF Expired
<1>10. QED
  BY <1>4, <1>5, <1>6, <1>7, <1>9 DEF DeadInv

\* A DELETE puts no mute in force.
LEMMA DeleteDead ==
  ASSUME TInv, DeadInv, NEW q \in Requests, DeleteExpired(q)
  PROVE  DeadInv'
<1>1. PICK k \in req[q].dead :
        /\ mutes' = Deleted(req[q].who, k)
        /\ req' = [req EXCEPT ![q] = LET r == [req[q] EXCEPT !.dead = @ \ {k}] IN
                                     IF r.dead = {} /\ r.plan = <<>> THEN Free ELSE r]
  BY DEF DeleteExpired
<1>2. req[q] # Free /\ req[q] \in Request /\ req[q].who \in People /\ k \in Keys
  BY ReqTypes DEF DeleteExpired
<1>3. UNCHANGED <<now, raced>>
  BY DEF DeleteExpired, history
<1>4. \A o \in Requests : req'[o] # Free =>
        req[o] # Free /\ req'[o].who = req[o].who /\ req'[o].dead \subseteq req[o].dead
  <2>1. [req[q] EXCEPT !.dead = @ \ {k}].who = req[q].who
        /\ [req[q] EXCEPT !.dead = @ \ {k}].dead = req[q].dead \ {k}
    BY <1>2 DEF Request
  <2>2. req'[q] = Free \/ req'[q] = [req[q] EXCEPT !.dead = @ \ {k}]
    BY <1>1 DEF TInv, TypeOK
  <2>3. \A o \in Requests : o # q => req'[o] = req[o]
    BY <1>1 DEF TInv, TypeOK
  <2>4. QED
    BY <1>2, <2>1, <2>2, <2>3
<1>5. ASSUME NEW o \in Requests, req'[o] # Free, NEW j \in req'[o].dead,
             mutes'[req'[o].who][j] > now'
      PROVE  <<req'[o].who, j>> \in raced'
  <2>1. req[o] # Free /\ req'[o].who = req[o].who /\ j \in req[o].dead
    BY <1>4, <1>5
  <2>2. req[o].who \in People /\ j \in Keys
    BY <2>1, ReqTypes
  <2>3. mutes[req[o].who][j] > now
    <3>1. <<req[o].who, j>> # <<req[q].who, k>>
      BY <1>1, <1>2, <1>3, <1>5, <2>1, DeletedIs, TimesAreNumbers DEF None
    <3>2. QED
      BY <1>1, <1>2, <1>3, <1>5, <2>1, <2>2, <3>1, DeletedIs
  <2>4. QED
    BY <1>3, <2>1, <2>3 DEF DeadInv
<1>6. QED
  BY <1>5 DEF DeadInv

\* A mute set while a request has it noted as expired is recorded as raced.
LEMMA SetDead ==
  ASSUME TInv, DeadInv, NEW q \in Requests, SetMute(q)
  PROVE  DeadInv'
<1> DEFINE p == req[q].who
           k == req[q].key
<1>1. At(q, "set") /\ req[q] # Free /\ p \in People /\ k \in Keys
  BY ReqTypes DEF SetMute, At
<1>2. /\ req'[q] # Free => req'[q].dead = {}
      /\ \A o \in Requests : o # q => req'[o] = req[o]
  <2>1. At(q, "set") /\ Proceeds(q, req[q])
    BY DEF SetMute
  <2>2. QED
    BY <2>1, DeadAfter, Unchanged
<1>3. PICK end : mutes' = [mutes EXCEPT ![p][k] = end]
  BY DEF SetMute
<1>4. \A o \in People, j \in Keys : <<o, j>> # <<p, k>> => mutes'[o][j] = mutes[o][j]
  BY <1>3 DEF TInv, TypeOK
<1>5. now' = now /\ raced \subseteq raced'
      /\ ((\E o \in Requests : req[o] # Free /\ req[o].who = p /\ k \in req[o].dead) => <<p, k>> \in raced')
  BY DEF SetMute
<1>6. ASSUME NEW o \in Requests, req'[o] # Free, NEW j \in req'[o].dead,
             mutes'[req'[o].who][j] > now'
      PROVE  <<req'[o].who, j>> \in raced'
  <2>1. o # q /\ req'[o] = req[o]
    BY <1>2, <1>6
  <2>2. req[o].who \in People /\ j \in Keys
    BY <1>6, <2>1, ReqTypes
  <2>3. CASE <<req[o].who, j>> = <<p, k>>
    BY <1>5, <1>6, <2>1, <2>3
  <2>4. CASE <<req[o].who, j>> # <<p, k>>
    BY <1>4, <1>5, <1>6, <2>1, <2>2, <2>4 DEF DeadInv
  <2>5. QED
    BY <2>3, <2>4
<1>7. QED
  BY <1>6 DEF DeadInv

\* A mute taken away on request is not in force.
LEMMA ClearDead ==
  ASSUME TInv, DeadInv, NEW q \in Requests, ClearMute(q)
  PROVE  DeadInv'
<1> DEFINE p == req[q].who
           k == req[q].key
<1>1. At(q, "clear") /\ req[q] # Free /\ p \in People /\ k \in Keys
  BY ReqTypes DEF ClearMute, At
<1>2. /\ req'[q] # Free => req'[q].dead = {}
      /\ \A o \in Requests : o # q => req'[o] = req[o]
  BY DeadAfter, Unchanged DEF ClearMute
<1>3. UNCHANGED <<now, raced>> /\ mutes' = Deleted(p, k)
  BY DEF ClearMute, history
<1>4. ASSUME NEW o \in Requests, req'[o] # Free, NEW j \in req'[o].dead,
             mutes'[req'[o].who][j] > now'
      PROVE  <<req'[o].who, j>> \in raced'
  <2>1. o # q /\ req'[o] = req[o]
    BY <1>2, <1>4
  <2>2. req[o].who \in People /\ j \in Keys
    BY <1>4, <2>1, ReqTypes
  <2>3. <<req[o].who, j>> # <<p, k>>
    BY <1>1, <1>3, <1>4, <2>1, DeletedIs, TimesAreNumbers DEF None
  <2>4. QED
    BY <1>1, <1>3, <1>4, <2>1, <2>2, <2>3, DeletedIs DEF DeadInv
<1>5. QED
  BY <1>4 DEF DeadInv

\* The statements about documents leave mutes, and what was noted of them, alone.
LEMMA CopyDead ==
  ASSUME TInv, DeadInv, NEW q \in Requests, Read(q) \/ ReadFails(q) \/ Write(q)
  PROVE  DeadInv'
<1>1. /\ req'[q] # Free => req'[q].dead = {}
      /\ \A o \in Requests : o # q => req'[o] = req[o]
  <2>1. req[q] \in Request
    BY AtShape DEF Read, ReadFails, Write
  <2>2. CASE Read(q)
    <3>1. At(q, "read") /\ Proceeds(q, [req[q] EXCEPT !.copy = Stored(req[q])]) /\ Stored(req[q]) \in Row
      BY <2>1, <2>2, StoredTyped DEF Read
    <3>2. QED
      BY <3>1, DeadAfter
  <2>3. CASE ReadFails(q)
    <3>1. At(q, "read") /\ Proceeds(q, [req[q] EXCEPT !.copy = Default])
      BY <2>3 DEF ReadFails
    <3>2. QED
      BY <3>1, DeadAfter, RowIsRow
  <2>4. CASE Write(q)
    <3>1. At(q, "write") /\ Proceeds(q, req[q])
      BY <2>4 DEF Write
    <3>2. QED
      BY <3>1, DeadAfter, Unchanged
  <2>5. QED
    BY <2>2, <2>3, <2>4
<1>2. UNCHANGED <<now, mutes, raced>>
  BY DEF Read, ReadFails, Write, history
<1>3. QED
  BY <1>1, <1>2 DEF DeadInv

\* At every step a mute noted as expired stays out of force, unless it was raced.
LEMMA StepDead == TInv /\ DeadInv /\ [Next]_vars => DeadInv'
<1> SUFFICES ASSUME TInv, DeadInv, [Next]_vars PROVE DeadInv'
  OBVIOUS
<1>1. CASE Tick
  <2>1. now' = now + 1 /\ UNCHANGED <<mutes, req, raced>>
    BY <1>1 DEF Tick, history
  <2>2. ASSUME NEW o \in Requests, req[o] # Free, NEW j \in req[o].dead, mutes[req[o].who][j] > now'
        PROVE  mutes[req[o].who][j] > now
    <3>1. req[o].who \in People /\ j \in Keys
      BY <2>2, ReqTypes
    <3>2. QED
      BY <2>1, <2>2, <3>1, TimesAreNumbers
  <2>3. QED
    BY <2>1, <2>2 DEF DeadInv
<1>2. CASE Start
  <2>1. \A q \in Requests : req'[q] = Free
    BY <1>2 DEF Start, TInv, TypeOK
  <2>2. QED
    BY <2>1 DEF DeadInv
<1>3. CASE Restart
  BY <1>3 DEF Restart, DeadInv
<1>4. ASSUME NEW q \in Requests, Ask(q) PROVE DeadInv'
  <2>1. UNCHANGED <<now, mutes, raced>>
    BY <1>4 DEF Ask, history
  <2>2. PICK p \in People, op \in Ops, k \in Keys, f \in Fields, v \in {0, 1} :
          req' = [req EXCEPT ![q] = Begun(p, op, k, f, v)]
    BY <1>4 DEF Ask
  <2>3. req'[q].dead = {} /\ \A o \in Requests : o # q => req'[o] = req[o]
    BY <2>2 DEF Begun, TInv, TypeOK
  <2>4. QED
    BY <2>1, <2>3 DEF DeadInv
<1>5. ASSUME NEW q \in Requests, Abandon(q) PROVE DeadInv'
  <2>1. UNCHANGED <<now, mutes, raced>> /\ \A o \in Requests : req'[o] = Free \/ req'[o] = req[o]
    BY <1>5 DEF Abandon, history, TInv, TypeOK
  <2>2. QED
    BY <2>1 DEF DeadInv
<1>6. ASSUME NEW q \in Requests, Handler(q) PROVE DeadInv'
  BY <1>5, <1>6, SelectDead, DeleteDead, SetDead, ClearDead, CopyDead DEF Handler
<1>7. CASE UNCHANGED vars
  BY <1>7 DEF vars, history, DeadInv
<1>8. QED
  BY <1>1, <1>2, <1>3, <1>4, <1>6, <1>7 DEF Next

\* The request that takes a step with a statement is not what it was.
LEMMA Moves ==
  ASSUME TInv, NEW q \in Requests, NEW s, At(q, s), Proceeds(q, req[q])
  PROVE  req'[q] # req[q]
<1>1. /\ req[q] \in Request /\ Planned(req[q]) /\ req[q].plan # <<>> /\ req[q].dead = {}
  BY AtShape
<1>2. After(req[q]) # req[q]
  BY <1>1, AfterSound
<1>3. QED
  BY <1>2 DEF Proceeds, TInv, TypeOK

\* What no statement about mutes does.
LEMMA MutesStay ==
  ASSUME TInv, [Next]_vars, mutes' # mutes
  PROVE  (Start /\ ~adopted) \/ \E q \in Requests : DeleteExpired(q) \/ SetMute(q) \/ ClearMute(q)
BY DEF Next, Tick, Start, Adopt, Restart, Ask, Handler, Select, Read, ReadFails, Write, Abandon,
       vars, history

\* No step ends a mute in force that was neither asked about nor raced.
LEMMA StepKeepsMutes ==
  TInv /\ DeadInv /\ [Next]_vars =>
    [\A p \in People, k \in Keys :
        mutes[p][k] > now /\ mutes'[p][k] = None => Asked(p, k, "clear") \/ <<p, k>> \in raced]_vars
<1> SUFFICES ASSUME TInv, DeadInv, [Next]_vars, NEW p \in People, NEW k \in Keys,
                    mutes[p][k] > now, mutes'[p][k] = None
             PROVE  Asked(p, k, "clear") \/ <<p, k>> \in raced
  OBVIOUS
<1>1. mutes[p][k] # None /\ mutes[p][k] # mutes'[p][k]
  BY TimesAreNumbers DEF None
<1>2. CASE Start /\ ~adopted
  <2>1. CASE p = Owner
    <3>1. mutes'[p] = OrIgnore(mutes[p], legacy.mutes, None)
      BY <1>2, <2>1 DEF Start, Adopt, TInv, TypeOK
    <3>2. mutes'[p][k] = mutes[p][k]
      BY <3>1, <1>1 DEF OrIgnore, TInv, TypeOK
    <3>3. QED
      BY <3>2, <1>1
  <2>2. CASE p # Owner
    BY <1>1, <1>2, <2>2 DEF Start, Adopt, TInv, TypeOK
  <2>3. QED
    BY <2>1, <2>2
<1>3. ASSUME NEW q \in Requests, DeleteExpired(q) PROVE <<p, k>> \in raced
  <2>1. PICK j \in req[q].dead : mutes' = Deleted(req[q].who, j)
    BY <1>3 DEF DeleteExpired
  <2>2. req[q] # Free /\ req[q].who \in People /\ j \in Keys
    BY <1>3, ReqTypes DEF DeleteExpired
  <2>3. <<p, k>> = <<req[q].who, j>>
    BY <1>1, <2>1, <2>2, DeletedIs
  <2>4. QED
    BY <2>2, <2>3 DEF DeadInv
<1>4. ASSUME NEW q \in Requests, SetMute(q) PROVE FALSE
  <2>1. req[q].who \in People /\ req[q].key \in Keys
    BY <1>4, ReqTypes DEF SetMute, At
  <2>2. PICK end \in Ends : mutes' = [mutes EXCEPT ![req[q].who][req[q].key] = end]
    BY <1>4 DEF SetMute
  <2>3. end # None
    BY PersonSettingsAssumption DEF Ends, Forever, None
  <2>4. QED
    BY <1>1, <2>1, <2>2, <2>3 DEF TInv, TypeOK
<1>5. ASSUME NEW q \in Requests, ClearMute(q) PROVE Asked(p, k, "clear")
  <2>1. req[q].who \in People /\ req[q].key \in Keys /\ mutes' = Deleted(req[q].who, req[q].key)
    BY <1>5, ReqTypes DEF ClearMute, At
  <2>2. <<p, k>> = <<req[q].who, req[q].key>>
    BY <1>1, <2>1, DeletedIs
  <2>3. At(q, "clear") /\ req'[q] # req[q]
    BY <1>5, Moves DEF ClearMute
  <2>4. QED
    BY <2>2, <2>3 DEF Asked
<1>6. QED
  BY <1>1, <1>2, <1>3, <1>4, <1>5, MutesStay

\* A mute in force goes only because its person clears it, or, set again while
\* a request was deleting the expired one, with that request.
THEOREM MutesStand == Spec => MutesKept
<1>1. QED
  BY InitTyped, StepTyped, InitDead, StepDead, StepKeepsMutes, PTL DEF Spec, MutesKept

\* No step sets a mute but the person's own request, or the adoption of the owner's.
LEMMA StepOwn ==
  TInv /\ [Next]_vars =>
    [\A p \in People, k \in Keys :
        mutes[p][k] # mutes'[p][k] /\ mutes'[p][k] # None =>
            Asked(p, k, "set") \/ (~adopted /\ p = Owner)]_vars
<1> SUFFICES ASSUME TInv, [Next]_vars, NEW p \in People, NEW k \in Keys,
                    mutes[p][k] # mutes'[p][k], mutes'[p][k] # None
             PROVE  Asked(p, k, "set") \/ (~adopted /\ p = Owner)
  OBVIOUS
<1>1. CASE Start /\ ~adopted
  BY <1>1 DEF Start, Adopt, TInv, TypeOK
<1>2. ASSUME NEW q \in Requests, DeleteExpired(q) PROVE FALSE
  <2>1. PICK j \in req[q].dead : mutes' = Deleted(req[q].who, j)
    BY <1>2 DEF DeleteExpired
  <2>2. req[q].who \in People /\ j \in Keys
    BY <1>2, ReqTypes DEF DeleteExpired
  <2>3. QED
    BY <2>1, <2>2, DeletedIs
<1>3. ASSUME NEW q \in Requests, ClearMute(q) PROVE FALSE
  <2>1. req[q].who \in People /\ req[q].key \in Keys /\ mutes' = Deleted(req[q].who, req[q].key)
    BY <1>3, ReqTypes DEF ClearMute, At
  <2>2. QED
    BY <2>1, DeletedIs
<1>4. ASSUME NEW q \in Requests, SetMute(q) PROVE Asked(p, k, "set")
  <2>1. req[q].who \in People /\ req[q].key \in Keys
    BY <1>4, ReqTypes DEF SetMute, At
  <2>2. PICK end \in Ends : mutes' = [mutes EXCEPT ![req[q].who][req[q].key] = end]
    BY <1>4 DEF SetMute
  <2>3. p = req[q].who /\ k = req[q].key
    BY <2>1, <2>2 DEF TInv, TypeOK
  <2>4. At(q, "set") /\ req'[q] # req[q]
    BY <1>4, Moves DEF SetMute
  <2>5. QED
    BY <2>3, <2>4 DEF Asked
<1>5. QED
  BY <1>1, <1>2, <1>3, <1>4, MutesStay

\* A person's mute is set by that person only, and Adopt brings nothing back.
THEOREM MutesAreTheirOwn == Spec => MutesAreOnes
<1>1. QED
  BY InitTyped, StepTyped, StepOwn, PTL DEF Spec, MutesAreOnes

--------------------------------------------------------------------------------
(* Fields.                                                                 *)

\* A request is about to write.
Writing(q) == req[q] # Free /\ req[q].plan # <<>> /\ Head(req[q].plan) = "write"

\* What a document says, stored or not.
Says(p, d) == IF rows[p][d] = NoRow THEN Default ELSE rows[p][d]

\* Before the first start nothing is stored.
EmptyAtFirst ==
    /\ up => adopted
    /\ ~adopted => \A p \in People, d \in Docs : rows[p][d] = NoRow /\ want[p][d] = Default

\* A document says what its person last set, and so does the copy of a request
\* that is about to write it, unless updates crossed.
AsWanted ==
    /\ \A p \in People, d \in Docs : <<p, d>> \in crossed \/ Says(p, d) = want[p][d]
    /\ \A q \in Requests : Writing(q) =>
         \/ <<req[q].who, Doc(req[q])>> \in crossed
         \/ req[q].copy = want[req[q].who][Doc(req[q])]

KInv == EmptyAtFirst /\ AsWanted

\* At first no document has a row, and each is as its person wants it.
LEMMA InitKept == Init => KInv
BY DEF Init, KInv, EmptyAtFirst, AsWanted, Says, Writing

\* After a statement other than a read, a request is not about to write.
LEMMA NotWriting ==
  ASSUME TInv, NEW q \in Requests, NEW s, At(q, s), s # "read",
         NEW r \in Request, r.plan = req[q].plan, r.dead = {} \/ s = "select",
         req' = [req EXCEPT ![q] = After(r)]
  PROVE  ~Writing(q)' /\ \A o \in Requests : o # q => req'[o] = req[o]
<1>1. /\ req[q] \in Request /\ Planned(req[q]) /\ req[q].plan # <<>>
      /\ Head(req[q].plan) = s /\ req[q].plan \in Left
  BY AtShape
<1>2. After(r) # Free => After(r) \in Request /\ After(r) = [r EXCEPT !.plan = Tail(req[q].plan)]
  BY <1>1, AfterSound
<1>3. After(r) # Free => After(r).plan = Tail(req[q].plan)
  BY <1>2 DEF Request
<1>4. req'[q] = After(r) /\ \A o \in Requests : o # q => req'[o] = req[o]
  BY DEF TInv, TypeOK
<1>5. Tail(req[q].plan) # <<>> => Head(Tail(req[q].plan)) # "write"
  BY <1>1, LeftTail
<1>6. QED
  BY <1>3, <1>4, <1>5 DEF Writing

\* What leaves documents and copies alone, leaves KInv alone.
LEMMA KeptStays ==
  ASSUME KInv, UNCHANGED <<up, adopted, rows, want, crossed>>,
         \A o \in Requests : ~Writing(o)' \/ req'[o] = req[o]
  PROVE  KInv'
<1>1. EmptyAtFirst'
  BY DEF KInv, EmptyAtFirst
<1>2. \A p \in People, d \in Docs : Says(p, d)' = Says(p, d)
  BY DEF Says
<1>3. ASSUME NEW o \in Requests, Writing(o)'
      PROVE  \/ <<req'[o].who, Doc(req'[o])>> \in crossed'
             \/ req'[o].copy = want'[req'[o].who][Doc(req'[o])]
  <2>1. req'[o] = req[o] /\ Writing(o)
    BY <1>3 DEF Writing
  <2>2. QED
    BY <2>1 DEF KInv, AsWanted
<1>4. QED
  BY <1>1, <1>2, <1>3 DEF KInv, AsWanted, Doc

\* The statements about mutes, and a caller that goes away, leave the documents as wanted.
LEMMA MuteStepsKept ==
  ASSUME TInv, KInv, NEW q \in Requests,
         Select(q) \/ DeleteExpired(q) \/ SetMute(q) \/ ClearMute(q) \/ Abandon(q)
  PROVE  KInv'
<1>1. UNCHANGED <<up, adopted, rows, want, crossed>>
  BY DEF Select, DeleteExpired, SetMute, ClearMute, Abandon, history
<1>2. ~Writing(q)' /\ \A o \in Requests : o # q => req'[o] = req[o]
  <2>1. CASE Select(q)
    <3>1. req[q] \in Request
      BY <2>1, AtShape DEF Select
    <3> DEFINE r == [req[q] EXCEPT !.dead = {k \in Keys : Expired(mutes[req[q].who][k])}]
    <3>2. r \in Request /\ r.plan = req[q].plan
      BY <3>1 DEF Request
    <3>3. At(q, "select") /\ req' = [req EXCEPT ![q] = After(r)]
      BY <2>1 DEF Select, Proceeds
    <3>4. QED
      BY <3>2, <3>3, NotWriting
  <2>2. CASE DeleteExpired(q)
    <3>1. req[q] # Free /\ req[q] \in Request /\ Planned(req[q]) /\ req[q].dead # {}
      BY <2>2 DEF DeleteExpired, TInv, PlanInv, Sound
    <3>2. PICK k \in req[q].dead :
            req' = [req EXCEPT ![q] = LET r == [req[q] EXCEPT !.dead = @ \ {k}] IN
                                      IF r.dead = {} /\ r.plan = <<>> THEN Free ELSE r]
      BY <2>2 DEF DeleteExpired
    <3>3. req'[q] = Free \/ req'[q] = [req[q] EXCEPT !.dead = @ \ {k}]
      BY <3>2 DEF TInv, TypeOK
    <3>4. [req[q] EXCEPT !.dead = @ \ {k}].plan = req[q].plan
      BY <3>1 DEF Request
    <3>5. \A o \in Requests : o # q => req'[o] = req[o]
      BY <3>2 DEF TInv, TypeOK
    <3>6. QED
      BY <3>1, <3>3, <3>4, <3>5 DEF Planned, Writing
  <2>3. CASE SetMute(q)
    <3>1. At(q, "set") /\ req' = [req EXCEPT ![q] = After(req[q])]
      BY <2>3 DEF SetMute, Proceeds
    <3>2. QED
      BY <3>1, AtShape, NotWriting
  <2>4. CASE ClearMute(q)
    <3>1. At(q, "clear") /\ req' = [req EXCEPT ![q] = After(req[q])]
      BY <2>4 DEF ClearMute, Proceeds
    <3>2. QED
      BY <3>1, AtShape, NotWriting
  <2>5. CASE Abandon(q)
    BY <2>5 DEF Abandon, Writing, TInv, TypeOK
  <2>6. QED
    BY <2>1, <2>2, <2>3, <2>4, <2>5
<1>3. QED
  BY <1>1, <1>2, KeptStays

\* After a read, the copy is what was read.
LEMMA ReadCopies ==
  ASSUME TInv, NEW q \in Requests, At(q, "read"), NEW c \in Row,
         Proceeds(q, [req[q] EXCEPT !.copy = c])
  PROVE  /\ req'[q] # Free => /\ req'[q].who = req[q].who /\ Doc(req'[q]) = Doc(req[q])
                             /\ req'[q].copy = c
         /\ \A o \in Requests : o # q => req'[o] = req[o]
<1> DEFINE r == [req[q] EXCEPT !.copy = c]
<1>1. /\ req[q] \in Request /\ Planned(req[q]) /\ req[q].plan # <<>> /\ req[q].dead = {}
  BY AtShape
<1>2. r \in Request /\ r.plan = req[q].plan /\ r.dead = {} /\ r.copy = c
      /\ r.who = req[q].who /\ r.op = req[q].op
  BY <1>1 DEF Request
<1>3. After(r) # Free => After(r) = [r EXCEPT !.plan = Tail(req[q].plan)]
  BY <1>1, <1>2, AfterSound
<1>4. After(r) # Free => After(r).who = req[q].who /\ After(r).op = req[q].op /\ After(r).copy = c
  <2>1. /\ [r EXCEPT !.plan = Tail(req[q].plan)].who = r.who
        /\ [r EXCEPT !.plan = Tail(req[q].plan)].op = r.op
        /\ [r EXCEPT !.plan = Tail(req[q].plan)].copy = r.copy
    BY <1>2 DEF Request
  <2>2. QED
    BY <1>2, <1>3, <2>1
<1>5. req'[q] = After(r) /\ \A o \in Requests : o # q => req'[o] = req[o]
  BY DEF Proceeds, TInv, TypeOK
<1>6. QED
  BY <1>4, <1>5 DEF Doc

\* A read has the fields its person last set in its copy, or is recorded as crossed.
LEMMA ReadKept ==
  ASSUME TInv, KInv, NEW q \in Requests, Read(q) \/ ReadFails(q)
  PROVE  KInv'
<1>1. req[q] \in Request /\ Doc(req[q]) \in Docs /\ req[q].who \in People
  BY AtShape, DocTyped DEF Read, ReadFails
<1>2. UNCHANGED <<up, adopted, rows, want>> /\ crossed \subseteq crossed'
  BY DEF Read, ReadFails, history
<1>3. EmptyAtFirst'
  BY <1>2 DEF KInv, EmptyAtFirst
<1>4. PICK c \in Row :
        /\ At(q, "read") /\ Proceeds(q, [req[q] EXCEPT !.copy = c])
        /\ c = Stored(req[q]) \/ <<req[q].who, Doc(req[q])>> \in crossed'
  <2>1. CASE Read(q)
    BY <1>1, <2>1, StoredTyped DEF Read
  <2>2. CASE ReadFails(q)
    BY <2>2, RowIsRow DEF ReadFails
  <2>3. QED
    BY <2>1, <2>2
<1>5. Stored(req[q]) = Says(req[q].who, Doc(req[q]))
  BY DEF Stored, Says
<1>6. ASSUME NEW o \in Requests, Writing(o)'
      PROVE  \/ <<req'[o].who, Doc(req'[o])>> \in crossed'
             \/ req'[o].copy = want'[req'[o].who][Doc(req'[o])]
  <2>1. CASE o = q
    BY <1>1, <1>2, <1>4, <1>5, <1>6, <2>1, ReadCopies DEF Writing, KInv, AsWanted
  <2>2. CASE o # q
    <3>1. req'[o] = req[o] /\ Writing(o)
      BY <1>4, <1>6, <2>2, ReadCopies DEF Writing
    <3>2. QED
      BY <1>2, <3>1 DEF KInv, AsWanted
  <2>3. QED
    BY <2>1, <2>2
<1>7. \A p \in People, d \in Docs : <<p, d>> \in crossed' \/ Says(p, d)' = want'[p][d]
  BY <1>2 DEF KInv, AsWanted, Says
<1>8. QED
  BY <1>3, <1>6, <1>7 DEF KInv, AsWanted, Doc

\* A write stores the fields its person last set, or crossed another.
LEMMA WriteKept ==
  ASSUME TInv, KInv, NEW q \in Requests, Write(q)
  PROVE  KInv'
<1> DEFINE r == req[q]
<1>1. r \in Request /\ Planned(r) /\ r.plan # <<>> /\ Writing(q)
  BY AtShape DEF Write, Writing, At
<1>2. PICK p \in People, d \in Docs : p = r.who /\ d = Doc(r)
  BY <1>1, DocTyped
<1>3. r.field \in Fields /\ r.value \in {0, 1} /\ r.copy \in Row
  BY <1>1, DocTyped
<1>4. /\ rows' = [rows EXCEPT ![p][d] = Changed(r)]
      /\ want' = [want EXCEPT ![p][d] = [want[p][d] EXCEPT ![r.field] = r.value]]
      /\ UNCHANGED <<up, adopted>> /\ crossed \subseteq crossed'
  BY <1>2 DEF Write, TInv, TypeOK
<1>5. /\ rows'[p][d] = Changed(r)
      /\ want'[p][d] = [want[p][d] EXCEPT ![r.field] = r.value]
      /\ \A o \in People, e \in Docs : <<o, e>> # <<p, d>> =>
           rows'[o][e] = rows[o][e] /\ want'[o][e] = want[o][e]
  BY <1>2, <1>4 DEF TInv, TypeOK
<1>6. <<p, d>> \in crossed \/ r.copy = want[p][d]
  BY <1>1, <1>2 DEF KInv, AsWanted
<1>7. Changed(r) # NoRow
  <2>1. Changed(r) \in Row
    BY <1>3, RowIsRow DEF Changed
  <2>2. QED
    BY <2>1, RowIsRow
<1>8. <<p, d>> \in crossed' \/ Says(p, d)' = want'[p][d]
  <2>1. CASE <<p, d>> \in crossed
    BY <1>4, <2>1
  <2>2. CASE r.copy = want[p][d]
    <3>1. rows'[p][d] = want'[p][d]
      BY <1>5, <2>2 DEF Changed
    <3>2. rows'[p][d] # NoRow
      BY <1>5, <1>7
    <3>3. QED
      BY <3>1, <3>2 DEF Says
  <2>3. QED
    BY <1>6, <2>1, <2>2
<1>9. \A o \in People, e \in Docs : <<o, e>> \in crossed' \/ Says(o, e)' = want'[o][e]
  <2>1. ASSUME NEW o \in People, NEW e \in Docs, <<o, e>> # <<p, d>>
        PROVE  <<o, e>> \in crossed' \/ Says(o, e)' = want'[o][e]
    <3>1. rows'[o][e] = rows[o][e] /\ want'[o][e] = want[o][e]
      BY <1>5, <2>1
    <3>2. <<o, e>> \in crossed \/ Says(o, e) = want[o][e]
      BY DEF KInv, AsWanted
    <3>3. QED
      BY <1>4, <3>1, <3>2 DEF Says
  <2>2. QED
    BY <1>8, <2>1
<1>10. ~Writing(q)' /\ \A o \in Requests : o # q => req'[o] = req[o]
  <2>1. At(q, "write") /\ req' = [req EXCEPT ![q] = After(req[q])]
    BY DEF Write, Proceeds
  <2>2. QED
    BY <2>1, AtShape, NotWriting
<1>11. ASSUME NEW o \in Requests, Writing(o)'
       PROVE  \/ <<req'[o].who, Doc(req'[o])>> \in crossed'
              \/ req'[o].copy = want'[req'[o].who][Doc(req'[o])]
  <2>1. o # q /\ req'[o] = req[o] /\ Writing(o)
    BY <1>10, <1>11 DEF Writing
  <2>2. req[o] \in Request /\ Planned(req[o])
    BY <2>1 DEF Writing, TInv, PlanInv, Sound
  <2>3. At(o, "write")
    BY <2>1, <2>2 DEF Writing, Planned, At
  <2>4. Doc(req[o]) \in Docs /\ req[o].who \in People
    BY <2>2, DocTyped
  <2>5. CASE req[o].who = p /\ Doc(req[o]) = d
    <3>1. <<p, d>> \in crossed'
      BY <1>2, <2>1, <2>3, <2>5 DEF Write
    <3>2. QED
      BY <2>1, <2>5, <3>1
  <2>6. CASE <<req[o].who, Doc(req[o])>> # <<p, d>>
    BY <1>4, <1>5, <2>1, <2>4, <2>6 DEF KInv, AsWanted
  <2>7. QED
    BY <2>5, <2>6
<1>12. EmptyAtFirst'
  BY <1>1, <1>4 DEF KInv, EmptyAtFirst, TInv, TypeOK, Writing
<1>13. QED
  BY <1>9, <1>11, <1>12 DEF KInv, AsWanted, Doc

\* The first start takes over what there was, as it was.
LEMMA StartKept == TInv /\ KInv /\ Start => KInv'
<1> SUFFICES ASSUME TInv, KInv, Start PROVE KInv'
  OBVIOUS
<1>1. \A q \in Requests : req'[q] = Free
  BY DEF Start, TInv, TypeOK
<1>2. adopted' = TRUE /\ crossed' = crossed
  BY DEF Start, Adopt
<1>3. ASSUME NEW p \in People, NEW d \in Docs, <<p, d>> \notin crossed
      PROVE  Says(p, d)' = want'[p][d]
  <2>1. CASE adopted
    BY <1>3, <2>1 DEF Start, Adopt, KInv, AsWanted, Says
  <2>2. CASE ~adopted /\ p # Owner
    BY <1>3, <2>2 DEF Start, Adopt, KInv, AsWanted, Says, TInv, TypeOK
  <2>3. CASE ~adopted /\ p = Owner
    <3>1. rows'[p] = OrIgnore(rows[p], legacy.rows, NoRow)
      BY <2>3 DEF Start, Adopt, TInv, TypeOK
    <3>2. rows[p][d] = NoRow
      BY <2>3 DEF KInv, EmptyAtFirst
    <3>3. rows'[p][d] = legacy.rows[d]
      BY <3>1, <3>2 DEF OrIgnore, TInv, TypeOK
    <3>4. want'[p][d] = IF legacy.rows[d] = NoRow THEN Default ELSE legacy.rows[d]
      BY <2>3 DEF Start, TInv, TypeOK
    <3>5. QED
      BY <3>3, <3>4 DEF Says
  <2>4. QED
    BY <2>1, <2>2, <2>3
<1>4. QED
  BY <1>1, <1>2, <1>3 DEF KInv, EmptyAtFirst, AsWanted, Writing

\* At every step the documents that no crossed update touched are as their persons want.
LEMMA StepKept == TInv /\ KInv /\ [Next]_vars => KInv'
<1> SUFFICES ASSUME TInv, KInv, [Next]_vars PROVE KInv'
  OBVIOUS
<1>1. CASE Tick \/ UNCHANGED vars
  <2>1. UNCHANGED <<up, adopted, rows, want, crossed>> /\ req' = req
    BY <1>1 DEF Tick, vars, history
  <2>2. QED
    BY <2>1, KeptStays
<1>2. CASE Restart
  <2>1. UNCHANGED <<adopted, rows, want, crossed>> /\ up' = FALSE /\ \A q \in Requests : req'[q] = Free
    BY <1>2 DEF Restart, history
  <2>2. QED
    BY <2>1 DEF KInv, EmptyAtFirst, AsWanted, Says, Writing
<1>3. ASSUME NEW q \in Requests, Ask(q) PROVE KInv'
  <2>1. UNCHANGED <<up, adopted, rows, want, crossed>>
    BY <1>3 DEF Ask, history
  <2>2. PICK p \in People, op \in Ops, k \in Keys, f \in Fields, v \in {0, 1} :
          req' = [req EXCEPT ![q] = Begun(p, op, k, f, v)]
    BY <1>3 DEF Ask
  <2>3. req'[q].plan = Plan(op) /\ \A o \in Requests : o # q => req'[o] = req[o]
    BY <2>2 DEF Begun, TInv, TypeOK
  <2>4. Head(Plan(op)) # "write"
    BY PlanHead
  <2>5. QED
    BY <2>1, <2>3, <2>4, KeptStays DEF Writing
<1>4. ASSUME NEW q \in Requests, Handler(q) PROVE KInv'
  BY <1>4, MuteStepsKept, ReadKept, WriteKept DEF Handler
<1>5. QED
  BY <1>1, <1>2, <1>3, <1>4, StartKept DEF Next

\* The invariant says of each field what FieldsKept says.
LEMMA InvFields == TInv /\ KInv => FieldsKept
BY DEF KInv, AsWanted, FieldsKept, Says

\* A change to one field leaves the other as the person last set it, unless
\* two of the person's updates crossed or the read failed.
THEOREM FieldsStand == Spec => []FieldsKept
<1>1. QED
  BY InitTyped, StepTyped, InitKept, StepKept, InvFields, PTL DEF Spec

================================================================================
