------------------------- MODULE PersonalHistory_proofs -------------------------
(***************************************************************************)
(* Proofs, for any people, alerts, phones and bounds, that an alert pushed *)
(* or streamed to a person is in that person's history, and that a mute in *)
(* force while an event is handled keeps it from the phone, whichever      *)
(* statements fail: the exceptions are the failures each property names.   *)
(***************************************************************************)
EXTENDS PersonalHistory, TLAPS

--------------------------------------------------------------------------------
(* Types.                                                                  *)

\* The fields of the dispatcher while it handles an event.
LEMMA BusyFields ==
    ASSUME disp \in {Idle} \cup Busy, disp.pc # "idle"
    PROVE  /\ disp \in Busy
           /\ disp.id \in Alerts
           /\ disp.kind \in EventKinds
           /\ disp.who \in 1 .. Len(People)
           /\ disp.left \in 0 .. Patience
           /\ disp.pol \in SUBSET Flags
           /\ disp.verdict \in {"push", "deny", "hide"}
           /\ disp.phones \in Nat
           /\ Person \in Persons
<1>1. disp \in Busy
  BY DEF Idle
<1>2. QED
  BY <1>1 DEF Busy, Person, Persons

\* Changing the phase or the verdict of a busy dispatcher leaves it busy.
LEMMA BusyMoves ==
    ASSUME disp \in Busy
    PROVE  /\ \A pc \in {"kind", "quiet", "list"} : GoTo(pc) => disp' \in Busy /\ disp'.pc = pc
           /\ \A v \in {"push", "deny", "hide"} :
                Decide(v) => disp' \in Busy /\ disp'.pc = "record"
BY DEF Busy, GoTo, Decide

\* So does going on to the next person or to the broadcast.
LEMMA BusyNextPerson ==
    ASSUME disp \in Busy, NEW left \in 0 .. Patience, NextPerson(left)
    PROVE  disp' \in Busy /\ disp'.pc \in {"policy", "broadcast"}
<1>1. Len(People) \in Nat
  BY PersonalHistoryAssumption
<1>2. CASE disp.who < Len(People)
  <2>1. disp.who + 1 \in 1 .. Len(People)
    BY <1>1, <1>2 DEF Busy
  <2>2. disp' = [disp EXCEPT !.pc = "policy", !.who = @ + 1, !.left = left, !.pol = {},
                             !.verdict = "deny", !.phones = 0]
    BY <1>2 DEF NextPerson
  <2>3. QED
    BY <2>1, <2>2 DEF Busy
<1>3. CASE ~(disp.who < Len(People))
  BY <1>3 DEF NextPerson, Busy
<1>4. QED
  BY <1>2, <1>3

\* And so does going on after one phone.
LEMMA BusyAfterSend ==
    ASSUME disp \in Busy, NEW left \in 0 .. Patience, AfterSend(left)
    PROVE  disp' \in Busy /\ (disp'.pc = "send" => disp'.left > 0)
<1>1. CASE disp.phones > 1 /\ left > 0
  <2>1. disp' = [disp EXCEPT !.phones = @ - 1, !.left = left]
    BY <1>1 DEF AfterSend
  <2>2. disp.phones - 1 \in Nat
    BY <1>1 DEF Busy
  <2>3. disp' \in Busy
    BY <2>1, <2>2 DEF Busy
  <2>4. disp'.left = left
    BY <2>1 DEF Busy
  <2>5. QED
    BY <1>1, <2>3, <2>4
<1>2. CASE ~(disp.phones > 1 /\ left > 0)
  BY <1>2, BusyNextPerson DEF AfterSend
<1>3. QED
  BY <1>1, <1>2

\* An answer counts no failure, a failure at most one.
LEMMA StatementsCounted ==
    ASSUME failures \in Nat, Answered \/ Failed \/ UNCHANGED failures
    PROVE  failures' \in Nat
BY DEF Answered, Failed, Failure

StreamType == [state : {"off", "on", "cut"}, buf : Seq(Alerts)]

\* A broadcast keeps every stream's channel within its capacity.
LEMMA FannedTyped ==
    ASSUME stream \in [Persons -> StreamType],
           \A p \in Persons : Len(stream[p].buf) <= ChannelSize,
           NEW a \in Alerts
    PROVE  /\ Fanned(a) \in [Persons -> StreamType]
           /\ \A p \in Persons : Len(Fanned(a)[p].buf) <= ChannelSize
<1>1. ASSUME NEW p \in Persons
      PROVE  Fanned(a)[p] \in StreamType /\ Len(Fanned(a)[p].buf) <= ChannelSize
  <2>1. stream[p] \in StreamType /\ stream[p].buf \in Seq(Alerts) /\ ChannelSize \in Nat
    BY PersonalHistoryAssumption DEF StreamType
  <2>2. CASE stream[p].state # "on"
    BY <2>1, <2>2 DEF Fanned
  <2>3. CASE stream[p].state = "on" /\ Len(stream[p].buf) < ChannelSize
    <3>1. Fanned(a)[p] = [stream[p] EXCEPT !.buf = Append(stream[p].buf, a)]
      BY <2>3 DEF Fanned
    <3>2. /\ Append(stream[p].buf, a) \in Seq(Alerts)
          /\ Len(Append(stream[p].buf, a)) = Len(stream[p].buf) + 1
          /\ Len(stream[p].buf) \in Nat
      BY <2>1
    <3>3. QED
      BY <2>1, <2>3, <3>1, <3>2 DEF StreamType
  <2>4. CASE stream[p].state = "on" /\ ~(Len(stream[p].buf) < ChannelSize)
    BY <2>1, <2>4 DEF Fanned, StreamType
  <2>5. QED
    BY <2>2, <2>3, <2>4
<1>2. QED
  BY <1>1 DEF Fanned

\* So does the handler that takes an event from its channel.
LEMMA TakenTyped ==
    ASSUME stream \in [Persons -> StreamType],
           \A p \in Persons : Len(stream[p].buf) <= ChannelSize,
           NEW p \in Persons, stream[p].buf # <<>>,
           stream' = [stream EXCEPT ![p].buf = Tail(@)]
    PROVE  /\ stream' \in [Persons -> StreamType]
           /\ \A q \in Persons : Len(stream'[q].buf) <= ChannelSize
<1>1. /\ Tail(stream[p].buf) \in Seq(Alerts)
      /\ Len(Tail(stream[p].buf)) <= ChannelSize
  BY PersonalHistoryAssumption DEF StreamType
<1>2. stream' = [stream EXCEPT ![p] = [stream[p] EXCEPT !.buf = Tail(stream[p].buf)]]
  OBVIOUS
<1>3. [stream[p] EXCEPT !.buf = Tail(stream[p].buf)] \in StreamType
  BY <1>1 DEF StreamType
<1>4. QED
  BY <1>1, <1>2, <1>3 DEF StreamType

\* A set of alerts kept for each person may lose an alert or take one more.
LEMMA SetsTyped ==
    ASSUME NEW f \in [Persons -> SUBSET Alerts], NEW g, NEW p \in Persons, NEW a \in Alerts,
           \/ g = f
           \/ g = [f EXCEPT ![p] = @ \ {a}]
           \/ g = [f EXCEPT ![p] = @ \cup {a}]
    PROVE  g \in [Persons -> SUBSET Alerts]
<1>1. f[p] \ {a} \in SUBSET Alerts /\ f[p] \cup {a} \in SUBSET Alerts
  OBVIOUS
<1>2. QED
  BY <1>1

\* The initial state has the types: the type invariant starts true.
LEMMA InitTyped == Init => TypeOK
BY PersonalHistoryAssumption DEF Init, TypeOK, Off, Idle

\* Each step keeps the type invariant.
LEMMA StepTyped == TypeOK /\ [Next]_vars => TypeOK'
<1> SUFFICES ASSUME TypeOK, [Next]_vars PROVE TypeOK'
  OBVIOUS
<1> USE DEF TypeOK
<1>1. ASSUME NEW p \in Persons, NEW k \in Keys, MuteSet(p, k) \/ MuteEnds(p, k)
      PROVE  TypeOK'
  <2>1. CASE MuteSet(p, k)
    BY <2>1 DEF MuteSet, Change, observed
  <2>2. CASE MuteEnds(p, k)
    BY <2>2 DEF MuteEnds, Change
  <2>3. QED
    BY <1>1, <2>1, <2>2
<1>2. ASSUME NEW p \in Persons, NEW f \in SUBSET Flags, PolicySet(p, f) PROVE TypeOK'
  BY <1>2 DEF PolicySet, Change, observed
<1>3. ASSUME NEW p \in Persons, QuietTurns(p) PROVE TypeOK'
  BY <1>3 DEF QuietTurns, Change, observed
<1>4. ASSUME NEW p \in Persons, Connect(p) \/ Disconnect(p) PROVE TypeOK'
  <2>1. \A st \in {"off", "on"} :
          /\ [state |-> st, buf |-> <<>>] \in StreamType
          /\ Len(<<>>) <= ChannelSize
    BY PersonalHistoryAssumption DEF StreamType
  <2>2. PICK st \in {"off", "on"} :
          stream' = [stream EXCEPT ![p] = [state |-> st, buf |-> <<>>]]
    BY <1>4 DEF Connect, Disconnect, Off
  <2>3. QED
    BY <1>4, <2>1, <2>2 DEF Connect, Disconnect, StreamType, prefs, observed
<1>5. ASSUME NEW p \in Persons, Stream(p) PROVE TypeOK'
  <2>1. Head(stream[p].buf) \in Alerts
    BY <1>5 DEF Stream
  <2>2. /\ stream' \in [Persons -> StreamType]
        /\ \A q \in Persons : Len(stream'[q].buf) <= ChannelSize
    BY <1>5, TakenTyped DEF Stream, StreamType
  <2>3. /\ \/ streamed' = streamed
           \/ streamed' = [streamed EXCEPT ![p] = @ \cup {Head(stream[p].buf)}]
        /\ \/ blind' = blind
           \/ blind' = [blind EXCEPT ![p] = @ \cup {Head(stream[p].buf)}]
        /\ Failure \/ UNCHANGED failures
    BY <1>5 DEF Stream, Written
  <2>4. streamed' \in [Persons -> SUBSET Alerts]
    BY <2>1, <2>3, SetsTyped
  <2>5. blind' \in [Persons -> SUBSET Alerts]
    BY <2>1, <2>3, SetsTyped
  <2>6. failures' \in Nat
    BY <2>3 DEF Failure
  <2>7. QED
    BY <1>5, <2>2, <2>4, <2>5, <2>6 DEF Stream, StreamType, prefs
<1>6. ASSUME NEW a \in Alerts, ResolveInApp(a) PROVE TypeOK'
  BY <1>6, FannedTyped DEF ResolveInApp, StreamType, prefs, observed
<1>7. ASSUME NEW a \in Alerts, NEW k \in EventKinds, Emit(a, k) PROVE TypeOK'
  <2>1. 1 \in 1 .. Len(People) /\ Patience \in 0 .. Patience
    BY PersonalHistoryAssumption
  <2>2. disp' \in Busy /\ disp'.pc = "policy"
    BY <1>7, <2>1 DEF Emit, Busy
  <2>3. QED
    BY <1>7, <2>2 DEF Emit, prefs
<1>8. ASSUME disp' \in {Idle} \cup Busy, disp'.pc = "send" => disp'.left > 0,
             UNCHANGED <<others, pushes>>, failures' \in Nat, missed' \in SUBSET Keys,
             hidden' \in [Persons -> SUBSET Alerts], uncleared' \in [Persons -> SUBSET Alerts]
      PROVE  TypeOK'
  BY <1>8 DEF others, prefs
<1>9. CASE ReadPolicy
  <2>1. disp \in Busy /\ Person \in Persons
    BY <1>9, BusyFields DEF ReadPolicy
  <2>2. PICK pol \in SUBSET Flags :
          disp' = IF Pushable(pol)
                  THEN [disp EXCEPT !.pc = "source", !.pol = pol]
                  ELSE [disp EXCEPT !.pc = "record", !.pol = pol, !.verdict = "deny"]
    BY <1>9, <2>1 DEF ReadPolicy
  <2>3. disp' \in Busy /\ disp'.pc \in {"source", "record"}
    BY <2>1, <2>2 DEF Busy
  <2>4. failures' \in Nat
    BY <1>9, StatementsCounted DEF ReadPolicy
  <2>5. QED
    BY <1>8, <1>9, <2>3, <2>4 DEF ReadPolicy
<1>10. CASE SourceMute \/ KindMute \/ QuietHours
  <2>1. disp \in Busy
    BY <1>10, BusyFields DEF SourceMute, KindMute, QuietHours
  <2>2. disp' \in Busy /\ disp'.pc \in {"kind", "quiet", "record"}
    BY <1>10, <2>1, BusyMoves DEF SourceMute, KindMute, ObjectFilter, QuietHours
  <2>3. failures' \in Nat /\ missed' \in SUBSET Keys
    BY <1>10, StatementsCounted
    DEF SourceMute, KindMute, QuietHours, Muted, NotMuted, Keys
  <2>4. QED
    BY <1>8, <1>10, <2>2, <2>3 DEF SourceMute, KindMute, QuietHours
<1>11. CASE Record
  <2>1. /\ disp \in Busy /\ disp.left \in 0 .. Patience
        /\ Person \in Persons /\ disp.id \in Alerts
    BY <1>11, BusyFields DEF Record
  <2>2. disp' \in Busy /\ disp'.pc \in {"list", "policy", "broadcast"}
    BY <1>11, <2>1, BusyMoves, BusyNextPerson DEF Record
  <2>3. /\ hidden' \in [Persons -> SUBSET Alerts]
        /\ uncleared' \in [Persons -> SUBSET Alerts]
    <3>1. /\ \/ hidden' = hidden
             \/ hidden' = [hidden EXCEPT ![Person] = @ \ {disp.id}]
             \/ hidden' = [hidden EXCEPT ![Person] = @ \cup {disp.id}]
          /\ \/ uncleared' = uncleared
             \/ uncleared' = [uncleared EXCEPT ![Person] = @ \ {disp.id}]
             \/ uncleared' = [uncleared EXCEPT ![Person] = @ \cup {disp.id}]
      BY <1>11 DEF Record, WriteHistory, Recorded, ClearHidden, SetHidden
    <3>2. hidden' \in [Persons -> SUBSET Alerts]
      BY <2>1, <3>1, SetsTyped
    <3>3. uncleared' \in [Persons -> SUBSET Alerts]
      BY <2>1, <3>1, SetsTyped
    <3>4. QED
      BY <3>2, <3>3
  <2>4. failures' \in Nat
    <3>1. Answered \/ Failed \/ UNCHANGED failures
      BY <1>11 DEF Record, WriteHistory, Recorded, ClearHidden, SetHidden
    <3>2. QED
      BY <3>1, StatementsCounted
  <2>5. QED
    BY <1>8, <1>11, <2>2, <2>3, <2>4 DEF Record
<1>l. CASE ListDevices
  <2>1. /\ disp \in Busy /\ disp.left \in 0 .. Patience /\ Person \in Persons
    BY <1>l, BusyFields DEF ListDevices
  <2>2. disp' \in Busy /\ (disp'.pc = "send" => disp'.left > 0)
    <3>1. CASE disp.left > 0 /\ disp' = [disp EXCEPT !.pc = "send", !.phones = Phones[Person]]
      BY <2>1, <3>1, PersonalHistoryAssumption DEF Busy
    <3>2. CASE NextPerson(disp.left)
      BY <2>1, <3>2, BusyNextPerson
    <3>3. QED
      BY <1>l, <3>1, <3>2 DEF ListDevices, Answered, CanQuery
  <2>3. failures' \in Nat
    BY <1>l, StatementsCounted DEF ListDevices
  <2>4. QED
    BY <1>8, <1>l, <2>2, <2>3 DEF ListDevices
<1>12. CASE SendDelivered
  <2>1. /\ disp \in Busy /\ disp.left \in 0 .. Patience
        /\ Person \in Persons /\ disp.id \in Alerts
    BY <1>12, BusyFields DEF SendDelivered
  <2>2. disp' \in Busy /\ (disp'.pc = "send" => disp'.left > 0)
    BY <1>12, <2>1, BusyAfterSend DEF SendDelivered
  <2>3. pushes' \in [Persons -> [Alerts -> Nat]]
    BY <1>12, <2>1 DEF SendDelivered
  <2>4. QED
    BY <1>12, <2>2, <2>3 DEF SendDelivered, others, prefs
<1>13. CASE SendRejected
  <2>1. disp \in Busy /\ disp.left \in 0 .. Patience
    BY <1>13, BusyFields DEF SendRejected
  <2>2. QED
    BY <1>8, <1>13, <2>1, BusyAfterSend DEF SendRejected
<1>14. CASE SendTimesOut
  <2>1. disp \in Busy /\ disp.left \in 0 .. Patience /\ disp.left > 0
    BY <1>14, BusyFields DEF SendTimesOut
  <2>2. disp.left - 1 \in 0 .. Patience
    BY <2>1, PersonalHistoryAssumption
  <2>3. QED
    BY <1>8, <1>14, <2>1, <2>2, BusyAfterSend DEF SendTimesOut
<1>15. CASE Broadcast
  <2>1. disp.id \in Alerts
    BY <1>15, BusyFields DEF Broadcast
  <2>2. QED
    BY <1>15, <2>1, FannedTyped DEF Broadcast, Over, Idle, StreamType, prefs
<1>16. CASE Restart
  <2>1. Off \in StreamType /\ Len(Off.buf) <= ChannelSize
    BY PersonalHistoryAssumption DEF Off, StreamType
  <2>2. QED
    BY <1>16, <2>1 DEF Restart, Over, Idle, StreamType, prefs
<1>17. CASE UNCHANGED vars
  BY <1>17 DEF vars, prefs, observed
<1>18. QED
  BY PersonalHistoryAssumption,
     <1>1, <1>2, <1>3, <1>4, <1>5, <1>6, <1>7, <1>9, <1>10, <1>11, <1>l, <1>12, <1>13, <1>14,
     <1>15, <1>16, <1>17
  DEF Next, OnEvent

\* Every variable keeps its type; in particular no stream's channel holds more
\* than its capacity.
THEOREM TypeCorrect == Spec => []TypeOK
<1>1. QED
  BY InitTyped, StepTyped, PTL DEF Spec

--------------------------------------------------------------------------------
(* A pushed alert is in the history.  The order of the writes is what      *)
(* makes it so: a first sighting can hide the alert only from people it    *)
(* has not been sent to yet, and a later event clears the hidden row       *)
(* before it sends.                                                        *)

\* The event is still to be decided for the person at place n.
Undecided(n) ==
    n > disp.who \/ (n = disp.who /\ disp.pc \notin {"list", "send", "broadcast"})

\* An alert nobody has heard of is neither pushed nor hidden; the event at hand
\* is about an alert that has a row.
NothingBeforeTheRow ==
    /\ \A a \in Alerts : row[a] = "none" =>
          \A p \in Persons : pushes[p][a] = 0 /\ a \notin hidden[p]
    /\ disp # Idle => row[disp.id] # "none"

\* A first sighting finds nothing pushed to or hidden from those it has not
\* been decided for.
FirstIsFresh ==
    disp # Idle /\ disp.kind = "first" =>
        \A n \in 1 .. Len(People) : Undecided(n) =>
            /\ pushes[People[n]][disp.id] = 0
            /\ disp.id \notin hidden[People[n]]

\* Nor is what is being sent to a person hidden from them, unless its ClearHidden
\* failed.
SendingIsVisible ==
    disp.pc = "send" \/ (disp.pc = "list" /\ CanQuery) =>
        (disp.id \in hidden[Person] => disp.id \in uncleared[Person])

HistoryInv ==
    TypeOK /\ PushedIsVisible /\ NothingBeforeTheRow /\ FirstIsFresh /\ SendingIsVisible

\* The step to the next person decides for nobody.
LEMMA NextUndecided ==
    ASSUME disp \in Busy, NEW left \in 0 .. Patience, NextPerson(left)
    PROVE  /\ disp'.id = disp.id /\ disp'.kind = disp.kind
           /\ disp'.pc \in {"policy", "broadcast"}
           /\ \A n \in 1 .. Len(People) : Undecided(n)' => n > disp.who
<1>1. Len(People) \in Nat /\ disp.who \in 1 .. Len(People)
  BY PersonalHistoryAssumption DEF Busy
<1>2. CASE disp.who < Len(People)
  <2>1. disp' = [disp EXCEPT !.pc = "policy", !.who = @ + 1, !.left = left, !.pol = {},
                             !.verdict = "deny", !.phones = 0]
    BY <1>2 DEF NextPerson
  <2>2. /\ disp'.id = disp.id /\ disp'.kind = disp.kind
        /\ disp'.pc = "policy" /\ disp'.who = disp.who + 1
    BY <2>1 DEF Busy
  <2>3. QED
    BY <1>1, <2>2 DEF Undecided
<1>3. CASE ~(disp.who < Len(People))
  <2>1. disp' = [disp EXCEPT !.pc = "broadcast", !.left = left]
    BY <1>3 DEF NextPerson
  <2>2. /\ disp'.id = disp.id /\ disp'.kind = disp.kind
        /\ disp'.pc = "broadcast" /\ disp'.who = disp.who
    BY <2>1 DEF Busy
  <2>3. QED
    BY <1>1, <2>2 DEF Undecided
<1>4. QED
  BY <1>2, <1>3

\* Nor does the step after a phone: the same person's next phone, or the next
\* person.
LEMMA SendUndecided ==
    ASSUME disp \in Busy, disp.pc = "send", NEW left \in 0 .. Patience, AfterSend(left)
    PROVE  /\ disp'.id = disp.id /\ disp'.kind = disp.kind /\ disp'.pc # "idle"
           /\ \A n \in 1 .. Len(People) : Undecided(n)' => n > disp.who
           /\ disp'.pc # "list" /\ (disp'.pc = "send" => disp'.who = disp.who)
<1>1. disp.who \in 1 .. Len(People)
  BY DEF Busy
<1>2. CASE disp.phones > 1 /\ left > 0
  <2>1. disp' = [[disp EXCEPT !.phones = disp.phones - 1] EXCEPT !.left = left]
    BY <1>2 DEF AfterSend, Busy
  <2>2. /\ disp'.id = disp.id /\ disp'.kind = disp.kind
        /\ disp'.pc = "send" /\ disp'.who = disp.who
    BY <2>1 DEF Busy
  <2>3. QED
    BY <1>1, <2>2 DEF Undecided
<1>3. CASE ~(disp.phones > 1 /\ left > 0)
  BY <1>3, NextUndecided DEF AfterSend
<1>4. QED
  BY <1>2, <1>3

\* Two places in People hold two persons.
LEMMA PlacesDiffer ==
    ASSUME NEW m \in 1 .. Len(People), NEW n \in 1 .. Len(People), n > m
    PROVE  People[m] \in Persons /\ People[n] \in Persons /\ People[m] # People[n]
<1>1. m # n
  BY PersonalHistoryAssumption
<1>2. QED
  BY <1>1, PersonalHistoryAssumption DEF Persons

\* Reading the policy changes the phase and what is known of the person.
LEMMA PolicyRead ==
    ASSUME disp \in Busy, ReadPolicy
    PROVE  /\ disp'.id = disp.id /\ disp'.kind = disp.kind /\ disp'.who = disp.who
           /\ disp'.pc \in {"source", "record"}
           /\ disp'.pc = "record" => disp'.verdict = "deny"
<1>1. PICK pol :
        disp' = IF Pushable(pol)
                THEN [disp EXCEPT !.pc = "source", !.pol = pol]
                ELSE [disp EXCEPT !.pc = "record", !.pol = pol, !.verdict = "deny"]
  BY DEF ReadPolicy
<1>2. QED
  BY <1>1 DEF Busy

\* So does each of the other questions.
LEMMA Asked ==
    ASSUME disp \in Busy, SourceMute \/ KindMute \/ QuietHours
    PROVE  /\ disp'.id = disp.id /\ disp'.kind = disp.kind
           /\ disp'.who = disp.who /\ disp'.left = disp.left
           /\ disp'.pc \in {"kind", "quiet", "record"}
<1>1. \/ disp' = [disp EXCEPT !.pc = "kind"]
      \/ disp' = [disp EXCEPT !.pc = "quiet"]
      \/ \E v \in {"push", "deny", "hide"} :
           disp' = [disp EXCEPT !.pc = "record", !.verdict = v]
  BY DEF SourceMute, KindMute, ObjectFilter, QuietHours, GoTo, Decide
<1>2. QED
  BY <1>1 DEF Busy

\* The write is about the person and the alert at hand, and no others.
LEMMA RecordedElsewhere ==
    ASSUME hidden \in [Persons -> SUBSET Alerts], uncleared \in [Persons -> SUBSET Alerts],
           Person \in Persons, WriteHistory,
           NEW q \in Persons, NEW b \in Alerts, q # Person \/ b # disp.id
    PROVE  /\ b \in hidden'[q] <=> b \in hidden[q]
           /\ b \in uncleared'[q] <=> b \in uncleared[q]
<1>1. \/ hidden' = hidden
      \/ hidden' = [hidden EXCEPT ![Person] = @ \ {disp.id}]
      \/ hidden' = [hidden EXCEPT ![Person] = @ \cup {disp.id}]
  BY DEF WriteHistory, Recorded, ClearHidden, SetHidden
<1>2. \/ uncleared' = uncleared
      \/ uncleared' = [uncleared EXCEPT ![Person] = @ \ {disp.id}]
      \/ uncleared' = [uncleared EXCEPT ![Person] = @ \cup {disp.id}]
  BY DEF WriteHistory, Recorded, ClearHidden, SetHidden
<1>3. b \in hidden'[q] <=> b \in hidden[q]
  BY <1>1
<1>4. b \in uncleared'[q] <=> b \in uncleared[q]
  BY <1>2
<1>5. QED
  BY <1>3, <1>4

\* ClearHidden shows the alert, or fails: in a live context it is then one of
\* the uncleared.
LEMMA ClearedOrMarked ==
    ASSUME hidden \in [Persons -> SUBSET Alerts], uncleared \in [Persons -> SUBSET Alerts],
           Person \in Persons, ClearHidden, disp.id \in hidden'[Person]
    PROVE  /\ disp.id \in hidden[Person]
           /\ CanQuery => disp.id \in uncleared'[Person]
           /\ disp.id \in uncleared[Person] => disp.id \in uncleared'[Person]
<1>1. CASE hidden' = [hidden EXCEPT ![Person] = @ \ {disp.id}]
  BY <1>1
<1>2. CASE /\ uncleared' = IF CanQuery /\ disp.id \in hidden[Person]
                           THEN [uncleared EXCEPT ![Person] = @ \cup {disp.id}]
                           ELSE uncleared
           /\ UNCHANGED hidden
  BY <1>2
<1>3. QED
  BY <1>1, <1>2 DEF ClearHidden

\* An alert that the write leaves hidden was hidden before, and is still marked
\* as it was, or this is its first sighting.
LEMMA RecordedHere ==
    ASSUME hidden \in [Persons -> SUBSET Alerts], uncleared \in [Persons -> SUBSET Alerts],
           Person \in Persons, WriteHistory, disp.id \in hidden'[Person]
    PROVE  \/ /\ disp.id \in hidden[Person]
              /\ disp.id \in uncleared[Person] => disp.id \in uncleared'[Person]
           \/ disp.kind = "first"
<1>1. CASE ClearHidden
  BY <1>1, ClearedOrMarked
<1>2. CASE disp.kind = "first"
  BY <1>2
<1>3. CASE UNCHANGED <<hidden, uncleared>>
  BY <1>3
<1>4. QED
  BY <1>1, <1>2, <1>3 DEF WriteHistory, Recorded

\* The history invariant holds before any event.
LEMMA HistoryInit == Init => HistoryInv
<1> SUFFICES ASSUME Init PROVE HistoryInv
  OBVIOUS
<1>1. TypeOK
  BY InitTyped
<1>2. QED
  BY <1>1 DEF Init, HistoryInv, PushedIsVisible, NothingBeforeTheRow, FirstIsFresh,
              SendingIsVisible, Idle

\* Each step keeps the history invariant.
LEMMA HistoryStep == HistoryInv /\ [Next]_vars => HistoryInv'
<1> SUFFICES ASSUME HistoryInv, [Next]_vars PROVE HistoryInv'
  OBVIOUS
<1>t. TypeOK /\ TypeOK'
  BY StepTyped DEF HistoryInv
<1> DEFINE Rest == PushedIsVisible /\ NothingBeforeTheRow /\ FirstIsFresh /\ SendingIsVisible
<1>r. Rest
  BY DEF HistoryInv
<1>q. SUFFICES Rest'
  BY <1>t DEF HistoryInv
<1> USE DEF PushedIsVisible, NothingBeforeTheRow, FirstIsFresh, SendingIsVisible
<1>1. ASSUME UNCHANGED <<disp, pushes, hidden, uncleared>>,
             \A a \in Alerts : row[a] # "none" => row'[a] # "none"
      PROVE  Rest'
  <2>1. disp # Idle => disp.id \in Alerts
    BY <1>t DEF TypeOK, Busy
  <2>2. NothingBeforeTheRow'
    BY <1>1, <1>r, <2>1, <1>t DEF TypeOK
  <2>3. PushedIsVisible' /\ FirstIsFresh' /\ SendingIsVisible'
    BY <1>1, <1>r DEF Undecided, Person, CanQuery
  <2>4. QED
    BY <2>2, <2>3
<1>2. ASSUME UNCHANGED <<row, pushes, hidden, uncleared>>, disp' = Idle PROVE Rest'
  BY <1>2, <1>r DEF Idle
<1>3. ASSUME NEW p \in Persons, NEW k \in Keys, MuteSet(p, k) \/ MuteEnds(p, k) PROVE Rest'
  BY <1>1, <1>3 DEF MuteSet, MuteEnds, observed
<1>4. ASSUME NEW p \in Persons, NEW f \in SUBSET Flags, PolicySet(p, f) PROVE Rest'
  BY <1>1, <1>4 DEF PolicySet, observed
<1>5. ASSUME NEW p \in Persons, QuietTurns(p) \/ Connect(p) \/ Disconnect(p) \/ Stream(p)
      PROVE  Rest'
  BY <1>1, <1>5 DEF QuietTurns, Connect, Disconnect, Stream, observed
<1>6. ASSUME NEW a \in Alerts, ResolveInApp(a) PROVE Rest'
  <2>1. \A b \in Alerts : row[b] # "none" => row'[b] # "none"
    BY <1>6, <1>t DEF ResolveInApp, TypeOK
  <2>2. QED
    BY <1>1, <1>6, <2>1 DEF ResolveInApp, observed
<1>7. ASSUME NEW a \in Alerts, NEW k \in EventKinds, Emit(a, k) PROVE Rest'
  <2>1. /\ disp'.id = a /\ disp'.kind = k /\ disp'.who = 1 /\ disp'.pc = "policy"
        /\ UNCHANGED <<pushes, hidden, uncleared>>
        /\ k = "first" => row[a] = "none"
        /\ row' = [row EXCEPT ![a] = IF k = "other" THEN "closed" ELSE "active"]
    BY <1>7 DEF Emit, RowBefore
  <2>2. row'[a] # "none" /\ \A b \in Alerts : row[b] # "none" => row'[b] # "none"
    BY <2>1, <1>t DEF TypeOK
  <2>3. NothingBeforeTheRow'
    BY <2>1, <2>2, <1>r, <1>t DEF TypeOK
  <2>4. \A n \in 1 .. Len(People) : People[n] \in Persons
    BY DEF Persons
  <2>5. FirstIsFresh'
    BY <2>1, <2>4, <1>r
  <2>6. QED
    BY <2>1, <2>3, <2>5, <1>r
<1>8. ASSUME UNCHANGED <<row, pushes, hidden, uncleared>>, disp \in Busy,
             disp.pc \in {"policy", "source", "kind", "quiet"},
             disp'.id = disp.id, disp'.kind = disp.kind, disp'.who = disp.who,
             disp'.pc \in {"source", "kind", "quiet", "record"}
      PROVE  Rest'
  <2>1. \A n \in 1 .. Len(People) : Undecided(n)' => Undecided(n)
    BY <1>8 DEF Undecided
  <2>2. disp # Idle
    BY <1>8 DEF Idle, Busy
  <2>3. QED
    BY <1>8, <1>r, <2>1, <2>2
<1>9. CASE ReadPolicy
  <2>1. disp \in Busy /\ disp.pc = "policy"
    BY <1>9, <1>t, BusyFields DEF ReadPolicy, TypeOK
  <2>2. /\ disp'.id = disp.id /\ disp'.kind = disp.kind /\ disp'.who = disp.who
        /\ disp'.pc \in {"source", "record"}
    BY <1>9, <2>1, PolicyRead
  <2>3. QED
    BY <1>8, <1>9, <2>1, <2>2 DEF ReadPolicy, others
<1>10. CASE SourceMute \/ KindMute \/ QuietHours
  <2>1. disp \in Busy /\ disp.pc \in {"source", "kind", "quiet"}
    BY <1>10, <1>t, BusyFields DEF SourceMute, KindMute, QuietHours, TypeOK
  <2>2. /\ disp'.id = disp.id /\ disp'.kind = disp.kind /\ disp'.who = disp.who
        /\ disp'.pc \in {"kind", "quiet", "record"}
    BY <1>10, <2>1, Asked
  <2>3. QED
    BY <1>8, <1>10, <2>1, <2>2 DEF SourceMute, KindMute, QuietHours, others
<1>11. CASE Record
  <2>1. /\ disp \in Busy /\ disp.left \in 0 .. Patience /\ disp.who \in 1 .. Len(People)
        /\ Person \in Persons /\ disp.id \in Alerts /\ disp # Idle /\ disp.pc = "record"
        /\ UNCHANGED <<row, pushes>>
    BY <1>11, <1>t, BusyFields DEF Record, TypeOK, others, Idle
  <2>2. row[disp.id] # "none"
    BY <2>1, <1>r
  <2>3. \A q \in Persons, b \in Alerts :
          q # Person \/ b # disp.id =>
            /\ b \in hidden'[q] <=> b \in hidden[q]
            /\ b \in uncleared'[q] <=> b \in uncleared[q]
    BY <1>11, <1>t, <2>1, RecordedElsewhere DEF Record, TypeOK
  <2>4. disp.id \in hidden'[Person] =>
          \/ /\ disp.id \in hidden[Person]
             /\ disp.id \in uncleared[Person] => disp.id \in uncleared'[Person]
          \/ disp.kind = "first"
    BY <1>11, <1>t, <2>1, RecordedHere DEF Record, TypeOK
  <2>5. Undecided(disp.who) /\ Person = People[disp.who]
    BY <2>1 DEF Undecided, Person
  <2>6. disp.kind = "first" => pushes[Person][disp.id] = 0 /\ disp.id \notin hidden[Person]
    BY <2>1, <2>5, <1>r
  <2>7. PushedIsVisible'
    <3>1. ASSUME NEW q \in Persons, NEW b \in Alerts, pushes[q][b] > 0, b \in hidden'[q]
          PROVE  b \in uncleared'[q]
      <4>1. CASE q = Person /\ b = disp.id
        <5>1. pushes[Person][disp.id] # 0
          BY <3>1, <4>1
        <5>2. disp.kind # "first"
          BY <5>1, <2>6
        <5>3. QED
          BY <3>1, <4>1, <5>2, <2>1, <2>4, <1>r
      <4>2. CASE ~(q = Person /\ b = disp.id)
        BY <3>1, <4>2, <2>3, <1>r
      <4>3. QED
        BY <4>1, <4>2
    <3>2. QED
      BY <3>1, <2>1
  <2>8. /\ disp'.id = disp.id /\ disp'.kind = disp.kind /\ disp' # Idle
        /\ \A n \in 1 .. Len(People) : Undecided(n)' => n > disp.who
        /\ disp'.pc # "send"
        /\ disp'.pc = "list" =>
             disp'.who = disp.who /\ disp'.left = disp.left /\ disp.verdict = "push"
    <3>1. CASE disp.verdict = "push"
      <4>1. disp' = [disp EXCEPT !.pc = "list"]
        BY <1>11, <3>1 DEF Record, GoTo
      <4>2. /\ disp'.id = disp.id /\ disp'.kind = disp.kind
            /\ disp'.pc = "list" /\ disp'.who = disp.who /\ disp'.left = disp.left
        BY <4>1, <2>1 DEF Busy
      <4>3. QED
        BY <3>1, <4>2, <2>1 DEF Undecided, Idle
    <3>2. CASE disp.verdict # "push"
      <4>1. NextPerson(disp.left)
        BY <1>11, <3>2 DEF Record
      <4>2. QED
        BY <4>1, <2>1, NextUndecided DEF Idle
    <3>3. QED
      BY <3>1, <3>2
  <2>9. NothingBeforeTheRow'
    BY <2>1, <2>2, <2>3, <2>8, <1>r
  <2>10. FirstIsFresh'
    <3>1. ASSUME disp.kind = "first", NEW n \in 1 .. Len(People), n > disp.who
          PROVE  pushes[People[n]][disp.id] = 0 /\ disp.id \notin hidden'[People[n]]
      <4>1. People[n] \in Persons /\ People[n] # Person
        BY <3>1, <2>1, <2>5, PlacesDiffer
      <4>2. Undecided(n)
        BY <3>1 DEF Undecided
      <4>3. QED
        BY <3>1, <4>1, <4>2, <2>1, <2>3, <1>r
    <3>2. QED
      BY <3>1, <2>1, <2>8
  <2>11. SendingIsVisible'
    <3>1. ASSUME disp.verdict = "push", CanQuery, disp.id \in hidden'[Person]
          PROVE  disp.id \in uncleared'[Person]
      <4>1. CASE disp.kind = "first"
        <5>1. hidden' = hidden
          BY <1>11, <3>1, <4>1 DEF Record, WriteHistory, Recorded
        <5>2. QED
          BY <3>1, <4>1, <5>1, <2>6
      <4>2. CASE disp.kind # "first"
        <5>1. ClearHidden
          BY <1>11, <3>1, <4>2 DEF Record, WriteHistory, Recorded
        <5>2. QED
          BY <1>t, <3>1, <5>1, <2>1, ClearedOrMarked DEF TypeOK
      <4>3. QED
        BY <4>1, <4>2
    <3>2. disp'.pc = "list" => Person' = Person /\ CanQuery' = CanQuery
      BY <2>8 DEF Person, CanQuery
    <3>3. QED
      BY <3>1, <3>2, <2>8
  <2>12. QED
    BY <2>7, <2>9, <2>10, <2>11
<1>l. CASE ListDevices
  <2>1. /\ disp \in Busy /\ disp.left \in 0 .. Patience /\ disp.who \in 1 .. Len(People)
        /\ disp # Idle /\ disp.pc = "list"
        /\ UNCHANGED <<row, pushes, hidden, uncleared>>
    BY <1>l, <1>t, BusyFields DEF ListDevices, TypeOK, others, Idle
  <2>2. /\ disp'.id = disp.id /\ disp'.kind = disp.kind /\ disp' # Idle
        /\ \A n \in 1 .. Len(People) : Undecided(n)' => n > disp.who
        /\ disp'.pc # "list"
        /\ disp'.pc = "send" => disp'.who = disp.who /\ CanQuery
    <3>1. CASE CanQuery /\ disp' = [disp EXCEPT !.pc = "send", !.phones = Phones[Person]]
      <4>1. /\ disp'.id = disp.id /\ disp'.kind = disp.kind
            /\ disp'.pc = "send" /\ disp'.who = disp.who
        BY <3>1, <2>1 DEF Busy
      <4>2. QED
        BY <3>1, <4>1, <2>1 DEF Undecided, Idle
    <3>2. CASE NextPerson(disp.left)
      BY <3>2, <2>1, NextUndecided DEF Idle
    <3>3. QED
      BY <1>l, <3>1, <3>2 DEF ListDevices, Answered
  <2>3. FirstIsFresh'
    <3>1. \A n \in 1 .. Len(People) : n > disp.who => Undecided(n)
      BY DEF Undecided
    <3>2. QED
      BY <3>1, <2>1, <2>2, <1>r
  <2>4. SendingIsVisible'
    <3>1. disp'.pc = "send" => Person' = Person
      BY <2>2 DEF Person
    <3>2. QED
      BY <3>1, <2>1, <2>2, <1>r
  <2>5. PushedIsVisible' /\ NothingBeforeTheRow'
    BY <2>1, <2>2, <1>r
  <2>6. QED
    BY <2>3, <2>4, <2>5
<1>12. ASSUME NEW left \in 0 .. Patience, disp \in Busy, disp.pc = "send", AfterSend(left),
              UNCHANGED <<row, hidden, uncleared>>,
              \A q \in Persons, b \in Alerts :
                q # Person \/ b # disp.id => pushes'[q][b] = pushes[q][b]
       PROVE  Rest'
  <2>1. /\ disp.who \in 1 .. Len(People) /\ disp # Idle
        /\ Person \in Persons /\ Person = People[disp.who] /\ disp.id \in Alerts
    BY <1>12 DEF Busy, Idle, Person, Persons
  <2>2. /\ disp'.id = disp.id /\ disp'.kind = disp.kind
        /\ \A n \in 1 .. Len(People) : Undecided(n)' => n > disp.who
        /\ disp'.pc # "list" /\ (disp'.pc = "send" => disp'.who = disp.who)
    BY <1>12, SendUndecided
  <2>3. /\ disp.id \in hidden[Person] => disp.id \in uncleared[Person]
        /\ row[disp.id] # "none"
    BY <1>12, <1>r, <2>1
  <2>4. PushedIsVisible'
    BY <1>12, <1>r, <2>3
  <2>5. NothingBeforeTheRow'
    BY <1>12, <1>r, <2>2, <2>3
  <2>6. FirstIsFresh'
    <3>1. ASSUME disp.kind = "first", NEW n \in 1 .. Len(People), n > disp.who
          PROVE  pushes'[People[n]][disp.id] = 0 /\ disp.id \notin hidden[People[n]]
      <4>1. People[n] \in Persons /\ People[n] # Person
        BY <3>1, <2>1, PlacesDiffer
      <4>2. Undecided(n)
        BY <3>1 DEF Undecided
      <4>3. QED
        BY <1>12, <3>1, <4>1, <4>2, <2>1, <1>r
    <3>2. QED
      BY <3>1, <1>12, <2>2
  <2>7. SendingIsVisible'
    <3>1. disp'.pc = "send" => Person' = Person
      BY <2>2 DEF Person
    <3>2. QED
      BY <3>1, <2>2, <2>3, <1>12
  <2>8. QED
    BY <2>4, <2>5, <2>6, <2>7
<1>13. CASE SendDelivered \/ SendRejected \/ SendTimesOut
  <2>1. /\ disp \in Busy /\ disp.pc = "send" /\ UNCHANGED <<row, hidden, uncleared>>
        /\ Person \in Persons /\ disp.id \in Alerts
    BY <1>13, <1>t, BusyFields DEF SendDelivered, SendRejected, SendTimesOut, TypeOK, others
  <2>2. disp.left \in 0 .. Patience /\ disp.left > 0
    BY <2>1, <1>t DEF Busy, TypeOK
  <2>3. disp.left - 1 \in 0 .. Patience
    BY <2>2, PersonalHistoryAssumption
  <2>4. AfterSend(disp.left) \/ AfterSend(disp.left - 1)
    BY <1>13 DEF SendDelivered, SendRejected, SendTimesOut
  <2>5. \A q \in Persons, b \in Alerts :
          q # Person \/ b # disp.id => pushes'[q][b] = pushes[q][b]
    <3>1. CASE SendDelivered
      <4>1. pushes' = [pushes EXCEPT ![Person] =
                         [pushes[Person] EXCEPT ![disp.id] = pushes[Person][disp.id] + 1]]
        BY <3>1 DEF SendDelivered
      <4>2. QED
        BY <4>1, <1>t, <2>1 DEF TypeOK
    <3>2. CASE SendRejected \/ SendTimesOut
      BY <3>2 DEF SendRejected, SendTimesOut
    <3>3. QED
      BY <1>13, <3>1, <3>2
  <2>6. QED
    BY <1>12, <2>1, <2>2, <2>3, <2>4, <2>5
<1>14. CASE Broadcast \/ Restart
  BY <1>2, <1>14 DEF Broadcast, Restart, Over
<1>15. CASE UNCHANGED vars
  BY <1>1, <1>15 DEF vars, observed
<1>16. QED
  BY PersonalHistoryAssumption,
     <1>3, <1>4, <1>5, <1>6, <1>7, <1>9, <1>10, <1>11, <1>l, <1>13, <1>14, <1>15
  DEF Next, OnEvent

\* Whatever is pushed to a person stays in that person's history, unless it was
\* hidden and ClearHidden failed before the push (notify.go 71-82).
THEOREM PushedStaysVisible == Spec => []PushedIsVisible
<1>1. HistoryInv => PushedIsVisible
  BY DEF HistoryInv
<1>2. QED
  BY HistoryInit, HistoryStep, <1>1, PTL DEF Spec

--------------------------------------------------------------------------------
(* A mute in force from the event's start is honoured, but for one whose   *)
(* lookup failed in a live context.  The other lookups that fail are those *)
(* of a context that has run out, and then nothing is sent.                *)

\* Where the lookups for a person have got to: the mutes held were missed.
LookedUp ==
    /\ disp.pc = "kind" /\ disp.left > 0 => held[Person] \subseteq missed \cup {"kind"}
    /\ disp.pc = "quiet" /\ disp.left > 0 => held[Person] \subseteq missed
    /\ disp.pc = "record" /\ disp.verdict = "push" /\ disp.left > 0 =>
         held[Person] \subseteq missed
    /\ disp.pc = "list" /\ disp.left > 0 => held[Person] \subseteq missed
    /\ disp.pc = "send" => held[Person] \subseteq missed

\* A mute held since the event began is a mute in force.
HeldIsInForce == \A p \in Persons : held[p] \subseteq mute[p]

MuteInv == TypeOK /\ HeldIsInForce /\ LookedUp

\* The lookups for the next person start afresh.
LEMMA NextNotLookedUp ==
    ASSUME disp \in Busy, NEW left \in 0 .. Patience, NextPerson(left)
    PROVE  LookedUp'
<1>1. disp'.pc \in {"policy", "broadcast"}
  BY BusyNextPerson
<1>2. QED
  BY <1>1 DEF LookedUp

\* The mute invariant holds before any event.
LEMMA MuteInit == Init => MuteInv
<1> SUFFICES ASSUME Init PROVE MuteInv
  OBVIOUS
<1>1. TypeOK
  BY InitTyped
<1>2. QED
  BY <1>1 DEF Init, MuteInv, HeldIsInForce, LookedUp, Idle

\* Each step keeps the mute invariant.
LEMMA MuteStep == MuteInv /\ [Next]_vars => MuteInv'
<1> SUFFICES ASSUME MuteInv, [Next]_vars PROVE MuteInv'
  OBVIOUS
<1>t. TypeOK /\ TypeOK' /\ HeldIsInForce /\ LookedUp
  BY StepTyped DEF MuteInv
<1> DEFINE Rest == HeldIsInForce /\ LookedUp
<1>q. SUFFICES Rest'
  BY <1>t DEF MuteInv
<1>1. ASSUME UNCHANGED <<mute, held>>, LookedUp' PROVE Rest'
  BY <1>1, <1>t DEF HeldIsInForce
<1>2. ASSUME UNCHANGED <<mute, held, disp, missed>> PROVE Rest'
  BY <1>2, <1>t DEF HeldIsInForce, LookedUp, Person
<1>3. ASSUME NEW p \in Persons, NEW k \in Keys, MuteSet(p, k) \/ MuteEnds(p, k) PROVE Rest'
  <2>1. CASE MuteSet(p, k)
    BY <2>1, <1>t DEF MuteSet, observed, HeldIsInForce, LookedUp, Person, TypeOK
  <2>2. CASE MuteEnds(p, k)
    <3>1. HeldIsInForce'
      BY <2>2, <1>t DEF MuteEnds, HeldIsInForce, TypeOK
    <3>2. \A q \in Persons : held'[q] \subseteq held[q]
      BY <2>2, <1>t DEF MuteEnds, TypeOK
    <3>3. disp.pc # "idle" => Person \in Persons
      BY <1>t, BusyFields DEF TypeOK
    <3>4. disp' = disp /\ Person' = Person /\ missed' = missed
      BY <2>2 DEF MuteEnds, Person
    <3>5. disp.pc # "idle" => held'[Person] \subseteq held[Person]
      BY <3>2, <3>3
    <3>6. LookedUp'
      BY <1>t, <3>4, <3>5 DEF LookedUp
    <3>7. QED
      BY <3>1, <3>6
  <2>3. QED
    BY <1>3, <2>1, <2>2
<1>4. ASSUME NEW p \in Persons, NEW f \in SUBSET Flags, PolicySet(p, f) PROVE Rest'
  BY <1>2, <1>4 DEF PolicySet, observed
<1>5. ASSUME NEW p \in Persons, QuietTurns(p) \/ Connect(p) \/ Disconnect(p) \/ Stream(p)
      PROVE  Rest'
  BY <1>2, <1>5 DEF QuietTurns, Connect, Disconnect, Stream, prefs, observed
<1>6. ASSUME NEW a \in Alerts, ResolveInApp(a) PROVE Rest'
  BY <1>2, <1>6 DEF ResolveInApp, prefs, observed
<1>7. ASSUME NEW a \in Alerts, NEW k \in EventKinds, Emit(a, k) PROVE Rest'
  BY <1>7, <1>t DEF Emit, prefs, HeldIsInForce, LookedUp
<1>8. CASE ReadPolicy
  <2>1. disp \in Busy
    BY <1>8, <1>t, BusyFields DEF ReadPolicy, TypeOK
  <2>2. disp'.pc = "source" \/ (disp'.pc = "record" /\ disp'.verdict = "deny")
    BY <1>8, <2>1, PolicyRead
  <2>3. QED
    BY <1>1, <1>8, <2>2 DEF ReadPolicy, others, prefs, LookedUp
<1>9. CASE SourceMute
  <2>1. disp \in Busy /\ Person \in Persons
    BY <1>9, <1>t, BusyFields DEF SourceMute, TypeOK
  <2>2. UNCHANGED <<mute, held>> /\ held[Person] \subseteq mute[Person]
        /\ held[Person] \subseteq {"source", "kind"}
    BY <1>9, <1>t, <2>1 DEF SourceMute, others, prefs, HeldIsInForce, TypeOK, Keys
  <2>3. CASE Decide("hide")
    <3>1. disp'.pc = "record" /\ disp'.verdict = "hide"
      BY <2>1, <2>3 DEF Decide, Busy
    <3>2. QED
      BY <1>1, <2>2, <3>1 DEF LookedUp
  <2>4. CASE NotMuted("source") /\ GoTo("kind")
    <3>1. disp'.pc = "kind" /\ disp'.left = disp.left /\ Person' = Person
      BY <2>1, <2>4 DEF GoTo, Busy, Person
    <3>2. disp.left > 0 => "source" \notin mute[Person] \/ "source" \in missed'
      BY <2>4 DEF NotMuted, Answered, CanQuery
    <3>3. QED
      BY <1>1, <2>2, <3>1, <3>2 DEF LookedUp
  <2>5. QED
    BY <1>9, <2>3, <2>4 DEF SourceMute
<1>10. CASE KindMute
  <2>1. disp \in Busy /\ Person \in Persons
    BY <1>10, <1>t, BusyFields DEF KindMute, TypeOK
  <2>2. /\ UNCHANGED <<mute, held>> /\ held[Person] \subseteq mute[Person]
        /\ held[Person] \subseteq {"source", "kind"}
        /\ disp.left > 0 => held[Person] \subseteq missed \cup {"kind"}
    BY <1>10, <1>t, <2>1
    DEF KindMute, others, prefs, HeldIsInForce, LookedUp, TypeOK, Keys
  <2>3. CASE Decide("hide")
    <3>1. disp'.pc = "record" /\ disp'.verdict = "hide"
      BY <2>1, <2>3 DEF Decide, Busy
    <3>2. QED
      BY <1>1, <2>2, <3>1 DEF LookedUp
  <2>4. CASE NotMuted("kind") /\ GoTo("quiet")
    <3>1. disp'.pc = "quiet" /\ disp'.left = disp.left /\ Person' = Person
      BY <2>1, <2>4 DEF GoTo, Busy, Person
    <3>2. /\ disp.left > 0 => "kind" \notin mute[Person] \/ "kind" \in missed'
          /\ missed \ {"kind"} \subseteq missed'
      BY <2>4 DEF NotMuted, Answered, CanQuery
    <3>3. QED
      BY <1>1, <2>2, <3>1, <3>2 DEF LookedUp
  <2>5. QED
    BY <1>10, <2>3, <2>4 DEF KindMute, ObjectFilter
<1>11. CASE QuietHours
  <2>1. disp \in Busy /\ Person \in Persons
    BY <1>11, <1>t, BusyFields DEF QuietHours, TypeOK
  <2>2. disp'.pc = "record" /\ disp'.left = disp.left /\ disp'.who = disp.who
    <3>1. \E v \in {"push", "deny"} : disp' = [disp EXCEPT !.pc = "record", !.verdict = v]
      BY <1>11 DEF QuietHours, Decide
    <3>2. QED
      BY <2>1, <3>1 DEF Busy
  <2>3. /\ UNCHANGED <<mute, held, missed>>
        /\ disp.left > 0 => held[Person] \subseteq missed
    BY <1>11, <1>t DEF QuietHours, others, prefs, LookedUp
  <2>4. LookedUp'
    BY <2>2, <2>3 DEF LookedUp, Person
  <2>5. QED
    BY <1>1, <2>3, <2>4
<1>12. CASE Record
  <2>1. disp \in Busy /\ disp.left \in 0 .. Patience
    BY <1>12, <1>t, BusyFields DEF Record, TypeOK
  <2>2. UNCHANGED <<mute, held, missed>>
    BY <1>12 DEF Record, others, prefs
  <2>3. CASE disp.verdict = "push"
    <3>1. disp' = [disp EXCEPT !.pc = "list"]
      BY <1>12, <2>3 DEF Record, GoTo
    <3>2. disp'.pc = "list" /\ disp'.who = disp.who /\ disp'.left = disp.left
      BY <3>1, <2>1 DEF Busy
    <3>3. disp.left > 0 => held[Person] \subseteq missed
      BY <1>12, <1>t, <2>3 DEF Record, LookedUp
    <3>4. QED
      BY <1>1, <2>2, <3>2, <3>3 DEF LookedUp, Person
  <2>4. CASE disp.verdict # "push"
    <3>1. NextPerson(disp.left)
      BY <1>12, <2>4 DEF Record
    <3>2. QED
      BY <1>1, <2>1, <2>2, <3>1, NextNotLookedUp
  <2>5. QED
    BY <2>3, <2>4
<1>l. CASE ListDevices
  <2>1. disp \in Busy /\ disp.left \in 0 .. Patience
    BY <1>l, <1>t, BusyFields DEF ListDevices, TypeOK
  <2>2. UNCHANGED <<mute, held, missed>>
    BY <1>l DEF ListDevices, others, prefs
  <2>3. CASE CanQuery /\ disp' = [disp EXCEPT !.pc = "send", !.phones = Phones[Person]]
    <3>1. disp'.pc = "send" /\ disp'.who = disp.who
      BY <2>1, <2>3 DEF Busy
    <3>2. held[Person] \subseteq missed
      BY <1>l, <1>t, <2>3 DEF ListDevices, LookedUp, CanQuery
    <3>3. QED
      BY <1>1, <2>2, <3>1, <3>2 DEF LookedUp, Person
  <2>4. CASE NextPerson(disp.left)
    BY <1>1, <2>1, <2>2, <2>4, NextNotLookedUp
  <2>5. QED
    BY <1>l, <2>3, <2>4 DEF ListDevices, Answered
<1>13. CASE SendDelivered \/ SendRejected \/ SendTimesOut
  <2>1. /\ disp \in Busy /\ disp.pc = "send" /\ UNCHANGED <<mute, held, missed>>
    BY <1>13, <1>t, BusyFields
    DEF SendDelivered, SendRejected, SendTimesOut, TypeOK, others, prefs
  <2>2. disp.left \in 0 .. Patience /\ disp.left > 0
    BY <2>1, <1>t DEF Busy, TypeOK
  <2>3. PICK left \in 0 .. Patience : AfterSend(left)
    <3>1. disp.left - 1 \in 0 .. Patience
      BY <2>2, PersonalHistoryAssumption
    <3>2. AfterSend(disp.left) \/ AfterSend(disp.left - 1)
      BY <1>13 DEF SendDelivered, SendRejected, SendTimesOut
    <3>3. QED
      BY <2>2, <3>1, <3>2
  <2>4. held[Person] \subseteq missed
    BY <2>1, <1>t DEF LookedUp
  <2>5. CASE disp'.pc = "send"
    <3>1. disp'.who = disp.who
      BY <2>1, <2>3, <2>5, SendUndecided
    <3>2. QED
      BY <1>1, <2>1, <2>4, <2>5, <3>1 DEF LookedUp, Person
  <2>6. CASE disp'.pc # "send"
    <3>1. CASE NextPerson(left)
      BY <1>1, <2>1, <3>1, NextNotLookedUp
    <3>2. CASE disp.phones > 1 /\ left > 0
      <4>1. disp' = [[disp EXCEPT !.phones = disp.phones - 1] EXCEPT !.left = left]
        BY <2>1, <2>3, <3>2 DEF AfterSend, Busy
      <4>2. QED
        BY <2>1, <2>6, <4>1 DEF Busy
    <3>3. QED
      BY <2>3, <3>1, <3>2 DEF AfterSend
  <2>7. QED
    BY <2>5, <2>6
<1>14. CASE Broadcast \/ Restart
  <2>1. UNCHANGED mute /\ disp' = Idle /\ held' = [p \in Persons |-> {}]
    BY <1>14 DEF Broadcast, Restart, Over, prefs
  <2>2. QED
    BY <2>1 DEF HeldIsInForce, LookedUp, Idle
<1>15. CASE UNCHANGED vars
  BY <1>2, <1>15 DEF vars, prefs, observed
<1>16. QED
  BY PersonalHistoryAssumption,
     <1>3, <1>4, <1>5, <1>6, <1>7, <1>8, <1>9, <1>10, <1>11, <1>12, <1>l, <1>13, <1>14, <1>15
  DEF Next, OnEvent

\* A step that delivers a push to a person finds none of their mutes held, but
\* those missed.
LEMMA MuteAction ==
    ASSUME MuteInv, [Next]_vars,
           NEW p \in Persons, NEW a \in Alerts, pushes'[p][a] > pushes[p][a]
    PROVE  held[p] \subseteq missed
<1>1. TypeOK /\ LookedUp
  BY DEF MuteInv
<1>2. pushes' # pushes
  BY <1>1 DEF TypeOK
<1>3. SendDelivered
  BY <1>2 DEF Next, OnEvent, MuteSet, MuteEnds, PolicySet, QuietTurns, Connect, Disconnect,
              Stream, ResolveInApp, Emit, ReadPolicy, SourceMute, KindMute, QuietHours,
              Record, ListDevices, SendRejected, SendTimesOut, Broadcast, Restart, Over,
              observed, vars
<1>4. Person \in Persons /\ disp.id \in Alerts /\ disp.pc = "send"
  BY <1>1, <1>3, BusyFields DEF SendDelivered, TypeOK
<1>5. p = Person
  BY <1>1, <1>3, <1>4 DEF SendDelivered, TypeOK
<1>6. QED
  BY <1>1, <1>4, <1>5 DEF LookedUp

\* A mute in force while the event is handled keeps it from the phone, unless its
\* own lookup failed in a live context (policy.go 147-152).
THEOREM MuteIsHonoured == Spec => MuteHonoured
<1>1. MuteInv /\ [Next]_vars =>
        [\A p \in Persons :
           (\E a \in Alerts : pushes'[p][a] > pushes[p][a]) => held[p] \subseteq missed]_vars
  BY MuteAction
<1>2. QED
  BY MuteInit, MuteStep, <1>1, PTL DEF Spec, MuteHonoured

--------------------------------------------------------------------------------
(* What is streamed to a person is in their history.  The notifier decides *)
(* before the hub broadcasts, so a first sighting meets an alert no stream *)
(* has seen, unless somebody closed it in the meantime.  Afterwards the    *)
(* handler's own lookup keeps the hidden ones back, unless it fails.       *)

\* The first sighting of a is still being decided about.
Deciding(a) == disp # Idle /\ disp.kind = "first" /\ disp.id = a

\* p's app has been sent a, or will be.
Seen(p, a) ==
    a \in streamed[p] \/ \E i \in 1 .. Len(stream[p].buf) : stream[p].buf[i] = a

\* The event at hand is about an alert that has a row.
EventHasRow == disp # Idle => row[disp.id] # "none"

\* What an app is sent was closed, or has been decided about.
SeenIsDecided ==
    \A p \in Persons, a \in Alerts :
        Seen(p, a) => row[a] = "closed" \/ (row[a] = "active" /\ ~Deciding(a))

StreamInv == TypeOK /\ EventHasRow /\ SeenIsDecided /\ StreamedIsVisible

\* A broadcast of an alert adds that alert to the channels, and no other.
LEMMA FannedAdds ==
    ASSUME TypeOK, NEW a \in Alerts, NEW p \in Persons, NEW b \in Alerts, b # a,
           NEW i \in 1 .. Len(Fanned(a)[p].buf), Fanned(a)[p].buf[i] = b
    PROVE  \E j \in 1 .. Len(stream[p].buf) : stream[p].buf[j] = b
<1>1. stream[p] \in StreamType /\ stream[p].buf \in Seq(Alerts)
  BY DEF TypeOK, StreamType
<1>2. CASE Fanned(a)[p].buf = stream[p].buf
  BY <1>2
<1>3. CASE Fanned(a)[p].buf # stream[p].buf
  <2>1. stream[p].state = "on" /\ Len(stream[p].buf) < ChannelSize
    BY <1>1, <1>3 DEF Fanned, StreamType
  <2>2. Fanned(a)[p] = [stream[p] EXCEPT !.buf = Append(stream[p].buf, a)]
    BY <2>1 DEF Fanned
  <2>3. Fanned(a)[p].buf = Append(stream[p].buf, a)
    BY <1>1, <2>2 DEF StreamType
  <2>4. QED
    BY <1>1, <2>3
<1>4. QED
  BY <1>2, <1>3

\* Nothing has been sent to any app before the first event.
LEMMA StreamInit == Init => StreamInv
<1> SUFFICES ASSUME Init PROVE StreamInv
  OBVIOUS
<1>1. TypeOK
  BY InitTyped
<1>2. QED
  BY <1>1 DEF Init, StreamInv, EventHasRow, SeenIsDecided, StreamedIsVisible, Seen, Off

\* A step that shows no app anything new, and neither begins an event nor
\* hides an alert, keeps the stream invariant.
LEMMA NothingNew ==
    ASSUME StreamInv, TypeOK', hidden' = hidden,
           \A a \in Alerts : row'[a] = row[a] \/ (row[a] # "none" /\ row'[a] = "closed"),
           disp' # Idle => disp # Idle /\ disp'.id = disp.id /\ disp'.kind = disp.kind,
           \A p \in Persons, a \in Alerts :
               Seen(p, a)' => Seen(p, a) \/ row'[a] = "closed",
           \A p \in Persons : blind[p] \subseteq blind'[p],
           \A p \in Persons : \A a \in streamed'[p] :
               a \in streamed[p] \/ a \notin hidden[p] \/ a \in blind'[p]
    PROVE  StreamInv'
<1>1. EventHasRow'
  <2>1. disp # Idle => disp.id \in Alerts
    BY DEF StreamInv, TypeOK, Busy
  <2>2. QED
    BY <2>1 DEF StreamInv, EventHasRow
<1>2. SeenIsDecided'
  BY DEF StreamInv, SeenIsDecided, Deciding
<1>3. StreamedIsVisible'
  <2>1. \A p \in Persons : hidden[p] \subseteq Alerts
    BY DEF StreamInv, TypeOK
  <2>2. QED
    BY <2>1 DEF StreamInv, StreamedIsVisible
<1>4. QED
  BY <1>1, <1>2, <1>3 DEF StreamInv

\* Each step keeps the stream invariant.
LEMMA StreamStep == StreamInv /\ [Next]_vars => StreamInv'
<1> SUFFICES ASSUME StreamInv, [Next]_vars PROVE StreamInv'
  OBVIOUS
<1>t. TypeOK /\ TypeOK'
  BY StepTyped DEF StreamInv
<1>1. ASSUME UNCHANGED <<row, hidden, disp, stream, streamed, blind>> PROVE StreamInv'
  BY <1>1, <1>t, NothingNew DEF Seen
<1>2. ASSUME NEW p \in Persons, NEW k \in Keys, MuteSet(p, k) \/ MuteEnds(p, k) PROVE StreamInv'
  BY <1>1, <1>2 DEF MuteSet, MuteEnds, observed
<1>3. ASSUME NEW p \in Persons, NEW f \in SUBSET Flags, PolicySet(p, f) \/ QuietTurns(p)
      PROVE  StreamInv'
  BY <1>1, <1>3 DEF PolicySet, QuietTurns, observed
<1>4. ASSUME NEW p \in Persons, Connect(p) \/ Disconnect(p) PROVE StreamInv'
  <2>1. /\ UNCHANGED <<row, hidden, disp, streamed, blind>>
        /\ \A q \in Persons : stream'[q] = stream[q] \/ stream'[q].buf = <<>>
    BY <1>4, <1>t DEF Connect, Disconnect, Off, observed, TypeOK
  <2>2. \A q \in Persons, a \in Alerts : Seen(q, a)' => Seen(q, a)
    BY <2>1 DEF Seen
  <2>3. QED
    BY <2>1, <2>2, <1>t, NothingNew
<1>5. ASSUME NEW p \in Persons, Stream(p) PROVE StreamInv'
  <2>1. /\ UNCHANGED <<row, hidden, disp>>
        /\ stream[p].buf \in Seq(Alerts) /\ stream[p].buf # <<>>
        /\ \A q \in Persons : q # p => stream'[q] = stream[q]
        /\ stream'[p].buf = Tail(stream[p].buf)
    BY <1>5, <1>t DEF Stream, TypeOK
  <2>s. /\ \A q \in Persons : q # p => streamed'[q] = streamed[q]
        /\ \A a \in streamed'[p] : a \in streamed[p] \/ a = Head(stream[p].buf)
    <3>1. \/ streamed' = streamed
          \/ streamed' = [streamed EXCEPT ![p] = @ \cup {Head(stream[p].buf)}]
      BY <1>5 DEF Stream, Written
    <3>2. QED
      BY <3>1, <1>t DEF TypeOK
  <2>b. \A q \in Persons : blind[q] \subseteq blind'[q]
    <3>1. \/ blind' = blind
          \/ blind' = [blind EXCEPT ![p] = @ \cup {Head(stream[p].buf)}]
      BY <1>5 DEF Stream
    <3>2. blind \in [Persons -> SUBSET Alerts]
      BY <1>t DEF TypeOK
    <3>3. QED
      BY <3>1, <3>2
  <2>h. \/ streamed' = streamed
        \/ Head(stream[p].buf) \notin hidden[p]
        \/ Head(stream[p].buf) \in blind'[p]
    <3>1. CASE blind' = [blind EXCEPT ![p] = @ \cup {Head(stream[p].buf)}]
      BY <3>1, <1>t DEF TypeOK
    <3>2. QED
      BY <1>5, <3>1 DEF Stream
  <2>2. \A a \in Alerts : Seen(p, a)' => Seen(p, a)
    <3>1. /\ Len(stream[p].buf) \in Nat /\ Len(stream[p].buf) >= 1
          /\ Head(stream[p].buf) = stream[p].buf[1]
      BY <2>1
    <3>2. \A i \in 1 .. Len(Tail(stream[p].buf)) :
            i + 1 \in 1 .. Len(stream[p].buf) /\ Tail(stream[p].buf)[i] = stream[p].buf[i + 1]
      BY <2>1
    <3>3. QED
      BY <2>1, <2>s, <3>1, <3>2 DEF Seen
  <2>3. \A q \in Persons, a \in Alerts : Seen(q, a)' => Seen(q, a)
    BY <2>1, <2>s, <2>2 DEF Seen
  <2>4. \A q \in Persons : \A a \in streamed'[q] :
          a \in streamed[q] \/ a \notin hidden[q] \/ a \in blind'[q]
    BY <2>s, <2>h
  <2>5. QED
    BY <2>1, <2>b, <2>3, <2>4, <1>t, NothingNew
<1>6. ASSUME NEW a \in Alerts, ResolveInApp(a) PROVE StreamInv'
  <2>1. /\ UNCHANGED <<hidden, disp, streamed, blind>> /\ stream' = Fanned(a)
        /\ row[a] # "none" /\ row'[a] = "closed"
        /\ \A b \in Alerts : b # a => row'[b] = row[b]
    BY <1>6, <1>t DEF ResolveInApp, observed, TypeOK
  <2>2. \A q \in Persons, b \in Alerts : Seen(q, b)' => Seen(q, b) \/ b = a
    BY <2>1, <1>t, FannedAdds DEF Seen
  <2>3. QED
    BY <2>1, <2>2, <1>t, NothingNew
<1>7. ASSUME NEW a \in Alerts, NEW k \in EventKinds, Emit(a, k) PROVE StreamInv'
  <2>1. /\ UNCHANGED <<hidden, stream, streamed, blind>>
        /\ disp'.id = a /\ disp'.kind = k
        /\ row'[a] = IF k = "other" THEN "closed" ELSE "active"
        /\ \A b \in Alerts : b # a => row'[b] = row[b]
        /\ k = "first" => row[a] = "none"
        /\ k = "repeat" => row[a] = "active"
    BY <1>7, <1>t DEF Emit, RowBefore, TypeOK
  <2>2. EventHasRow'
    BY <2>1 DEF EventHasRow
  <2>3. SeenIsDecided'
    <3>1. ASSUME NEW p \in Persons, NEW b \in Alerts, Seen(p, b)'
          PROVE  row'[b] = "closed" \/ (row'[b] = "active" /\ ~Deciding(b)')
      <4>1. row[b] = "closed" \/ (row[b] = "active" /\ ~Deciding(b))
        BY <2>1, <3>1 DEF StreamInv, SeenIsDecided, Seen
      <4>2. disp = Idle
        BY <1>7 DEF Emit
      <4>3. CASE b = a
        BY <2>1, <4>1, <4>3 DEF Deciding, EventKinds
      <4>4. CASE b # a
        BY <2>1, <4>1, <4>4 DEF Deciding
      <4>5. QED
        BY <4>3, <4>4
    <3>2. QED
      BY <3>1 DEF SeenIsDecided
  <2>4. StreamedIsVisible'
    <3>1. ASSUME NEW p \in Persons, NEW b \in streamed[p] \cap hidden[p], b \notin blind[p]
          PROVE  row'[b] = "closed"
      <4>1. b \in Alerts /\ row[b] = "closed"
        BY <3>1, <1>t DEF StreamInv, StreamedIsVisible, TypeOK
      <4>2. QED
        BY <2>1, <4>1 DEF EventKinds
    <3>2. QED
      BY <2>1, <3>1 DEF StreamedIsVisible
  <2>5. QED
    BY <1>t, <2>2, <2>3, <2>4 DEF StreamInv
<1>8. ASSUME UNCHANGED <<row, stream, streamed, blind>>, hidden' = hidden,
             disp' # Idle, disp # Idle, disp'.id = disp.id, disp'.kind = disp.kind
      PROVE  StreamInv'
  BY <1>8, <1>t, NothingNew DEF Seen
<1>9. CASE ReadPolicy
  <2>1. disp \in Busy /\ disp.pc = "policy"
    BY <1>9, <1>t, BusyFields DEF ReadPolicy, TypeOK
  <2>2. disp'.id = disp.id /\ disp'.kind = disp.kind /\ disp'.pc \in {"source", "record"}
    BY <1>9, <2>1, PolicyRead
  <2>3. disp # Idle /\ disp' # Idle
    BY <2>1, <2>2 DEF Idle
  <2>4. QED
    BY <1>8, <1>9, <2>2, <2>3 DEF ReadPolicy, others
<1>10. CASE SourceMute \/ KindMute \/ QuietHours
  <2>1. disp \in Busy
    BY <1>10, <1>t, BusyFields DEF SourceMute, KindMute, QuietHours, TypeOK
  <2>2. disp'.id = disp.id /\ disp'.kind = disp.kind /\ disp'.pc \in {"kind", "quiet", "record"}
    BY <1>10, <2>1, Asked
  <2>3. QED
    BY <1>8, <1>10, <2>2 DEF SourceMute, KindMute, QuietHours, others, Idle
<1>11. CASE Record
  <2>1. /\ disp \in Busy /\ disp.left \in 0 .. Patience /\ disp.id \in Alerts
        /\ Person \in Persons /\ disp # Idle /\ UNCHANGED <<row, stream, streamed, blind>>
    BY <1>11, <1>t, BusyFields DEF Record, TypeOK, others, Idle
  <2>2. disp'.id = disp.id /\ disp'.kind = disp.kind /\ disp' # Idle
    <3>1. CASE disp' = [disp EXCEPT !.pc = "list"]
      BY <2>1, <3>1 DEF Busy, Idle
    <3>2. CASE NextPerson(disp.left)
      BY <2>1, <3>2, NextUndecided DEF Idle
    <3>3. QED
      BY <1>11, <3>1, <3>2 DEF Record, GoTo
  <2>3. EventHasRow' /\ SeenIsDecided'
    BY <2>1, <2>2 DEF StreamInv, EventHasRow, SeenIsDecided, Seen, Deciding
  <2>4. StreamedIsVisible'
    <3>1. \A p \in Persons : \A b \in hidden'[p] : b \in hidden[p] \/ Deciding(b)
      <4>1. ASSUME NEW p \in Persons, NEW b \in hidden'[p], b \notin hidden[p]
            PROVE  Deciding(b)
        <5>1. b \in Alerts
          BY <1>t DEF TypeOK
        <5>2. p = Person /\ b = disp.id
          BY <1>11, <1>t, <2>1, <4>1, <5>1, RecordedElsewhere DEF Record, TypeOK
        <5>3. disp.kind = "first"
          BY <1>11, <1>t, <2>1, <4>1, <5>2, RecordedHere DEF Record, TypeOK
        <5>4. QED
          BY <2>1, <5>2, <5>3 DEF Deciding
      <4>2. QED
        BY <4>1
    <3>2. ASSUME NEW p \in Persons, NEW b \in streamed[p] \cap hidden'[p], b \notin blind[p]
          PROVE  row[b] = "closed"
      <4>1. b \in Alerts
        BY <1>t DEF TypeOK
      <4>2. CASE b \in hidden[p]
        BY <3>2, <4>2 DEF StreamInv, StreamedIsVisible
      <4>3. CASE Deciding(b)
        BY <3>2, <4>1, <4>3 DEF StreamInv, SeenIsDecided, Seen
      <4>4. QED
        BY <3>1, <3>2, <4>2, <4>3
    <3>3. QED
      BY <2>1, <3>2 DEF StreamedIsVisible
  <2>5. QED
    BY <1>t, <2>3, <2>4 DEF StreamInv
<1>l. CASE ListDevices
  <2>1. /\ disp \in Busy /\ disp.left \in 0 .. Patience /\ disp # Idle
        /\ UNCHANGED <<row, hidden, stream, streamed, blind>>
    BY <1>l, <1>t, BusyFields DEF ListDevices, TypeOK, others, Idle
  <2>2. disp'.id = disp.id /\ disp'.kind = disp.kind /\ disp' # Idle
    <3>1. CASE disp' = [disp EXCEPT !.pc = "send", !.phones = Phones[Person]]
      BY <2>1, <3>1 DEF Busy, Idle
    <3>2. CASE NextPerson(disp.left)
      BY <2>1, <3>2, NextUndecided DEF Idle
    <3>3. QED
      BY <1>l, <3>1, <3>2 DEF ListDevices
  <2>3. QED
    BY <1>8, <2>1, <2>2
<1>12. CASE SendDelivered \/ SendRejected \/ SendTimesOut
  <2>1. /\ disp \in Busy /\ disp.pc = "send" /\ disp # Idle
        /\ UNCHANGED <<row, hidden, stream, streamed, blind>>
    BY <1>12, <1>t, BusyFields
    DEF SendDelivered, SendRejected, SendTimesOut, TypeOK, others, Idle
  <2>2. disp.left \in 0 .. Patience /\ disp.left > 0
    BY <2>1, <1>t DEF Busy, TypeOK
  <2>3. disp.left - 1 \in 0 .. Patience
    BY <2>2, PersonalHistoryAssumption
  <2>4. AfterSend(disp.left) \/ AfterSend(disp.left - 1)
    BY <1>12 DEF SendDelivered, SendRejected, SendTimesOut
  <2>5. disp'.id = disp.id /\ disp'.kind = disp.kind /\ disp' # Idle
    BY <2>1, <2>2, <2>3, <2>4, SendUndecided DEF Idle
  <2>6. QED
    BY <1>8, <2>1, <2>5
<1>13. CASE Broadcast
  <2>1. /\ UNCHANGED <<row, hidden, streamed, blind>> /\ stream' = Fanned(disp.id)
        /\ disp' = Idle /\ disp.id \in Alerts /\ disp # Idle
    BY <1>13, <1>t, BusyFields DEF Broadcast, Over, prefs, TypeOK, Idle
  <2>2. \A q \in Persons, b \in Alerts : Seen(q, b)' => Seen(q, b) \/ b = disp.id
    BY <2>1, <1>t, FannedAdds DEF Seen
  <2>3. SeenIsDecided'
    <3>1. row[disp.id] \in {"active", "closed"}
      BY <2>1, <1>t DEF StreamInv, EventHasRow, TypeOK
    <3>2. QED
      BY <2>1, <2>2, <3>1 DEF StreamInv, SeenIsDecided, Deciding
  <2>4. EventHasRow' /\ StreamedIsVisible'
    BY <2>1 DEF StreamInv, EventHasRow, StreamedIsVisible
  <2>5. QED
    BY <1>t, <2>3, <2>4 DEF StreamInv
<1>14. CASE Restart
  <2>1. /\ UNCHANGED <<row, hidden, streamed, blind>> /\ disp' = Idle
        /\ \A q \in Persons : stream'[q].buf = <<>>
    BY <1>14 DEF Restart, Over, Off
  <2>2. \A q \in Persons, a \in Alerts : Seen(q, a)' => Seen(q, a)
    BY <2>1 DEF Seen
  <2>3. QED
    BY <2>1, <2>2, <1>t, NothingNew
<1>15. CASE UNCHANGED vars
  BY <1>1, <1>15 DEF vars, observed
<1>16. QED
  BY PersonalHistoryAssumption,
     <1>2, <1>3, <1>4, <1>5, <1>6, <1>7, <1>9, <1>10, <1>11, <1>l, <1>12, <1>13, <1>14, <1>15
  DEF Next, OnEvent

\* Unless it was closed, an alert hidden from a person's history was not streamed
\* to their app, but for one that was hidden when IsHidden failed for it
\* (internal/api/events.go, events, OnEvent).
THEOREM StreamedStaysVisible == Spec => []StreamedIsVisible
<1>1. StreamInv => StreamedIsVisible
  BY DEF StreamInv
<1>2. QED
  BY StreamInit, StreamStep, <1>1, PTL DEF Spec

================================================================================
