-------------------------- MODULE SensorAlerts_proofs --------------------------
(***************************************************************************)
(* Proofs, for any rules, ids, requests and bounds, that the statements of *)
(* SensorAlerts, however they interleave, keep one active alert per rule,  *)
(* announce an alert at most once, lose no news without a fault and        *)
(* implement the book of AlertBook.                                        *)
(***************************************************************************)
EXTENDS SensorAlerts, TLAPS

--------------------------------------------------------------------------------
(* What TypeOK says of the two records whose fields depend on pc.          *)

\* The dispatcher's fields in each of its phases.
LEMMA DispFields ==
    ASSUME disp \in {DispIdle} \cup DispBusy
    PROVE  /\ disp.pc \in {"select", "insert"} => disp.msg \in Message
           /\ disp.pc \in {"update", "close"} => disp.msg \in Message /\ disp.id \in Ids
           /\ disp.pc = "read" => disp.id \in Ids /\ disp.made \in BOOLEAN
           /\ disp.pc \in {"notify", "broadcast"} =>
                /\ disp.id \in Ids
                /\ disp.made \in BOOLEAN
                /\ disp.snap \in Status \ {"none"}
                /\ disp \in [pc : {"notify", "broadcast"}, id : Ids, made : BOOLEAN,
                             snap : Status \ {"none"}]
BY DEF DispIdle, DispBusy

\* The sweeper's fields whenever it is not waiting for its ticker.
LEMMA SweepFields ==
    ASSUME sweep \in {SweepIdle} \cup SweepBusy,
           sweep # SweepIdle \/ sweep.pc \in {"close", "tell"}
    PROVE  /\ sweep \in SweepBusy
           /\ sweep.at \in Nat
           /\ sweep.rules \in SUBSET Rules
           /\ sweep.ids \in SUBSET Ids
           /\ sweep.closed \in SUBSET Ids
BY DEF SweepIdle, SweepBusy

--------------------------------------------------------------------------------
(* Type correctness.                                                       *)

\* The initial state has the types: the type invariant starts true.
LEMMA InitTyped == Init => TypeOK
BY DEF Init, TypeOK, Status

\* Each step keeps the type invariant.
LEMMA StepTyped == TypeOK /\ [Next]_vars => TypeOK'
<1> SUFFICES ASSUME TypeOK, [Next]_vars PROVE TypeOK'
  OBVIOUS
<1> USE DEF TypeOK
<1>1. CASE Tick
  BY <1>1 DEF Tick, tables, observed
<1>2. ASSUME NEW r \in Rules,
             MarshalFires(r) \/ MarshalRepeats(r) \/ MarshalClears(r) \/ MarshalForgets(r)
      PROVE  TypeOK'
  <2>1. \A t \in {"new", "repeat", "resolved"} : [type |-> t, rule |-> r, at |-> now] \in Message
    BY DEF Message
  <2>2. QED
    BY <1>2, <2>1
    DEF MarshalFires, MarshalRepeats, MarshalClears, MarshalForgets, Publish, tables, observed
<1>3. ASSUME NEW m \in queue, Deliver(m) PROVE TypeOK'
  <2>1. inbox' \in Seq(Message)
    BY <1>3 DEF Deliver
  <2>2. QED
    BY <1>3, <2>1 DEF Deliver, Fault, tables, observed
<1>4. CASE Take
  <2>1. Head(inbox) \in Message /\ Tail(inbox) \in Seq(Message)
    BY <1>4 DEF Take
  <2>2. disp' \in DispBusy
    BY <1>4, <2>1 DEF Take, DispBusy
  <2>3. QED
    BY <1>4, <2>1, <2>2 DEF Take, world, tables, observed
<1>5. CASE Select
  <2>1. disp.msg \in Message /\ disp \in [pc : {"select", "insert"}, msg : Message]
    BY <1>5 DEF Select, DispIdle, DispBusy
  <2>2. disp' \in {DispIdle} \cup DispBusy
    BY <1>5, <2>1 DEF Select, Found, Active, DispBusy
  <2>3. QED
    BY <1>5, <2>2 DEF Select, others, world, tables, observed
<1>6. CASE Insert
  <2>1. disp.msg \in Message
    BY <1>6, DispFields DEF Insert
  <2>2. disp.msg.rule \in Rules /\ disp.msg.at \in Nat
    BY <2>1 DEF Message
  <2>3. PICK i \in Ids :
          /\ status' = [status EXCEPT ![i] = "active"]
          /\ ruleOf' = [ruleOf EXCEPT ![i] = disp.msg.rule]
          /\ updated' = [updated EXCEPT ![i] = disp.msg.at]
          /\ disp' = Written(i, TRUE)
          /\ announced' = [announced EXCEPT ![i] = 0]
          /\ told' = told \ {i}
    BY <1>6 DEF Insert
  <2>4. disp' \in DispBusy
    BY <2>3 DEF Written, DispBusy
  <2>5. QED
    BY <1>6, <2>2, <2>3, <2>4 DEF Insert, others, world, Status
<1>7. CASE Update
  <2>1. disp.id \in Ids /\ disp.msg.at \in Nat
    BY <1>7, DispFields DEF Update, Message
  <2>2. disp' \in DispBusy
    BY <1>7, <2>1 DEF Update, Written, DispBusy
  <2>3. QED
    BY <1>7, <2>1, <2>2 DEF Update, others, world, observed
<1>8. CASE CloseByRule
  <2>1. disp.id \in Ids /\ disp.msg.at \in Nat
    BY <1>8, DispFields DEF CloseByRule, Message
  <2>2. disp' \in DispBusy
    BY <1>8, <2>1 DEF CloseByRule, Written, DispBusy
  <2>3. QED
    BY <1>8, <2>1, <2>2 DEF CloseByRule, SetStatus, Status, Closed, others, world, observed
<1>9. CASE Read
  <2>1. disp.id \in Ids /\ disp.made \in BOOLEAN
    BY <1>9, DispFields DEF Read
  <2>2. disp' \in {DispIdle} \cup DispBusy
    BY <1>9, <2>1 DEF Read, Event, Exists, DispBusy
  <2>3. QED
    BY <1>9, <2>2 DEF Read, others, world, tables, observed
<1>10. CASE Notify
  <2>1. disp.id \in Ids /\ disp \in [pc : {"notify", "broadcast"}, id : Ids, made : BOOLEAN,
                                     snap : Status \ {"none"}]
    BY <1>10, DispFields DEF Notify
  <2>2. disp' \in DispBusy
    BY <1>10, <2>1 DEF Notify, DispBusy
  <2>3. announced' \in [Ids -> Nat]
    BY <1>10, <2>1 DEF Notify
  <2>4. QED
    BY <1>10, <2>2, <2>3 DEF Notify, others, world, tables
<1>11. CASE Broadcast
  <2>1. disp.id \in Ids
    BY <1>11, DispFields DEF Broadcast
  <2>2. QED
    BY <1>11, <2>1 DEF Broadcast, Tell, others, world, tables
<1>12. ASSUME NEW q \in Requests, NEW i \in Ids, ResolveWrite(q, i) PROVE TypeOK'
  BY <1>12 DEF ResolveWrite, SetStatus, Status, Closed, world, observed
<1>13. ASSUME NEW q \in Requests, ResolveTell(q) PROVE TypeOK'
  <2>1. req[q] \in Ids
    BY <1>13 DEF ResolveTell
  <2>2. QED
    BY <1>13, <2>1 DEF ResolveTell, Tell, world, tables
<1>14. ASSUME NEW q \in Requests, ResolveFails(q) PROVE TypeOK'
  BY <1>14 DEF ResolveFails, Fault, world, tables, observed
<1>15. CASE SweepStart
  <2>1. sweep' \in SweepBusy
    BY <1>15 DEF SweepStart, SweepBusy
  <2>2. QED
    BY <1>15, <2>1 DEF SweepStart, world, tables, observed
<1>16. ASSUME NEW r \in Rules, SweepRule(r) PROVE TypeOK'
  <2>1. sweep \in SweepBusy
    BY <1>16, SweepFields DEF SweepRule, RuleDone
  <2>2. Quiet(r) \in SUBSET Ids
    BY DEF Quiet, Active
  <2>3. sweep' \in SweepBusy
    BY <1>16, <2>1, <2>2 DEF SweepRule, SweepBusy
  <2>4. QED
    BY <1>16, <2>3 DEF SweepRule, world, tables, observed
<1>17. ASSUME NEW i \in Ids, SweepClose(i) PROVE TypeOK'
  <2>1. sweep \in SweepBusy /\ sweep.at \in Nat
    BY <1>17, SweepFields DEF SweepClose
  <2>2. sweep' \in SweepBusy
    BY <1>17, <2>1 DEF SweepClose, SweepBusy
  <2>3. QED
    BY <1>17, <2>1, <2>2 DEF SweepClose, SetStatus, Status, Closed, world, observed
<1>18. ASSUME NEW i \in Ids, SweepTell(i) PROVE TypeOK'
  <2>1. sweep \in SweepBusy
    BY <1>18, SweepFields DEF SweepTell, NextClosed
  <2>2. sweep' \in SweepBusy
    BY <1>18, <2>1 DEF SweepTell, NextClosed, SweepBusy
  <2>3. QED
    BY <1>18, <2>2 DEF SweepTell, NextClosed, Tell, world, tables
<1>19. CASE SweepPrune
  BY <1>19 DEF SweepPrune, SweepEnds, Status, world
<1>20. CASE DispatcherFails
  BY <1>20 DEF DispatcherFails, Fault, world, tables, observed
<1>21. CASE SweeperFails
  <2>1. sweep' \in {SweepIdle} \cup SweepBusy
    <3>1. sweep \in SweepBusy
      BY <1>21, SweepFields DEF SweeperFails, RuleDone
    <3>2. CASE sweep' = [sweep EXCEPT !.ids = {}, !.closed = {}]
      BY <3>1, <3>2 DEF SweepBusy
    <3>3. ASSUME NEW r \in sweep.rules, sweep' = [sweep EXCEPT !.rules = @ \ {r}]
          PROVE  sweep' \in SweepBusy
      BY <3>1, <3>3 DEF SweepBusy
    <3>4. QED
      BY <1>21, <3>2, <3>3 DEF SweeperFails
  <2>2. QED
    BY <1>21, <2>1 DEF SweeperFails, Fault, world, tables, observed
<1>22. CASE Crash
  BY <1>22 DEF Crash, Fault, world, tables, observed
<1>23. CASE UNCHANGED vars
  BY <1>23 DEF vars, world, tables, observed
<1>24. QED
  BY <1>1, <1>2, <1>3, <1>4, <1>5, <1>6, <1>7, <1>8, <1>9, <1>10, <1>11, <1>12, <1>13, <1>14,
     <1>15, <1>16, <1>17, <1>18, <1>19, <1>20, <1>21, <1>22, <1>23
  DEF Next, DispatcherStep, SweeperStep

\* Every variable keeps its type, whatever crosses with what: in particular an
\* event is only ever built from a row that existed when it was read.
THEOREM TypeCorrect == Spec => []TypeOK
<1>1. Init => TypeOK
  BY InitTyped
<1>2. TypeOK /\ [Next]_vars => TypeOK'
  BY StepTyped
<1>3. QED
  BY <1>1, <1>2, PTL DEF Spec

--------------------------------------------------------------------------------
(* Safety.  OneActivePerRule and AnnouncedAtMostOnce are not inductive by  *)
(* themselves: the first needs that a dispatcher about to insert still     *)
(* finds no active row for its rule, the second that the event of a row    *)
(* just created has not been announced.                                    *)

InsertIsFree == disp.pc = "insert" => Active(disp.msg.rule) = {}

CreatedIsUnannounced ==
    disp.pc \in {"read", "notify"} /\ disp.made => announced[disp.id] = 0

Inv ==
    /\ TypeOK
    /\ InsertIsFree
    /\ OneActivePerRule
    /\ CreatedIsUnannounced
    /\ AnnouncedAtMostOnce

\* No statement but the INSERT makes a row active or gives it another rule.
LEMMA OnlyInsertActivates ==
    ASSUME TypeOK, [Next]_vars, ~Insert
    PROVE  \A r \in Rules : Active(r)' \subseteq Active(r)
<1> USE DEF Active
<1>1. CASE UNCHANGED <<status, ruleOf>>
  BY <1>1
<1>2. ASSUME NEW i \in Ids, NEW s \in Closed, NEW at \in Nat, SetStatus(i, s, at)
      PROVE  \A r \in Rules : Active(r)' \subseteq Active(r)
  BY <1>2 DEF SetStatus, Closed, TypeOK
<1>3. CASE CloseByRule
  <2>1. disp.id \in Ids /\ disp.msg.at \in Nat
    BY <1>3, DispFields DEF CloseByRule, Message, TypeOK
  <2>2. QED
    BY <1>2, <1>3, <2>1 DEF CloseByRule, Closed
<1>4. ASSUME NEW q \in Requests, NEW i \in Ids, ResolveWrite(q, i)
      PROVE  \A r \in Rules : Active(r)' \subseteq Active(r)
  BY <1>2, <1>4 DEF ResolveWrite, Closed, TypeOK
<1>5. ASSUME NEW i \in Ids, SweepClose(i)
      PROVE  \A r \in Rules : Active(r)' \subseteq Active(r)
  <2>1. sweep.at \in Nat
    BY <1>5, SweepFields DEF SweepClose, TypeOK
  <2>2. QED
    BY <1>2, <1>5, <2>1 DEF SweepClose, Closed
<1>6. CASE SweepPrune
  BY <1>6 DEF SweepPrune, TypeOK
<1>7. QED
  BY <1>1, <1>3, <1>4, <1>5, <1>6
  DEF Next, vars, tables, others, DispatcherStep, SweeperStep, Tick, MarshalFires,
      MarshalRepeats, MarshalClears, MarshalForgets, Publish, Deliver, Take, Select, Update,
      Read, Notify, Broadcast, ResolveTell, ResolveFails, SweepStart, SweepRule, SweepTell,
      NextClosed, DispatcherFails, SweeperFails, Crash

\* Where a SELECT leaves the dispatcher.
LEMMA SelectShape ==
    ASSUME TypeOK, Select
    PROVE  /\ disp'.pc \in {"idle", "insert", "update", "close"}
           /\ disp'.pc = "insert" => disp'.msg = disp.msg /\ Active(disp.msg.rule) = {}
           /\ UNCHANGED <<status, ruleOf>>
<1>1. disp \in [pc : {"select", "insert"}, msg : Message]
  BY DEF Select, TypeOK, DispIdle, DispBusy
<1>2. QED
  BY <1>1 DEF Select, Found, DispIdle, tables

\* The dispatcher after each of its other steps.
LEMMA DispatcherShape ==
    ASSUME TypeOK
    PROVE  /\ Take => disp'.pc = "select"
           /\ Update => disp'.pc = "read" /\ disp'.made = FALSE
           /\ CloseByRule => disp'.pc = "read" /\ disp'.made = FALSE
           /\ Insert => disp'.pc = "read"
           /\ Read => disp'.pc \in {"notify", "idle"}
           /\ Notify => disp'.pc = "broadcast"
           /\ Broadcast => disp'.pc = "idle"
<1>1. Notify => disp'.pc = "broadcast"
  BY DispFields DEF TypeOK, Notify
<1>2. QED
  BY <1>1 DEF Take, Update, CloseByRule, Insert, Written, Read, Event, Broadcast, DispIdle

\* Nobody else moves the dispatcher, except to make it idle.
LEMMA OnlyDispatcherMoves ==
    ASSUME [Next]_vars, ~DispatcherStep
    PROVE  disp' \in {disp, DispIdle}
BY DEF Next, vars, others, SweeperStep, Tick, MarshalFires, MarshalRepeats, MarshalClears,
       MarshalForgets, Publish, Deliver, ResolveWrite, ResolveTell, ResolveFails, SweepStart,
       SweepRule, SweepClose, SweepTell, NextClosed, SweepPrune, DispatcherFails, SweeperFails,
       Crash

\* Nobody else touches the announcements, except the prune.
LEMMA OnlyTheyAnnounce ==
    ASSUME [Next]_vars, ~DispatcherStep, ~SweepPrune
    PROVE  announced' = announced
BY DEF Next, vars, observed, SweeperStep, Tick, MarshalFires, MarshalRepeats, MarshalClears,
       MarshalForgets, Publish, Deliver, ResolveWrite, ResolveTell, ResolveFails, SweepStart,
       SweepRule, SweepClose, SweepTell, NextClosed, DispatcherFails, SweeperFails, Crash

\* Each step keeps a rule's active alert single, and a rule that is about to be
\* inserted free of one.
LEMMA StepOneActive == Inv /\ [Next]_vars => InsertIsFree' /\ OneActivePerRule'
<1> SUFFICES ASSUME Inv, [Next]_vars PROVE InsertIsFree' /\ OneActivePerRule'
  OBVIOUS
<1>1. CASE Insert
  <2>1. PICK i \in Ids :
          /\ Fresh(i)
          /\ status' = [status EXCEPT ![i] = "active"]
          /\ ruleOf' = [ruleOf EXCEPT ![i] = disp.msg.rule]
          /\ disp' = Written(i, TRUE)
    BY <1>1 DEF Insert
  <2>2. InsertIsFree'
    BY <2>1 DEF InsertIsFree, Written
  <2>3. Active(disp.msg.rule) = {}
    BY <1>1 DEF Inv, InsertIsFree, Insert
  <2>4. ASSUME NEW r \in Rules, NEW j \in Active(r)'
        PROVE  j \in Active(r) \/ (j = i /\ r = disp.msg.rule)
    BY <2>1, <2>4 DEF Active, Inv, TypeOK
  <2>5. OneActivePerRule'
    BY <2>1, <2>3, <2>4 DEF OneActivePerRule, Active, Inv, TypeOK, Fresh, Exists
  <2>6. QED
    BY <2>2, <2>5
<1>2. CASE ~Insert
  <2>1. \A r \in Rules : Active(r)' \subseteq Active(r)
    BY <1>2, OnlyInsertActivates DEF Inv
  <2>2. OneActivePerRule'
    BY <2>1 DEF Inv, OneActivePerRule
  <2>3. ASSUME Select PROVE InsertIsFree'
    BY <2>3, SelectShape DEF Active, InsertIsFree, Inv, TypeOK
  <2>4. ASSUME disp' = disp PROVE InsertIsFree'
    <3>1. disp.pc = "insert" => disp.msg.rule \in Rules
      BY DispFields DEF Inv, TypeOK, Message
    <3>2. QED
      BY <2>1, <2>4, <3>1 DEF Inv, InsertIsFree
  <2>5. ASSUME ~Select, disp' # disp PROVE InsertIsFree'
    <3>1. disp'.pc # "insert"
      <4>1. CASE DispatcherStep
        BY <1>2, <2>5, <4>1, DispatcherShape DEF Inv, DispatcherStep
      <4>2. CASE ~DispatcherStep
        <5>1. disp' = DispIdle
          BY <2>5, <4>2, OnlyDispatcherMoves
        <5>2. QED
          BY <5>1 DEF DispIdle
      <4>3. QED
        BY <4>1, <4>2
    <3>2. QED
      BY <3>1 DEF InsertIsFree
  <2>6. InsertIsFree'
    BY <2>3, <2>4, <2>5
  <2>7. QED
    BY <2>2, <2>6
<1>3. QED
  BY <1>1, <1>2

\* Each step keeps announcements at most one, and a created row's event unannounced.
LEMMA StepAnnounced == Inv /\ [Next]_vars => CreatedIsUnannounced' /\ AnnouncedAtMostOnce'
<1> SUFFICES ASSUME Inv, [Next]_vars PROVE CreatedIsUnannounced' /\ AnnouncedAtMostOnce'
  OBVIOUS
<1> USE DEF CreatedIsUnannounced, AnnouncedAtMostOnce
<1>1. announced \in [Ids -> Nat] /\ disp \in {DispIdle} \cup DispBusy
  BY DEF Inv, TypeOK
<1>2. CASE Insert
  BY <1>1, <1>2 DEF Insert, Written, Inv
<1>3. CASE Notify
  <2>1. disp.id \in Ids /\ disp'.pc = "broadcast"
    BY <1>1, <1>3, DispFields DEF Notify
  <2>2. QED
    BY <1>1, <1>3, <2>1 DEF Notify, FirstSighting, Inv
<1>4. CASE SweepPrune
  <2>1. disp' = disp /\ \A i \in Ids : announced'[i] \in {0, announced[i]}
    BY <1>1, <1>4 DEF SweepPrune
  <2>2. disp.pc \in {"read", "notify"} => disp.id \in Ids
    BY <1>1, DispFields
  <2>3. QED
    BY <1>1, <2>1, <2>2 DEF Inv
<1>5. CASE announced' = announced /\ disp' = disp
  BY <1>5 DEF Inv
<1>6. CASE announced' = announced /\ (disp'.pc \notin {"read", "notify"} \/ disp'.made = FALSE)
  BY <1>6 DEF Inv
<1>7. CASE Select
  BY <1>6, <1>7, SelectShape DEF Select, observed, Inv, TypeOK
<1>8. CASE Read
  BY <1>8 DEF Read, Event, DispIdle, observed, Inv
<1>9. CASE Take \/ Update \/ CloseByRule \/ Broadcast
  BY <1>6, <1>9, DispatcherShape DEF Inv, Take, Update, CloseByRule, Broadcast, observed
<1>10. CASE ~DispatcherStep /\ ~SweepPrune
  <2>1. announced' = announced
    BY <1>10, OnlyTheyAnnounce
  <2>2. disp' \in {disp, DispIdle}
    BY <1>10, OnlyDispatcherMoves
  <2>3. CASE disp' = disp
    BY <1>5, <2>1, <2>3
  <2>4. CASE disp' = DispIdle
    <3>1. disp'.pc \notin {"read", "notify"}
      BY <2>4 DEF DispIdle
    <3>2. QED
      BY <1>6, <2>1, <3>1
  <2>5. QED
    BY <2>2, <2>3, <2>4
<1>11. QED
  BY <1>2, <1>3, <1>4, <1>7, <1>8, <1>9, <1>10 DEF DispatcherStep

\* The strengthened invariant holds in every reachable state.
LEMMA Invariance == Spec => []Inv
<1>1. Init => Inv
  BY InitTyped DEF Init, Inv, InsertIsFree, OneActivePerRule, CreatedIsUnannounced,
                   AnnouncedAtMostOnce, Active, DispIdle
<1>2. Inv /\ [Next]_vars => Inv'
  BY StepTyped, StepOneActive, StepAnnounced DEF Inv
<1>3. QED
  BY <1>1, <1>2, PTL DEF Spec

\* A rule has at most one active alert, although UpsertSensor looks for it in one
\* statement and inserts in another, with requests and sweeps in between.
THEOREM OneActive == Spec => []OneActivePerRule
<1>1. Inv => OneActivePerRule
  BY DEF Inv
<1>2. QED
  BY <1>1, Invariance, PTL

\* An alert is announced as a first sighting at most once, through redelivery,
\* repeats, crashes and handlers cut short.
THEOREM AnnouncedOnce == Spec => []AnnouncedAtMostOnce
<1>1. Inv => AnnouncedAtMostOnce
  BY DEF Inv
<1>2. QED
  BY <1>1, Invariance, PTL

--------------------------------------------------------------------------------
(* News in hand.  Until a fault only the dispatcher, the resolve handlers  *)
(* and the sweeper move, and whoever drops a piece of news has delivered   *)
(* it.                                                                     *)

\* The two halves of NewsInHand, for one alert.
Announcing(i) == Exists(i) => announced[i] = 1 \/ ToAnnounce(i)
Telling(i) == status[i] \in Closed => i \in told \/ ToTell(i)

\* A fault counts.
LEMMA FaultsCount == ASSUME TypeOK, Fault PROVE faults' # 0
BY DEF Fault, TypeOK

\* The steps without a fault.
LEMMA FaultlessSteps ==
    ASSUME TypeOK, [Next]_vars, faults' = 0
    PROVE  /\ faults = 0
           /\ \/ UNCHANGED <<tables, disp, req, sweep, observed>>
              \/ DispatcherStep
              \/ SweeperStep
              \/ \E q \in Requests : ResolveTell(q) \/ \E i \in Ids : ResolveWrite(q, i)
<1>1. CASE UNCHANGED vars
  BY <1>1 DEF vars
<1>2. CASE Tick \/ \E r \in Rules : \/ MarshalFires(r) \/ MarshalRepeats(r)
                                   \/ MarshalClears(r) \/ MarshalForgets(r)
  BY <1>2 DEF Tick, MarshalFires, MarshalRepeats, MarshalClears, MarshalForgets, Publish
<1>3. ASSUME NEW m \in queue, Deliver(m)
      PROVE  faults = 0 /\ UNCHANGED <<tables, disp, req, sweep, observed>>
  BY <1>3, FaultsCount DEF Deliver
<1>4. CASE DispatcherStep
  BY <1>4 DEF DispatcherStep, Take, Select, Insert, Update, CloseByRule, Read, Notify, Broadcast,
              others
<1>5. ASSUME NEW q \in Requests, ResolveTell(q) \/ \E i \in Ids : ResolveWrite(q, i)
      PROVE  faults = 0
  BY <1>5 DEF ResolveTell, ResolveWrite
<1>6. CASE SweeperStep
  BY <1>6 DEF SweeperStep, SweepStart, SweepRule, SweepClose, SweepTell, NextClosed, SweepPrune
<1>7. ASSUME NEW q \in Requests, ResolveFails(q) PROVE FALSE
  BY <1>7, FaultsCount DEF ResolveFails
<1>8. CASE DispatcherFails \/ SweeperFails \/ Crash
  BY <1>8, FaultsCount DEF DispatcherFails, SweeperFails, Crash
<1>9. QED
  BY <1>1, <1>2, <1>3, <1>4, <1>5, <1>6, <1>7, <1>8 DEF Next

\* A statement that sets a status leaves an alert whose status it is not as it was,
\* and gives no row to one without.
LEMMA SetStatusElsewhere ==
    ASSUME TypeOK, NEW j \in Ids, NEW s, NEW at, SetStatus(j, s, at), NEW i \in Ids
    PROVE  /\ i # j => status'[i] = status[i]
           /\ s \in Closed => (Exists(i)' <=> Exists(i))
BY DEF SetStatus, Exists, Closed, TypeOK

\* Telling of an alert adds it at most, and adds a closed one that is there.
LEMMA TellAdds ==
    ASSUME NEW j \in Ids, NEW s, Tell(j, s)
    PROVE  /\ told \subseteq told'
           /\ s \in Closed /\ Exists(j) => j \in told'
BY DEF Tell

\* The prune leaves what it does not delete as it was.
LEMMA PruneElsewhere ==
    ASSUME TypeOK, SweepPrune, NEW i \in Ids, Exists(i)'
    PROVE  /\ Exists(i)
           /\ status'[i] = status[i]
           /\ announced'[i] = announced[i]
           /\ i \in told => i \in told'
<1>1. status'[i] # "none"
  BY DEF Exists
<1>2. DEFINE old == {j \in Ids : Exists(j) /\ OlderThan(j, sweep.at, Retention)}
<1>3. status' = [j \in Ids |-> IF j \in old THEN "none" ELSE status[j]]
      /\ announced' = [j \in Ids |-> IF j \in old THEN 0 ELSE announced[j]]
      /\ told' = told \ old
  BY DEF SweepPrune
<1>4. i \notin old
  BY <1>1, <1>3
<1>5. QED
  BY <1>1, <1>3, <1>4 DEF Exists

\* A step without a fault leaves every alert announced or about to be.
LEMMA StepAnnouncing ==
    ASSUME Inv, [Next]_vars, faults' = 0, NEW i \in Ids, Announcing(i)
    PROVE  Announcing(i)'
<1> USE DEF Announcing
<1>1. TypeOK /\ disp \in {DispIdle} \cup DispBusy
  BY DEF Inv, TypeOK
<1>2. CASE UNCHANGED <<tables, disp, observed>>
  BY <1>2 DEF tables, observed, Exists, ToAnnounce
<1>3. CASE Take \/ Select
  BY <1>3 DEF Take, Select, DispIdle, tables, observed, Exists, ToAnnounce
<1>4. CASE Insert
  <2>1. PICK j \in Ids : /\ status' = [status EXCEPT ![j] = "active"]
                         /\ disp' = Written(j, TRUE)
                         /\ announced' = [announced EXCEPT ![j] = 0]
    BY <1>4 DEF Insert
  <2>2. disp.pc = "insert"
    BY <1>4 DEF Insert
  <2>3. CASE i = j
    BY <2>1, <2>3 DEF Written, ToAnnounce
  <2>4. CASE i # j
    BY <2>1, <2>2, <2>4, <1>1 DEF TypeOK, Exists, ToAnnounce
  <2>5. QED
    BY <2>3, <2>4
<1>5. CASE Update
  BY <1>5 DEF Update, observed, Exists, ToAnnounce
<1>6. CASE CloseByRule
  <2>1. disp.id \in Ids
    BY <1>1, <1>6, DispFields DEF CloseByRule
  <2>2. Exists(i)' <=> Exists(i)
    BY <1>1, <1>6, <2>1, SetStatusElsewhere DEF CloseByRule, Closed
  <2>3. QED
    BY <1>6, <2>2 DEF CloseByRule, observed, ToAnnounce
<1>7. CASE Read
  BY <1>7 DEF Read, Event, tables, observed, Exists, ToAnnounce
<1>8. CASE Notify
  <2>1. disp.id \in Ids
    BY <1>1, <1>8, DispFields DEF Notify
  <2>2. CASE ToAnnounce(i)
    <3>1. announced[i] = 0
      BY <2>2 DEF ToAnnounce, Inv, CreatedIsUnannounced
    <3>2. announced' = [announced EXCEPT ![i] = @ + 1]
      BY <1>8, <2>2 DEF Notify, FirstSighting, ToAnnounce
    <3>3. QED
      BY <1>1, <3>1, <3>2 DEF TypeOK
  <2>3. CASE ~ToAnnounce(i)
    <3>1. announced'[i] = announced[i]
      BY <1>1, <1>8, <2>1, <2>3 DEF Notify, FirstSighting, ToAnnounce, TypeOK
    <3>2. QED
      BY <1>8, <2>3, <3>1 DEF Notify, tables, Exists
  <2>4. QED
    BY <2>2, <2>3
<1>9. CASE Broadcast
  BY <1>9 DEF Broadcast, tables, Exists, ToAnnounce
<1>10. CASE SweepPrune
  BY <1>1, <1>10, PruneElsewhere DEF SweepPrune, ToAnnounce
<1>11. ASSUME NEW j \in Ids, SweepClose(j) PROVE Announcing(i)'
  BY <1>1, <1>11, SetStatusElsewhere DEF SweepClose, Closed, observed, ToAnnounce
<1>12. CASE SweepStart \/ (\E r \in Rules : SweepRule(r)) \/ \E j \in Ids : SweepTell(j)
  BY <1>12 DEF SweepStart, SweepRule, SweepTell, NextClosed, tables, observed, Exists, ToAnnounce
<1>13. ASSUME NEW q \in Requests, ResolveTell(q) PROVE Announcing(i)'
  BY <1>13 DEF ResolveTell, tables, Exists, ToAnnounce
<1>14. ASSUME NEW q \in Requests, NEW j \in Ids, ResolveWrite(q, j) PROVE Announcing(i)'
  BY <1>1, <1>14, SetStatusElsewhere DEF ResolveWrite, Closed, observed, ToAnnounce
<1>15. QED
  BY <1>1, <1>2, <1>3, <1>4, <1>5, <1>6, <1>7, <1>8, <1>9, <1>10, <1>11, <1>12, <1>13, <1>14,
     FaultlessSteps
  DEF DispatcherStep, SweeperStep

\* A step without a fault leaves every closed alert told or about to be: who closes
\* it takes note of it, and who drops the note has told.
LEMMA StepTelling ==
    ASSUME Inv, [Next]_vars, faults' = 0, NEW i \in Ids, Telling(i)
    PROVE  Telling(i)'
<1> USE DEF Telling
<1>1. TypeOK /\ disp \in {DispIdle} \cup DispBusy
  BY DEF Inv, TypeOK
<1>2. CASE UNCHANGED <<tables, disp, req, sweep, observed>>
  BY <1>2 DEF tables, observed, ToTell
<1>3. CASE Take \/ Select
  BY <1>3 DEF Take, Select, DispIdle, others, tables, observed, ToTell
<1>4. CASE Insert
  <2>1. PICK j \in Ids : /\ status' = [status EXCEPT ![j] = "active"]
                         /\ disp' = Written(j, TRUE)
                         /\ told' = told \ {j}
    BY <1>4 DEF Insert
  <2>2. disp.pc = "insert" /\ UNCHANGED <<req, sweep>>
    BY <1>4 DEF Insert, others
  <2>3. CASE i = j
    BY <1>1, <2>1, <2>3 DEF TypeOK, Closed
  <2>4. CASE i # j
    BY <1>1, <2>1, <2>2, <2>4 DEF TypeOK, ToTell
  <2>5. QED
    BY <2>3, <2>4
<1>5. CASE Update
  BY <1>5 DEF Update, others, observed, ToTell
<1>6. CASE CloseByRule
  <2>1. disp.id \in Ids
    BY <1>1, <1>6, DispFields DEF CloseByRule
  <2>2. i # disp.id => status'[i] = status[i]
    BY <1>1, <1>6, <2>1, SetStatusElsewhere DEF CloseByRule
  <2>3. i = disp.id => ToTell(i)'
    BY <1>6 DEF CloseByRule, Written, ToTell
  <2>4. QED
    BY <1>6, <2>2, <2>3 DEF CloseByRule, others, observed, ToTell
<1>7. CASE Read
  <2>1. status[i] \in Closed => Exists(i)
    BY DEF Closed, Exists
  <2>2. QED
    BY <1>7, <2>1 DEF Read, Event, others, tables, observed, ToTell
<1>8. CASE Notify
  BY <1>8 DEF Notify, others, tables, ToTell
<1>9. CASE Broadcast
  <2>1. disp.id \in Ids
    BY <1>1, <1>9, DispFields DEF Broadcast
  <2>2. /\ told \subseteq told'
        /\ disp.snap \in Closed /\ Exists(disp.id) => disp.id \in told'
    BY <1>9, <2>1, TellAdds DEF Broadcast
  <2>3. QED
    BY <1>9, <2>2 DEF Broadcast, others, tables, Exists, Closed, ToTell
<1>10. CASE SweepPrune
  <2>1. status'[i] \in Closed => Exists(i)'
    BY DEF Closed, Exists
  <2>2. status'[i] \in Closed => status'[i] = status[i] /\ (i \in told => i \in told')
    BY <1>1, <1>10, <2>1, PruneElsewhere
  <2>3. sweep # SweepIdle => i \notin sweep.closed
    BY <1>10 DEF SweepPrune, RuleDone
  <2>4. QED
    BY <1>10, <2>2, <2>3 DEF SweepPrune, ToTell
<1>11. ASSUME NEW j \in Ids, SweepClose(j) PROVE Telling(i)'
  <2>1. i # j => status'[i] = status[i]
    BY <1>1, <1>11, SetStatusElsewhere DEF SweepClose
  <2>2. sweep \in SweepBusy
    BY <1>1, <1>11, SweepFields DEF SweepClose, TypeOK
  <2>3. sweep.pc = "close" /\ sweep'.pc = sweep.pc /\ sweep'.closed = sweep.closed \cup {j}
    BY <1>11, <2>2 DEF SweepClose, SweepBusy
  <2>4. QED
    BY <1>11, <2>1, <2>3 DEF SweepClose, SweepIdle, observed, ToTell
<1>12. ASSUME NEW j \in Ids, SweepTell(j) PROVE Telling(i)'
  <2>1. /\ told \subseteq told'
        /\ status[j] \in Closed /\ Exists(j) => j \in told'
    BY <1>12, TellAdds DEF SweepTell
  <2>2. sweep \in SweepBusy
    BY <1>1, <1>12, SweepFields DEF SweepTell, NextClosed, TypeOK
  <2>3. sweep' # SweepIdle /\ sweep'.closed = sweep.closed \ {j}
    BY <1>12, <2>2 DEF SweepTell, NextClosed, SweepBusy, SweepIdle
  <2>4. QED
    BY <1>12, <2>1, <2>3 DEF SweepTell, NextClosed, tables, Exists, Closed, ToTell
<1>13. CASE SweepStart
  BY <1>13 DEF SweepStart, tables, observed, ToTell
<1>14. ASSUME NEW r \in Rules, SweepRule(r) PROVE Telling(i)'
  BY <1>14 DEF SweepRule, RuleDone, tables, observed, ToTell
<1>15. ASSUME NEW q \in Requests, ResolveTell(q) PROVE Telling(i)'
  <2>1. req[q] \in Ids
    BY <1>1, <1>15 DEF ResolveTell, TypeOK
  <2>2. /\ told \subseteq told'
        /\ status[req[q]] \in Closed /\ Exists(req[q]) => req[q] \in told'
    BY <1>15, <2>1, TellAdds DEF ResolveTell
  <2>3. \A o \in Requests : o # q => req'[o] = req[o]
    BY <1>1, <1>15 DEF ResolveTell, TypeOK
  <2>4. QED
    BY <1>15, <2>2, <2>3 DEF ResolveTell, tables, Exists, Closed, ToTell
<1>16. ASSUME NEW q \in Requests, NEW j \in Ids, ResolveWrite(q, j) PROVE Telling(i)'
  <2>1. i # j => status'[i] = status[i]
    BY <1>1, <1>16, SetStatusElsewhere DEF ResolveWrite
  <2>2. req'[q] = j /\ \A o \in Requests : o # q => req'[o] = req[o]
    BY <1>1, <1>16 DEF ResolveWrite, TypeOK
  <2>3. (\E o \in Requests : req[o] = i) => \E o \in Requests : req'[o] = i
    <3>1. req[q] # i
      BY <1>16, ConstantsAssumption DEF ResolveWrite
    <3>2. QED
      BY <2>2, <3>1
  <2>4. QED
    BY <1>16, <2>1, <2>2, <2>3 DEF ResolveWrite, observed, ToTell
<1>17. QED
  BY <1>1, <1>2, <1>3, <1>4, <1>5, <1>6, <1>7, <1>8, <1>9, <1>10, <1>11, <1>12, <1>13, <1>14,
     <1>15, <1>16, FaultlessSteps
  DEF DispatcherStep, SweeperStep

\* Until a fault, every alert that is there is announced or the dispatcher is about
\* to, and every closed one has been told of or one of its closers is about to: what
\* the liveness of CreatedIsAnnounced and ClosedIsTold rests on.
THEOREM NewsStaysInHand == Spec => []NewsInHand
<1>1. Init => NewsInHand
  BY DEF Init, NewsInHand, Exists, Closed
<1>2. Inv /\ NewsInHand /\ [Next]_vars => NewsInHand'
  <2> SUFFICES ASSUME Inv, NewsInHand, [Next]_vars, faults' = 0, NEW i \in Ids
               PROVE  Announcing(i)' /\ Telling(i)'
    BY DEF NewsInHand, Announcing, Telling
  <2>1. faults = 0
    BY FaultlessSteps DEF Inv
  <2>2. Announcing(i) /\ Telling(i)
    BY <2>1 DEF NewsInHand, Announcing, Telling
  <2>3. QED
    BY <2>2, StepAnnouncing, StepTelling
<1>3. QED
  BY <1>1, <1>2, Invariance, PTL DEF Spec

--------------------------------------------------------------------------------
(* Refinement.                                                             *)

\* An UPDATE of the status of row i by id closes i in the book, or changes nothing.
LEMMA SetStatusCloses ==
    ASSUME TypeOK, NEW i \in Ids, NEW s \in Closed, NEW at \in Nat, SetStatus(i, s, at)
    PROVE  Book!Close(i, s) \/ UNCHANGED Book!book
BY DEF SetStatus, Exists, Book!Close, Book!book, TypeOK

\* Each step is a step of the book, or leaves the book as it is.
LEMMA StepImplements == Inv /\ [Next]_vars => [Book!Next]_(Book!book)
<1> SUFFICES ASSUME Inv, [Next]_vars PROVE [Book!Next]_(Book!book)
  OBVIOUS
<1>1. CASE UNCHANGED <<status, ruleOf>>
  BY <1>1 DEF Book!book
<1>2. ASSUME NEW i \in Ids, NEW s \in Closed, NEW at \in Nat, SetStatus(i, s, at)
      PROVE  [Book!Next]_(Book!book)
  <2>1. s \in Book!Closed
    BY DEF Closed, Book!Closed
  <2>2. QED
    BY <1>2, <2>1, SetStatusCloses DEF Inv, Book!Next
<1>3. CASE Insert
  <2>1. disp.msg.rule \in Rules
    BY <1>3, DispFields DEF Insert, Message, Inv, TypeOK
  <2>2. PICK i \in Ids :
          /\ status[i] = "none"
          /\ status' = [status EXCEPT ![i] = "active"]
          /\ ruleOf' = [ruleOf EXCEPT ![i] = disp.msg.rule]
    BY <1>3 DEF Insert, Fresh, Exists
  <2>3. Book!ActiveFor(disp.msg.rule) = {}
    BY <1>3 DEF Inv, InsertIsFree, Insert, Active, Book!ActiveFor
  <2>4. Book!Open(i, disp.msg.rule)
    BY <2>2, <2>3 DEF Book!Open
  <2>5. QED
    BY <2>1, <2>4 DEF Book!Next
<1>4. CASE CloseByRule
  <2>1. disp.id \in Ids /\ disp.msg.at \in Nat
    BY <1>4, DispFields DEF CloseByRule, Message, Inv, TypeOK
  <2>2. QED
    BY <1>2, <1>4, <2>1 DEF CloseByRule, Closed
<1>5. ASSUME NEW q \in Requests, NEW i \in Ids, ResolveWrite(q, i)
      PROVE  [Book!Next]_(Book!book)
  BY <1>2, <1>5 DEF ResolveWrite, Closed, Inv, TypeOK
<1>6. ASSUME NEW i \in Ids, SweepClose(i) PROVE [Book!Next]_(Book!book)
  <2>1. sweep.at \in Nat
    BY <1>6, SweepFields DEF SweepClose, Inv, TypeOK
  <2>2. QED
    BY <1>2, <1>6, <2>1 DEF SweepClose, Closed
<1>7. CASE SweepPrune
  <2>1. DEFINE old == {i \in Ids : Exists(i) /\ OlderThan(i, sweep.at, Retention)}
  <2>2. Book!Forget(old)
    BY <1>7 DEF SweepPrune, Book!Forget
  <2>3. old \in SUBSET Ids
    OBVIOUS
  <2>4. QED
    BY <2>2, <2>3 DEF Book!Next
<1>8. QED
  BY <1>1, <1>3, <1>4, <1>5, <1>6, <1>7
  DEF Next, vars, tables, others, DispatcherStep, SweeperStep, Tick, MarshalFires,
      MarshalRepeats, MarshalClears, MarshalForgets, Publish, Deliver, Take, Select, Update,
      Read, Notify, Broadcast, ResolveTell, ResolveFails, SweepStart, SweepRule, SweepTell,
      NextClosed, DispatcherFails, SweeperFails, Crash

\* The statements of the dispatcher, the requests and the sweeper, in any order,
\* implement the atomic book: an alert opens only for a rule without one, and no
\* closed alert is active again.
THEOREM RefinesBook == Spec => ImplementsBook
<1>1. Init => Book!Init
  BY DEF Init, Book!Init
<1>2. Inv /\ [Next]_vars => [Book!Next]_(Book!book)
  BY StepImplements
<1>3. QED
  BY <1>1, <1>2, Invariance, PTL DEF Spec, ImplementsBook, Book!Spec

================================================================================
