-------------------------- MODULE CameraReviews_proofs --------------------------
(***************************************************************************)
(* Theorems about CameraReviews, for any reviews, clips and bound.         *)
(***************************************************************************)
EXTENDS CameraReviews, TLAPS

\* The dispatcher's fields in each of its phases.
LEMMA DispFields ==
    ASSUME disp \in {DispIdle} \cup DispBusy
    PROVE  /\ disp.pc \in {"select", "insert", "update"} => disp.msg \in Message
           /\ disp.pc = "update" =>
                disp = [pc |-> "update", msg |-> disp.msg, have |-> disp.have]
                /\ disp.have \in SUBSET Clips
           /\ disp.pc = "read" => disp.review \in Reviews /\ disp.made \in BOOLEAN
           /\ disp.pc = "notify" => disp.review \in Reviews /\ disp.made \in BOOLEAN
BY DEF DispIdle, DispBusy

\* The initial state has the types.
LEMMA InitTyped == Init => TypeOK
BY DEF Init, TypeOK, Review

\* Each step keeps the type invariant.
LEMMA StepTyped == TypeOK /\ [Next]_vars => TypeOK'
<1> SUFFICES ASSUME TypeOK, [Next]_vars
             PROVE  TypeOK'
  OBVIOUS
<1> USE CameraReviewsAssumption
<1>1. CASE UNCHANGED vars
  BY <1>1 DEF vars, world, tables, TypeOK
<1>2. ASSUME NEW r \in Reviews, NEW v \in Review, Publish(r, v)
      PROVE  TypeOK'
  <2>1. [review |-> r, severity |-> v.severity, clips |-> v.clips, over |-> v.state = "over"]
          \in Message
    BY DEF Message, Review
  <2>2. queue' \in SUBSET Message
    BY <1>2, <2>1 DEF Publish, TypeOK
  <2>3. review' \in [Reviews -> Review] /\ sent' \in Nat
    BY <1>2 DEF Publish, TypeOK
  <2>4. QED
    BY <1>2, <2>2, <2>3 DEF Publish, tables, TypeOK
<1>3. ASSUME NEW r \in Reviews, NEW v \in Review, Begin(r, v) \/ Grow(r, v)
      PROVE  TypeOK'
  BY <1>2, <1>3 DEF Begin, Grow
<1>4. ASSUME NEW r \in Reviews, Finish(r)
      PROVE  TypeOK'
  <2>1. [review[r] EXCEPT !.state = "over"] \in Review
    BY DEF TypeOK, Review
  <2>2. QED
    BY <1>2, <1>4, <2>1 DEF Finish
<1>5. ASSUME NEW m \in queue, Lose(m)
      PROVE  TypeOK'
  BY <1>5 DEF Lose, Fault, tables, TypeOK
<1>6. ASSUME NEW m \in queue, Take(m)
      PROVE  TypeOK'
  <2>1. m \in Message /\ queue' \in SUBSET Message /\ faults' \in Nat
    BY <1>6 DEF Take, Fault, TypeOK
  <2>2. disp' \in DispBusy
    BY <1>6, <2>1 DEF Take, DispBusy
  <2>3. QED
    BY <1>6, <2>1, <2>2 DEF Take, tables, TypeOK
<1>7. CASE Select
  <2>1. disp.msg \in Message
    BY <1>7, DispFields DEF Select, TypeOK
  <2>2. disp.msg.review \in Reviews
    BY <2>1 DEF Message
  <2>3. clips[disp.msg.review] \in SUBSET Clips
    BY <2>2 DEF TypeOK
  <2>4. disp' \in {DispIdle} \cup DispBusy
    BY <1>7, <2>1, <2>3 DEF Select, DispBusy
  <2>5. QED
    BY <1>7, <2>4 DEF Select, others, world, tables, TypeOK
<1>8. CASE Insert
  <2>1. disp.msg \in Message
    BY <1>8, DispFields DEF Insert, TypeOK
  <2>2. /\ disp.msg.review \in Reviews
        /\ disp.msg.clips \in SUBSET Clips
        /\ disp.msg.over \in BOOLEAN
    BY <2>1 DEF Message
  <2>3. disp' \in DispBusy
    BY <1>8, <2>2 DEF Insert, Written, DispBusy
  <2>4. QED
    BY <1>8, <2>2, <2>3 DEF Insert, others, world, TypeOK
<1>9. CASE Update
  <2>1. disp.msg \in Message /\ disp.have \in SUBSET Clips
    BY <1>9, DispFields DEF Update, TypeOK
  <2>2. /\ disp.msg.review \in Reviews
        /\ disp.msg.clips \in SUBSET Clips
        /\ disp.msg.over \in BOOLEAN
    BY <2>1 DEF Message
  <2>3. disp' \in DispBusy
    BY <1>9, <2>2 DEF Update, Written, DispBusy
  <2>4. /\ status' \in [Reviews -> {"none", "active", "ended"}]
        /\ clips' \in [Reviews -> SUBSET Clips]
        /\ ending' \in [Reviews -> BOOLEAN]
        /\ dated' \in [Reviews -> BOOLEAN]
        /\ old' \in SUBSET Reviews
    BY <1>9, <2>1, <2>2 DEF Update, StatusAfter, DatedAfter, ClipsAfter, tables, TypeOK
  <2>5. QED
    BY <1>9, <2>3, <2>4 DEF Update, others, world, TypeOK
<1>10. CASE Read
  <2>1. disp.review \in Reviews /\ disp.made \in BOOLEAN
    BY <1>10, DispFields DEF Read, TypeOK
  <2>2. Exists(disp.review) => status[disp.review] \in {"active", "ended"}
    BY <2>1 DEF Exists, TypeOK
  <2>3. disp' \in {DispIdle} \cup DispBusy
    BY <1>10, <2>1, <2>2 DEF Read, DispBusy
  <2>4. QED
    BY <1>10, <2>3 DEF Read, others, world, tables, TypeOK
<1>11. CASE Notify
  <2>1. disp.review \in Reviews
    BY <1>11, DispFields DEF Notify, TypeOK
  <2>2. announced' \in [Reviews -> Nat]
    BY <1>11, <2>1 DEF Notify, TypeOK
  <2>3. QED
    BY <1>11, <2>2 DEF Notify, others, world, tables, TypeOK
<1>12. CASE DispatcherFails \/ Crash
  BY <1>12 DEF DispatcherFails, Crash, Fault, world, tables, TypeOK
<1>13. ASSUME NEW r \in Reviews, Resolve(r) \/ Age(r)
       PROVE  TypeOK'
  BY <1>13 DEF Resolve, Age, world, TypeOK
<1>14. CASE Prune
  BY <1>14 DEF Prune, Pruned, world, TypeOK
<1>15. QED
  BY <1>1, <1>3, <1>4, <1>5, <1>6, <1>7, <1>8, <1>9, <1>10, <1>11, <1>12, <1>13, <1>14 DEF Next

\* Every variable keeps its type; in particular an event is only ever built from a row
\* that existed when it was read.
THEOREM TypeCorrect == Spec => []TypeOK
<1>1. Init => TypeOK
  BY InitTyped
<1>2. TypeOK /\ [Next]_vars => TypeOK'
  BY StepTyped
<1>3. QED
  BY <1>1, <1>2, PTL DEF Spec

--------------------------------------------------------------------------------
(* status and resolved_at.                                                 *)

\* Each step keeps the two columns in agreement.
LEMMA StepDated == TypeOK /\ EndedIsDated /\ [Next]_vars => EndedIsDated'
<1> SUFFICES ASSUME TypeOK, EndedIsDated, [Next]_vars
             PROVE  EndedIsDated'
  OBVIOUS
<1>1. CASE UNCHANGED <<status, dated>>
  BY <1>1 DEF EndedIsDated
<1>2. CASE Insert
  <2>1. disp.msg \in Message
    BY <1>2, DispFields DEF Insert, TypeOK
  <2>2. QED
    BY <1>2, <2>1 DEF Insert, EndedIsDated, TypeOK, Message
<1>3. CASE Update
  <2>1. disp.msg \in Message
    BY <1>3, DispFields DEF Update, TypeOK
  <2>2. QED
    BY <1>3, <2>1 DEF Update, StatusAfter, DatedAfter, EndedIsDated, tables, TypeOK, Message
<1>4. ASSUME NEW r \in Reviews, Resolve(r)
      PROVE  EndedIsDated'
  BY <1>4 DEF Resolve, EndedIsDated, TypeOK
<1>5. CASE Prune
  BY <1>5 DEF Prune, Pruned, EndedIsDated, TypeOK
<1>6. QED
  BY <1>1, <1>2, <1>3, <1>4, <1>5
  DEF Next, vars, tables, Begin, Grow, Finish, Publish, Age, Lose, Take, Select, Read, Notify,
      DispatcherFails, Crash

\* An alert has a resolved_at exactly when it is ended, whether the app or Frigate ended
\* it first and whatever comes late.
THEOREM DatedWhenEnded == Spec => []EndedIsDated
<1>1. Init => EndedIsDated
  BY DEF Init, EndedIsDated
<1>2. TypeOK /\ EndedIsDated /\ [Next]_vars => EndedIsDated'
  BY StepDated
<1>3. QED
  BY <1>1, <1>2, TypeCorrect, PTL DEF Spec

--------------------------------------------------------------------------------
(* Announcements.                                                          *)

\* The event being made for a row just created has not been announced.
CreatedIsUnannounced ==
    disp.pc \in {"read", "notify"} /\ disp.made => announced[disp.review] = 0

\* Each step keeps announcements at most one.
LEMMA StepAnnounced ==
    TypeOK /\ CreatedIsUnannounced /\ AnnouncedOnce /\ [Next]_vars
        => CreatedIsUnannounced' /\ AnnouncedOnce'
<1> SUFFICES ASSUME TypeOK, CreatedIsUnannounced, AnnouncedOnce, [Next]_vars
             PROVE  CreatedIsUnannounced' /\ AnnouncedOnce'
  OBVIOUS
<1>1. CASE UNCHANGED <<announced, disp>>
  BY <1>1 DEF CreatedIsUnannounced, AnnouncedOnce
<1>2. CASE UNCHANGED announced /\ disp' = DispIdle
  BY <1>2 DEF CreatedIsUnannounced, AnnouncedOnce, DispIdle
<1>3. ASSUME NEW m \in queue, Take(m)
      PROVE  CreatedIsUnannounced' /\ AnnouncedOnce'
  BY <1>3 DEF Take, CreatedIsUnannounced, AnnouncedOnce
<1>4. CASE Select
  BY <1>4 DEF Select, CreatedIsUnannounced, AnnouncedOnce, DispIdle
<1>5. CASE Insert
  <2>1. disp.msg.review \in Reviews
    BY <1>5, DispFields DEF Insert, TypeOK, Message
  <2>2. QED
    BY <1>5, <2>1 DEF Insert, Written, CreatedIsUnannounced, AnnouncedOnce, TypeOK
<1>6. CASE Update
  BY <1>6 DEF Update, Written, CreatedIsUnannounced, AnnouncedOnce
<1>7. CASE Read
  <2>1. UNCHANGED announced
    BY <1>7 DEF Read
  <2>2. disp'.pc \in {"read", "notify"} => disp'.review = disp.review /\ disp'.made = disp.made
    BY <1>7 DEF Read, DispIdle
  <2>3. QED
    BY <1>7, <2>1, <2>2 DEF Read, CreatedIsUnannounced, AnnouncedOnce
<1>8. CASE Notify
  <2>1. disp.review \in Reviews
    BY <1>8, DispFields DEF Notify, TypeOK
  <2>2. QED
    BY <1>8, <2>1 DEF Notify, FirstSighting, CreatedIsUnannounced, AnnouncedOnce, TypeOK, DispIdle
<1>9. CASE Prune
  <2>1. announced' = [r \in Reviews |-> IF r \in old THEN 0 ELSE announced[r]] /\ UNCHANGED disp
    BY <1>9 DEF Prune, Pruned
  <2>2. disp.pc \in {"read", "notify"} => disp.review \in Reviews
    BY DispFields DEF TypeOK
  <2>3. QED
    BY <2>1, <2>2 DEF CreatedIsUnannounced, AnnouncedOnce
<1>10. QED
  BY <1>1, <1>2, <1>3, <1>4, <1>5, <1>6, <1>7, <1>8, <1>9
  DEF Next, vars, Begin, Grow, Finish, Publish, Age, Resolve, Lose, DispatcherFails, Crash

\* A camera alert is announced as a first sighting at most once, through redelivery,
\* promotion, reordering and crashes.
THEOREM AnnouncedAtMostOnce == Spec => []AnnouncedOnce
<1>1. Init => CreatedIsUnannounced /\ AnnouncedOnce
  BY DEF Init, CreatedIsUnannounced, AnnouncedOnce, DispIdle
<1>2. TypeOK /\ CreatedIsUnannounced /\ AnnouncedOnce /\ [Next]_vars
        => CreatedIsUnannounced' /\ AnnouncedOnce'
  BY StepAnnounced
<1>3. QED
  BY <1>1, <1>2, TypeCorrect, PTL DEF Spec

--------------------------------------------------------------------------------
(* Refinement.                                                             *)

\* What SELECT found still holds when the dispatcher writes: only it inserts reviews
\* and merges clips, so a row can at most have been deleted.
FoundHolds ==
    /\ disp.pc = "insert" => ~Exists(disp.msg.review)
    /\ disp.pc = "update" /\ Exists(disp.msg.review) => clips[disp.msg.review] = disp.have

\* The other steps neither create a row nor touch the clips of one that stays.
OthersKeep ==
    \A r \in Reviews :
        /\ ~Exists(r) => ~Exists(r)'
        /\ Exists(r)' => clips'[r] = clips[r]

\* Each step keeps what SELECT found.
LEMMA StepFound == TypeOK /\ FoundHolds /\ [Next]_vars => FoundHolds'
<1> SUFFICES ASSUME TypeOK, FoundHolds, [Next]_vars
             PROVE  FoundHolds'
  OBVIOUS
<1>1. disp.pc \in {"insert", "update"} => disp.msg.review \in Reviews
  BY DispFields DEF TypeOK, Message
<1>2. ASSUME OthersKeep, UNCHANGED disp
      PROVE  FoundHolds'
  BY <1>1, <1>2 DEF FoundHolds, OthersKeep
<1>3. CASE UNCHANGED <<status, clips, disp>>
  BY <1>2, <1>3 DEF OthersKeep, Exists
<1>4. CASE disp' = DispIdle
  BY <1>4 DEF FoundHolds, DispIdle
<1>5. ASSUME NEW m \in queue, Take(m)
      PROVE  FoundHolds'
  BY <1>5 DEF Take, FoundHolds
<1>6. CASE Select
  <2>1. UNCHANGED <<status, clips>>
    BY <1>6 DEF Select, tables
  <2>2. /\ disp'.pc = "insert" => disp'.msg = disp.msg /\ ~Exists(disp.msg.review)
        /\ disp'.pc = "update" => disp'.msg = disp.msg /\ disp'.have = clips[disp.msg.review]
    BY <1>6 DEF Select, DispIdle
  <2>3. QED
    BY <2>1, <2>2 DEF FoundHolds, Exists
<1>7. CASE Insert \/ Update
  BY <1>7 DEF Insert, Update, Written, FoundHolds
<1>8. CASE Read
  BY <1>8 DEF Read, FoundHolds, DispIdle
<1>9. ASSUME NEW r \in Reviews, Resolve(r)
      PROVE  FoundHolds'
  <2>1. OthersKeep /\ UNCHANGED disp
    BY <1>9 DEF Resolve, OthersKeep, Exists, TypeOK
  <2>2. QED
    BY <1>2, <2>1
<1>10. CASE Prune
  <2>1. OthersKeep /\ UNCHANGED disp
    BY <1>10 DEF Prune, Pruned, OthersKeep, Exists, TypeOK
  <2>2. QED
    BY <1>2, <2>1
<1>11. QED
  BY <1>3, <1>4, <1>5, <1>6, <1>7, <1>8, <1>9, <1>10
  DEF Next, vars, tables, Begin, Grow, Finish, Publish, Age, Lose, Notify, DispatcherFails, Crash

\* Each step is a step of the book, or leaves the book as it is.
LEMMA StepImplements == TypeOK /\ FoundHolds /\ [Next]_vars => [Book!Next]_(Book!book)
<1> SUFFICES ASSUME TypeOK, FoundHolds, [Next]_vars
             PROVE  [Book!Next]_(Book!book)
  OBVIOUS
<1>1. CASE UNCHANGED <<status, clips>>
  BY <1>1 DEF Book!book
<1>2. CASE Insert
  <2>1. disp.msg \in Message
    BY <1>2, DispFields DEF Insert, TypeOK
  <2>2. disp.msg.review \in Reviews /\ disp.msg.clips \in SUBSET Clips
    BY <2>1 DEF Message
  <2>3. \E s \in {"active", "ended"} : Book!Open(disp.msg.review, disp.msg.clips, s)
    BY <1>2 DEF Insert, FoundHolds, Exists, Book!Open, Book!Put
  <2>4. QED
    BY <2>2, <2>3 DEF Book!Next
<1>3. CASE Update /\ Exists(disp.msg.review)
  <2>1. disp.msg \in Message
    BY <1>3, DispFields DEF Update, TypeOK
  <2>2. disp.msg.review \in Reviews /\ disp.msg.clips \in SUBSET Clips
    BY <2>1 DEF Message
  <2>3. clips[disp.msg.review] = disp.have
    BY <1>3 DEF Update, FoundHolds
  <2>4. status[disp.msg.review] \in {"active", "ended"}
    BY <1>3, <2>2 DEF Exists, TypeOK
  <2>5. \E s \in {"active", "ended"} : Book!Merge(disp.msg.review, disp.msg.clips, s)
    BY <1>3, <2>3, <2>4
    DEF Update, StatusAfter, ClipsAfter, Exists, Book!Merge, Book!Put
  <2>6. QED
    BY <2>2, <2>5 DEF Book!Next
<1>4. ASSUME NEW r \in Reviews, Resolve(r)
      PROVE  [Book!Next]_(Book!book)
  <2>1. clips = [clips EXCEPT ![r] = clips[r] \cup {}]
    BY DEF TypeOK
  <2>2. Book!Merge(r, {}, "ended")
    BY <1>4, <2>1 DEF Resolve, Exists, Book!Merge, Book!Put
  <2>3. QED
    BY <2>2 DEF Book!Next
<1>5. CASE Prune
  <2>1. Book!Forget(old) /\ old \in SUBSET Reviews
    BY <1>5 DEF Prune, Pruned, Book!Forget, TypeOK
  <2>2. QED
    BY <2>1 DEF Book!Next
<1>6. CASE Update /\ ~Exists(disp.msg.review)
  BY <1>1, <1>6 DEF Update, tables
<1>7. QED
  BY <1>1, <1>2, <1>3, <1>4, <1>5, <1>6
  DEF Next, vars, tables, Begin, Grow, Finish, Publish, Age, Lose, Take, Select, Read, Notify,
      DispatcherFails, Crash

\* The statements of the dispatcher, the app and retention, in any order, implement the
\* atomic book: a review has one alert, whose clips only grow and which stays ended.
THEOREM RefinesBook == Spec => ImplementsBook
<1>1. Init => Book!Init /\ FoundHolds
  BY DEF Init, Book!Init, FoundHolds, DispIdle
<1>2. TypeOK /\ FoundHolds /\ [Next]_vars => FoundHolds'
  BY StepFound
<1>3. TypeOK /\ FoundHolds /\ [Next]_vars => [Book!Next]_(Book!book)
  BY StepImplements
<1>4. QED
  BY <1>1, <1>2, <1>3, TypeCorrect, PTL DEF Spec, ImplementsBook, Book!Spec

--------------------------------------------------------------------------------
(* Nothing fails to be announced: while no message, statement or process   *)
(* has failed, an alert's row is announced, or its event is in the making. *)

InHand(r) == disp.pc \in {"read", "notify"} /\ disp.made /\ disp.review = r

Announced(r) == Exists(r) => announced[r] = 1 \/ InHand(r)

AllAnnounced == faults = 0 => \A r \in Reviews : Announced(r)

\* A fault counts.
LEMMA FaultsCount == ASSUME TypeOK, Fault PROVE faults' # 0
BY DEF Fault, TypeOK

\* Each step keeps every row's announcement made or in hand.
LEMMA StepAllAnnounced ==
    TypeOK /\ FoundHolds /\ CreatedIsUnannounced /\ AllAnnounced /\ [Next]_vars => AllAnnounced'
<1> SUFFICES ASSUME TypeOK, FoundHolds, CreatedIsUnannounced, AllAnnounced, [Next]_vars,
                    faults' = 0, NEW r \in Reviews
             PROVE  Announced(r)'
  BY DEF AllAnnounced
<1>1. ~Fault
  BY FaultsCount
<1>2. CASE faults = 0 /\ UNCHANGED <<status, announced, disp>>
  BY <1>2 DEF AllAnnounced, Announced, InHand, Exists
<1>3. ASSUME faults = 0, disp.pc \notin {"read", "notify"}
      PROVE  Exists(r) => announced[r] = 1
  BY <1>3 DEF AllAnnounced, Announced, InHand
<1>4. ASSUME NEW m \in queue, Take(m)
      PROVE  Announced(r)'
  <2>1. faults = 0 /\ disp.pc \notin {"read", "notify"} /\ UNCHANGED <<status, announced>>
    BY <1>1, <1>4 DEF Take, DispIdle, tables
  <2>2. QED
    BY <1>3, <2>1 DEF Announced, Exists
<1>5. CASE Select
  <2>1. faults = 0 /\ disp.pc \notin {"read", "notify"} /\ UNCHANGED <<status, announced>>
    BY <1>5 DEF Select, others, tables
  <2>2. QED
    BY <1>3, <2>1 DEF Announced, Exists
<1>6. CASE Insert
  <2>1. faults = 0 /\ disp.pc \notin {"read", "notify"}
    BY <1>6 DEF Insert, others
  <2>2. CASE r = disp.msg.review
    BY <1>6, <2>2 DEF Insert, Written, Announced, InHand
  <2>3. CASE r # disp.msg.review
    <3>1. status'[r] = status[r] /\ announced'[r] = announced[r]
      BY <1>6, <2>3 DEF Insert, TypeOK
    <3>2. QED
      BY <1>3, <2>1, <3>1 DEF Announced, Exists
  <2>4. QED
    BY <2>2, <2>3
<1>7. CASE Update
  <2>1. faults = 0 /\ disp.pc \notin {"read", "notify"} /\ UNCHANGED announced
    BY <1>7 DEF Update, others
  <2>2. Exists(r)' => Exists(r)
    BY <1>7 DEF Update, Exists, tables, TypeOK
  <2>3. QED
    BY <1>3, <2>1, <2>2 DEF Announced
<1>8. CASE Read
  <2>1. faults = 0 /\ UNCHANGED <<status, announced>> /\ disp.pc = "read"
    BY <1>8 DEF Read, others, tables
  <2>2. Announced(r)
    BY <2>1 DEF AllAnnounced
  <2>3. CASE Exists(disp.review)
    <3>1. disp'.pc = "notify" /\ disp'.review = disp.review /\ disp'.made = disp.made
      BY <1>8, <2>3 DEF Read
    <3>2. QED
      BY <2>1, <2>2, <3>1 DEF Announced, InHand, Exists
  <2>4. CASE ~Exists(disp.review)
    BY <2>1, <2>2, <2>4 DEF Announced, InHand, Exists
  <2>5. QED
    BY <2>3, <2>4
<1>9. CASE Notify
  <2>1. faults = 0 /\ UNCHANGED status /\ disp.pc = "notify"
    BY <1>9 DEF Notify, others, tables
  <2>2. Announced(r)
    BY <2>1 DEF AllAnnounced
  <2>3. CASE InHand(r)
    <3>1. announced[r] = 0
      BY <2>3 DEF InHand, CreatedIsUnannounced
    <3>2. announced' = [announced EXCEPT ![r] = @ + 1]
      BY <1>9, <2>3 DEF Notify, FirstSighting, InHand
    <3>3. announced'[r] = 1
      BY <3>1, <3>2 DEF TypeOK
    <3>4. QED
      BY <3>3 DEF Announced
  <2>4. CASE ~InHand(r)
    <3>1. announced'[r] = announced[r]
      BY <1>9, <2>1, <2>4 DEF Notify, FirstSighting, InHand, TypeOK
    <3>2. QED
      BY <2>1, <2>2, <2>4, <3>1 DEF Announced, Exists
  <2>5. QED
    BY <2>3, <2>4
<1>10. ASSUME NEW q \in Reviews, Resolve(q)
       PROVE  Announced(r)'
  <2>1. faults = 0 /\ UNCHANGED <<announced, disp>> /\ (Exists(r)' => Exists(r))
    BY <1>10 DEF Resolve, Exists, TypeOK
  <2>2. QED
    BY <2>1 DEF AllAnnounced, Announced, InHand
<1>11. CASE Prune
  <2>1. faults = 0 /\ UNCHANGED disp
    BY <1>11 DEF Prune
  <2>2. Exists(r)' => Exists(r) /\ announced'[r] = announced[r]
    BY <1>11 DEF Prune, Pruned, Exists, TypeOK
  <2>3. QED
    BY <2>1, <2>2 DEF AllAnnounced, Announced, InHand
<1>12. QED
  BY <1>1, <1>2, <1>4, <1>5, <1>6, <1>7, <1>8, <1>9, <1>10, <1>11
  DEF Next, vars, tables, Begin, Grow, Finish, Publish, Age, Lose, DispatcherFails, Crash

\* As long as nothing fails, every camera alert is announced, exactly once, or is about
\* to be, or retention has deleted it: the app, retention and the review's later
\* messages cannot take a first sighting away (internal/ingest/mqtt.go, handleReview).
THEOREM AlertsAreAnnounced == Spec => []AllAnnounced
<1> DEFINE I == TypeOK /\ FoundHolds /\ CreatedIsUnannounced /\ AnnouncedOnce /\ AllAnnounced
<1>1. Init => I
  BY InitTyped
  DEF Init, FoundHolds, CreatedIsUnannounced, AnnouncedOnce, AllAnnounced, Announced, Exists, DispIdle
<1>2. I /\ [Next]_vars => I'
  BY StepTyped, StepFound, StepAnnounced, StepAllAnnounced
<1>3. I => AllAnnounced
  OBVIOUS
<1> HIDE DEF I
<1>4. QED
  BY <1>1, <1>2, <1>3, PTL DEF Spec

================================================================================
