-------------------------- MODULE DashboardFeed_proofs --------------------------
(***************************************************************************)
(* Proofs, for any set of dashboard alerts and any number of failures,     *)
(* that the feed announces an alert's row at most once, keeps the promises *)
(* of the book of alerts, and, until something fails, announces every row. *)
(***************************************************************************)
EXTENDS DashboardFeed, TLAPS

\* The initial state has the types: the type invariant starts true.
LEMMA InitTyped == Init => TypeOK
BY DEF Init, TypeOK, NoJob

\* Each step keeps the type invariant.
LEMMA StepTyped == TypeOK /\ [Next]_vars => TypeOK'
<1> SUFFICES ASSUME TypeOK, [Next]_vars PROVE TypeOK'
  OBVIOUS
<1> USE DEF TypeOK, table
<1>1. ASSUME NEW e \in Ext, Fire(e) \/ Dismiss(e) \/ Pin(e) PROVE TypeOK'
  <2>1. CASE Fire(e)
    BY <2>1 DEF Fire
  <2>2. CASE Dismiss(e) \/ Pin(e)
    BY <2>2 DEF Dismiss, Pin
  <2>3. QED
    BY <1>1, <2>1, <2>2
<1>2. CASE Backfill \/ BackfillDone \/ Open \/ Reconnect
  BY <1>2 DEF Backfill, BackfillDone, Open, Reconnect, Enter, outside, Listed, NoJob
<1>3. ASSUME NEW e \in Ext, BackfillOne(e) PROVE TypeOK'
  <2>1. /\ row' \in [Ext -> {"none", "active", "resolved"}] /\ old' \in SUBSET Ext
        /\ job' \in [ext : Ext, made : BOOLEAN]
    BY <1>3 DEF BackfillOne, Handle, Upsert, Created
  <2>2. QED
    BY <1>3, <2>1 DEF BackfillOne, outside
<1>4. CASE OnAlert
  <2>1. Head(wire) \in Ext /\ Tail(wire) \in Seq(Ext)
    BY <1>4 DEF OnAlert
  <2>2. /\ row' \in [Ext -> {"none", "active", "resolved"}] /\ old' \in SUBSET Ext
        /\ job' \in [ext : Ext, made : BOOLEAN]
    BY <1>4, <2>1 DEF OnAlert, Handle, Upsert, Created
  <2>3. QED
    BY <1>4, <2>1, <2>2 DEF OnAlert, outside
<1>5. CASE Announce
  <2>1. job.ext \in Ext
    BY <1>5 DEF Announce
  <2>2. pushed' \in [Ext -> Nat]
    BY <1>5, <2>1 DEF Announce
  <2>3. QED
    BY <1>5, <2>2 DEF Announce, outside
<1>6. CASE BackfillFails \/ StreamEnds
  <2>1. CASE BackfillFails
    BY <2>1 DEF BackfillFails, Enter, Fault, outside
  <2>2. CASE StreamEnds
    BY <2>2 DEF StreamEnds, WireLost, Enter, Fault, outside
  <2>3. QED
    BY <1>6, <2>1, <2>2
<1>7. CASE HandleFails
  <2>1. PICK e \in Ext :
          /\ \/ /\ runner.pc = "backfill" /\ e \in runner.todo
                /\ runner' = [runner EXCEPT !.todo = @ \ {e}]
                /\ UNCHANGED wire
             \/ /\ runner.pc = "stream" /\ wire # <<>> /\ e = Head(wire)
                /\ wire' = Tail(wire)
                /\ UNCHANGED runner
          /\ Upsert(e) \/ UNCHANGED table
    BY <1>7 DEF HandleFails
  <2>2. row' \in [Ext -> {"none", "active", "resolved"}] /\ old' \in SUBSET Ext
    BY <2>1 DEF Upsert
  <2>3. wire' \in Seq(Ext)
    <3>1. CASE UNCHANGED wire
      BY <3>1
    <3>2. CASE wire # <<>> /\ wire' = Tail(wire)
      BY <3>2
    <3>3. QED
      BY <2>1, <3>1, <3>2
  <2>4. QED
    BY <1>7, <2>1, <2>2, <2>3 DEF HandleFails, Fault, outside
<1>8. CASE ReconcileList \/ ReconcileActive \/ ReconcileDone \/ ReconcileFails
  BY <1>8 DEF ReconcileList, ReconcileActive, ReconcileDone, ReconcileEnds, ReconcileFails,
              Listed, Fault, outside
<1>9. ASSUME NEW e \in Ext, ReconcileResolve(e) PROVE TypeOK'
  BY <1>9 DEF ReconcileResolve, Resolve, outside
<1>10. ASSUME NEW e \in Ext, ResolveInApp(e) \/ Marked(e) \/ MarkFails(e) PROVE TypeOK'
  <2>1. CASE ResolveInApp(e)
    BY <2>1 DEF ResolveInApp, Resolve, outside
  <2>2. CASE Marked(e)
    BY <2>2 DEF Marked
  <2>3. CASE MarkFails(e)
    BY <2>3 DEF MarkFails, Fault, outside
  <2>4. QED
    BY <1>10, <2>1, <2>2, <2>3
<1>11. CASE Crash
  BY <1>11 DEF Crash, WireLost, Enter, Fault, NoJob, outside
<1>12. ASSUME NEW e \in Ext, Age(e) PROVE TypeOK'
  BY <1>12 DEF Age, Fault, outside
<1>13. CASE Prune
  BY <1>13 DEF Prune, outside
<1>14. CASE UNCHANGED vars
  BY <1>14 DEF vars, outside
<1>15. QED
  BY <1>1, <1>2, <1>3, <1>4, <1>5, <1>6, <1>7, <1>8, <1>9, <1>10, <1>11, <1>12, <1>13, <1>14
  DEF Next, Run, Reconcile

\* Every variable keeps its type; in particular nothing is ever read from a stream
\* that is not open.
THEOREM TypeCorrect == Spec => []TypeOK
<1>1. TypeOK /\ [Next]_vars => TypeOK'
  BY StepTyped
<1>2. QED
  BY InitTyped, <1>1, PTL DEF Spec

--------------------------------------------------------------------------------
(* PushedOnce needs facts about the rows: an alert without a row has not   *)
(* been announced, neither has one whose row was just inserted, and        *)
(* retention does not delete a row while its event is in the making.       *)

FirstIsUnpushed ==
    /\ \A e \in Ext : row[e] = "none" => pushed[e] = 0
    /\ job.made => row[job.ext] # "none" /\ pushed[job.ext] = 0
    /\ job.ext \notin old

Inv == TypeOK /\ FirstIsUnpushed /\ PushedOnce

\* handle of alert e keeps the invariant.
LEMMA HandleKeeps ==
    ASSUME Inv, NEW e \in Ext, Handle(e), UNCHANGED pushed
    PROVE  FirstIsUnpushed' /\ PushedOnce'
BY DEF Inv, TypeOK, FirstIsUnpushed, PushedOnce, Handle, Upsert, Created

\* Each step keeps the announcements at most one.
LEMMA StepPushed == Inv /\ [Next]_vars => FirstIsUnpushed' /\ PushedOnce'
<1> SUFFICES ASSUME Inv, [Next]_vars PROVE FirstIsUnpushed' /\ PushedOnce'
  OBVIOUS
<1>1. ASSUME NEW e \in Ext, BackfillOne(e) PROVE FirstIsUnpushed' /\ PushedOnce'
  BY <1>1, HandleKeeps DEF BackfillOne
<1>2. CASE OnAlert
  <2>1. Head(wire) \in Ext
    BY <1>2 DEF OnAlert, Inv, TypeOK
  <2>2. QED
    BY <1>2, <2>1, HandleKeeps DEF OnAlert
<1>3. CASE Announce
  <2>1. job.ext \in Ext /\ job'.made = FALSE /\ job'.ext \notin old'
    BY <1>3, DashboardFeedAssumption DEF Announce, table, NoJob, Inv, TypeOK
  <2>2. QED
    BY <1>3, <2>1 DEF Announce, table, FirstIsUnpushed, PushedOnce, Inv, TypeOK
<1>4. CASE HandleFails
  <2>1. PICK e \in Ext : Upsert(e) \/ UNCHANGED table
    BY <1>4 DEF HandleFails
  <2>2. UNCHANGED <<job, pushed>>
    BY <1>4 DEF HandleFails
  <2>3. CASE UNCHANGED table
    BY <2>2, <2>3 DEF table, FirstIsUnpushed, PushedOnce, Inv
  <2>4. CASE Upsert(e)
    <3>1. job.made => job.ext \in Ext
      BY DEF Inv, TypeOK, NoJob
    <3>2. QED
      BY <2>2, <2>4, <3>1 DEF Upsert, FirstIsUnpushed, PushedOnce, Inv, TypeOK
  <2>5. QED
    BY <2>1, <2>3, <2>4
<1>5. ASSUME NEW e \in Ext, ReconcileResolve(e) \/ ResolveInApp(e)
      PROVE  FirstIsUnpushed' /\ PushedOnce'
  <2>1. Resolve(e) /\ UNCHANGED <<job, pushed>>
    BY <1>5 DEF ReconcileResolve, ResolveInApp
  <2>2. QED
    BY <2>1 DEF Resolve, FirstIsUnpushed, PushedOnce, Inv, TypeOK
<1>6. CASE Crash
  BY <1>6, DashboardFeedAssumption
  DEF Crash, table, NoJob, FirstIsUnpushed, PushedOnce, Inv, TypeOK
<1>7. ASSUME NEW e \in Ext, Age(e) PROVE FirstIsUnpushed' /\ PushedOnce'
  BY <1>7 DEF Age, FirstIsUnpushed, PushedOnce, Inv
<1>8. CASE Prune
  <2>1. job.made => job.ext \in Ext
    BY DEF Inv, TypeOK, NoJob
  <2>2. QED
    BY <1>8, <2>1 DEF Prune, FirstIsUnpushed, PushedOnce, Inv, TypeOK
<1>9. CASE UNCHANGED <<table, job, pushed>>
  BY <1>9 DEF table, FirstIsUnpushed, PushedOnce, Inv
<1>10. QED
  BY <1>1, <1>2, <1>3, <1>4, <1>5, <1>6, <1>7, <1>8, <1>9
  DEF Next, vars, Run, Reconcile, Fire, Dismiss, Pin, Backfill, BackfillDone, Open, Reconnect,
      BackfillFails, StreamEnds, ReconcileList, ReconcileActive, ReconcileDone, ReconcileFails,
      Marked, MarkFails

\* An alert's row is announced at most once, however often the dashboard lists it and
\* streams it, and wherever the runner fails or the process dies.
THEOREM AnnouncedOnce == Spec => []PushedOnce
<1>1. Init => Inv
  BY InitTyped DEF Init, NoJob, Inv, FirstIsUnpushed, PushedOnce
<1>2. Inv /\ [Next]_vars => Inv'
  BY StepTyped, StepPushed DEF Inv
<1>3. Inv => PushedOnce
  BY DEF Inv
<1>4. QED
  BY <1>1, <1>2, <1>3, PTL DEF Spec

--------------------------------------------------------------------------------
(* Refinement.  What the reconcile goroutine is still to resolve has a row: *)
(* it was active when the goroutine looked, and retention takes it away.   *)

ToResolve == recon.pc = "resolve" => \A e \in recon.todo : row[e] # "none"

Kept == TypeOK /\ ToResolve

\* No other step takes a row away, and only ReconcileActive adds to what is to be
\* resolved.
LEMMA StepKept == Kept /\ [Next]_vars => ToResolve'
<1> SUFFICES ASSUME Kept, [Next]_vars PROVE ToResolve'
  OBVIOUS
<1>1. ASSUME NEW e \in Ext, Upsert(e), UNCHANGED recon PROVE ToResolve'
  BY <1>1 DEF Upsert, ToResolve, Kept, TypeOK
<1>2. ASSUME NEW e \in Ext, BackfillOne(e) PROVE ToResolve'
  BY <1>1, <1>2 DEF BackfillOne, Handle
<1>3. CASE OnAlert
  <2>1. Head(wire) \in Ext
    BY <1>3 DEF OnAlert, Kept, TypeOK
  <2>2. QED
    BY <1>1, <1>3, <2>1 DEF OnAlert, Handle
<1>4. CASE HandleFails
  <2>1. CASE UNCHANGED table
    BY <1>4, <2>1 DEF HandleFails, table, ToResolve, Kept
  <2>2. QED
    BY <1>1, <1>4, <2>1 DEF HandleFails
<1>5. ASSUME NEW e \in Ext, ReconcileResolve(e) PROVE ToResolve'
  BY <1>5 DEF ReconcileResolve, Resolve, ToResolve, Kept, TypeOK
<1>6. ASSUME NEW e \in Ext, ResolveInApp(e) PROVE ToResolve'
  BY <1>6 DEF ResolveInApp, Resolve, ToResolve, Kept, TypeOK
<1>7. CASE ReconcileList \/ ReconcileActive \/ ReconcileDone \/ ReconcileFails \/ Crash
  BY <1>7
  DEF ReconcileList, ReconcileActive, ReconcileDone, ReconcileEnds, ReconcileFails, Crash, table,
      ToResolve, Kept, TypeOK
<1>8. CASE Prune
  BY <1>8 DEF Prune, ToResolve, Kept, TypeOK
<1>9. CASE UNCHANGED <<row, recon>>
  BY <1>9 DEF ToResolve, Kept
<1>10. QED
  BY <1>2, <1>3, <1>4, <1>5, <1>6, <1>7, <1>8, <1>9
  DEF Next, vars, table, Run, Reconcile, Fire, Dismiss, Pin, Backfill, BackfillDone, Open, Announce,
      Reconnect, BackfillFails, StreamEnds, Marked, MarkFails, Age

\* UpsertDashboard opens the alert in the book, or leaves the book as it is.
LEMMA UpsertOpens ==
    ASSUME TypeOK, NEW e \in Ext, Upsert(e)
    PROVE  [Book!Next]_(Book!book)
<1>1. CASE row[e] = "none"
  <2>1. Book!ActiveFor(e) = {}
    BY <1>1, DashboardFeedAssumption DEF Book!ActiveFor, TypeOK
  <2>2. row' = [row EXCEPT ![e] = "active"]
    BY <1>1 DEF Upsert, TypeOK
  <2>3. Book!Open(e, e)
    BY <1>1, <2>1, <2>2, DashboardFeedAssumption DEF Book!Open, TypeOK
  <2>4. QED
    BY <2>3 DEF Book!Next
<1>2. CASE row[e] # "none"
  <2>1. row' = row
    BY <1>2 DEF Upsert, TypeOK
  <2>2. QED
    BY <2>1 DEF Book!book
<1>3. QED
  BY <1>1, <1>2

\* Resolving an alert that has a row closes it in the book.
LEMMA ResolveCloses ==
    ASSUME TypeOK, NEW e \in Ext, Resolve(e), row[e] # "none"
    PROVE  [Book!Next]_(Book!book)
<1>1. Book!Close(e, "resolved")
  BY DEF Resolve, Book!Close, TypeOK
<1>2. QED
  BY <1>1 DEF Book!Next, Book!Closed

\* Each step is a step of the book, or leaves the book as it is.
LEMMA StepImplements == Kept /\ [Next]_vars => [Book!Next]_(Book!book)
<1> SUFFICES ASSUME Kept, [Next]_vars PROVE [Book!Next]_(Book!book)
  OBVIOUS
<1>1. CASE UNCHANGED row
  BY <1>1 DEF Book!book
<1>2. ASSUME NEW e \in Ext, BackfillOne(e) PROVE [Book!Next]_(Book!book)
  BY <1>2, UpsertOpens DEF BackfillOne, Handle, Kept
<1>3. CASE OnAlert
  <2>1. Head(wire) \in Ext
    BY <1>3 DEF OnAlert, Kept, TypeOK
  <2>2. QED
    BY <1>3, <2>1, UpsertOpens DEF OnAlert, Handle, Kept
<1>4. CASE HandleFails
  BY <1>1, <1>4, UpsertOpens DEF HandleFails, table, Kept
<1>5. ASSUME NEW e \in Ext, ReconcileResolve(e) PROVE [Book!Next]_(Book!book)
  BY <1>5, ResolveCloses DEF ReconcileResolve, ToResolve, Kept
<1>6. ASSUME NEW e \in Ext, ResolveInApp(e) PROVE [Book!Next]_(Book!book)
  BY <1>6, ResolveCloses DEF ResolveInApp, Kept
<1>7. CASE Prune
  <2>1. PICK S \in SUBSET Ext : S = old
    BY DEF Kept, TypeOK
  <2>2. row' = [e \in Ext |-> IF e \in S THEN "none" ELSE row[e]]
    BY <1>7, <2>1 DEF Prune
  <2>3. ASSUME NEW e \in Ext
        PROVE  (IF row'[e] = "none" THEN NoAlert ELSE e)
                 = (IF e \in S THEN NoAlert ELSE IF row[e] = "none" THEN NoAlert ELSE e)
    BY <2>2
  <2>4. Book!Forget(S)
    BY <2>2, <2>3 DEF Book!Forget
  <2>5. QED
    BY <2>4 DEF Book!Next
<1>8. QED
  BY <1>1, <1>2, <1>3, <1>4, <1>5, <1>6, <1>7
  DEF Next, vars, table, Run, Reconcile, Fire, Dismiss, Pin, Backfill, BackfillDone, Open, Announce,
      Reconnect, BackfillFails, StreamEnds, ReconcileList, ReconcileActive, ReconcileDone,
      ReconcileFails, Age, Marked, MarkFails, Crash

\* Backfills, streams, reconciliation, the app and retention, in any order and
\* with any failures, implement the book: a resolved alert is not active again
\* while its row is there, whatever the dashboard still lists.
THEOREM RefinesBook == Spec => ImplementsBook
<1>1. Init => Kept
  BY InitTyped DEF Init, Kept, ToResolve
<1>2. Kept /\ [Next]_vars => Kept'
  BY StepTyped, StepKept DEF Kept
<1>3. Init => Book!Init
  BY DEF Init, Book!Init
<1>4. Kept /\ [Next]_vars => [Book!Next]_(Book!book)
  BY StepImplements
<1>5. QED
  BY <1>1, <1>2, <1>3, <1>4, PTL DEF Spec, ImplementsBook, Book!Spec

--------------------------------------------------------------------------------
(* Nothing fails to be announced.  While no request, connection or process *)
(* has failed and no row has grown old, a row is announced, or its event   *)
(* is in the making.                                                       *)

Announced(e) == row[e] # "none" => pushed[e] = 1 \/ job = [ext |-> e, made |-> TRUE]

AllAnnounced == faults = 0 => old = {} /\ \A e \in Ext : Announced(e)

\* handle inserts an alert's row with its event in hand, or refreshes a row whose
\* first sighting it does not take away.
LEMMA HandleAnnounces ==
    ASSUME Inv, AllAnnounced, faults = 0, NEW e \in Ext, Handle(e), UNCHANGED pushed
    PROVE  old' = {} /\ \A x \in Ext : Announced(x)'
<1>1. job = NoJob /\ job' = [ext |-> e, made |-> row[e] = "none"]
  BY DEF Handle, Created
<1>2. ASSUME NEW x \in Ext PROVE Announced(x)'
  <2>1. CASE x = e /\ row[e] = "none"
    BY <1>1, <2>1 DEF Announced
  <2>2. CASE row[x] # "none"
    <3>1. pushed[x] = 1
      BY <1>1, <2>2, DashboardFeedAssumption DEF AllAnnounced, Announced, NoJob
    <3>2. QED
      BY <3>1 DEF Announced
  <2>3. CASE x # e /\ row[x] = "none"
    BY <2>3 DEF Handle, Upsert, Announced, Inv, TypeOK
  <2>4. QED
    BY <2>1, <2>2, <2>3
<1>3. old' = {}
  BY DEF Handle, Upsert, AllAnnounced
<1>4. QED
  BY <1>2, <1>3

\* A fault counts.
LEMMA FaultsCount == ASSUME TypeOK, Fault PROVE faults' # 0
BY DEF Fault, TypeOK

\* Each step keeps every row's announcement made or in hand.
LEMMA StepAnnounced == Inv /\ ToResolve /\ AllAnnounced /\ [Next]_vars => AllAnnounced'
<1> SUFFICES ASSUME Inv, ToResolve, AllAnnounced, [Next]_vars, faults' = 0
             PROVE  old' = {} /\ \A e \in Ext : Announced(e)'
  BY DEF AllAnnounced
<1>1. ~Fault
  BY FaultsCount DEF Inv
<1>2. ASSUME faults = 0, UNCHANGED <<row, old, job, pushed>>
      PROVE  old' = {} /\ \A e \in Ext : Announced(e)'
  BY <1>2 DEF AllAnnounced, Announced
<1>3. ASSUME NEW e \in Ext, BackfillOne(e)
      PROVE  old' = {} /\ \A x \in Ext : Announced(x)'
  BY <1>3, HandleAnnounces DEF BackfillOne
<1>4. CASE OnAlert
  <2>1. Head(wire) \in Ext
    BY <1>4 DEF OnAlert, Inv, TypeOK
  <2>2. QED
    BY <1>4, <2>1, HandleAnnounces DEF OnAlert
<1>5. CASE Announce
  <2>1. faults = 0 /\ UNCHANGED <<row, old>>
    BY <1>5 DEF Announce, table
  <2>2. ASSUME NEW e \in Ext PROVE Announced(e)'
    <3>1. Announced(e)
      BY <2>1 DEF AllAnnounced
    <3>2. CASE job = [ext |-> e, made |-> TRUE]
      <4>1. job.ext = e /\ job.made
        BY <3>2
      <4>2. pushed[e] = 0
        BY <4>1 DEF Inv, FirstIsUnpushed
      <4>3. pushed' = [pushed EXCEPT ![e] = @ + 1]
        BY <1>5, <4>1 DEF Announce
      <4>4. pushed'[e] = 1
        BY <4>2, <4>3 DEF Inv, TypeOK
      <4>5. QED
        BY <4>4 DEF Announced
    <3>3. CASE pushed[e] = 1
      <4>1. job.made => job.ext # e
        BY <3>3 DEF Inv, FirstIsUnpushed
      <4>2. pushed'[e] = pushed[e]
        BY <1>5, <4>1 DEF Announce, Inv, TypeOK
      <4>3. QED
        BY <3>3, <4>2 DEF Announced
    <3>4. CASE row[e] = "none"
      BY <2>1, <3>4 DEF Announced
    <3>5. QED
      BY <3>1, <3>2, <3>3, <3>4 DEF Announced
  <2>3. QED
    BY <2>1, <2>2 DEF AllAnnounced
<1>6. ASSUME NEW e \in Ext, ReconcileResolve(e) \/ ResolveInApp(e)
      PROVE  old' = {} /\ \A x \in Ext : Announced(x)'
  <2>1. Resolve(e) /\ row[e] # "none" /\ UNCHANGED <<job, pushed, faults>>
    BY <1>6 DEF ReconcileResolve, ResolveInApp, ToResolve
  <2>2. QED
    BY <2>1 DEF Resolve, AllAnnounced, Announced, Inv, TypeOK
<1>7. CASE Prune
  BY <1>7 DEF Prune, AllAnnounced
<1>8. QED
  BY <1>1, <1>2, <1>3, <1>4, <1>5, <1>6, <1>7
  DEF Next, vars, table, Run, Reconcile, Fire, Dismiss, Pin, Backfill, BackfillDone, Open,
      Reconnect, BackfillFails, StreamEnds, HandleFails, ReconcileList, ReconcileActive,
      ReconcileDone, ReconcileFails, Age, Marked, MarkFails, Crash

\* As long as nothing fails and nothing grows old, every row the feed makes is
\* announced, exactly once, or is about to be: neither the reconcile goroutine nor the
\* app can take a first sighting away (internal/dashboard/dashboard.go, handle).
THEOREM RowsAreAnnounced == Spec => []AllAnnounced
<1> DEFINE I == Inv /\ ToResolve /\ AllAnnounced
<1>1. Init => I
  BY InitTyped DEF Init, NoJob, Inv, FirstIsUnpushed, PushedOnce, ToResolve, AllAnnounced, Announced
<1>2. I /\ [Next]_vars => I'
  BY StepTyped, StepPushed, StepKept, StepAnnounced DEF Inv, Kept
<1>3. I => AllAnnounced
  OBVIOUS
<1> HIDE DEF I
<1>4. QED
  BY <1>1, <1>2, <1>3, PTL DEF Spec

================================================================================
