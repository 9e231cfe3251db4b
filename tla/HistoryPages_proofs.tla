--------------------------- MODULE HistoryPages_proofs ---------------------------
(***************************************************************************)
(* Proofs, for any alerts, filters and page sizes, that a listing skips    *)
(* and repeats no alert that stayed as it was, and that comparing the      *)
(* strings of times errs within a second only.                             *)
(***************************************************************************)
EXTENDS HistoryPages, FiniteSetTheorems, TLAPS

\* A page holds at least one alert.
LEMMA LimitPositive == ASSUME NEW n \in Int PROVE ListLimit(n) \in Nat \ {0}
BY HistoryPagesAssumption DEF ListLimit

\* Times have integers for places, and different ones if they differ.
LEMMA PlaceOfTime ==
  ASSUME NEW t \in Times, NEW u \in Times
  PROVE  FmtTime(t) \in Int /\ (FmtTime(t) = FmtTime(u) => t = u)
BY HistoryPagesAssumption DEF Times, FmtTime

\* Times in different seconds are ordered as their strings are.
LEMMA SecondsApart ==
  ASSUME NEW t \in Times, NEW u \in Times, Second(t) # Second(u)
  PROVE  /\ FmtTime(t) >= FmtTime(u) <=> t >= u
         /\ FmtTime(t) <= FmtTime(u) <=> t <= u
         /\ FmtTime(t) > FmtTime(u) <=> t > u
BY HistoryPagesAssumption DEF Times, FmtTime, Second

\* The rows that match are alerts, finitely many.
LEMMA LeftFinite ==
  ASSUME NEW f, NEW c PROVE Left(f, c) \subseteq Alerts /\ IsFiniteSet(Left(f, c))
BY HistoryPagesAssumption, FS_Subset DEF Left

--------------------------------------------------------------------------------

\* The type invariant is true at first.
LEMMA InitTyped == Init => TypeOK
BY HistoryPagesAssumption DEF Init, TypeOK, Times

\* A page keeps the types: its cursor is an alert's.
LEMMA PageTyped == TypeOK /\ Page => TypeOK'
<1> SUFFICES ASSUME TypeOK, Page PROVE TypeOK'
  OBVIOUS
<1>1. PICK P \in Pages(Left(walk.filter, walk.cursor), ListLimit(walk.requested)) :
        /\ seen' = [a \in Alerts |-> IF a \in P THEN seen[a] + 1 ELSE seen[a]]
        /\ IF Full(P, walk.requested)
           THEN \E last \in P :
                  /\ \A a \in P \ {last} : SortsAfter(last, a)
                  /\ walk' = [walk EXCEPT !.cursor = CursorAt(last)]
           ELSE walk' = [walk EXCEPT !.pc = "done"]
  BY DEF Page
<1>2. P \subseteq Alerts
  BY <1>1, LeftFinite DEF Pages
<1>3. walk \in [pc : {"next", "done"}, filter : Filters, requested : Requested,
                cursor : Cursor \cup {NoCursor}]
  BY DEF TypeOK, Page
<1>4. walk' \in [pc : {"next", "done"}, filter : Filters, requested : Requested,
                 cursor : Cursor \cup {NoCursor}]
  <2>1. ASSUME NEW last \in P PROVE CursorAt(last) \in Cursor
    BY <1>2 DEF CursorAt, Cursor, TypeOK
  <2>2. QED
    BY <1>1, <1>3, <2>1
<1>5. seen' \in [Alerts -> Nat]
  BY <1>1 DEF TypeOK
<1>6. QED
  BY <1>4, <1>5 DEF Page, TypeOK, rows

\* Each step keeps the type invariant.
LEMMA StepTyped == TypeOK /\ [Next]_vars => TypeOK'
<1> SUFFICES ASSUME TypeOK, [Next]_vars PROVE TypeOK'
  OBVIOUS
<1>1. ASSUME NEW f \in Filters, NEW n \in Requested, Start(f, n) PROVE TypeOK'
  <2>1. steady' \subseteq Alerts
    BY <1>1, LeftFinite DEF Start
  <2>2. walk' \in [pc : {"next", "done"}, filter : Filters, requested : Requested,
                   cursor : Cursor \cup {NoCursor}]
    BY <1>1 DEF Start
  <2>3. QED
    BY <1>1, <2>1, <2>2 DEF Start, TypeOK, rows
<1>2. CASE Page
  BY <1>2, PageTyped
<1>3. ASSUME NEW a \in Alerts, RowChanges(a) PROVE TypeOK'
  <2>1. \A at \in 0 .. clock : at \in Times
    BY HistoryPagesAssumption DEF TypeOK, Times
  <2>2. ASSUME NEW at \in 0 .. clock, NEW start \in 0 .. at, NEW s \in {"active", "closed"},
               Fire(a, start, at, s)
        PROVE  TypeOK'
    <3>1. start \in Times
      BY HistoryPagesAssumption DEF TypeOK, Times
    <3>2. QED
      BY <2>1, <2>2, <3>1 DEF Fire, Change, TypeOK
  <2>3. ASSUME NEW at \in 0 .. clock, NEW s \in {"active", "closed"}, Touch(a, at, s) PROVE TypeOK'
    BY <2>1, <2>3 DEF Touch, Change, TypeOK
  <2>4. CASE Hide(a)
    BY <2>4 DEF Hide, Change, TypeOK
  <2>5. CASE Prune(a)
    <3>1. 0 \in Times
      BY HistoryPagesAssumption DEF Times
    <3>2. QED
      BY <2>5, <3>1 DEF Prune, Change, TypeOK
  <2>6. QED
    BY <1>3, <2>2, <2>3, <2>4, <2>5 DEF RowChanges
<1>4. CASE Tick
  BY <1>4, HistoryPagesAssumption DEF Tick, TypeOK, Times, rows
<1>5. CASE UNCHANGED vars
  BY <1>5 DEF vars, rows, TypeOK
<1>6. QED
  BY <1>1, <1>2, <1>3, <1>4, <1>5 DEF Next

\* Every variable of HistoryPages keeps its type: a cursor is an alert's place
\* in the listing, or there is none (store.go, Cursor).
THEOREM TypeCorrect == Spec => []TypeOK
<1> QED
  BY InitTyped, StepTyped, PTL DEF Spec

--------------------------------------------------------------------------------
(* The pages.  A steady alert matches the filter; while the listing goes   *)
(* on it has been seen once if the cursor is past it, else not yet.        *)

\* How often the listing should have held steady alert a so far.
SeenRight(a) ==
    /\ Matches(walk.filter, a)
    /\ walk.pc = "next" => seen[a] = IF a \in Left(walk.filter, walk.cursor) THEN 0 ELSE 1
    /\ walk.pc = "done" => seen[a] = 1

Walking == walk.pc # "idle" => \A a \in steady : SeenRight(a)

\* The first page starts with every steady alert ahead.
LEMMA StartWalks ==
  ASSUME TypeOK, NEW f \in Filters, NEW n \in Requested, Start(f, n)
  PROVE  Walking'
<1>1. /\ walk'.pc = "next" /\ walk'.filter = f /\ walk'.cursor = NoCursor
      /\ steady' = Left(f, NoCursor)
      /\ seen' = [a \in Alerts |-> 0]
      /\ UNCHANGED rows
  BY DEF Start
<1>2. ASSUME NEW a \in steady' PROVE a \in Alerts /\ Matches(f, a)
  BY <1>1 DEF Left
<1>3. ASSUME NEW a \in steady' PROVE Matches(f, a)'
  BY <1>1, <1>2 DEF Matches, About, InRange, rows
<1>4. ASSUME NEW a \in steady' PROVE a \in Left(f, NoCursor)'
  BY <1>1, <1>2, <1>3 DEF Left
<1>5. QED
  BY <1>1, <1>2, <1>3, <1>4 DEF Walking, SeenRight

\* What is after an alert that is after the cursor is after the cursor.
LEMMA AfterTransitive ==
  ASSUME TypeOK, NEW a \in Alerts, NEW b \in Alerts, NEW c \in Cursor,
         After(a, CursorAt(b)), After(b, c)
  PROVE  After(a, c)
<1>1. updated[a] \in Times /\ updated[b] \in Times /\ c.at \in Times /\ c.id \in Alerts
  BY DEF TypeOK, Cursor
<1>2. FmtTime(updated[a]) \in Int /\ FmtTime(updated[b]) \in Int /\ FmtTime(c.at) \in Int
  BY <1>1, PlaceOfTime
<1>3. a \in Nat /\ b \in Nat /\ c.id \in Nat
  BY <1>1, HistoryPagesAssumption
<1>4. QED
  BY <1>2, <1>3 DEF After, CursorAt

\* An alert that the page holds is not after its last one; one it does not
\* hold, and that sorts after it, is.
LEMMA CursorSplits ==
  ASSUME TypeOK, NEW a \in Alerts, NEW b \in Alerts
  PROVE  /\ ~After(a, CursorAt(a))
         /\ SortsAfter(b, a) => ~After(a, CursorAt(b)) /\ After(b, CursorAt(a))
<1>1. updated[a] \in Times /\ updated[b] \in Times
  BY DEF TypeOK
<1>2. FmtTime(updated[a]) \in Int /\ FmtTime(updated[b]) \in Int
  BY <1>1, PlaceOfTime
<1>3. a \in Nat /\ b \in Nat
  BY HistoryPagesAssumption
<1>4. QED
  BY <1>2, <1>3 DEF After, CursorAt, SortsAfter

\* A page that is not full holds all that was left.
LEMMA LastPage ==
  ASSUME NEW f, NEW c, NEW n \in Int, NEW P \in Pages(Left(f, c), ListLimit(n)), ~Full(P, n)
  PROVE  P = Left(f, c)
<1> DEFINE L == Left(f, c)
           k == ListLimit(n)
<1>1. IsFiniteSet(L) /\ P \subseteq L /\ IsFiniteSet(P)
  BY LeftFinite, FS_Subset DEF Pages
<1>2. k \in Nat \ {0}
  BY LimitPositive
<1>3. Cardinality(P) = IF Cardinality(L) <= k THEN Cardinality(L) ELSE k
  BY DEF Pages
<1>4. Cardinality(L) \in Nat /\ Cardinality(P) \in Nat
  BY <1>1, FS_CardinalityType
<1>5. CASE Cardinality(L) <= k
  BY <1>1, <1>3, <1>5, FS_Subset
<1>6. CASE ~(Cardinality(L) <= k)
  <2>1. Cardinality(P) = k
    BY <1>3, <1>6
  <2>2. P # {}
    BY <1>2, <2>1, FS_EmptySet
  <2>3. QED
    BY <2>1, <2>2 DEF Full
<1>7. QED
  BY <1>5, <1>6

\* A page keeps count of the steady alerts.
LEMMA PageWalks == TypeOK /\ Walking /\ Page => Walking'
<1> SUFFICES ASSUME TypeOK, Walking, Page PROVE Walking'
  OBVIOUS
<1> DEFINE f == walk.filter
           c == walk.cursor
           n == walk.requested
<1>1. PICK P \in Pages(Left(f, c), ListLimit(n)) :
        /\ seen' = [a \in Alerts |-> IF a \in P THEN seen[a] + 1 ELSE seen[a]]
        /\ IF Full(P, n)
           THEN \E last \in P :
                  /\ \A a \in P \ {last} : SortsAfter(last, a)
                  /\ walk' = [walk EXCEPT !.cursor = CursorAt(last)]
           ELSE walk' = [walk EXCEPT !.pc = "done"]
  BY DEF Page
<1>2. walk \in [pc : {"next", "done"}, filter : Filters, requested : Requested,
                cursor : Cursor \cup {NoCursor}] /\ walk.pc = "next"
  BY DEF TypeOK, Page
<1>3. UNCHANGED rows /\ UNCHANGED steady /\ steady \subseteq Alerts
  BY DEF Page, TypeOK
<1>4. P \subseteq Left(f, c) /\ P \subseteq Alerts
  BY LeftFinite DEF Pages
<1>5. ASSUME NEW a \in steady
      PROVE  /\ a \in Alerts /\ Matches(f, a) /\ Matches(f, a)'
             /\ seen[a] = IF a \in Left(f, c) THEN 0 ELSE 1
             /\ seen'[a] = IF a \in P THEN seen[a] + 1 ELSE seen[a]
  <2>1. a \in Alerts /\ Matches(f, a) /\ seen[a] = IF a \in Left(f, c) THEN 0 ELSE 1
    BY <1>2, <1>3 DEF Walking, SeenRight
  <2>2. Matches(f, a)'
    <3>1. status' = status /\ updated' = updated /\ started' = started /\ hidden' = hidden
      BY <1>3 DEF rows
    <3>2. f' = f
      BY <1>1, <1>2
    <3>3. QED
      BY <2>1, <3>1, <3>2 DEF Matches, About, InRange
  <2>3. QED
    BY <1>1, <2>1, <2>2
<1>6. CASE ~Full(P, n)
  <2>1. n \in Int
    BY <1>2, HistoryPagesAssumption
  <2>2. P = Left(f, c)
    BY <1>6, <2>1, LastPage
  <2>3. walk'.pc = "done" /\ f' = f
    BY <1>1, <1>2, <1>6
  <2>4. ASSUME NEW a \in steady' PROVE SeenRight(a)'
    BY <1>3, <1>5, <2>2, <2>3 DEF SeenRight
  <2>5. QED
    BY <2>4 DEF Walking
<1>7. CASE Full(P, n)
  <2>1. PICK last \in P :
          /\ \A a \in P \ {last} : SortsAfter(last, a)
          /\ walk' = [walk EXCEPT !.cursor = CursorAt(last)]
    BY <1>1, <1>7
  <2>2. walk'.pc = "next" /\ f' = f /\ c' = CursorAt(last) /\ last \in Alerts
    BY <1>2, <1>4, <2>1
  <2>3. CursorAt(last) # NoCursor
    BY <2>2, HistoryPagesAssumption DEF CursorAt, NoCursor, NoTime, TypeOK, Times
  <2>4. ASSUME NEW a \in steady
        PROVE  (a \in Left(f, c))' <=> After(a, CursorAt(last))
    <3>1. (a \in Left(f, c))' <=> (Matches(f, a)' /\ (c' = NoCursor \/ After(a, c)'))
      BY <1>5 DEF Left
    <3>2. After(a, c)' <=> After(a, CursorAt(last))
      BY <1>3, <2>2 DEF After, rows
    <3>3. QED
      BY <1>5, <2>2, <2>3, <3>1, <3>2
  <2>5. ASSUME NEW a \in steady
        PROVE  seen'[a] = IF After(a, CursorAt(last)) THEN 0 ELSE 1
    <3>1. CASE a \in P
      <4>1. ~After(a, CursorAt(last))
        BY <1>5, <2>1, <2>2, <3>1, CursorSplits
      <4>2. QED
        BY <1>4, <1>5, <3>1, <4>1
    <3>2. CASE a \notin P /\ a \in Left(f, c)
      <4>1. SortsAfter(a, last)
        BY <3>2 DEF Pages
      <4>2. After(a, CursorAt(last))
        BY <1>5, <2>2, <4>1, CursorSplits
      <4>3. QED
        BY <1>5, <3>2, <4>2
    <3>3. CASE a \notin Left(f, c)
      <4>1. c # NoCursor /\ ~After(a, c)
        BY <1>5, <3>3 DEF Left
      <4>2. c \in Cursor
        BY <1>2, <4>1
      <4>3. After(last, c)
        BY <1>4, <4>1 DEF Left
      <4>4. ~After(a, CursorAt(last))
        BY <1>5, <2>2, <4>1, <4>2, <4>3, AfterTransitive
      <4>5. QED
        BY <1>4, <1>5, <3>3, <4>4
    <3>4. QED
      BY <3>1, <3>2, <3>3
  <2>6. ASSUME NEW a \in steady' PROVE SeenRight(a)'
    <3>1. a \in steady
      BY <1>3
    <3>2. Matches(f, a)'
      BY <1>5, <3>1
    <3>3. (walk.pc = "next" => seen[a] = IF a \in Left(f, c) THEN 0 ELSE 1)'
      BY <2>4, <2>5, <3>1
    <3>4. QED
      BY <2>2, <3>2, <3>3 DEF SeenRight
  <2>7. QED
    BY <2>6 DEF Walking
<1>8. QED
  BY <1>6, <1>7

\* A change of one alert leaves the count of the others as it is.
LEMMA ChangeWalks ==
  ASSUME TypeOK, Walking, NEW a \in Alerts, RowChanges(a)
  PROVE  Walking'
<1>1. /\ steady' = steady \ {a} /\ walk' = walk /\ seen' = seen
      /\ \A b \in Alerts \ {a} : /\ status'[b] = status[b] /\ updated'[b] = updated[b]
                                 /\ started'[b] = started[b] /\ (b \in hidden' <=> b \in hidden)
  BY DEF RowChanges, Fire, Touch, Hide, Prune, Change, TypeOK
<1>2. ASSUME NEW b \in steady', walk.pc # "idle" PROVE SeenRight(b)'
  <2>1. b \in Alerts \ {a} /\ SeenRight(b)
    BY <1>1, <1>2 DEF Walking, TypeOK
  <2>2. Matches(walk.filter, b)' <=> Matches(walk.filter, b)
    BY <1>1, <2>1 DEF Matches, About, InRange
  <2>3. (b \in Left(walk.filter, walk.cursor))' <=> b \in Left(walk.filter, walk.cursor)
    <3>1. After(b, walk.cursor)' <=> After(b, walk.cursor)
      BY <1>1, <2>1 DEF After
    <3>2. QED
      BY <1>1, <2>1, <2>2, <3>1 DEF Left
  <2>4. QED
    BY <1>1, <2>1, <2>2, <2>3 DEF SeenRight
<1>3. QED
  BY <1>1, <1>2 DEF Walking

\* A step that leaves the rows and the listing alone keeps the count.
LEMMA StutterWalks ==
  ASSUME Walking, UNCHANGED <<rows, walk, seen, steady>> PROVE Walking'
BY DEF Walking, SeenRight, Left, Matches, About, InRange, After, rows

\* A listing skips and repeats no alert that stays as it is, whatever happens
\* to the others between its pages (server.go, listAlerts; store.go, List).
THEOREM Complete == Spec => []PagesComplete
<1>1. Init => Walking
  BY DEF Init, Walking
<1>2. TypeOK /\ Walking /\ [Next]_vars => Walking'
  <2> SUFFICES ASSUME TypeOK, Walking, [Next]_vars PROVE Walking'
    OBVIOUS
  <2>1. CASE Tick \/ UNCHANGED vars
    BY <2>1, StutterWalks DEF Tick, vars
  <2>2. QED
    BY <2>1, StartWalks, PageWalks, ChangeWalks DEF Next
<1>3. Walking => PagesComplete
  BY DEF Walking, SeenRight, PagesComplete
<1>4. QED
  BY <1>1, <1>2, <1>3, TypeCorrect, PTL DEF Spec

\* Comparing strings for times errs only about an alert whose own second a
\* bound falls in (store.go 623).
THEOREM ToTheSecond == Spec => []RightToTheSecond
<1>1. TypeOK => RightToTheSecond
  <2> SUFFICES ASSUME TypeOK, walk.pc # "idle", NEW a \in Alerts,
                      Matches(walk.filter, a) # Documented(walk.filter, a)
               PROVE  \/ walk.filter.from # NoTime /\ Second(updated[a]) = Second(walk.filter.from)
                      \/ walk.filter.to # NoTime /\ Second(started[a]) = Second(walk.filter.to)
                      \/ walk.filter.since # NoTime /\ Second(updated[a]) = Second(walk.filter.since)
    BY DEF RightToTheSecond
  <2> DEFINE f == walk.filter
  <2>1. f \in Filter
    BY HistoryPagesAssumption DEF TypeOK
  <2>2. updated[a] \in Times /\ started[a] \in Times
    BY DEF TypeOK
  <2>3. f.from \in Times \cup {NoTime} /\ f.to \in Times \cup {NoTime} /\ f.since \in Times \cup {NoTime}
    BY <2>1 DEF Filter
  <2>4. SUFFICES ASSUME f.from # NoTime => Second(updated[a]) # Second(f.from),
                        f.to # NoTime => Second(started[a]) # Second(f.to),
                        f.since # NoTime => Second(updated[a]) # Second(f.since)
                 PROVE  FALSE
    OBVIOUS
  <2>5. f.from # NoTime => (FmtTime(updated[a]) >= FmtTime(f.from) <=> updated[a] >= f.from)
    BY <2>2, <2>3, <2>4, SecondsApart
  <2>6. f.to # NoTime => (FmtTime(started[a]) <= FmtTime(f.to) <=> started[a] <= f.to)
    BY <2>2, <2>3, <2>4, SecondsApart
  <2>7. f.since # NoTime => (FmtTime(updated[a]) > FmtTime(f.since) <=> updated[a] > f.since)
    BY <2>2, <2>3, <2>4, SecondsApart
  <2>8. Matches(f, a) <=> Documented(f, a)
    BY <2>5, <2>6, <2>7 DEF Matches, Documented, About, InRange
  <2>9. QED
    BY <2>8 DEF Matches, Documented
<1>2. QED
  BY <1>1, TypeCorrect, PTL
================================================================================
