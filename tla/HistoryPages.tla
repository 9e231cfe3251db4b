------------------------------ MODULE HistoryPages ------------------------------
(***************************************************************************)
(* The history as the app reads it: GET /v1/alerts, page after page        *)
(* (internal/api/server.go, listAlerts), over Store.List's filter, order   *)
(* and cursor (internal/store/store.go), while alerts come, change, are    *)
(* hidden from the reader and are deleted between two pages.               *)
(*                                                                         *)
(* Times are kept and compared as strings.  A tick is half a second:       *)
(* RFC3339Nano drops the fraction of a whole second, and the Z that ends   *)
(* it sorts after the point that begins a fraction, so in the order of the *)
(* strings the two ticks of a second change places.  Ids (UUIDs) are       *)
(* numbers, which have an order too.                                       *)
(*                                                                         *)
(* A page is one SELECT.  Who hides, closes and refreshes alerts, and in   *)
(* what steps, is SensorAlerts' and PersonalHistory's subject: here each   *)
(* is a change of a row, at any time.                                      *)
(***************************************************************************)
EXTENDS Integers, FiniteSets

CONSTANTS
    Alerts,       \* alert ids
    KindOf,       \* KindOf[a], SourceOf[a]: what alert a is about
    SourceOf,
    Filters,      \* the listings asked for: see Filter
    Requested,    \* the values of limit asked for
    DefaultLimit, \* defaultListLimit
    MaxLimit,     \* maxListLimit
    MaxTime,      \* bound: the clock stops there
    MaxChanges    \* bound: changes of rows, and walks

NoTime == -1
Times == 0 .. MaxTime

Filter ==
    [status : {"any", "active", "closed"},
     kinds : SUBSET {KindOf[a] : a \in Alerts}, sources : SUBSET {SourceOf[a] : a \in Alerts},
     since : Times \cup {NoTime}, from : Times \cup {NoTime}, to : Times \cup {NoTime},
     mine : BOOLEAN]

ASSUME HistoryPagesAssumption ==
    /\ Alerts \subseteq Nat
    /\ IsFiniteSet(Alerts)
    /\ Filters \subseteq Filter
    /\ Requested \subseteq Int
    /\ DefaultLimit \in Nat \ {0}
    /\ MaxLimit \in Nat
    /\ MaxTime \in Nat
    /\ MaxChanges \in Nat

VARIABLES
    status,     \* status[a]: "none" without a row, "closed" for every closed status
    updated,    \* alerts.updated_at
    started,    \* alerts.started_at
    hidden,     \* the reader's hidden_alerts
    clock,
    walk,       \* the listing: its filter, page size and cursor
    seen,       \* seen[a]: how often the walk's pages held a
    steady,     \* history: listed when the walk began, and not changed since
    changes

rows == <<status, updated, started, hidden>>
vars == <<rows, clock, walk, seen, steady, changes>>

NoCursor == [at |-> NoTime, id |-> 0]
Cursor == [at : Times, id : Alerts]

TypeOK ==
    /\ status \in [Alerts -> {"none", "active", "closed"}]
    /\ updated \in [Alerts -> Times]
    /\ started \in [Alerts -> Times]
    /\ hidden \in SUBSET Alerts
    /\ clock \in Times
    /\ \/ walk = [pc |-> "idle"]
       \/ walk \in [pc : {"next", "done"}, filter : Filters, requested : Requested,
                    cursor : Cursor \cup {NoCursor}]
    /\ seen \in [Alerts -> Nat]
    /\ steady \in SUBSET Alerts
    /\ changes \in Nat

Init ==
    /\ status = [a \in Alerts |-> "none"]
    /\ updated = [a \in Alerts |-> 0]
    /\ started = [a \in Alerts |-> 0]
    /\ hidden = {}
    /\ clock = 0
    /\ walk = [pc |-> "idle"]
    /\ seen = [a \in Alerts |-> 0]
    /\ steady = {}
    /\ changes = 0

--------------------------------------------------------------------------------
(* Store.List.                                                             *)

Second(t) == t \div 2

\* The place of t's string among the strings of all times.
FmtTime(t) == IF t % 2 = 0 THEN t + 1 ELSE t - 1

About(f, a) ==
    \/ f.kinds = {} /\ f.sources = {}
    \/ KindOf[a] \in f.kinds
    \/ SourceOf[a] \in f.sources

\* The range without the clause for alerts that are still active.
InRangeIfUpdated(f, a) ==
    /\ f.from # NoTime => FmtTime(updated[a]) >= FmtTime(f.from)
    /\ f.to # NoTime => FmtTime(started[a]) <= FmtTime(f.to)

InRange(f, a) ==
    /\ f.from # NoTime => FmtTime(updated[a]) >= FmtTime(f.from) \/ status[a] = "active"
    /\ f.to # NoTime => FmtTime(started[a]) <= FmtTime(f.to)

Matches(f, a) ==
    /\ status[a] # "none"
    /\ f.status \in {"any", status[a]}
    /\ About(f, a)
    /\ InRange(f, a)
    /\ f.since # NoTime => FmtTime(updated[a]) > FmtTime(f.since)
    /\ f.mine => a \notin hidden

\* The cursor's condition with the time alone.
AfterTime(a, c) == FmtTime(updated[a]) < FmtTime(c.at)

\* Row a sorts after the cursor: it was updated earlier, or at the same time
\* and has a smaller id.
After(a, c) ==
    \/ FmtTime(updated[a]) < FmtTime(c.at)
    \/ FmtTime(updated[a]) = FmtTime(c.at) /\ a < c.id

\* The cursor without the id.
CursorByTime(a) == [at |-> updated[a], id |-> 0]

\* CursorAfter.
CursorAt(a) == [at |-> updated[a], id |-> a]

\* The rows that match and sort after the cursor.
Left(f, c) == {a \in Alerts : Matches(f, a) /\ (c = NoCursor \/ After(a, c))}

\* The page size for a limit asked for.
ListLimit(n) == IF n <= 0 \/ n > MaxLimit THEN DefaultLimit ELSE n

\* ORDER BY updated_at DESC, id DESC: row b sorts after row a.
SortsAfter(b, a) ==
    \/ FmtTime(updated[b]) < FmtTime(updated[a])
    \/ updated[b] = updated[a] /\ b < a

\* LIMIT n: the n rows that sort first, or all.
Pages(set, n) ==
    {P \in SUBSET set :
        /\ Cardinality(P) = IF Cardinality(set) <= n THEN Cardinality(set) ELSE n
        /\ \A a \in P, b \in set \ P : SortsAfter(b, a)}

--------------------------------------------------------------------------------
(* The reader.                                                             *)

\* The first request of a listing; a "to" before "from" is refused.
Start(f, n) ==
    /\ changes < MaxChanges
    /\ f.from # NoTime /\ f.to # NoTime => f.to >= f.from
    /\ walk' = [pc |-> "next", filter |-> f, requested |-> n, cursor |-> NoCursor]
    /\ seen' = [a \in Alerts |-> 0]
    /\ steady' = Left(f, NoCursor)
    /\ changes' = changes + 1
    /\ UNCHANGED <<rows, clock>>

\* A full page has a next_cursor.
Full(P, n) == P # {} /\ Cardinality(P) = ListLimit(n)

\* listAlerts: one page, and the cursor of its last row if it is full.
Page ==
    /\ walk.pc = "next"
    /\ \E P \in Pages(Left(walk.filter, walk.cursor), ListLimit(walk.requested)) :
         /\ seen' = [a \in Alerts |-> IF a \in P THEN seen[a] + 1 ELSE seen[a]]
         /\ IF Full(P, walk.requested)
            THEN \E last \in P :
                   /\ \A a \in P \ {last} : SortsAfter(last, a)
                   /\ walk' = [walk EXCEPT !.cursor = CursorAt(last)]
            ELSE walk' = [walk EXCEPT !.pc = "done"]
    /\ UNCHANGED <<rows, clock, steady, changes>>

--------------------------------------------------------------------------------
(* What happens to the rows meanwhile.                                     *)

Change(a) ==
    /\ changes < MaxChanges
    /\ changes' = changes + 1
    /\ steady' = steady \ {a}
    /\ UNCHANGED <<clock, walk, seen>>

\* An alert is inserted: Marshal's message brings its own time, older if it waited;
\* one from the dashboard the time it fired, but it is updated now; a review is
\* inserted with the time it is, and may be over already.
Fire(a, start, at, s) ==
    /\ status[a] = "none"
    /\ start < at => at = clock
    /\ s = "closed" => start = clock
    /\ status' = [status EXCEPT ![a] = s]
    /\ updated' = [updated EXCEPT ![a] = at]
    /\ started' = [started EXCEPT ![a] = start]
    /\ Change(a)
    /\ UNCHANGED hidden

\* A repeat, a closing, or a late message about a closed alert, which stays closed.
Touch(a, at, s) ==
    /\ status[a] # "none"
    /\ status[a] = "closed" => s = "closed"
    /\ status' = [status EXCEPT ![a] = s]
    /\ updated' = [updated EXCEPT ![a] = at]
    /\ Change(a)
    /\ UNCHANGED <<started, hidden>>

\* SetHidden, ClearHidden.
Hide(a) ==
    /\ status[a] # "none"
    /\ hidden' = IF a \in hidden THEN hidden \ {a} ELSE hidden \cup {a}
    /\ Change(a)
    /\ UNCHANGED <<status, updated, started>>

\* Retention deletes the row, and its hidden rows with it.
Prune(a) ==
    /\ status[a] # "none"
    /\ status' = [status EXCEPT ![a] = "none"]
    /\ updated' = [updated EXCEPT ![a] = 0]
    /\ started' = [started EXCEPT ![a] = 0]
    /\ hidden' = hidden \ {a}
    /\ Change(a)

Tick ==
    /\ clock < MaxTime
    /\ clock' = clock + 1
    /\ UNCHANGED <<rows, walk, seen, steady, changes>>

RowChanges(a) ==
    \/ \E at \in 0 .. clock, s \in {"active", "closed"} :
         \/ \E start \in 0 .. at : Fire(a, start, at, s)
         \/ Touch(a, at, s)
    \/ Hide(a)
    \/ Prune(a)

Next ==
    \/ \E f \in Filters, n \in Requested : Start(f, n)
    \/ Page
    \/ \E a \in Alerts : RowChanges(a)
    \/ Tick

Spec == Init /\ [][Next]_vars

--------------------------------------------------------------------------------

\* README.md 128-130: a listing holds every alert it is about exactly once,
\* ties in time and page boundaries included, whatever happens to other alerts
\* between its pages: no steady alert is skipped or repeated.
PagesComplete == walk.pc = "done" => \A a \in steady : seen[a] = 1

\* README.md 104-126: what a listing with these parameters is about, in time
\* and not in strings.
Documented(f, a) ==
    /\ status[a] # "none"
    /\ f.status \in {"any", status[a]}
    /\ \/ f.kinds = {} /\ f.sources = {}
       \/ KindOf[a] \in f.kinds
       \/ SourceOf[a] \in f.sources
    /\ f.from # NoTime => updated[a] >= f.from \/ status[a] = "active"
    /\ f.to # NoTime => started[a] <= f.to
    /\ f.since # NoTime => updated[a] > f.since
    /\ f.mine => a \notin hidden

\* Strings stand in for times to the second: a listing differs from what is
\* documented only about an alert whose own second a bound falls in
\* (store.go 623, README.md 123-126).
RightToTheSecond ==
    walk.pc # "idle" =>
        \A a \in Alerts :
            LET f == walk.filter
                near(t, bound) == bound # NoTime /\ Second(t) = Second(bound)
            IN  (Matches(f, a) # Documented(f, a)) =>
                    near(updated[a], f.from) \/ near(started[a], f.to) \/ near(updated[a], f.since)
================================================================================
