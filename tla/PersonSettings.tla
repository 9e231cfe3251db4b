----------------------------- MODULE PersonSettings -----------------------------
(***************************************************************************)
(* The settings a person has in sentinel: mutes, the policy of a source    *)
(* and quiet hours.  A request (internal/api/rules.go and sources.go) is a *)
(* sequence of statements on one SQLite connection                         *)
(* (internal/store/store.go), and those of several requests interleave.    *)
(* Answering about mutes deletes the expired ones on the way; a partial    *)
(* update reads the whole row, changes a field and writes all of it back.  *)
(* At every start Adopt (main.go) hands what the single-person server had  *)
(* to the owner, once.                                                     *)
(*                                                                         *)
(* A request ends early when its client goes away or a statement fails.    *)
(***************************************************************************)
EXTENDS Naturals, Sequences

CONSTANTS
    People,     \* the persons of the configuration
    Owner,      \* the first of them
    Keys,       \* what can be muted: source ids, and kind:<kind>
    Requests,   \* requests under way at a time
    MaxTime,    \* bound: the clock
    MaxOps,     \* bound: requests in all
    MaxFaults   \* bound: restarts and failed reads

ASSUME PersonSettingsAssumption ==
    /\ Owner \in People
    /\ MaxTime \in Nat
    /\ MaxOps \in Nat
    /\ MaxFaults \in Nat

VARIABLES
    up,         \* the server serves
    now,
    legacy,     \* what the single-person server left: a mute per key, a row per document
    adopted,    \* settings holds the marker people_adopted
    mutes,      \* person_mutes: mutes[p][k] is when it ends, Forever, or None
    rows,       \* person_policies, person_settings: rows[p][d]
    req,        \* req[q]: a request
    want,       \* history: want[p][d], the fields as p last set them
    crossed,    \* history: documents of which a change was written over
    raced,      \* history: mutes set again while a request was deleting the expired one
    ops,
    faults

history == <<want, crossed, raced>>
vars == <<up, now, legacy, adopted, mutes, rows, req, history, ops, faults>>

\* The times a mute may end; None is no mute.
None == 0
Forever == MaxTime + 1
Ends == 1 .. Forever

\* The documents updated in part, of two fields each.
Docs == {"policy", "quiet"}
Fields == {1, 2}
NoRow == <<>>
Row == {0, 1} \X {0, 1}
Default == <<0, 0>>

\* The statements of each request.
Plan(op) ==
    CASE op = "list" -> <<"select">>
      [] op = "mute rule" -> <<"set", "select">>
      [] op = "mute source" -> <<"select", "set", "select">>
      [] op = "unmute" -> <<"clear", "select">>
      [] op = "policy" -> <<"select", "read", "write", "select">>
      [] op = "quiet" -> <<"read", "write">>

\* The partial updates.
Updates == {"policy", "quiet"}

Ops == {"list", "mute rule", "mute source", "unmute"} \cup Updates

\* The document a request changes.
Doc(r) == IF r.op = "quiet" THEN "quiet" ELSE "policy"

Statements == {"select", "set", "clear", "read", "write"}

Request == [who : People, op : Ops, key : Keys, field : Fields, value : {0, 1},
            plan : Seq(Statements), dead : SUBSET Keys, copy : Row]

Free == [plan |-> <<>>]

TypeOK ==
    /\ up \in BOOLEAN
    /\ now \in 0 .. MaxTime
    /\ legacy \in [mutes : [Keys -> {None} \cup Ends], rows : [Docs -> {NoRow} \cup Row]]
    /\ adopted \in BOOLEAN
    /\ mutes \in [People -> [Keys -> {None} \cup Ends]]
    /\ rows \in [People -> [Docs -> {NoRow} \cup Row]]
    /\ req \in [Requests -> {Free} \cup Request]
    /\ up \/ \A q \in Requests : req[q] = Free
    /\ want \in [People -> [Docs -> Row]]
    /\ crossed \subseteq People \X Docs
    /\ raced \subseteq People \X Keys
    /\ ops \in Nat
    /\ faults \in Nat

Init ==
    /\ up = FALSE
    /\ now = 0
    /\ legacy \in [mutes : [Keys -> {None, Forever}], rows : [Docs -> {NoRow, <<1, 0>>}]]
    /\ adopted = FALSE
    /\ mutes = [p \in People |-> [k \in Keys |-> None]]
    /\ rows = [p \in People |-> [d \in Docs |-> NoRow]]
    /\ req = [q \in Requests |-> Free]
    /\ want = [p \in People |-> [d \in Docs |-> Default]]
    /\ crossed = {}
    /\ raced = {}
    /\ ops = 0
    /\ faults = 0

Fault == faults < MaxFaults /\ faults' = faults + 1

Tick ==
    /\ now < MaxTime
    /\ now' = now + 1
    /\ UNCHANGED <<up, legacy, adopted, mutes, rows, req, history, ops, faults>>

--------------------------------------------------------------------------------
(* Starting and stopping.                                                  *)

\* INSERT OR IGNORE: a row the owner has is kept.
OrIgnore(mine, old, empty) ==
    [x \in DOMAIN mine |-> IF mine[x] = empty THEN old[x] ELSE mine[x]]

\* Adopt, were there no marker.
AdoptAtEveryStart ==
    /\ mutes' = [mutes EXCEPT ![Owner] = OrIgnore(@, legacy.mutes, None)]
    /\ rows' = [rows EXCEPT ![Owner] = OrIgnore(@, legacy.rows, NoRow)]
    /\ adopted' = TRUE

\* One transaction copies what was there and sets the marker.
Adopt ==
    IF adopted
    THEN UNCHANGED <<mutes, rows, adopted>>
    ELSE /\ mutes' = [mutes EXCEPT ![Owner] = OrIgnore(@, legacy.mutes, None)]
         /\ rows' = [rows EXCEPT ![Owner] = OrIgnore(@, legacy.rows, NoRow)]
         /\ adopted' = TRUE

Start ==
    /\ ~up
    /\ up' = TRUE
    /\ Adopt
    /\ want' = IF adopted THEN want
               ELSE [want EXCEPT ![Owner] = [d \in Docs |-> IF legacy.rows[d] = NoRow THEN Default
                                                            ELSE legacy.rows[d]]]
    /\ UNCHANGED <<now, legacy, req, crossed, raced, ops, faults>>

Restart ==
    /\ up
    /\ Fault
    /\ up' = FALSE
    /\ req' = [q \in Requests |-> Free]
    /\ UNCHANGED <<now, legacy, adopted, mutes, rows, history, ops>>

--------------------------------------------------------------------------------
(* The requests.                                                           *)

\* p's request, before its first statement.
Begun(p, op, k, f, v) ==
    [who |-> p, op |-> op, key |-> k, field |-> f, value |-> v,
     plan |-> Plan(op), dead |-> {}, copy |-> Default]

Ask(q) ==
    /\ up
    /\ req[q] = Free
    /\ ops < MaxOps
    /\ ops' = ops + 1
    /\ \E p \in People, op \in Ops, k \in Keys, f \in Fields, v \in {0, 1} :
         /\ op \in Updates \/ (f = 1 /\ v = 0)
         /\ req' = [req EXCEPT ![q] = Begun(p, op, k, f, v)]
    /\ UNCHANGED <<up, now, legacy, adopted, mutes, rows, history, faults>>

\* q's next statement is s, and it has no expired mute left to delete.
At(q, s) ==
    /\ req[q] # Free
    /\ req[q].dead = {}
    /\ Head(req[q].plan) = s

\* r after its next statement; after the last one it is answered.
After(r) ==
    IF Len(r.plan) = 1 /\ r.dead = {} THEN Free ELSE [r EXCEPT !.plan = Tail(@)]

Proceeds(q, r) == req' = [req EXCEPT ![q] = After(r)]

\* Whether a clean-up takes an end for an expired one, in force or not.
ExpiredAnyway(end) == end # None

Expired(end) == end # None /\ end <= now

\* Mutes: the SELECT.
Select(q) ==
    /\ At(q, "select")
    /\ Proceeds(q, [req[q] EXCEPT !.dead = {k \in Keys : Expired(mutes[req[q].who][k])}])
    /\ UNCHANGED <<up, now, legacy, adopted, mutes, rows, history, ops, faults>>

\* DELETE ... WHERE person = who AND rule = k.
Deleted(who, k) == [mutes EXCEPT ![who][k] = None]

\* Mutes: the DELETEs, one by one.
DeleteExpired(q) ==
    /\ req[q] # Free
    /\ \E k \in req[q].dead :
         /\ mutes' = Deleted(req[q].who, k)
         /\ LET r == [req[q] EXCEPT !.dead = @ \ {k}] IN
            req' = [req EXCEPT ![q] = IF r.dead = {} /\ r.plan = <<>> THEN Free ELSE r]
    /\ UNCHANGED <<up, now, legacy, adopted, rows, history, ops, faults>>

\* SetMute, with an end that lay ahead when the body was read.
SetMute(q) ==
    /\ At(q, "set")
    /\ LET p == req[q].who
           k == req[q].key
       IN  /\ \E end \in {e \in Ends : e >= now} : mutes' = [mutes EXCEPT ![p][k] = end]
           /\ raced' = IF \E o \in Requests : req[o] # Free /\ req[o].who = p /\ k \in req[o].dead
                       THEN raced \cup {<<p, k>>} ELSE raced
    /\ Proceeds(q, req[q])
    /\ UNCHANGED <<up, now, legacy, adopted, rows, want, crossed, ops, faults>>

ClearMute(q) ==
    /\ At(q, "clear")
    /\ mutes' = Deleted(req[q].who, req[q].key)
    /\ Proceeds(q, req[q])
    /\ UNCHANGED <<up, now, legacy, adopted, rows, history, ops, faults>>

\* The row found, were none answered with no defaults.
StoredAsIs(r) == rows[r.who][Doc(r)]

Stored(r) == IF rows[r.who][Doc(r)] = NoRow THEN Default ELSE rows[r.who][Doc(r)]

\* GetPolicy, QuietHours.
Read(q) ==
    /\ At(q, "read")
    /\ Proceeds(q, [req[q] EXCEPT !.copy = Stored(req[q])])
    /\ UNCHANGED <<up, now, legacy, adopted, mutes, rows, history, ops, faults>>

\* The error of the read is ignored: the update starts from the defaults.
ReadFails(q) ==
    /\ At(q, "read")
    /\ Fault
    /\ Proceeds(q, [req[q] EXCEPT !.copy = Default])
    /\ crossed' = crossed \cup {<<req[q].who, Doc(req[q])>>}
    /\ UNCHANGED <<up, now, legacy, adopted, mutes, rows, want, raced, ops>>

\* An update that starts from the defaults.
ChangedFromDefault(r) == [Default EXCEPT ![r.field] = r.value]

\* The row a partial update writes.
Changed(r) == [r.copy EXCEPT ![r.field] = r.value]

\* SetPolicy, SetQuietHours.
Write(q) ==
    /\ At(q, "write")
    /\ LET r == req[q]
           d == Doc(req[q])
       IN  /\ rows' = [rows EXCEPT ![r.who][d] = Changed(r)]
           /\ want' = [want EXCEPT ![r.who][d] = [@ EXCEPT ![r.field] = r.value]]
           /\ crossed' = IF \E o \in Requests \ {q} : At(o, "write") /\ req[o].who = r.who /\ Doc(req[o]) = d
                         THEN crossed \cup {<<r.who, d>>} ELSE crossed
    /\ Proceeds(q, req[q])
    /\ UNCHANGED <<up, now, legacy, adopted, mutes, raced, ops, faults>>

\* A statement fails, or the client has gone away: no more statements.
Abandon(q) ==
    /\ req[q] # Free
    /\ req' = [req EXCEPT ![q] = Free]
    /\ UNCHANGED <<up, now, legacy, adopted, mutes, rows, history, ops, faults>>

Handler(q) ==
    \/ Select(q) \/ DeleteExpired(q)
    \/ SetMute(q) \/ ClearMute(q)
    \/ Read(q) \/ ReadFails(q) \/ Write(q)
    \/ Abandon(q)

Next ==
    \/ Tick
    \/ Start \/ Restart
    \/ \E q \in Requests : Ask(q) \/ Handler(q)

Spec == Init /\ [][Next]_vars

--------------------------------------------------------------------------------
(* Properties.                                                             *)

\* A change to one field of a policy or of quiet hours leaves the other as the
\* person last set it (or as it was adopted), unless two of the person's
\* updates crossed or the read failed (internal/api/sources.go, putPolicy,
\* putQuietHours), across people, documents and restarts.
FieldsKept ==
    \A p \in People, d \in Docs :
        \/ <<p, d>> \in crossed
        \/ rows[p][d] = want[p][d]
        \/ rows[p][d] = NoRow /\ want[p][d] = Default

\* The request that takes this step, of p, with k for its key.
Asked(p, k, s) == \E q \in Requests : At(q, s) /\ req[q].who = p /\ req[q].key = k /\ req'[q] # req[q]

\* A mute in force goes only because its person clears it, or, set again while
\* a request was deleting the expired one, with that request
\* (internal/store/store.go, Mutes).
MutesKept ==
    [][\A p \in People, k \in Keys :
        mutes[p][k] > now /\ mutes'[p][k] = None => Asked(p, k, "clear") \/ <<p, k>> \in raced]_vars

\* A person's mute is set by that person only, and Adopt brings nothing back
\* that the owner has cleared since (internal/store/store.go, Adopt).
MutesAreOnes ==
    [][\A p \in People, k \in Keys :
        mutes[p][k] # mutes'[p][k] /\ mutes'[p][k] # None =>
            Asked(p, k, "set") \/ (~adopted /\ p = Owner)]_vars
================================================================================
