----------------------------- MODULE MCHistoryPages -----------------------------
(* Three alerts of two kinds, and the listings worth asking for.             *)
EXTENDS HistoryPages

MCAlerts == 1 .. 3
MCKindOf == [a \in MCAlerts |-> IF a = 3 THEN "camera" ELSE "sensor"]
MCSourceOf == [a \in MCAlerts |-> IF a = 1 THEN "door" ELSE "yard"]

Everything ==
    [status |-> "any", kinds |-> {}, sources |-> {}, since |-> NoTime, from |-> NoTime,
     to |-> NoTime, mine |-> FALSE]

MCFilters ==
    {[Everything EXCEPT !.mine = TRUE],
     [Everything EXCEPT !.kinds = {"camera"}, !.sources = {"door"}, !.status = "active",
                        !.since = 1],
     [Everything EXCEPT !.from = 2, !.to = 2]}
================================================================================
