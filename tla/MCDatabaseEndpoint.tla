------------------------- MODULE MCDatabaseEndpoint -------------------------
(* Two plans, of which each may be closed complete or with evidence that   *)
(* validation refuses, and the fills that name one of them or both.        *)
EXTENDS DatabaseEndpoint

CONSTANTS p1, p2, o1, o2

Silent == [status |-> None, manager |-> {"core"}, execution |-> {"core"},
           requested |-> None, risk |-> None, gate |-> None]
Notes(v, s) ==
  [versions |-> [x \in {"scanner", "fundamental", "technical", "manager"} |-> v],
   statuses |-> [x \in {"scanner", "fundamental", "technical", "manager"} |-> s]]

MCRecord(p, o, status) ==
  [id |-> p, order |-> o, status |-> status, bucket |-> "core",
   approved |-> TRUE, priced |-> TRUE, stated |-> {}, contexts |-> <<Silent>>,
   gate |-> TRUE, class |-> "classified", classifier |-> "supported",
   direct |-> Notes(None, None), summary |-> Notes("supported", "allowed"),
   passed |-> TRUE, inputs |-> TRUE]

OrderOf == [p \in PlanIds |-> IF p = p1 THEN o1 ELSE o2]
MCOpened == [p \in PlanIds |-> MCRecord(p, OrderOf[p], "submitted")]
MCClosings ==
  [p \in PlanIds |-> { MCRecord(p, OrderOf[p], "filled") } \cup
     IF p = p1 THEN {}
     ELSE {[MCRecord(p, OrderOf[p], "filled") EXCEPT !.direct = Notes(None, "other")]}]

MCContent(p, t, o, v) == [plan |-> p, trade |-> t, order |-> o, pnl |-> v, est |-> 0]
MCContents == { MCContent(p1, None, o1, 9),
                MCContent(p2, None, o2, 31),
                MCContent(None, p1, o2, 22) }   \* claims p2, and p1 by trade id

\* Outcomes of one plan at a time and of both on one page.
MCQueries ==
  [endpoint : {"learning"}, limit : {1}, offset : {0, 1}]
    \cup [endpoint : {"learning"}, limit : {2}, offset : {0}]
    \cup [endpoint : {"summary", "summary_without_fills"}, limit : {1}, offset : {1}]
=============================================================================
