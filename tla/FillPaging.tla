----------------------------- MODULE FillPaging -----------------------------
(***************************************************************************)
(* DatabaseAgentClient.list_fills: one request reads an account's fills    *)
(* page by page, by offset, from a Database_Agent whose table other agents *)
(* keep writing to, and drops rows whose fill identity it has seen.        *)
(*                                                                         *)
(* Each pass through the `for row in rows` loop is a step, so that writes  *)
(* fall between any two of them; each HTTP exchange is one step, because   *)
(* the rows of a reply are those of the moment it is served.               *)
(***************************************************************************)
EXTENDS Integers, Sequences, FiniteSets

CONSTANTS
  ExternalIds,    \* values of fill_id / broker_fill_id / execution_id
  NoId,           \* the row carries none of the three
  Contents,       \* everything else a row says
  BadContents,    \* contents TradePlanFill's validation refuses
  Limit,          \* the caller's limit
  PageCap,        \* the 500 of min(limit, 500)
  DbPageMax,      \* most rows Database_Agent puts in one reply
  HonoursLimit,   \* Database_Agent applies the limit parameter
  HonoursOffset,  \* Database_Agent applies the offset parameter
  MaxTable,       \* bound: rows the table may hold
  MayInsert,      \* rows are inserted while the request runs
  MaxDeletes      \* bound: rows deleted while the request runs

ASSUME LimitsAssumption ==
  /\ Limit \in Nat \ {0}
  /\ PageCap \in Nat \ {0}
  /\ DbPageMax \in Nat \ {0}
  /\ MaxTable \in Nat
  /\ MaxDeletes \in Nat

ASSUME FlagsAssumption ==
  /\ HonoursLimit \in BOOLEAN
  /\ HonoursOffset \in BOOLEAN
  /\ MayInsert \in BOOLEAN

VARIABLES
  table,      \* Database_Agent's rows, in the order it lists them
  deletes,    \* history: rows deleted since the first reply
  pc,         \* where list_fills is
  offset,
  fills,
  seenIds,
  seenPages,
  page,       \* rows of the last reply
  i,          \* position of `for row in rows`
  asked,      \* history: limit parameter of the last request
  requests,   \* history: replies received, counted up to CountTo
  standing,   \* history: identities in the table ever since the first reply
  still       \* history: the table has not changed since the first reply

dbVars == <<table, deletes>>
readVars == <<offset, fills, seenIds, seenPages, page, i>>
histVars == <<asked, requests, standing, still>>
vars == <<table, deletes, pc, offset, fills, seenIds, seenPages, page, i,
          asked, requests, standing, still>>

Row == [ext : ExternalIds \cup {NoId}, content : Contents]

\* An external id wins; without one the whole content is the identity.
FillIdentity(r) ==
  IF r.ext # NoId THEN <<"external_fill_id", r.ext>>
                  ELSE <<"composite", r.content>>

Identities == {FillIdentity(r) : r \in Row}
IdentitiesIn(s) == {FillIdentity(s[k]) : k \in DOMAIN s}

Lesser(a, b) == IF a < b THEN a ELSE b

\* Bound: replies beyond the third are not told apart.
CountTo == 3

PageSize == Lesser(Limit, PageCap)

\* Each definition named Faulty... is a plausible slip in the definition that
\* follows it; putting it in that definition's place must break a property.
FaultyAsk == Limit - Len(fills)
Ask == Lesser(PageSize, Limit - Len(fills))

\* identity in seen_fill_ids
FaultyKnown(r) == r \in {page[k] : k \in 1..i - 1}
Known(r) == FillIdentity(r) \in seenIds

\* signature in seen_page_signatures
FaultyRepeats(rows) == FALSE
Repeats(rows) == rows \in seenPages

\* len(fills) >= limit, tested after a fill is appended
FaultyFull(n) == n > Limit
Full(n) == n >= Limit

FaultyNextOffset == offset + Len(page) + 1
OffsetByFills == Len(fills)
NextOffset == offset + Len(page)

FaultyShortPage == FALSE
ShortPage == Len(page) < PageSize

\* The rows a reply holds when it is served from the table as it is now.
Reply ==
  LET from == IF HonoursOffset THEN offset ELSE 0
      most == IF HonoursLimit THEN Lesser(Ask, DbPageMax) ELSE DbPageMax
  IN  SubSeq(table, from + 1, Lesser(from + most, Len(table)))

Inserted(s, k, r) ==
  [n \in 1..Len(s) + 1 |->
     IF n < k THEN s[n] ELSE IF n = k THEN r ELSE s[n - 1]]

Deleted(s, k) == [n \in 1..Len(s) - 1 |-> IF n < k THEN s[n] ELSE s[n + 1]]

-----------------------------------------------------------------------------
Init ==
  /\ table \in UNION {[1..n -> Row] : n \in 0..MaxTable}
  /\ deletes = 0
  /\ pc = "fetch"
  /\ offset = 0
  /\ fills = << >>
  /\ seenIds = {}
  /\ seenPages = {}
  /\ page = << >>
  /\ i = 1
  /\ asked = 0
  /\ requests = 0
  /\ standing = {}
  /\ still = TRUE

\* Database_Agent lists the fills in an order of its own: a new row may
\* appear at any position.
Insert ==
  /\ MayInsert
  /\ Len(table) < MaxTable
  /\ \E k \in 1..Len(table) + 1, r \in Row : table' = Inserted(table, k, r)
  /\ still' = (requests = 0)
  /\ UNCHANGED <<deletes, pc, readVars, asked, requests, standing>>

Delete ==
  /\ deletes < MaxDeletes
  /\ requests > 0
  /\ \E k \in 1..Len(table) :
       /\ table' = Deleted(table, k)
       /\ standing' = standing \cap IdentitiesIn(Deleted(table, k))
  /\ deletes' = deletes + 1
  /\ still' = FALSE
  /\ UNCHANGED <<pc, readVars, asked, requests>>

Served ==
  /\ page' = Reply
  /\ asked' = Ask
  /\ requests' = Lesser(requests + 1, CountTo)
  /\ standing' = IF requests = 0 THEN IdentitiesIn(table) ELSE standing
  /\ UNCHANGED still

FetchPage ==
  /\ pc = "fetch"
  /\ Served
  /\ Reply # << >>
  /\ ~Repeats(Reply)
  /\ seenPages' = seenPages \cup {Reply}
  /\ i' = 1
  /\ pc' = "scan"
  /\ UNCHANGED <<dbVars, offset, fills, seenIds>>

\* `if not rows: break`
FaultyFetchEmpty ==
  /\ pc = "fetch"
  /\ Served
  /\ Reply = << >>
  /\ UNCHANGED <<dbVars, pc, offset, fills, seenIds, seenPages, i>>

FetchEmpty ==
  /\ pc = "fetch"
  /\ Served
  /\ Reply = << >>
  /\ pc' = "done"
  /\ UNCHANGED <<dbVars, offset, fills, seenIds, seenPages, i>>

\* "Database_Agent fill pagination did not advance"
FetchRepeated ==
  /\ pc = "fetch"
  /\ Served
  /\ Repeats(Reply)
  /\ pc' = "failed"
  /\ UNCHANGED <<dbVars, offset, fills, seenIds, seenPages, i>>

\* Timeout, transport or HTTP error, a status other than success, data that
\* is not a list: DatabaseAgentError, with no retry.
FetchFails ==
  /\ pc = "fetch"
  /\ pc' = "failed"
  /\ UNCHANGED <<dbVars, readVars, histVars>>

\* One pass of the row loop; reaching the limit leaves the loop.
TakeRow ==
  /\ pc = "scan"
  /\ i <= Len(page)
  /\ page[i].content \notin BadContents
  /\ IF Known(page[i])
       THEN /\ i' = i + 1
            /\ UNCHANGED <<fills, seenIds>>
       ELSE /\ seenIds' = seenIds \cup {FillIdentity(page[i])}
            /\ fills' = Append(fills, page[i])
            /\ i' = IF Full(Len(fills) + 1) THEN Len(page) + 1 ELSE i + 1
  /\ UNCHANGED <<dbVars, histVars, pc, offset, seenPages, page>>

\* "Database_Agent returned an invalid fill"
RejectRow ==
  /\ pc = "scan"
  /\ i <= Len(page)
  /\ page[i].content \in BadContents
  /\ pc' = "failed"
  /\ UNCHANGED <<dbVars, readVars, histVars>>

\* After the row loop: advance the offset, then the two exits of `while`.
EndPage ==
  /\ pc = "scan"
  /\ i > Len(page)
  /\ offset' = NextOffset
  /\ pc' = IF ShortPage \/ Len(fills) >= Limit THEN "done" ELSE "fetch"
  /\ UNCHANGED <<dbVars, histVars, fills, seenIds, seenPages, page, i>>

Returned == pc \in {"done", "failed"} /\ UNCHANGED vars

Progress ==
  \/ FetchPage \/ FetchEmpty \/ FetchRepeated
  \/ TakeRow \/ RejectRow \/ EndPage

Reader == Progress \/ FetchFails

Next == Insert \/ Delete \/ Reader \/ Returned

Spec == Init /\ [][Next]_vars

\* An HTTP exchange answers unless it fails, and the rest is a loop of the
\* handler's own thread; nothing makes an exchange fail or an agent write.
FairSpec == Spec /\ WF_vars(Progress)

-----------------------------------------------------------------------------
(* The variables of list_fills keep their types; in particular the row     *)
(* loop never runs past the reply and no request asks for less than        *)
(* nothing or more than a page.                                            *)
TypeOK ==
  /\ table \in Seq(Row)
  /\ Len(table) <= MaxTable
  /\ deletes \in 0..MaxDeletes
  /\ pc \in {"fetch", "scan", "done", "failed"}
  /\ offset \in Nat
  /\ fills \in Seq(Row)
  /\ seenIds \subseteq Identities
  /\ seenPages \subseteq Seq(Row)
  /\ page \in Seq(Row)
  /\ i \in Nat \ {0}
  /\ pc = "scan" => i <= Len(page) + 1
  /\ asked \in 0..PageSize
  /\ requests \in 0..CountTo
  /\ standing \subseteq Identities
  /\ still \in BOOLEAN

(* The result never holds two fills of one identity, over all pages and    *)
(* however the table moves between them (seen_fill_ids in list_fills).     *)
NoIdentityTwice ==
  \A m, n \in 1..Len(fills) :
    FillIdentity(fills[m]) = FillIdentity(fills[n]) => m = n

(* The result never exceeds the caller's limit, even when Database_Agent   *)
(* ignores the limit parameter and sends longer pages.                     *)
WithinLimit == Len(fills) <= Limit

(* With a limit of at most one page and a Database_Agent that applies it,  *)
(* list_fills sends at most two requests whatever the table holds and      *)
(* however it changes: the second asks for less than a page, and a reply   *)
(* of less than a page ends the loop.                                      *)
AtMostTwoRequests ==
  (HonoursLimit /\ Limit <= PageCap) => requests <= 2

(* When Database_Agent ignores the offset and its table stands still, the  *)
(* page signature stops list_fills at the second reply.                    *)
StuckPagingIsNoticed ==
  (~HonoursOffset /\ still) => requests <= 2

\* list_fills returned because the table had no more rows to give: the last
\* reply held fewer rows than were asked for.
Exhausted == pc = "done" /\ Len(page) < asked /\ Len(fills) < Limit

(* Offset paging over a moving table: when the read ends for want of rows, *)
(* each deletion has hidden at most one of the fills that stood in the     *)
(* table throughout, and insertions, wherever they land, none.  It needs   *)
(* an offset that is applied and replies that fill the page asked for.     *)
SkippedAtMostDeleted ==
  (HonoursOffset /\ DbPageMax >= PageSize /\ Exhausted) =>
     Cardinality(standing \ IdentitiesIn(fills)) <= deletes

(* Over a table that stands still, what has been read is exactly the table *)
(* up to the current row, first occurrence of each identity, in order.     *)
FirstOccurrences(s) ==
  LET firsts == {k \in DOMAIN s : \A j \in 1..k - 1 :
                                    FillIdentity(s[j]) # FillIdentity(s[k])}
  IN  [n \in 1..Cardinality(firsts) |->
         s[CHOOSE k \in firsts : Cardinality({j \in firsts : j <= k}) = n]]

RowsRead == offset + IF pc = "scan" THEN i - 1 ELSE 0

ReadsPrefix ==
  (HonoursOffset /\ HonoursLimit /\ still /\ pc # "failed") =>
     fills = FirstOccurrences(SubSeq(table, 1, RowsRead))

(* As the pagination test expects of three distinct fills read with limit  *)
(* 3 behind a duplicate: from a table that stands still, list_fills        *)
(* returns as many distinct fills as the table holds, up to the limit.     *)
DuplicatesDoNotShortenTheResult ==
  (pc = "done" /\ still) =>
     Len(fills) = Lesser(Limit, Cardinality(IdentitiesIn(table)))

(* Every read ends, with a result or an error, wherever the other agents   *)
(* write while it runs: a reply is a page not seen before or ends the      *)
(* read, and what it leaves to ask for comes to an end.                    *)
ReadEnds == <>(pc \in {"done", "failed"})
=============================================================================
