---------------------------- MODULE PointListing ----------------------------
(***************************************************************************)
(* GET /api/v1/points over a table that keeps the promise of PointTable:   *)
(* listPoints (internal/httpapi/points.go) with List and ListFingerprint   *)
(* (internal/store/points.go).                                             *)
(*                                                                         *)
(* The handler runs three statements, none in a transaction: the           *)
(* fingerprint the ETag is made of, the COUNT, and the SELECT of the page. *)
(* Uploads commit between any two of them.  A client keeps the last page   *)
(* it was answered for a URL with its ETag, sends the ETag back in         *)
(* If-None-Match, and keeps the page when the answer is 304.               *)
(*                                                                         *)
(* Readers share nothing but the table and change nothing in it, so one    *)
(* client with one URL stands for all of them.  A URL is a query record;   *)
(* SQL leaves the order of points with the same timestamp open, so any is  *)
(* allowed.  The ETag is the tuple the code hashes.                        *)
(***************************************************************************)
EXTENDS PointTable, FiniteSets, FiniteSetsExt, SequencesExt

CONSTANTS
  Ts,              \* the timestamp of each key
  Queries,         \* the URLs asked for
  NoStart, NoEnd,  \* start_at, end_at not given (or not parsable)
  BadBox,          \* a bounding box parseBBox rejects
  DefaultPerPage,  \* 100 in the code
  MaxPerPage,      \* 10000 in the code
  Nothing          \* no answer cached

Query == [start : Int \cup {NoStart}, end : Int \cup {NoEnd},
          box : (SUBSET Keys) \cup {BadBox},   \* the keys inside, or Keys
          order : {"asc", "desc", "none"}, page : Int, perPage : Int, slim : BOOLEAN]

ASSUME ListingAssumption ==
  /\ IsFiniteSet(Keys)
  /\ Ts \in [Keys -> Int]
  /\ Queries \subseteq Query
  /\ MaxPerPage \in Nat /\ DefaultPerPage \in 1..MaxPerPage
  /\ NoStart \notin Int /\ NoEnd \notin Int

VARIABLES
  url,     \* the client's URL
  pc,      \* where the handler is
  filter,  \* its ListFilter, before normalisation
  match,   \* the request carries the cached ETag in If-None-Match
  etag,    \* the ETag computed for the answer
  total,   \* the result of COUNT
  cache,   \* the last answer with 200: ETag, page, total, X-Total-Pages
  code     \* status of the last answer

readVars == <<url, pc, filter, match, etag, total, cache, code>>
vars == <<rows, clock, url, pc, filter, match, etag, total, cache, code>>

-----------------------------------------------------------------------------
Clamp(n) == IF n > MaxPerPage THEN MaxPerPage ELSE n

(* normalizeListFilter                                                     *)
Normalized(f) ==
  [start |-> f.start, end |-> IF f.end = 0 THEN clock ELSE f.end, box |-> f.box,
   order |-> f.order, page |-> IF f.page <= 0 THEN 1 ELSE f.page,
   perPage |-> IF f.perPage <= 0 THEN DefaultPerPage ELSE Clamp(f.perPage)]

(* listWhere                                                               *)
Matching(f) ==
  {k \in f.box : /\ rows[k] # NoRow
                 /\ Ts[k] <= f.end
                 /\ f.start # NoStart => f.start <= Ts[k]}

(* COALESCE(MAX(..), 0)                                                    *)
MaxOr0(S) == IF S = {} THEN 0 ELSE Max(S)

(* ListFingerprint                                                         *)
Fingerprint(f) ==
  LET M == Matching(Normalized(f)) IN
  [count |-> Cardinality(M),
   maxTS |-> MaxOr0({Ts[k] : k \in M}),
   maxUpdated |-> MaxOr0({rows[k].updated : k \in M})]

(* pointsETag: the filter as the client sent it, without its window.       *)
ETagNoCount(f, meta, slim) ==    \* mutant: Count is not hashed
  <<meta.maxTS, meta.maxUpdated, f.order, f.page, f.perPage, slim>>

ETagNoUpdated(f, meta, slim) ==  \* mutant: MaxUpdated is not hashed
  <<meta.count, meta.maxTS, f.order, f.page, f.perPage, slim>>

ETag(f, meta, slim) ==
  <<meta.count, meta.maxTS, meta.maxUpdated, f.order, f.page, f.perPage, slim>>

(* ORDER BY timestamp ASC|DESC                                             *)
Orderings(M, order) ==
  {s \in SetToSeqs(M) :
     \A i, j \in DOMAIN s : i < j =>
       IF order = "asc" THEN Ts[s[i]] <= Ts[s[j]] ELSE Ts[s[i]] >= Ts[s[j]]}

(* LIMIT perPage OFFSET (page - 1) * perPage                               *)
OffsetFromOne(f) == f.page * f.perPage  \* mutant: page 1 skips a page

Offset(f) == (f.page - 1) * f.perPage

Slice(s, f) ==
  SubSeq(s, Offset(f) + 1, Min({Len(s), Offset(f) + f.perPage}))

(* The pages, as sequences of keys, the SELECT may return.                 *)
PageKeys(f) == {Slice(s, f) : s \in Orderings(Matching(f), f.order)}

Keyed(page) == [i \in DOMAIN page |-> page[i].key]

TotalPagesFloor(n, perPage) ==  \* mutant: a last page that is not full does not count
  IF perPage > 0 THEN n \div perPage ELSE 0

TotalPages(n, perPage) == IF perPage > 0 THEN (n + perPage - 1) \div perPage ELSE 0

-----------------------------------------------------------------------------
Init ==
  /\ TableInit
  /\ url \in Queries
  /\ pc = "idle"
  /\ filter = Nothing
  /\ match = FALSE
  /\ etag = Nothing
  /\ total = 0
  /\ cache = Nothing
  /\ code = 0

(* The filter of a URL: without end_at the window ends now.                *)
Resolved(q) ==
  [start |-> q.start, end |-> IF q.end = NoEnd THEN clock ELSE q.end, box |-> q.box,
   order |-> q.order, page |-> q.page, perPage |-> q.perPage]

(* Ending a request forgets what only the handler knew.                    *)
Answer(status) ==
  /\ pc' = "idle"
  /\ code' = status
  /\ filter' = Nothing
  /\ match' = FALSE
  /\ etag' = Nothing
  /\ total' = 0
  /\ UNCHANGED <<rows, clock, url>>

Get ==
  /\ pc = "idle"
  /\ url.box # BadBox
  /\ filter' = Resolved(url)
  /\ match' \in IF cache = Nothing THEN {FALSE} ELSE BOOLEAN
  /\ pc' = "fingerprint"
  /\ UNCHANGED <<rows, clock, url, etag, total, cache, code>>

GetBadBox ==
  /\ pc = "idle"
  /\ url.box = BadBox
  /\ Answer(400)
  /\ UNCHANGED cache

Tag == ETag(filter, Fingerprint(filter), url.slim)

NotModified ==
  /\ pc = "fingerprint"
  /\ match /\ Tag = cache.etag
  /\ Answer(304)
  /\ UNCHANGED cache

ReadFingerprint ==
  /\ pc = "fingerprint"
  /\ ~(match /\ Tag = cache.etag)
  /\ etag' = Tag
  /\ pc' = "count"
  /\ UNCHANGED <<rows, clock, url, filter, match, total, cache, code>>

CountAllRows ==  \* mutant: COUNT without the WHERE clause
  /\ pc = "count"
  /\ filter' = Normalized(filter)
  /\ total' = Cardinality({k \in Keys : rows[k] # NoRow})
  /\ pc' = "page"
  /\ UNCHANGED <<rows, clock, url, match, etag, cache, code>>

(* List normalises the filter once, for both of its statements.            *)
CountRows ==
  /\ pc = "count"
  /\ filter' = Normalized(filter)
  /\ total' = Cardinality(Matching(filter'))
  /\ pc' = "page"
  /\ UNCHANGED <<rows, clock, url, match, etag, cache, code>>

(* X-Total-Pages divides by the per_page the client sent.                  *)
ReadPage ==
  /\ pc = "page"
  /\ \E page \in PageKeys(filter) :
       cache' = [etag |-> etag,
                 page |-> [i \in DOMAIN page |-> [key |-> page[i], attr |-> rows[page[i]].attr]],
                 total |-> total,
                 pages |-> TotalPages(total, url.perPage)]
  /\ Answer(200)

ReadFails ==
  /\ pc \in {"fingerprint", "count", "page"}
  /\ Answer(500)
  /\ UNCHANGED cache

Read == \/ Get \/ GetBadBox \/ NotModified \/ ReadFingerprint
        \/ CountRows \/ ReadPage \/ ReadFails

Next == Read \/ (TableNext /\ UNCHANGED readVars)

Spec == Init /\ [][Next]_vars

-----------------------------------------------------------------------------
Answers304 == pc = "fingerprint" /\ pc' = "idle" /\ code' = 304

(* When the handler answers 304, the page the client keeps still has the   *)
(* points, in an order, that the query selects now.  The ETag was made     *)
(* before that page was read and hashes neither start_at nor end_at nor    *)
(* the box; it is the count, with the fact that points are never deleted   *)
(* and the window never shrinks, that makes this hold.                     *)
NotModifiedSameRows ==
  [][Answers304 => Keyed(cache.page) \in PageKeys(Normalized(filter))]_vars

(* When a 304 leaves the client with an outdated column of a point, that   *)
(* point was rewritten in the very second of the newest stamp in the       *)
(* window: one second later the fingerprint would have told.               *)
NotModifiedStaleOneSecond ==
  [][Answers304 =>
       \A i \in DOMAIN cache.page :
         rows[cache.page[i].key].attr # cache.page[i].attr =>
           rows[cache.page[i].key].updated = Fingerprint(filter).maxUpdated]_vars

(* X-Total-Pages and the page answered with it come from two statements:   *)
(* a page is never shorter than the total counted before it promises.      *)
PageAsFullAsTotal ==
  cache # Nothing =>
    LET f == Normalized(Resolved(url)) IN
    Len(cache.page) >= Min({f.perPage, cache.total - Offset(f)})
=============================================================================
