------------------------------ MODULE PagedWalk ------------------------------
(***************************************************************************)
(* The clients of GET /api/v1/points, while uploads commit between their   *)
(* requests and between the statements of each.  One asks for a page again *)
(* and again, as PointListing has it.  Another, the map of the app,        *)
(* fetches all points of a window page by page.  The clients are outside   *)
(* the repository and modelled from what listPoints answers with: a walk   *)
(* goes on until a page is short, or until X-Total-Pages.                  *)
(* List pages with OFFSET, counted from the start of the order at the time *)
(* of each statement, and the order has no tie-break.                      *)
(***************************************************************************)
EXTENDS PointListing

VARIABLES
  client,  \* it asks again, walks to a short page, or to X-Total-Pages
  there,   \* the points that matched when the walk began, or Nothing
  got,     \* the points of the pages so far, in order
  done     \* the walk has ended

walkVars == <<client, there, got, done>>
allVars == <<rows, clock, url, pc, filter, match, etag, total, cache, code,
             client, there, got, done>>

(* The points the URL selects now.                                         *)
Selected == Matching(Normalized(Resolved(url)))

WalkInit ==
  /\ Init
  /\ \/ client = "revisits"
     \/ client \in {"to short page", "to X-Total-Pages"} /\ url.page = 1 /\ url.box # BadBox
  /\ there = Nothing
  /\ got = <<>>
  /\ done = FALSE

Revisit == client = "revisits" /\ Read /\ UNCHANGED walkVars

StartWalk ==
  /\ client # "revisits" /\ there = Nothing
  /\ there' = Selected
  /\ UNCHANGED <<rows, clock, url, pc, filter, match, etag, total, cache, code>>
  /\ UNCHANGED <<client, got, done>>

(* One GET; after a failure the same page is asked for again.              *)
Fetch ==
  /\ there # Nothing /\ ~done /\ code # 200
  /\ Get /\ ~match'
  /\ UNCHANGED walkVars

Serve ==
  /\ client # "revisits"
  /\ ReadFingerprint \/ CountRows \/ ReadPage \/ ReadFails
  /\ UNCHANGED walkVars

LastPage ==
  IF client = "to X-Total-Pages" THEN url.page >= cache.pages
  ELSE Len(cache.page) < Normalized(Resolved(url)).perPage

TurnPage ==
  /\ client # "revisits" /\ pc = "idle" /\ code = 200 /\ ~done
  /\ got' = got \o Keyed(cache.page)
  /\ done' = LastPage
  /\ url' = IF LastPage THEN url ELSE [url EXCEPT !.page = @ + 1]
  /\ code' = 0
  /\ cache' = Nothing
  /\ UNCHANGED <<rows, clock, pc, filter, match, etag, total, client, there>>

WalkNext ==
  \/ Revisit \/ StartWalk \/ Fetch \/ Serve \/ TurnPage
  \/ TableNext /\ UNCHANGED <<readVars, walkVars>>

WalkSpec == WalkInit /\ [][WalkNext]_allVars

-----------------------------------------------------------------------------
(* Another stored point has the timestamp of k.                            *)
Tied(k) == \E j \in Keys \ {k} : rows[j] # NoRow /\ Ts[j] = Ts[k]

(* A walk to the first short page misses no point that was there when it   *)
(* began, whatever arrives meanwhile: arrivals push points to later pages, *)
(* never to earlier ones.  Only points with equal timestamps, which may    *)
(* change places between two statements, can be missed.                    *)
MissesOnlyTies ==
  done /\ client = "to short page" => \A k \in there : k \in ToSet(got) \/ Tied(k)

(* A walk that fetches all pages there are: X-Total-Pages divides by the   *)
(* per_page that was sent, not by the one the pages have.                  *)
Counts == client = "to short page" \/ url.perPage \in 1..MaxPerPage

(* While nothing arrives, the pages are disjoint, in order, and without a  *)
(* gap, whatever per_page was sent; together they are the selection, if    *)
(* X-Total-Pages is not followed or per_page is within the limits.  (Ties  *)
(* apart.)                                                                 *)
QuietWalkExact ==
  done /\ Selected = there /\ (\A k \in there : ~Tied(k)) =>
    /\ got \in Orderings(ToSet(got), url.order) /\ ToSet(got) \subseteq there
    /\ \A j \in ToSet(got), k \in there \ ToSet(got) :
         IF url.order = "asc" THEN Ts[j] < Ts[k] ELSE Ts[j] > Ts[k]
    /\ Counts => ToSet(got) = there
=============================================================================
