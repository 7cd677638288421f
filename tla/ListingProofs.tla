---------------------------- MODULE ListingProofs ----------------------------
(***************************************************************************)
(* Why a 304 leaves the client with the right points, how old what it      *)
(* confirms may be, and how long a page is: proofs about PointListing and  *)
(* about the clients of PagedWalk, for any finite set of points, any URLs  *)
(* and any uploads.                                                        *)
(***************************************************************************)
EXTENDS PagedWalk, TableProofs, SequenceTheorems

-----------------------------------------------------------------------------
(* The inductive invariant.                                                *)
ListType ==
  /\ rows \in [Keys -> Entry \cup {NoRow}]
  /\ clock \in Nat \ {0}
  /\ url \in Query
  /\ pc \in {"idle", "fingerprint", "count", "page"}
  /\ match \in BOOLEAN

Filter == [start : Int \cup {NoStart}, end : Int, box : SUBSET Keys,
           order : {"asc", "desc", "none"}, page : Int, perPage : Int]

(* Where the window ends now, for the request or else for the next one.    *)
Limit == Normalized(IF pc = "idle" THEN Resolved(url) ELSE filter).end

(* The stored points in the window of the URL, up to e.                    *)
Within(e) ==
  {k \in url.box : /\ rows[k] # NoRow
                   /\ Ts[k] <= e
                   /\ url.start # NoStart => url.start <= Ts[k]}

(* The pages the URL may get when its window holds the points M.           *)
Shape ==
  [page |-> IF url.page <= 0 THEN 1 ELSE url.page,
   perPage |-> IF url.perPage <= 0 THEN DefaultPerPage ELSE Clamp(url.perPage)]

Pages(M) == {Slice(s, Shape) : s \in Orderings(M, url.order)}

(* What the handler works with is the URL, with a window that ends no      *)
(* later than that of a new request would.                                 *)
FilterOfUrl ==
  pc # "idle" =>
    /\ url.box # BadBox
    /\ filter \in Filter
    /\ filter.box = url.box /\ filter.start = url.start /\ filter.order = url.order
    /\ Normalized(filter).page = Shape.page /\ Normalized(filter).perPage = Shape.perPage
    /\ IF url.end \in {NoEnd, 0} THEN filter.end \in 0..clock ELSE filter.end = url.end
    /\ pc = "page" => filter = Normalized(filter)

(* Only a request with a kept page behind it can be conditional.           *)
Conditional == match => pc # "idle" /\ cache # Nothing

(* The count that goes into an ETag is that of points which are still in   *)
(* the window when the page is read.                                       *)
Counted ==
  pc \in {"count", "page"} =>
    \E S \in SUBSET Within(Limit) : etag[1] = Cardinality(S)

(* The page a client keeps was made of points M, which are all still in    *)
(* the window, and its ETag counts some of them.                           *)
Kept ==
  cache # Nothing =>
    /\ url.box # BadBox
    /\ \E M \in SUBSET Within(Limit) : \E S \in SUBSET M :
         /\ cache.etag[1] = Cardinality(S)
         /\ Keyed(cache.page) \in Pages(M)

ListInv ==
  /\ ListType
  /\ FilterOfUrl
  /\ Conditional
  /\ Counted
  /\ Kept

-----------------------------------------------------------------------------
(* What normalising does, and that doing it twice does no more.            *)
LEMMA Normalizing ==
  ASSUME NEW f \in Filter, clock \in Nat \ {0}
  PROVE  /\ Normalized(f) \in Filter
         /\ Normalized(f).box = f.box /\ Normalized(f).start = f.start
         /\ Normalized(f).order = f.order
         /\ Normalized(f).end = IF f.end = 0 THEN clock ELSE f.end
         /\ Normalized(f).page = IF f.page <= 0 THEN 1 ELSE f.page
         /\ Normalized(f).perPage = IF f.perPage <= 0 THEN DefaultPerPage ELSE Clamp(f.perPage)
         /\ Normalized(Normalized(f)) = Normalized(f)
<1>1. PICK start \in Int \cup {NoStart}, end \in Int, box \in SUBSET Keys,
           order \in {"asc", "desc", "none"}, page \in Int, perPage \in Int :
        f = [start |-> start, end |-> end, box |-> box, order |-> order,
             page |-> page, perPage |-> perPage]
  BY DEF Filter
<1>2. DefaultPerPage \in Nat \ {0} /\ MaxPerPage \in Nat \ {0} /\ DefaultPerPage <= MaxPerPage
  BY ListingAssumption
<1> DEFINE end1 == IF end = 0 THEN clock ELSE end
           page1 == IF page <= 0 THEN 1 ELSE page
           perPage1 == IF perPage <= 0 THEN DefaultPerPage ELSE Clamp(perPage)
<1>3. Normalized(f) = [start |-> start, end |-> end1, box |-> box, order |-> order,
                       page |-> page1, perPage |-> perPage1]
  BY <1>1 DEF Normalized
<1>4. /\ end1 \in Int \ {0} /\ page1 \in Nat \ {0}
      /\ perPage1 \in Nat \ {0} /\ perPage1 <= MaxPerPage
  <2>1. end \in Int /\ page \in Int /\ perPage \in Int
    OBVIOUS
  <2>2. end1 \in Int \ {0}
    BY <2>1
  <2>3. page1 \in Nat \ {0}
    BY <2>1
  <2>4. CASE perPage <= 0
    BY <1>2, <2>2, <2>3, <2>4
  <2>5. CASE perPage > 0
    <3>1. perPage1 = IF perPage > MaxPerPage THEN MaxPerPage ELSE perPage
      BY <2>1, <2>5 DEF Clamp
    <3> QED
      BY <1>2, <2>1, <2>2, <2>3, <2>5, <3>1
  <2> QED
    BY <2>1, <2>4, <2>5
<1>5. Normalized(f) \in Filter
  <2> HIDE DEF end1, page1, perPage1
  <2> QED
    BY <1>3, <1>4 DEF Filter
<1>6. Normalized(Normalized(f)) = Normalized(f)
  <2> HIDE DEF end1, page1, perPage1
  <2>1. Clamp(perPage1) = perPage1
    BY <1>2, <1>4 DEF Clamp
  <2> QED
    BY <1>3, <1>4, <2>1 DEF Normalized
<1> QED
  BY <1>1, <1>3, <1>5, <1>6

LEMMA Resolving ==
  ASSUME ListType, url.box # BadBox
  PROVE  /\ Resolved(url) \in Filter
         /\ Resolved(url).box = url.box /\ Resolved(url).start = url.start
         /\ Resolved(url).order = url.order
         /\ Resolved(url).page = url.page /\ Resolved(url).perPage = url.perPage
         /\ Resolved(url).end = IF url.end = NoEnd THEN clock ELSE url.end
         /\ url.box \subseteq Keys
<1>1. /\ url.start \in Int \cup {NoStart} /\ url.end \in Int \cup {NoEnd}
      /\ url.box \in SUBSET Keys /\ url.order \in {"asc", "desc", "none"}
      /\ url.page \in Int /\ url.perPage \in Int /\ clock \in Int
  <2>1. url \in Query /\ clock \in Int
    BY DEF ListType
  <2>2. url.box \in SUBSET Keys
    BY <2>1, Zenon DEF Query
  <2> QED
    BY <2>1, <2>2 DEF Query
<1>2. Resolved(url) = [start |-> url.start, end |-> IF url.end = NoEnd THEN clock ELSE url.end,
                       box |-> url.box, order |-> url.order, page |-> url.page,
                       perPage |-> url.perPage]
  BY DEF Resolved
<1>3. (IF url.end = NoEnd THEN clock ELSE url.end) \in Int
  BY <1>1
<1> QED
  BY <1>1, <1>2, <1>3 DEF Filter

(* The window of the request, or of the next one, as a set and as pages.   *)
LEMMA Window ==
  ASSUME NEW f \in Filter, f.box = url.box, f.start = url.start
  PROVE  Matching(f) = Within(f.end)
  BY DEF Matching, Within

LEMMA PagesOfFilter ==
  ASSUME NEW f \in Filter, f.order = url.order, f.page = Shape.page, f.perPage = Shape.perPage
  PROVE  PageKeys(f) = Pages(Matching(f))
  BY DEF PageKeys, Pages, Slice, Offset

LEMMA LimitFacts ==
  ASSUME ListType, FilterOfUrl, url.box # BadBox
  PROVE  /\ Limit \in Int
         /\ Limit <= Normalized(Resolved(url)).end
         /\ pc # "idle" => Limit = Normalized(filter).end
         /\ pc = "idle" => Limit = Normalized(Resolved(url)).end
<1>1. Normalized(Resolved(url)).end \in Int
  BY Resolving, Normalizing DEF ListType, Filter
<1>2. pc # "idle" => Normalized(filter).end \in Int
  BY Normalizing DEF ListType, FilterOfUrl, Filter
<1>3. pc # "idle" => Normalized(filter).end <= Normalized(Resolved(url)).end
  <2> SUFFICES ASSUME pc # "idle" PROVE Normalized(filter).end <= Normalized(Resolved(url)).end
    OBVIOUS
  <2>1. Normalized(filter).end = (IF filter.end = 0 THEN clock ELSE filter.end)
    BY Normalizing DEF ListType, FilterOfUrl
  <2>2. Normalized(Resolved(url)).end = (IF url.end \in {NoEnd, 0} THEN clock ELSE url.end)
    BY Resolving, Normalizing DEF ListType
  <2>3. IF url.end \in {NoEnd, 0} THEN filter.end \in 0..clock ELSE filter.end = url.end
    BY DEF FilterOfUrl
  <2> QED
    BY <1>1, <2>1, <2>2, <2>3 DEF ListType
<1> QED
  BY <1>1, <1>2, <1>3 DEF Limit

(* A page is a sequence, so what it is of can be read off it.              *)
LEMMA KeyedBack ==
  ASSUME NEW M \in SUBSET Keys, NEW page \in Pages(M), ListType
  PROVE  Keyed([i \in DOMAIN page |-> [key |-> page[i], attr |-> rows[page[i]].attr]]) = page
<1>1. PICK s \in Orderings(M, url.order) : page = Slice(s, Shape)
  BY DEF Pages
<1>2. IsFiniteSet(M) /\ Cardinality(M) \in Nat
  BY ListingAssumption, FS_Subset, FS_CardinalityType
<1>3. s \in [1..Cardinality(M) -> M]
  BY <1>1 DEF Orderings, SetToSeqs
<1> DEFINE m == Offset(Shape) + 1
           n == Min({Len(s), Offset(Shape) + Shape.perPage})
<1>4. m \in Int /\ n \in Int /\ m >= 1 /\ n <= Len(s)
  <2>1. Shape.page \in Nat \ {0} /\ Shape.perPage \in Nat
    BY ListingAssumption DEF Shape, ListType, Query, Clamp
  <2>2. Offset(Shape) \in Nat
    BY <2>1 DEF Offset
  <2>3. Len(s) \in Nat
    BY <1>2, <1>3
  <2>4. \A a, b \in Int : Min({a, b}) = IF a <= b THEN a ELSE b
    BY DEF Min
  <2>5. n = IF Len(s) <= Offset(Shape) + Shape.perPage
            THEN Len(s) ELSE Offset(Shape) + Shape.perPage
    BY <2>1, <2>2, <2>3, <2>4
  <2> HIDE DEF n
  <2> QED
    BY <2>1, <2>2, <2>3, <2>5
<1>5. page \in Seq(M)
  <2>1. \A i \in m..n : s[i] \in M
    BY <1>2, <1>3, <1>4
  <2> HIDE DEF m, n
  <2>2. SubSeq(s, m, n) \in Seq(M)
    BY <1>4, <2>1, SubSeqProperties
  <2> QED
    BY <1>1, <2>2 DEF Slice, m, n
<1> QED
  BY <1>5 DEF Keyed

-----------------------------------------------------------------------------
(* As long as points only come and the window does not shrink, what is     *)
(* known of ETag and page stays true.                                      *)
LEMMA WithinGrows ==
  ASSUME ListInv, url.box # BadBox, UNCHANGED url, Limit' \in Int, Limit <= Limit',
         \A k \in Keys : rows[k] # NoRow => rows'[k] # NoRow
  PROVE  Within(Limit) \subseteq Within(Limit)'
<1>1. Limit \in Int /\ url.box \subseteq Keys
  BY LimitFacts, Resolving DEF ListInv
<1>2. \A k \in Keys : Ts[k] \in Int
  BY ListingAssumption
<1> QED
  BY <1>1, <1>2 DEF Within

LEMMA KeptStays ==
  ASSUME ListInv, UNCHANGED <<url, cache>>,
         url.box # BadBox => Limit' \in Int /\ Limit <= Limit',
         \A k \in Keys : rows[k] # NoRow => rows'[k] # NoRow
  PROVE  Kept'
<1> SUFFICES ASSUME cache # Nothing PROVE Kept'
  BY DEF Kept
<1>1. PICK M \in SUBSET Within(Limit) :
        /\ url.box # BadBox
        /\ \E S \in SUBSET M : cache.etag[1] = Cardinality(S)
        /\ Keyed(cache.page) \in Pages(M)
  BY DEF ListInv, Kept
<1>2. M \in SUBSET Within(Limit)'
  BY <1>1, WithinGrows
<1>3. (Keyed(cache.page) \in Pages(M))'
  BY <1>1 DEF Pages, Shape
<1> QED
  BY <1>1, <1>2, <1>3 DEF Kept

LEMMA CountedStays ==
  ASSUME ListInv, UNCHANGED <<url, etag>>, pc \in {"count", "page"}, Limit' \in Int, Limit <= Limit',
         \A k \in Keys : rows[k] # NoRow => rows'[k] # NoRow
  PROVE  Counted'
<1>1. PICK S \in SUBSET Within(Limit) : etag[1] = Cardinality(S)
  BY DEF ListInv, Counted
<1>2. url.box # BadBox
  BY DEF ListInv, FilterOfUrl
<1>3. S \in SUBSET Within(Limit)'
  BY <1>1, <1>2, WithinGrows
<1> QED
  BY <1>1, <1>3 DEF Counted

(* Nothing is kept yet, and no request runs.                               *)
LEMMA InitListInv == Init => ListInv
<1> SUFFICES ASSUME Init PROVE ListInv
  OBVIOUS
<1>1. rows \in [Keys -> Entry \cup {NoRow}] /\ clock = 1
  BY DEF Init, TableInit
<1>2. url \in Query
  BY ListingAssumption DEF Init
<1>3. pc = "idle" /\ match = FALSE /\ cache = Nothing
  BY DEF Init
<1>4. ListType
  <2>1. clock \in Nat \ {0}
    BY <1>1
  <2>2. match \in BOOLEAN /\ pc \in {"idle", "fingerprint", "count", "page"}
    BY <1>3
  <2> QED
    BY <1>1, <1>2, <2>1, <2>2, Zenon DEF ListType
<1> QED
  BY <1>3, <1>4 DEF ListInv, FilterOfUrl, Conditional, Counted, Kept

(* Answering ends a request; the next one sees no smaller window.          *)
LEMMA AnswerListInv ==
  ASSUME ListInv, NEW status, Answer(status), UNCHANGED cache
  PROVE  ListInv'
<1>1. ListType' /\ FilterOfUrl' /\ Counted' /\ Conditional'
  BY DEF ListInv, ListType, FilterOfUrl, Counted, Conditional, Answer
<1>2. ASSUME url.box # BadBox PROVE Limit' \in Int /\ Limit <= Limit'
  <2>1. Limit' = Normalized(Resolved(url)).end
    BY DEF Answer, Limit, Normalized, Resolved
  <2>2. Normalized(Resolved(url)).end \in Int
    BY <1>2, Resolving, Normalizing DEF ListInv, ListType, Filter
  <2> QED
    BY <1>2, <2>1, <2>2, LimitFacts DEF ListInv
<1>3. Kept'
  BY <1>2, KeptStays DEF Answer
<1> QED
  BY <1>1, <1>3 DEF ListInv

LEMMA GetListInv == ListInv /\ Get => ListInv'
<1> SUFFICES ASSUME ListInv, Get PROVE ListInv'
  OBVIOUS
<1>1. /\ url.box # BadBox /\ pc = "idle" /\ pc' = "fingerprint"
      /\ filter' = Resolved(url) /\ UNCHANGED <<rows, clock, url, etag, total, cache, code>>
  BY DEF Get
<1>2. Resolved(url)' = Resolved(url) /\ Normalized(filter)' = Normalized(Resolved(url))
  BY <1>1 DEF Resolved, Normalized
<1>3. ListType' /\ Conditional'
  BY <1>1 DEF ListInv, ListType, Conditional, Get
<1>4. Limit' = Limit
  BY <1>1, <1>2 DEF Limit
<1>5. Limit \in Int
  BY <1>1, LimitFacts DEF ListInv
<1>6. FilterOfUrl'
  <2>1. /\ Normalized(Resolved(url)).page = Shape.page
        /\ Normalized(Resolved(url)).perPage = Shape.perPage
    BY <1>1, Resolving, Normalizing DEF Shape, ListInv, ListType
  <2>2. /\ Resolved(url) \in Filter /\ Normalized(Resolved(url)).end \in Int
        /\ Resolved(url).box = url.box /\ Resolved(url).start = url.start
        /\ Resolved(url).order = url.order
    BY <1>1, Resolving, Normalizing DEF ListInv, ListType, Filter
  <2>3. Normalized(Resolved(url))' = Normalized(Resolved(url)) /\ Shape' = Shape
    BY <1>1, <1>2 DEF Normalized, Shape
  <2>4. IF url.end \in {NoEnd, 0} THEN Resolved(url).end \in 0..clock
                                   ELSE Resolved(url).end = url.end
    BY <1>1, Resolving DEF ListInv, ListType
  <2> QED
    BY <1>1, <1>2, <2>1, <2>2, <2>3, <2>4 DEF FilterOfUrl
<1>7. Kept'
  BY <1>1, <1>4, <1>5, KeptStays
<1>8. Counted'
  BY <1>1 DEF Counted
<1> QED
  BY <1>3, <1>6, <1>7, <1>8 DEF ListInv

(* The fingerprint counts the window as it is.                             *)
LEMMA CountInTag ==
  ASSUME ListInv, pc # "idle"
  PROVE  /\ Tag[1] = Cardinality(Within(Limit))
         /\ Matching(Normalized(filter)) = Within(Limit)
<1>1. Normalized(filter) \in Filter /\ Limit = Normalized(filter).end
  BY LimitFacts, Normalizing DEF ListInv, ListType, FilterOfUrl
<1>2. Normalized(filter).box = url.box /\ Normalized(filter).start = url.start
  BY Normalizing DEF ListInv, ListType, FilterOfUrl
<1>3. Matching(Normalized(filter)) = Within(Limit)
  BY <1>1, <1>2, Window
<1> QED
  BY <1>3 DEF Tag, ETag, Fingerprint

LEMMA FingerprintListInv == ListInv /\ ReadFingerprint => ListInv'
<1> SUFFICES ASSUME ListInv, ReadFingerprint PROVE ListInv'
  OBVIOUS
<1>1. /\ pc = "fingerprint" /\ pc' = "count" /\ etag' = Tag
      /\ UNCHANGED <<rows, clock, url, filter, match, total, cache, code>>
  BY DEF ReadFingerprint
<1>2. /\ Limit' = Limit /\ Within(Limit)' = Within(Limit) /\ Limit \in Int
      /\ Normalized(filter)' = Normalized(filter)
      /\ Normalized(Resolved(url))' = Normalized(Resolved(url)) /\ Shape' = Shape
  BY <1>1, LimitFacts DEF Limit, Within, Normalized, Resolved, Shape, ListInv, FilterOfUrl
<1>3. ListType' /\ Conditional' /\ FilterOfUrl'
  BY <1>1, <1>2 DEF ListInv, ListType, FilterOfUrl, Conditional
<1>4. Counted'
  BY <1>1, <1>2, CountInTag DEF Counted
<1>5. Kept'
  BY <1>1, <1>2, KeptStays
<1> QED
  BY <1>3, <1>4, <1>5 DEF ListInv

LEMMA CountListInv == ListInv /\ CountRows => ListInv'
<1> SUFFICES ASSUME ListInv, CountRows PROVE ListInv'
  OBVIOUS
<1>1. /\ pc = "count" /\ pc' = "page" /\ filter' = Normalized(filter)
      /\ UNCHANGED <<rows, clock, url, match, etag, cache, code>>
  BY DEF CountRows
<1>2. Normalized(filter)' = Normalized(filter)
  <2>1. Normalized(filter)' = Normalized(Normalized(filter))
    BY <1>1 DEF Normalized
  <2> QED
    BY <1>1, <2>1, Normalizing DEF ListInv, ListType, FilterOfUrl
<1>3. Limit' = Limit /\ Limit \in Int
  BY <1>1, <1>2, LimitFacts DEF Limit, ListInv, FilterOfUrl
<1>4. ListType' /\ Conditional'
  BY <1>1 DEF ListInv, ListType, Conditional
<1>5. FilterOfUrl'
  <2>1. Normalized(Resolved(url))' = Normalized(Resolved(url)) /\ Shape' = Shape
    BY <1>1 DEF Normalized, Resolved, Shape
  <2> QED
    BY <1>1, <1>2, <2>1, Normalizing DEF ListInv, ListType, FilterOfUrl
<1>6. Counted' /\ Kept'
  BY <1>1, <1>3, CountedStays, KeptStays
<1> QED
  BY <1>4, <1>5, <1>6 DEF ListInv

(* The page is made of what is in the window now, which includes what the  *)
(* ETag counted.                                                           *)
LEMMA PageListInv == ListInv /\ ReadPage => ListInv'
<1> SUFFICES ASSUME ListInv, ReadPage PROVE ListInv'
  OBVIOUS
<1>1. PICK page \in PageKeys(filter) :
        cache' = [etag |-> etag,
                  page |-> [i \in DOMAIN page |-> [key |-> page[i], attr |-> rows[page[i]].attr]],
                  total |-> total,
                  pages |-> TotalPages(total, url.perPage)]
  BY DEF ReadPage
<1>2. /\ pc = "page" /\ pc' = "idle" /\ match' = FALSE /\ UNCHANGED <<rows, clock, url>>
      /\ url.box # BadBox /\ filter = Normalized(filter) /\ filter \in Filter
  BY DEF ReadPage, Answer, ListInv, FilterOfUrl
<1>3. ListType' /\ FilterOfUrl' /\ Counted' /\ Conditional'
  BY <1>2 DEF ListInv, ListType, FilterOfUrl, Counted, Conditional
<1>4. Limit' \in Int /\ Limit <= Limit'
  <2>1. Limit' = Normalized(Resolved(url)).end
    BY <1>2 DEF Limit, Normalized, Resolved
  <2>2. Normalized(Resolved(url)).end \in Int
    BY <1>2, Resolving, Normalizing DEF ListInv, ListType, Filter
  <2> QED
    BY <1>2, <2>1, <2>2, LimitFacts DEF ListInv
<1>5. page \in Pages(Within(Limit))
  <2>1. Matching(filter) = Within(Limit)
    BY <1>2, CountInTag
  <2>2. filter.page = Shape.page /\ filter.perPage = Shape.perPage /\ filter.order = url.order
    BY <1>2 DEF ListInv, FilterOfUrl
  <2> QED
    BY <1>1, <1>2, <2>1, <2>2, PagesOfFilter
<1>6. Keyed(cache'.page) \in Pages(Within(Limit))
  <2>1. Within(Limit) \in SUBSET Keys
    BY <1>2, Resolving DEF ListInv, Within
  <2> QED
    BY <1>1, <1>5, <2>1, KeyedBack DEF ListInv
<1>7. PICK S \in SUBSET Within(Limit) : etag[1] = Cardinality(S)
  BY <1>2 DEF ListInv, Counted
<1>8. Within(Limit) \in SUBSET (Within(Limit)')
  BY <1>2, <1>4, WithinGrows
<1>9. Kept'
  <2>1. PICK M : M = Within(Limit)
    OBVIOUS
  <2>2. Keyed(cache'.page) \in Pages(M)'
    BY <1>2, <1>6, <2>1 DEF Pages, Shape
  <2>3. M \in SUBSET (Within(Limit)') /\ S \in SUBSET M
    BY <1>7, <1>8, <2>1
  <2>4. cache'.etag[1] = Cardinality(S)
    BY <1>1, <1>7
  <2> QED
    BY <1>2, <2>2, <2>3, <2>4 DEF Kept
<1> QED
  BY <1>3, <1>9 DEF ListInv

(* Uploads and time.                                                       *)
LEMMA TableListInv == ListInv /\ TableNext /\ UNCHANGED readVars => ListInv'
<1> SUFFICES ASSUME ListInv, TableNext, UNCHANGED readVars PROVE ListInv'
  OBVIOUS
<1>1. /\ rows' \in [Keys -> Entry \cup {NoRow}] /\ clock' \in Nat \ {0} /\ clock <= clock'
      /\ \A k \in Keys : rows[k] # NoRow => rows'[k] # NoRow
      /\ UNCHANGED <<url, pc, filter, match, etag, total, cache, code>>
      /\ clock \in Nat
  BY TableGrows DEF ListInv, ListType, readVars
<1>2. ListType' /\ Conditional'
  BY <1>1 DEF ListInv, ListType, Conditional
<1>3. ASSUME url.box # BadBox
      PROVE  /\ Limit' \in Int /\ Limit <= Limit'
             /\ FilterOfUrl'
  <2>1. /\ Normalized(Resolved(url))'.end = IF url.end \in {NoEnd, 0} THEN clock' ELSE url.end
        /\ Normalized(Resolved(url)).end = IF url.end \in {NoEnd, 0} THEN clock ELSE url.end
        /\ url.end # NoEnd => url.end \in Int
    BY <1>1 DEF Normalized, Resolved, ListInv, ListType, Query
  <2>2. ASSUME pc = "idle"
        PROVE  Limit' \in Int /\ Limit <= Limit' /\ FilterOfUrl'
    <3>1. Limit = Normalized(Resolved(url)).end /\ Limit' = Normalized(Resolved(url))'.end
      BY <1>1, <2>2 DEF Limit
    <3> QED
      BY <1>1, <2>1, <2>2, <3>1 DEF FilterOfUrl
  <2>3. ASSUME pc # "idle"
        PROVE  Limit' \in Int /\ Limit <= Limit' /\ FilterOfUrl'
    <3>1. /\ Limit = Normalized(filter).end /\ Limit' = Normalized(filter)'.end
          /\ filter.end \in Int
      BY <1>1, <2>3 DEF Limit, ListInv, FilterOfUrl, Filter
    <3>2. /\ Normalized(filter).end = IF filter.end = 0 THEN clock ELSE filter.end
          /\ Normalized(filter)'.end = IF filter.end = 0 THEN clock' ELSE filter.end
          /\ Normalized(filter)'.page = Normalized(filter).page
          /\ Normalized(filter)'.perPage = Normalized(filter).perPage
          /\ Shape' = Shape
      BY <1>1 DEF Normalized, Shape
    <3>3. pc = "page" => Normalized(filter)' = Normalized(filter)
      <4>1. pc = "page" => filter.end # 0
        BY <1>1, <2>3, <3>2 DEF ListInv, ListType, FilterOfUrl
      <4> QED
        BY <1>1, <4>1 DEF Normalized
    <3>4. FilterOfUrl'
      BY <1>1, <2>3, <3>1, <3>2, <3>3 DEF ListInv, FilterOfUrl
    <3> QED
      BY <1>1, <3>1, <3>2, <3>4
  <2> QED
    BY <2>2, <2>3
<1>4. url.box = BadBox => FilterOfUrl'
  BY <1>1 DEF ListInv, FilterOfUrl
<1>5. Kept'
  BY <1>1, <1>3, KeptStays
<1>6. Counted'
  <2>1. pc \in {"count", "page"} => url.box # BadBox
    BY DEF ListInv, FilterOfUrl
  <2>2. CASE pc \in {"count", "page"}
    BY <1>1, <1>3, <2>1, <2>2, CountedStays
  <2>3. CASE pc \notin {"count", "page"}
    BY <1>1, <2>3 DEF Counted
  <2> QED
    BY <2>2, <2>3
<1> QED
  BY <1>2, <1>3, <1>4, <1>5, <1>6 DEF ListInv

LEMMA NextListInv == ListInv /\ [Next]_vars => ListInv'
<1> SUFFICES ASSUME ListInv, [Next]_vars PROVE ListInv'
  OBVIOUS
<1>1. CASE Get
  BY <1>1, GetListInv
<1>2. CASE GetBadBox
  BY <1>2, AnswerListInv DEF GetBadBox
<1>3. CASE NotModified
  BY <1>3, AnswerListInv DEF NotModified
<1>4. CASE ReadFingerprint
  BY <1>4, FingerprintListInv
<1>5. CASE CountRows
  BY <1>5, CountListInv
<1>6. CASE ReadPage
  BY <1>6, PageListInv
<1>7. CASE ReadFails
  BY <1>7, AnswerListInv DEF ReadFails
<1>8. CASE TableNext /\ UNCHANGED readVars
  BY <1>8, TableListInv
<1>9. CASE UNCHANGED vars
  <2>1. UNCHANGED <<rows, clock, url, pc, filter, match, etag, total, cache, code>>
    BY <1>9 DEF vars
  <2> QED
    BY <2>1 DEF ListInv, ListType, FilterOfUrl, Conditional, Counted, Kept, Limit, Within, Pages,
                Normalized, Resolved, Shape
<1> QED
  BY <1>1, <1>2, <1>3, <1>4, <1>5, <1>6, <1>7, <1>8, <1>9 DEF Next, Read

(* For a client that asks for one URL again and again: whatever it keeps   *)
(* is made of points that are still selected, and no fewer than its ETag   *)
(* counted.                                                                *)
THEOREM KeptInvariance == Spec => []ListInv
<1>1. Init => ListInv
  BY InitListInv
<1>2. ListInv /\ [Next]_vars => ListInv'
  BY NextListInv
<1> QED
  BY <1>1, <1>2, PTL DEF Spec

-----------------------------------------------------------------------------
(* A 304: the count in the kept ETag is that of the window now.  The       *)
(* points it counted are among those of the page, those are in the window  *)
(* now, so all three are the same points.                                  *)
LEMMA SameRows ==
  ASSUME ListInv, NotModified
  PROVE  Keyed(cache.page) \in PageKeys(Normalized(filter))
<1>1. pc = "fingerprint" /\ cache # Nothing /\ Tag = cache.etag /\ url.box # BadBox
  BY DEF NotModified, ListInv, FilterOfUrl, Conditional
<1>2. PICK M \in SUBSET Within(Limit) :
        /\ \E S \in SUBSET M : cache.etag[1] = Cardinality(S)
        /\ Keyed(cache.page) \in Pages(M)
  BY <1>1 DEF ListInv, Kept
<1>3. PICK S \in SUBSET M : cache.etag[1] = Cardinality(S)
  BY <1>2
<1>4. Cardinality(S) = Cardinality(Within(Limit))
  BY <1>1, <1>2, <1>3, CountInTag
<1>5. IsFiniteSet(Within(Limit))
  <2>1. Within(Limit) \subseteq Keys
    BY <1>1, Resolving DEF ListInv, Within
  <2> QED
    BY <2>1, ListingAssumption, FS_Subset
<1>6. S = Within(Limit)
  <2>1. S \in SUBSET Within(Limit)
    BY <1>2
  <2> QED
    BY <1>4, <1>5, <2>1, FS_Subset
<1>7. M = Matching(Normalized(filter))
  BY <1>1, <1>2, <1>6, CountInTag
<1>8. /\ Normalized(filter) \in Filter /\ Normalized(filter).order = url.order
      /\ Normalized(filter).page = Shape.page /\ Normalized(filter).perPage = Shape.perPage
  BY <1>1, Normalizing DEF ListInv, ListType, FilterOfUrl
<1> QED
  BY <1>2, <1>7, <1>8, PagesOfFilter

LEMMA OnlyNotModified == Answers304 /\ [Read]_vars => NotModified
<1> SUFFICES ASSUME Answers304, [Read]_vars PROVE NotModified
  OBVIOUS
<1>1. pc = "fingerprint" /\ pc' = "idle" /\ code' = 304
  BY DEF Answers304
<1>2. ~Get /\ ~GetBadBox /\ ~ReadFingerprint /\ ~CountRows /\ ~ReadPage
  BY <1>1 DEF Get, GetBadBox, ReadFingerprint, CountRows, ReadPage
<1>3. ~ReadFails
  BY <1>1 DEF ReadFails, Answer
<1>4. ~(UNCHANGED vars)
  BY <1>1 DEF vars
<1> QED
  BY <1>2, <1>3, <1>4 DEF Read

LEMMA StepSameRows ==
  ListInv /\ [Next]_vars =>
    (Answers304 => Keyed(cache.page) \in PageKeys(Normalized(filter)))
<1> SUFFICES ASSUME ListInv, [Next]_vars, Answers304
             PROVE  Keyed(cache.page) \in PageKeys(Normalized(filter))
  OBVIOUS
<1>1. ~(UNCHANGED readVars)
  BY DEF Answers304, readVars
<1>2. [Read]_vars
  BY <1>1 DEF Next
<1> QED
  BY <1>2, OnlyNotModified, SameRows

(* A 304 is only answered while the kept page still has the points, in an  *)
(* order, that the query selects: for a client that asks again and again.  *)
THEOREM RevisitsSeeSameRows == Spec => NotModifiedSameRows
<1>1. ListInv /\ [Next]_vars =>
        [Answers304 => Keyed(cache.page) \in PageKeys(Normalized(filter))]_vars
  BY StepSameRows
<1> QED
  BY <1>1, KeptInvariance, PTL DEF Spec, NotModifiedSameRows

-----------------------------------------------------------------------------
(* The clients that walk: they use the same handler, and forget the page   *)
(* and its ETag when they turn to the next one.                            *)
LEMMA TurnListInv == ListInv /\ TurnPage => ListInv'
<1> SUFFICES ASSUME ListInv, TurnPage PROVE ListInv'
  OBVIOUS
<1>1. /\ pc = "idle" /\ pc' = "idle" /\ cache' = Nothing /\ UNCHANGED <<rows, clock, match>>
      /\ url' = IF LastPage THEN url ELSE [url EXCEPT !.page = @ + 1]
      /\ client # "revisits"
  BY DEF TurnPage
<1>2. url' \in Query
  <2>1. url \in Query /\ url.page + 1 \in Int
    BY DEF ListInv, ListType, Query
  <2> QED
    BY <1>1, <2>1 DEF Query
<1> QED
  BY <1>1, <1>2 DEF ListInv, ListType, FilterOfUrl, Conditional, Counted, Kept

LEMMA WalkSteps ==
  ASSUME [WalkNext]_allVars
  PROVE  [Next]_vars \/ (TurnPage /\ pc' = "idle" /\ pc = "idle")
<1>1. CASE Revisit
  BY <1>1 DEF Revisit, Next
<1>2. CASE StartWalk
  BY <1>2 DEF StartWalk, vars
<1>3. CASE Fetch
  BY <1>3 DEF Fetch, Next, Read
<1>4. CASE Serve
  BY <1>4 DEF Serve, Next, Read
<1>5. CASE TurnPage
  BY <1>5 DEF TurnPage
<1>6. CASE TableNext /\ UNCHANGED <<readVars, walkVars>>
  BY <1>6 DEF Next
<1>7. CASE UNCHANGED allVars
  BY <1>7 DEF allVars, vars
<1> QED
  BY <1>1, <1>2, <1>3, <1>4, <1>5, <1>6, <1>7 DEF WalkNext

(* The same for every client of the run, walks included.                   *)
THEOREM ClientsSeeSameRows == WalkSpec => NotModifiedSameRows
<1>1. WalkInit => ListInv
  BY InitListInv DEF WalkInit
<1>2. ListInv /\ [WalkNext]_allVars => ListInv'
  BY WalkSteps, NextListInv, TurnListInv
<1>3. ListInv /\ [WalkNext]_allVars =>
        [Answers304 => Keyed(cache.page) \in PageKeys(Normalized(filter))]_vars
  <2> SUFFICES ASSUME ListInv, [WalkNext]_allVars, Answers304
               PROVE  Keyed(cache.page) \in PageKeys(Normalized(filter))
    OBVIOUS
  <2>1. pc = "fingerprint"
    BY DEF Answers304
  <2> QED
    BY <2>1, WalkSteps, StepSameRows
<1> QED
  BY <1>1, <1>2, <1>3, PTL DEF WalkSpec, NotModifiedSameRows


-----------------------------------------------------------------------------
(* Some point carries a stamp of u or later, so every later write will.    *)
Passed(u) == u \in Nat /\ (u = 0 \/ \E k \in Keys : rows[k] # NoRow /\ rows[k].updated >= u)

(* What COUNT returned is the number of points that are in the window when *)
(* the page is read, and the page is as long as that promises.             *)
Promised ==
  /\ pc = "page" => \E S \in SUBSET Within(Limit) : total = Cardinality(S)
  /\ cache # Nothing =>
       /\ cache.total \in Nat /\ Len(cache.page) \in Nat
       /\ Len(cache.page) >= Shape.perPage \/ Len(cache.page) >= cache.total - Offset(Shape)

(* Every point of a kept page is as it was, or was rewritten with a stamp  *)
(* no older than the newest one the ETag has.                              *)
Fresh ==
  /\ \A k \in Keys : rows[k] # NoRow => rows[k].updated <= clock
  /\ pc \in {"count", "page"} => Passed(etag[3])
  /\ cache # Nothing =>
       /\ Passed(cache.etag[3])
       /\ \A i \in DOMAIN cache.page :
            LET k == cache.page[i].key IN
            /\ k \in Keys /\ rows[k] # NoRow
            /\ rows[k].attr = cache.page[i].attr \/ rows[k].updated >= cache.etag[3]

PageInv == ListInv /\ Promised /\ Fresh

-----------------------------------------------------------------------------
(* A non-empty set of stamps has a largest one.                            *)
LEMMA MaxOfStamps ==
  ASSUME NEW n \in Nat, NEW S \in SUBSET (1..n), S # {}
  PROVE  MaxOr0(S) \in S /\ \A y \in S : y <= MaxOr0(S)
<1>1. MaxOr0(S) = CHOOSE x \in S : \A y \in S : x >= y
  BY DEF MaxOr0, Max
<1>2. \E x \in S : \A y \in S : x >= y
  BY LargestExists
<1>3. MaxOr0(S) \in S /\ \A y \in S : MaxOr0(S) >= y
  BY <1>1, <1>2
<1> QED
  BY <1>3

(* A page is a sequence of the points it is made of, and as long as their  *)
(* number and per_page allow.                                              *)
LEMMA PageOfPoints ==
  ASSUME ListType, NEW M \in SUBSET Keys, NEW page \in Pages(M)
  PROVE  /\ page \in Seq(M)
         /\ Shape.perPage \in Nat /\ Offset(Shape) \in Nat
         /\ Len(page) >= Shape.perPage \/ Len(page) >= Cardinality(M) - Offset(Shape)
<1>1. PICK s \in Orderings(M, url.order) : page = Slice(s, Shape)
  BY DEF Pages
<1>2. IsFiniteSet(M) /\ Cardinality(M) \in Nat
  BY ListingAssumption, FS_Subset, FS_CardinalityType
<1>3. s \in [1..Cardinality(M) -> M] /\ Len(s) = Cardinality(M)
  BY <1>1, <1>2 DEF Orderings, SetToSeqs
<1> DEFINE m == Offset(Shape) + 1
           n == Min({Len(s), Offset(Shape) + Shape.perPage})
<1>4. Shape.page \in Nat \ {0} /\ Shape.perPage \in Nat
  BY ListingAssumption DEF Shape, ListType, Query, Clamp
<1>5. Offset(Shape) \in Nat
  BY <1>4 DEF Offset
<1>6. n = IF Len(s) <= Offset(Shape) + Shape.perPage
          THEN Len(s) ELSE Offset(Shape) + Shape.perPage
  <2>1. \A a, b \in Int : Min({a, b}) = IF a <= b THEN a ELSE b
    BY DEF Min
  <2> QED
    BY <1>2, <1>3, <1>4, <1>5, <2>1
<1>7. m \in Int /\ n \in Int /\ m >= 1 /\ n <= Len(s)
  <2> HIDE DEF n
  <2> QED
    BY <1>2, <1>3, <1>4, <1>5, <1>6
<1>8. SubSeq(s, m, n) \in Seq(M) /\ Len(SubSeq(s, m, n)) = IF m <= n THEN n - m + 1 ELSE 0
  <2>1. \A i \in m..n : s[i] \in M
    BY <1>2, <1>3, <1>7
  <2> HIDE DEF m, n
  <2> QED
    BY <1>7, <2>1, SubSeqProperties
<1>9. page = SubSeq(s, m, n)
  BY <1>1 DEF Slice
<1>10. ASSUME NEW l \in Nat, NEW o \in Nat, NEW p \in Nat, NEW e \in Int,
              e = IF l <= o + p THEN l ELSE o + p
       PROVE  LET length == IF o + 1 <= e THEN e - (o + 1) + 1 ELSE 0
              IN  length >= p \/ length >= l - o
  BY <1>10
<1> HIDE DEF n
<1>11. Len(page) >= Shape.perPage \/ Len(page) >= Len(s) - Offset(Shape)
  BY <1>2, <1>3, <1>4, <1>5, <1>6, <1>7, <1>8, <1>9, <1>10
<1> QED
  BY <1>3, <1>4, <1>5, <1>8, <1>9, <1>11

(* The page as the client keeps it, with the columns.                      *)
LEMMA KeptPage ==
  ASSUME ListType, NEW M \in SUBSET Keys, NEW page \in Pages(M),
         NEW kept, kept = [i \in DOMAIN page |-> [key |-> page[i], attr |-> rows[page[i]].attr]]
  PROVE  /\ Len(kept) \in Nat /\ DOMAIN kept = 1..Len(kept)
         /\ Len(kept) >= Shape.perPage \/ Len(kept) >= Cardinality(M) - Offset(Shape)
         /\ \A i \in DOMAIN kept : kept[i].key \in M /\ kept[i].attr = rows[kept[i].key].attr
<1>1. page \in Seq(M) /\ (Len(page) >= Shape.perPage \/ Len(page) >= Cardinality(M) - Offset(Shape))
  BY PageOfPoints
<1>2. DOMAIN kept = 1..Len(page) /\ Len(page) \in Nat
  BY <1>1
<1>3. Len(kept) = Len(page)
  BY <1>2
<1>4. \A i \in DOMAIN kept : kept[i].key = page[i] /\ kept[i].attr = rows[page[i]].attr /\ page[i] \in M
  BY <1>1, <1>2
<1> QED
  BY <1>1, <1>2, <1>3, <1>4

-----------------------------------------------------------------------------
(* Stamps in the table: never ahead of the clock, and a new one is not     *)
(* older than any there.                                                   *)
LEMMA TableStamps ==
  ASSUME ListType, Fresh, TableNext, NEW k \in Keys
  PROVE  /\ rows'[k] # NoRow => rows'[k].updated \in Nat /\ rows'[k].updated <= clock'
         /\ rows[k] # NoRow =>
              /\ rows'[k] # NoRow
              /\ rows[k].updated \in Nat /\ rows[k].updated <= rows'[k].updated
              /\ \/ rows'[k] = rows[k]
                 \/ \A j \in Keys : rows[j] # NoRow => rows[j].updated <= rows'[k].updated
<1>1. /\ rows \in [Keys -> Entry \cup {NoRow}] /\ rows' \in [Keys -> Entry \cup {NoRow}]
      /\ clock \in Nat
      /\ rows[k] # NoRow => rows'[k] # NoRow
  BY TableGrows DEF ListType
<1>2. /\ rows[k] # NoRow => rows[k].updated \in Nat /\ rows[k].updated <= clock
      /\ rows'[k] # NoRow => rows'[k].updated \in Nat
  BY <1>1 DEF Entry, Fresh
<1>3. CASE Tick
  <2>1. rows' = rows /\ clock' = clock + 1
    BY <1>3 DEF Tick
  <2>2. rows[k] # NoRow => rows[k].updated <= clock + 1
    BY <1>1, <1>2
  <2> QED
    BY <1>2, <2>1, <2>2
<1>4. ASSUME NEW b \in Batches, Upsert(b)
      PROVE  /\ rows'[k] # NoRow => rows'[k].updated <= clock'
             /\ rows[k] # NoRow =>
                  /\ rows[k].updated <= rows'[k].updated
                  /\ \/ rows'[k] = rows[k]
                     \/ \A j \in Keys : rows[j] # NoRow => rows[j].updated <= rows'[k].updated
  <2>1. PICK stamp \in [Touched(b) -> Stamps] :
          rows' = [x \in Keys |-> IF x \in Touched(b)
                                  THEN [attr |-> LastAttr(b, x), updated |-> stamp[x]]
                                  ELSE rows[x]]
    BY <1>4 DEF Upsert
  <2>2. CASE k \in Touched(b)
    <3>1. rows'[k].updated = stamp[k] /\ stamp[k] \in Stamps
      BY <2>1, <2>2
    <3>2. rows'[k].updated \in 1..clock /\ clock' = clock
      BY <1>4, <3>1 DEF Stamps, Upsert
    <3>3. \A j \in Keys : rows[j] # NoRow => rows[j].updated <= rows'[k].updated
      BY <3>1 DEF Stamps
    <3> QED
      BY <1>1, <3>2, <3>3
  <2>3. CASE k \notin Touched(b)
    <3>1. rows'[k] = rows[k] /\ clock' = clock
      BY <1>4, <2>1, <2>3 DEF Upsert
    <3> QED
      BY <1>2, <3>1
  <2> QED
    BY <2>2, <2>3
<1>5. CASE \E b \in Batches : Upsert(b)
  BY <1>1, <1>2, <1>4, <1>5
<1> QED
  BY <1>3, <1>5 DEF TableNext

LEMMA TablePageInv ==
  ASSUME PageInv, TableNext, UNCHANGED readVars
  PROVE  Promised' /\ Fresh'
<1>1. /\ \A k \in Keys : rows[k] # NoRow => rows'[k] # NoRow
      /\ UNCHANGED <<url, pc, filter, match, etag, total, cache, code>>
      /\ ListInv /\ ListInv' /\ ListType /\ Promised /\ Fresh
  <2>1. ListType
    BY DEF PageInv, ListInv
  <2>2. \A k \in Keys : rows[k] # NoRow => rows'[k] # NoRow
    BY <2>1, TableGrows DEF ListType
  <2> QED
    BY <2>1, <2>2, TableListInv DEF PageInv, readVars
<1>2. ASSUME NEW u, Passed(u) PROVE Passed(u)'
  <2>1. CASE u = 0
    BY <1>2, <2>1 DEF Passed
  <2>2. CASE u # 0
    <3>1. PICK k \in Keys : rows[k] # NoRow /\ rows[k].updated >= u
      BY <1>2, <2>2 DEF Passed
    <3>2. /\ rows'[k] # NoRow /\ rows'[k].updated \in Nat
          /\ rows[k].updated \in Nat /\ rows[k].updated <= rows'[k].updated
      BY <1>1, <3>1, TableStamps
    <3>3. rows'[k].updated >= u /\ u \in Nat
      BY <1>2, <3>1, <3>2 DEF Passed
    <3> QED
      BY <3>2, <3>3 DEF Passed
  <2> QED
    BY <2>1, <2>2
<1>3. Promised'
  <2>1. ASSUME pc = "page"
        PROVE  \E S \in SUBSET (Within(Limit)') : total = Cardinality(S)
    <3>1. PICK S \in SUBSET Within(Limit) : total = Cardinality(S)
      BY <1>1, <2>1 DEF Promised
    <3>2. url.box # BadBox /\ FilterOfUrl' /\ ListType'
      BY <1>1, <2>1 DEF ListInv, FilterOfUrl
    <3>3. Limit' \in Int /\ Limit <= Limit'
      <4>1. pc' = "page" /\ url' = url /\ filter' = filter
        BY <1>1, <2>1
      <4>2. filter = Normalized(filter) /\ filter.end # 0 /\ filter.end \in Int
        <5>1. filter \in Filter /\ filter = Normalized(filter) /\ clock \in Nat \ {0}
          BY <1>1, <2>1 DEF ListInv, ListType, FilterOfUrl
        <5>2. Normalized(filter).end = IF filter.end = 0 THEN clock ELSE filter.end
          BY <5>1, Normalizing
        <5> QED
          BY <5>1, <5>2 DEF Filter
      <4>3. Limit = filter.end
        BY <2>1, <4>2 DEF Limit, Normalized
      <4>4. Limit' = filter.end
        BY <4>1, <4>2 DEF Limit, Normalized
      <4> QED
        BY <4>2, <4>3, <4>4
    <3>4. Within(Limit) \subseteq Within(Limit)'
      BY <1>1, <3>2, <3>3, WithinGrows
    <3> QED
      BY <3>1, <3>4
  <2>2. Shape' = Shape /\ Offset(Shape)' = Offset(Shape)
    BY <1>1 DEF Shape, Offset
  <2> QED
    BY <1>1, <2>1, <2>2 DEF Promised
<1>4. Fresh'
  <2>1. ASSUME cache # Nothing, NEW i \in DOMAIN cache.page, NEW k, k = cache.page[i].key
        PROVE  /\ k \in Keys /\ rows'[k] # NoRow
               /\ rows'[k].attr = cache.page[i].attr \/ rows'[k].updated >= cache.etag[3]
    <3>1. /\ k \in Keys /\ rows[k] # NoRow /\ Passed(cache.etag[3])
          /\ rows[k].attr = cache.page[i].attr \/ rows[k].updated >= cache.etag[3]
      BY <1>1, <2>1 DEF Fresh
    <3>2. /\ rows'[k] # NoRow /\ rows'[k].updated \in Nat
          /\ rows[k].updated \in Nat /\ rows[k].updated <= rows'[k].updated
          /\ \/ rows'[k] = rows[k]
             \/ \A j \in Keys : rows[j] # NoRow => rows[j].updated <= rows'[k].updated
      BY <1>1, <3>1, TableStamps
    <3>3. CASE rows'[k] = rows[k]
      BY <3>1, <3>2, <3>3
    <3>4. CASE \A j \in Keys : rows[j] # NoRow => rows[j].updated <= rows'[k].updated
      <4>1. cache.etag[3] \in Nat
        BY <3>1 DEF Passed
      <4>2. CASE cache.etag[3] = 0
        BY <3>1, <3>2, <4>2
      <4>3. CASE cache.etag[3] # 0
        <5>1. PICK j \in Keys : rows[j] # NoRow /\ rows[j].updated >= cache.etag[3]
          BY <3>1, <4>3 DEF Passed
        <5>2. rows[j].updated <= rows'[k].updated /\ rows[j].updated \in Nat
          BY <1>1, <3>4, <5>1, TableStamps
        <5> QED
          BY <3>1, <3>2, <4>1, <5>1, <5>2
      <4> QED
        BY <4>2, <4>3
    <3> QED
      BY <3>2, <3>3, <3>4
  <2>2. \A k \in Keys : rows'[k] # NoRow => rows'[k].updated <= clock'
    BY <1>1, TableStamps
  <2>3. /\ pc' \in {"count", "page"} => Passed(etag[3])'
        /\ cache' # Nothing => Passed(cache.etag[3])'
    BY <1>1, <1>2 DEF Fresh
  <2> QED
    BY <1>1, <2>1, <2>2, <2>3 DEF Fresh
<1> QED
  BY <1>3, <1>4

-----------------------------------------------------------------------------
(* The steps of a handler.  Those that leave page, count and ETag alone:   *)
LEMMA QuietPageInv ==
  ASSUME PageInv, UNCHANGED <<rows, clock, url, cache>>, pc' \notin {"count", "page"}
  PROVE  Promised' /\ Fresh'
BY DEF PageInv, Promised, Fresh, Passed, Shape, Offset

LEMMA FingerprintPageInv ==
  ASSUME PageInv, ReadFingerprint
  PROVE  Promised' /\ Fresh'
<1>1. /\ pc = "fingerprint" /\ pc' = "count" /\ etag' = Tag
      /\ UNCHANGED <<rows, clock, url, filter, match, total, cache, code>>
  BY DEF ReadFingerprint
<1>2. Promised'
  BY <1>1 DEF PageInv, Promised, Shape, Offset
<1>3. Passed(Tag[3])
  <2> DEFINE U == {rows[k].updated : k \in Within(Limit)}
  <2>1. Tag[3] = MaxOr0(U)
    BY <1>1, CountInTag DEF PageInv, Tag, ETag, Fingerprint
  <2>2. Within(Limit) \subseteq {k \in Keys : rows[k] # NoRow}
    <3>1. url.box \subseteq Keys
      BY <1>1, Resolving DEF PageInv, ListInv, FilterOfUrl
    <3> QED
      BY <3>1 DEF Within
  <2>3. clock \in Nat /\ U \in SUBSET (1..clock)
    <3>1. \A k \in Within(Limit) : rows[k] \in Entry /\ rows[k].updated <= clock
      BY <2>2 DEF PageInv, ListInv, ListType, Fresh
    <3>2. \A k \in Within(Limit) : rows[k].updated \in 1..clock
      BY <3>1 DEF Entry, PageInv, ListInv, ListType
    <3> QED
      BY <3>2 DEF PageInv, ListInv, ListType
  <2>4. CASE U = {}
    BY <2>1, <2>4 DEF MaxOr0, Passed
  <2>5. CASE U # {}
    <3> HIDE DEF U
    <3>1. MaxOr0(U) \in U
      BY <2>3, <2>5, MaxOfStamps
    <3>2. MaxOr0(U) \in Nat
      <4>1. U \subseteq Nat
        BY <2>3
      <4> QED
        BY <3>1, <4>1
    <3>3. PICK k \in Within(Limit) : rows[k].updated = MaxOr0(U)
      BY <3>1 DEF U
    <3> QED
      BY <2>1, <2>2, <3>2, <3>3 DEF Passed
  <2> QED
    BY <2>4, <2>5
<1>4. Fresh'
  BY <1>1, <1>3 DEF PageInv, Fresh, Passed
<1> QED
  BY <1>2, <1>4

LEMMA CountPageInv ==
  ASSUME PageInv, CountRows
  PROVE  Promised' /\ Fresh'
<1>1. /\ pc = "count" /\ pc' = "page" /\ filter' = Normalized(filter)
      /\ total' = Cardinality(Matching(Normalized(filter)))'
      /\ UNCHANGED <<rows, clock, url, match, etag, cache, code>>
  BY DEF CountRows, Matching, Normalized
<1>2. total' = Cardinality(Within(Limit))
  <2>1. Matching(Normalized(filter)) = Within(Limit)
    BY <1>1, CountInTag DEF PageInv
  <2>2. total' = Cardinality(Matching(Normalized(filter)))
    BY <1>1 DEF CountRows, Matching
  <2> QED
    BY <2>1, <2>2
<1>3. Within(Limit)' = Within(Limit)
  <2>1. Normalized(filter)' = Normalized(filter)
    <3>1. Normalized(filter)' = Normalized(Normalized(filter))
      BY <1>1 DEF Normalized
    <3> QED
      BY <1>1, <3>1, Normalizing DEF PageInv, ListInv, ListType, FilterOfUrl
  <2>2. Limit' = Limit
    BY <1>1, <2>1 DEF Limit
  <2> QED
    BY <1>1, <2>2 DEF Within
<1>4. Promised'
  BY <1>1, <1>2, <1>3 DEF PageInv, Promised, Shape, Offset
<1>5. Fresh'
  BY <1>1 DEF PageInv, Fresh, Passed
<1> QED
  BY <1>4, <1>5

LEMMA PagePageInv ==
  ASSUME PageInv, ReadPage
  PROVE  Promised' /\ Fresh'
<1>1. PICK page \in PageKeys(filter) :
        cache' = [etag |-> etag,
                  page |-> [i \in DOMAIN page |-> [key |-> page[i], attr |-> rows[page[i]].attr]],
                  total |-> total,
                  pages |-> TotalPages(total, url.perPage)]
  BY DEF ReadPage
<1>2. /\ pc = "page" /\ pc' = "idle" /\ UNCHANGED <<rows, clock, url>>
      /\ filter = Normalized(filter) /\ filter \in Filter /\ url.box # BadBox
      /\ ListInv /\ ListType /\ Promised /\ Fresh
  BY DEF ReadPage, Answer, PageInv, ListInv, FilterOfUrl
<1>3. page \in Pages(Within(Limit))
  <2>1. Matching(filter) = Within(Limit)
    BY <1>2, CountInTag
  <2>2. filter.page = Shape.page /\ filter.perPage = Shape.perPage /\ filter.order = url.order
    BY <1>2 DEF ListInv, FilterOfUrl
  <2> QED
    BY <1>1, <1>2, <2>1, <2>2, PagesOfFilter
<1>4. Within(Limit) \in SUBSET Keys /\ \A k \in Within(Limit) : rows[k] # NoRow
  BY <1>2, Resolving DEF Within
<1> DEFINE kept == cache'.page
<1>5. /\ Len(kept) \in Nat
      /\ Len(kept) >= Shape.perPage \/ Len(kept) >= Cardinality(Within(Limit)) - Offset(Shape)
      /\ \A i \in DOMAIN kept : kept[i].key \in Within(Limit) /\ kept[i].attr = rows[kept[i].key].attr
  <2>1. kept = [i \in DOMAIN page |-> [key |-> page[i], attr |-> rows[page[i]].attr]]
    BY <1>1
  <2> HIDE DEF kept
  <2> QED
    BY <1>2, <1>3, <1>4, <2>1, KeptPage
<1>6. total \in Nat /\ total <= Cardinality(Within(Limit)) /\ Cardinality(Within(Limit)) \in Nat
  <2>1. PICK S \in SUBSET Within(Limit) : total = Cardinality(S)
    BY <1>2 DEF Promised
  <2>2. IsFiniteSet(Within(Limit))
    BY <1>4, ListingAssumption, FS_Subset
  <2> QED
    BY <2>1, <2>2, FS_Subset, FS_CardinalityType
<1>7. Shape.perPage \in Nat /\ Offset(Shape) \in Nat
  BY <1>2, <1>3, <1>4, PageOfPoints
<1>8. cache'.total = total /\ cache'.etag = etag
  BY <1>1
<1>9. Promised'
  <2>1. Len(kept) >= Shape.perPage \/ Len(kept) >= total - Offset(Shape)
    <3> HIDE DEF kept
    <3> QED
      BY <1>5, <1>6, <1>7
  <2>2. Shape' = Shape /\ Offset(Shape)' = Offset(Shape)
    BY <1>2 DEF Shape, Offset
  <2> QED
    BY <1>2, <1>5, <1>6, <1>8, <2>1, <2>2 DEF Promised
<1>10. Fresh'
  <2>1. Passed(cache.etag[3])'
    BY <1>2, <1>8 DEF Fresh, Passed
  <2>2. \A i \in DOMAIN kept : kept[i].key \in Keys /\ rows[kept[i].key] # NoRow
    BY <1>4, <1>5
  <2> QED
    BY <1>2, <1>5, <2>1, <2>2 DEF Fresh
<1> QED
  BY <1>9, <1>10

LEMMA StepPageInv ==
  ASSUME PageInv, [Next]_vars
  PROVE  PageInv'
<1> SUFFICES Promised' /\ Fresh'
  BY NextListInv DEF PageInv
<1>1. CASE Get
  BY <1>1, QuietPageInv DEF Get
<1>2. CASE GetBadBox \/ NotModified \/ ReadFails
  BY <1>2, QuietPageInv DEF GetBadBox, NotModified, ReadFails, Answer
<1>3. CASE ReadFingerprint
  BY <1>3, FingerprintPageInv
<1>4. CASE CountRows
  BY <1>4, CountPageInv
<1>5. CASE ReadPage
  BY <1>5, PagePageInv
<1>6. CASE TableNext /\ UNCHANGED readVars
  BY <1>6, TablePageInv
<1>7. CASE UNCHANGED vars
  <2>1. UNCHANGED <<rows, clock, url, pc, filter, match, etag, total, cache, code>>
    BY <1>7 DEF vars
  <2> QED
    BY <2>1 DEF PageInv, Promised, Fresh, Passed, Within, Limit, Normalized, Resolved, Shape, Offset
<1> QED
  BY <1>1, <1>2, <1>3, <1>4, <1>5, <1>6, <1>7 DEF Next, Read

(* Turning the page forgets the kept one.                                  *)
LEMMA TurnPageInv ==
  ASSUME PageInv, TurnPage
  PROVE  PageInv'
<1>1. ListInv'
  BY TurnListInv DEF PageInv
<1>2. pc' = "idle" /\ cache' = Nothing /\ UNCHANGED <<rows, clock>>
  BY DEF TurnPage
<1> QED
  BY <1>1, <1>2 DEF PageInv, Promised, Fresh

LEMMA WalkPageInv ==
  ASSUME PageInv, [WalkNext]_allVars
  PROVE  PageInv'
BY WalkSteps, StepPageInv, TurnPageInv

LEMMA InitPageInv == WalkInit => PageInv
<1> SUFFICES ASSUME WalkInit PROVE PageInv
  OBVIOUS
<1>1. ListInv
  BY InitListInv DEF WalkInit
<1>2. rows = [k \in Keys |-> NoRow] /\ pc = "idle" /\ cache = Nothing
  BY DEF WalkInit, Init, TableInit
<1> QED
  BY <1>1, <1>2 DEF PageInv, Promised, Fresh

(* For all clients, whatever arrives between the statements of a request:  *)
(* the COUNT is covered by the page, and what is kept is as old as the     *)
(* ETag says (listPoints, List, ListFingerprint).                          *)
THEOREM PageInvariance == WalkSpec => []PageInv
<1>1. PageInv /\ [WalkNext]_allVars => PageInv'
  BY WalkPageInv
<1> QED
  BY InitPageInv, <1>1, PTL DEF WalkSpec

-----------------------------------------------------------------------------
(* A page is never shorter than the total counted before it promises       *)
(* (listPoints, List).                                                     *)
THEOREM PagesKeepTheirPromise == WalkSpec => []PageAsFullAsTotal
<1>1. ASSUME PageInv, cache # Nothing
      PROVE  LET f == Normalized(Resolved(url))
             IN  Len(cache.page) >= Min({f.perPage, cache.total - Offset(f)})
  <2>1. url.box # BadBox
    BY <1>1 DEF PageInv, ListInv, Kept
  <2> DEFINE f == Normalized(Resolved(url))
  <2>2. f.page = Shape.page /\ f.perPage = Shape.perPage
    BY <1>1, <2>1, Resolving, Normalizing DEF PageInv, ListInv, ListType, Shape
  <2>3. Offset(f) = Offset(Shape)
    BY <2>2 DEF Offset
  <2>4. Shape.page \in Nat \ {0} /\ Shape.perPage \in Nat /\ Offset(Shape) \in Nat
    <3>1. Shape.page \in Nat \ {0} /\ Shape.perPage \in Nat
      BY <1>1, ListingAssumption DEF Shape, PageInv, ListInv, ListType, Query, Clamp
    <3> QED
      BY <3>1 DEF Offset
  <2>5. /\ cache.total \in Nat /\ Len(cache.page) \in Nat
        /\ Len(cache.page) >= Shape.perPage \/ Len(cache.page) >= cache.total - Offset(Shape)
    BY <1>1 DEF PageInv, Promised
  <2>6. \A a, b \in Int : Min({a, b}) = IF a <= b THEN a ELSE b
    BY DEF Min
  <2>7. ASSUME NEW l \in Nat, NEW p \in Nat, NEW d \in Int, l >= p \/ l >= d
        PROVE  l >= Min({p, d})
    BY <2>6, <2>7
  <2>8. cache.total - Offset(Shape) \in Int
    BY <2>4, <2>5
  <2> HIDE DEF f
  <2>9. Len(cache.page) >= Min({f.perPage, cache.total - Offset(f)})
    BY <2>2, <2>3, <2>4, <2>5, <2>7, <2>8
  <2> QED
    BY <2>9 DEF f
<1>2. PageInv => PageAsFullAsTotal
  BY <1>1 DEF PageAsFullAsTotal
<1> QED
  BY PageInvariance, <1>2, PTL

(* A point that a 304 leaves outdated was rewritten in the second of the   *)
(* newest stamp in the window (listPoints, ListFingerprint, pointsETag).   *)
LEMMA StaleOneSecond ==
  ASSUME PageInv, NotModified, NEW i \in DOMAIN cache.page,
         rows[cache.page[i].key].attr # cache.page[i].attr
  PROVE  rows[cache.page[i].key].updated = Fingerprint(filter).maxUpdated
<1> DEFINE k == cache.page[i].key
           U == {rows[j].updated : j \in Within(Limit)}
<1>1. /\ pc = "fingerprint" /\ cache # Nothing /\ Tag = cache.etag /\ url.box # BadBox
      /\ ListInv /\ ListType
  BY DEF NotModified, PageInv, ListInv, FilterOfUrl, Conditional
<1>2. k \in Keys /\ rows[k] # NoRow /\ rows[k].updated >= cache.etag[3]
  BY <1>1 DEF PageInv, Fresh
<1>3. Fingerprint(filter).maxUpdated = MaxOr0(U) /\ Tag[3] = MaxOr0(U)
  BY <1>1, CountInTag DEF Tag, ETag, Fingerprint
<1>4. Within(Limit) \subseteq {j \in Keys : rows[j] # NoRow}
  BY <1>1, Resolving DEF Within
<1>5. k \in Within(Limit)
  <2>1. PICK M \in SUBSET Within(Limit) : Keyed(cache.page) \in Pages(M)
    BY <1>1 DEF ListInv, Kept
  <2>2. Keyed(cache.page) \in Seq(M)
    BY <1>1, <1>4, <2>1, PageOfPoints
  <2>3. DOMAIN Keyed(cache.page) = DOMAIN cache.page /\ Keyed(cache.page)[i] = k
    BY DEF Keyed
  <2> HIDE DEF k
  <2> QED
    BY <2>1, <2>2, <2>3
<1>6. clock \in Nat /\ U \in SUBSET (1..clock)
  <2>1. \A j \in Within(Limit) : rows[j] \in Entry /\ rows[j].updated <= clock
    BY <1>4 DEF PageInv, ListInv, ListType, Fresh
  <2>2. \A j \in Within(Limit) : rows[j].updated \in 1..clock
    BY <2>1 DEF Entry, PageInv, ListInv, ListType
  <2> QED
    BY <2>2 DEF PageInv, ListInv, ListType
<1>7. rows[k].updated \in U
  BY <1>5
<1> HIDE DEF U, k
<1>8. rows[k].updated <= MaxOr0(U) /\ MaxOr0(U) \in U
  BY <1>6, <1>7, MaxOfStamps
<1>9. rows[k].updated \in Nat /\ MaxOr0(U) \in Nat
  <2>1. U \subseteq Nat
    BY <1>6
  <2> QED
    BY <1>7, <1>8, <2>1
<1>10. rows[k].updated >= MaxOr0(U)
  BY <1>1, <1>2, <1>3
<1> QED
  BY <1>3, <1>8, <1>9, <1>10 DEF k

(* A 304 hides a rewritten point for at most the second of the newest      *)
(* stamp: for all clients and uploads (listPoints, pointsETag).            *)
THEOREM StaleForOneSecond == WalkSpec => NotModifiedStaleOneSecond
<1>1. ASSUME PageInv, [WalkNext]_allVars, Answers304
      PROVE  NotModified
  <2>1. pc = "fingerprint" /\ ~(UNCHANGED readVars)
    BY <1>1 DEF Answers304, readVars
  <2>2. [Read]_vars
    BY <1>1, <2>1, WalkSteps DEF Next
  <2> QED
    BY <1>1, <2>2, OnlyNotModified
<1> DEFINE A == Answers304 =>
      \A i \in DOMAIN cache.page :
         rows[cache.page[i].key].attr # cache.page[i].attr =>
           rows[cache.page[i].key].updated = Fingerprint(filter).maxUpdated
<1>2. PageInv /\ [WalkNext]_allVars => A
  BY <1>1, StaleOneSecond
<1> QED
  BY PageInvariance, <1>2, PTL DEF WalkSpec, NotModifiedStaleOneSecond

-----------------------------------------------------------------------------
(* Walks.  What comes strictly before a point in the order of the URL.     *)
Precedes(j, k) == IF url.order = "asc" THEN Ts[j] < Ts[k] ELSE Ts[k] < Ts[j]

Ahead(k) == {j \in Within(Limit) : Precedes(j, k)}

(* A walk begins on the first page with nothing; its points stay selected. *)
Stages ==
  /\ client \in {"revisits", "to short page", "to X-Total-Pages"}
  /\ client = "revisits" => ~done
  /\ client # "revisits" =>
       /\ url.box # BadBox /\ url.page \in Nat \ {0}
       /\ got \in Seq(Keys)
       /\ code = 200 => Keyed(cache.page) \in Seq(Keys) /\ Len(cache.page) = Len(Keyed(cache.page))
       /\ code = 200 \/ done => pc = "idle" /\ there # Nothing
       /\ there = Nothing => pc = "idle" /\ got = <<>> /\ url.page = 1
       /\ there # Nothing => there \subseteq Within(Limit)

(* A point that was there and has no tie is fetched, or has at least as    *)
(* many points before it as the pages so far have skipped over.            *)
NotSkipped ==
  client = "to short page" /\ there # Nothing =>
    \A k \in there :
      \/ k \in ToSet(got) \/ Tied(k)
      \/ /\ ~done
         /\ Cardinality(Ahead(k)) >= Offset(Shape)
         /\ code = 200 => \/ k \in ToSet(Keyed(cache.page))
                          \/ /\ Len(cache.page) >= Shape.perPage
                             /\ Cardinality(Ahead(k)) >= Offset(Shape) + Shape.perPage

(* Nothing has come since the walk began.                                  *)
Quiet ==
  /\ Within(Limit) = there
  /\ \A k \in there : ~Tied(k)

(* The points of s have the places after from in the order.                *)
Ranks(s, from) ==
  \A i \in DOMAIN s : s[i] \in there /\ Cardinality(Ahead(s[i])) = from + i - 1

(* While nothing comes, the pages so far are the beginning of the one      *)
(* order, and as long as their number says; in the end all of it, if the   *)
(* walk Counts.                                                            *)
Exact ==
  client # "revisits" /\ there # Nothing /\ Quiet =>
    LET n == Cardinality(there)
        o == Offset(Shape)
    IN  /\ Ranks(got, 0)
        /\ ~done => Len(got) = o /\ o <= n
        /\ done /\ Counts => Len(got) = n
        /\ pc = "page" => total = n
        /\ code = 200 /\ ~done =>
             /\ Ranks(Keyed(cache.page), o)
             /\ Len(cache.page) = IF n - o <= Shape.perPage THEN n - o ELSE Shape.perPage
             /\ cache.pages = TotalPages(n, url.perPage)

WalkInv == Stages /\ NotSkipped /\ Exact

-----------------------------------------------------------------------------
(* The numbers a walk counts with.                                         *)
LEMMA ShapeNumbers ==
  ASSUME ListType
  PROVE  /\ Shape.page \in Nat \ {0} /\ Shape.perPage \in Nat \ {0} /\ Offset(Shape) \in Nat
         /\ url.page \in Nat \ {0} => Shape.page = url.page
         /\ url.perPage \in Int
         /\ url.perPage \in 1..MaxPerPage => Shape.perPage = url.perPage
         /\ url.perPage > 0 => Shape.perPage <= url.perPage
         /\ Shape.page * Shape.perPage = Offset(Shape) + Shape.perPage
<1>1. url.page \in Int /\ url.perPage \in Int
  BY DEF ListType, Query
<1>2. DefaultPerPage \in Nat \ {0} /\ MaxPerPage \in Nat \ {0}
  BY ListingAssumption
<1> DEFINE p == IF url.page <= 0 THEN 1 ELSE url.page
           n == IF url.perPage <= 0 THEN DefaultPerPage ELSE Clamp(url.perPage)
<1>3. Shape.page = p /\ Shape.perPage = n
  BY DEF Shape
<1>4. p \in Nat \ {0} /\ (url.page \in Nat \ {0} => p = url.page)
  BY <1>1
<1>5. /\ n \in Nat \ {0} /\ (url.perPage \in 1..MaxPerPage => n = url.perPage)
      /\ url.perPage > 0 => n <= url.perPage
  BY <1>1, <1>2 DEF Clamp
<1>6. Offset(Shape) = (p - 1) * n
  BY <1>3 DEF Offset
<1> HIDE DEF p, n
<1>7. (p - 1) * n \in Nat /\ p * n = (p - 1) * n + n
  BY <1>4, <1>5
<1> QED
  BY <1>1, <1>3, <1>4, <1>5, <1>6, <1>7

LEMMA WithinFinite ==
  ASSUME ListType, url.box # BadBox
  PROVE  /\ Within(Limit) \subseteq Keys /\ IsFiniteSet(Within(Limit))
         /\ \A k \in Within(Limit) : rows[k] # NoRow
         /\ Cardinality(Within(Limit)) \in Nat
         /\ \A k : /\ Ahead(k) \subseteq Within(Limit) /\ IsFiniteSet(Ahead(k))
                   /\ Cardinality(Ahead(k)) \in Nat
<1>1. Within(Limit) \subseteq Keys /\ \A k \in Within(Limit) : rows[k] # NoRow
  BY Resolving DEF Within
<1>2. IsFiniteSet(Within(Limit))
  BY <1>1, ListingAssumption, FS_Subset
<1>3. ASSUME NEW k PROVE Ahead(k) \subseteq Within(Limit) /\ IsFiniteSet(Ahead(k))
  <2>1. Ahead(k) \in SUBSET Within(Limit)
    BY DEF Ahead
  <2> QED
    BY <1>2, <2>1, FS_Subset
<1> QED
  BY <1>1, <1>2, <1>3, FS_CardinalityType

(* A step of the handler or of the table takes no point away.              *)
LEMMA RowsStay ==
  ASSUME ListInv, [Next]_vars, NEW k \in Keys, rows[k] # NoRow
  PROVE  rows'[k] # NoRow
<1>1. CASE Read \/ UNCHANGED vars
  BY <1>1 DEF Read, vars, Get, GetBadBox, NotModified, ReadFingerprint, CountRows, ReadPage,
              ReadFails, Answer
<1>2. CASE TableNext /\ UNCHANGED readVars
  BY <1>2, TableGrows DEF ListInv, ListType
<1> QED
  BY <1>1, <1>2 DEF Next

(* ... and the window never shrinks.                                       *)
LEMMA LimitGrows ==
  ASSUME ListInv, [Next]_vars, url.box # BadBox
  PROVE  UNCHANGED url /\ Limit' \in Int /\ Limit <= Limit'
<1>1. /\ Limit \in Int /\ Limit <= Normalized(Resolved(url)).end
      /\ Normalized(Resolved(url)).end \in Int
      /\ pc # "idle" => Limit = Normalized(filter).end
      /\ pc = "idle" => Limit = Normalized(Resolved(url)).end
  BY LimitFacts, Resolving, Normalizing DEF ListInv, ListType, Filter
<1>2. ASSUME NEW status, Answer(status)
      PROVE  UNCHANGED url /\ Limit' \in Int /\ Limit <= Limit'
  <2>1. Limit' = Normalized(Resolved(url)).end
    BY <1>2 DEF Answer, Limit, Normalized, Resolved
  <2> QED
    BY <1>1, <1>2, <2>1 DEF Answer
<1>3. ASSUME UNCHANGED <<rows, clock, url, pc, filter>>
      PROVE  UNCHANGED url /\ Limit' \in Int /\ Limit <= Limit'
  BY <1>1, <1>3 DEF Limit, Normalized, Resolved
<1>4. CASE Get
  <2>1. Limit' = Limit /\ url' = url
    BY <1>4 DEF Get, Limit, Normalized, Resolved
  <2> QED
    BY <1>1, <2>1
<1>5. CASE ReadFingerprint
  <2>1. Limit' = Limit /\ url' = url
    BY <1>5 DEF ReadFingerprint, Limit, Normalized, Resolved
  <2> QED
    BY <1>1, <2>1
<1>6. CASE CountRows
  <2>1. Normalized(filter)' = Normalized(Normalized(filter)) /\ pc = "count" /\ pc' = "page" /\ url' = url
    BY <1>6 DEF CountRows, Normalized
  <2>2. Limit' = Limit
    BY <2>1, Normalizing DEF Limit, ListInv, ListType, FilterOfUrl
  <2> QED
    BY <1>1, <2>1, <2>2
<1>7. CASE TableNext /\ UNCHANGED readVars
  <2>1. clock' \in Nat \ {0} /\ clock <= clock' /\ clock \in Nat
    BY <1>7, TableGrows DEF ListInv, ListType
  <2>2. UNCHANGED <<url, pc, filter>>
    BY <1>7 DEF readVars
  <2>3. CASE pc = "idle"
    <3>1. /\ Limit = IF url.end \in {NoEnd, 0} THEN clock ELSE url.end
          /\ Limit' = IF url.end \in {NoEnd, 0} THEN clock' ELSE url.end
          /\ url.end # NoEnd => url.end \in Int
      BY <2>1, <2>2, <2>3 DEF Limit, Normalized, Resolved, ListInv, ListType, Query
    <3> QED
      BY <2>1, <2>2, <3>1
  <2>4. CASE pc # "idle"
    <3>1. /\ Limit = IF filter.end = 0 THEN clock ELSE filter.end
          /\ Limit' = IF filter.end = 0 THEN clock' ELSE filter.end
          /\ filter.end \in Int
      BY <2>2, <2>4 DEF Limit, Normalized, ListInv, FilterOfUrl, Filter
    <3> QED
      BY <2>1, <2>2, <3>1
  <2> QED
    BY <2>3, <2>4
<1>8. CASE UNCHANGED vars
  BY <1>3, <1>8 DEF vars
<1> QED
  BY <1>2, <1>4, <1>5, <1>6, <1>7, <1>8 DEF Next, Read, GetBadBox, NotModified, ReadPage, ReadFails

LEMMA WindowGrows ==
  ASSUME ListInv, [Next]_vars, url.box # BadBox
  PROVE  /\ UNCHANGED url /\ Within(Limit) \subseteq Within(Limit)'
         /\ \A k : Ahead(k) \subseteq Ahead(k)'
         /\ \A k \in Keys : Tied(k) => Tied(k)'
<1>1. UNCHANGED url /\ Within(Limit) \subseteq Within(Limit)'
  BY LimitGrows, RowsStay, WithinGrows
<1>2. \A k : Ahead(k) \subseteq Ahead(k)'
  BY <1>1 DEF Ahead, Precedes
<1>3. \A k \in Keys : Tied(k) => Tied(k)'
  BY RowsStay DEF Tied
<1> QED
  BY <1>1, <1>2, <1>3

-----------------------------------------------------------------------------
(* In an ordering every point has one place, and a point without a tie has *)
(* exactly the points before it that precede it.                           *)
LEMMA Places ==
  ASSUME ListType, NEW M \in SUBSET Keys, NEW s \in Orderings(M, url.order)
  PROVE  /\ Cardinality(M) \in Nat /\ s \in [1..Cardinality(M) -> M]
         /\ \A k \in M : \E p \in 1..Cardinality(M) : s[p] = k
         /\ \A p \in 1..Cardinality(M) :
              (\A j \in M \ {s[p]} : Ts[j] # Ts[s[p]]) =>
                Cardinality({j \in M : Precedes(j, s[p])}) = p - 1
<1> DEFINE n == Cardinality(M)
<1>1. IsFiniteSet(M) /\ n \in Nat
  BY ListingAssumption, FS_Subset, FS_CardinalityType
<1>2. /\ s \in [1..n -> M] /\ \A i, j \in 1..n : i # j => s[i] # s[j]
      /\ \A i, j \in 1..n : i < j =>
           IF url.order = "asc" THEN Ts[s[i]] <= Ts[s[j]] ELSE Ts[s[i]] >= Ts[s[j]]
  BY DEF Orderings, SetToSeqs
<1>3. \A k \in M : \E p \in 1..n : s[p] = k
  <2>1. s \in Injection(1..n, M)
    BY <1>2 DEF Injection, IsInjective
  <2>2. IsFiniteSet(1..n) /\ Cardinality(1..n) = n
    BY <1>1, FS_Interval
  <2>3. s \in Surjection(1..n, M)
    BY <1>1, <2>1, <2>2, FS_Injection
  <2> QED
    BY <2>3 DEF Surjection
<1>4. ASSUME NEW p \in 1..n, \A j \in M \ {s[p]} : Ts[j] # Ts[s[p]]
      PROVE  Cardinality({j \in M : Precedes(j, s[p])}) = p - 1
  <2> DEFINE T == {j \in M : Precedes(j, s[p])}
             f == [i \in 1..(p - 1) |-> s[i]]
  <2>1. \A j \in M : Ts[j] \in Int
    BY ListingAssumption
  <2>2. ASSUME NEW i \in 1..n PROVE s[i] \in T <=> i < p
    <3>1. s[i] \in M /\ s[p] \in M /\ Ts[s[i]] \in Int /\ Ts[s[p]] \in Int
      BY <1>2, <2>1
    <3>2. i # p => Ts[s[i]] # Ts[s[p]]
      BY <1>2, <1>4, <3>1
    <3> QED
      BY <1>1, <1>2, <3>1, <3>2 DEF Precedes
  <2>3. f \in [1..(p - 1) -> T]
    BY <1>1, <2>2
  <2>4. \A t \in T : \E i \in 1..(p - 1) : f[i] = t
    BY <1>1, <1>3, <2>2
  <2>5. \A i, j \in 1..(p - 1) : f[i] = f[j] => i = j
    BY <1>1, <1>2
  <2>6. f \in Bijection(1..(p - 1), T)
    <3> HIDE DEF f, T
    <3> QED
      BY <2>3, <2>4, <2>5 DEF Bijection, Injection, Surjection, IsInjective
  <2>7. IsFiniteSet(1..(p - 1)) /\ Cardinality(1..(p - 1)) = p - 1
    <3>1. p \in Int /\ p >= 1 /\ 1 \in Int /\ p - 1 \in Int
      BY <1>1
    <3>2. /\ IsFiniteSet(1..(p - 1))
          /\ Cardinality(1..(p - 1)) = IF 1 > p - 1 THEN 0 ELSE p - 1 - 1 + 1
      BY <3>1, FS_Interval
    <3> QED
      BY <3>1, <3>2
  <2> QED
    BY <2>6, <2>7, FS_Bijection DEF ExistsBijection
<1> QED
  BY <1>1, <1>2, <1>3, <1>4

(* A page is the next part of such an ordering.                            *)
LEMMA PlacesOnPage ==
  ASSUME ListType, NEW M \in SUBSET Keys, NEW page \in Pages(M)
  PROVE  /\ page \in Seq(M) /\ Cardinality(M) \in Nat
         /\ Len(page) = IF Cardinality(M) <= Offset(Shape) THEN 0
                        ELSE IF Cardinality(M) - Offset(Shape) <= Shape.perPage
                        THEN Cardinality(M) - Offset(Shape) ELSE Shape.perPage
         /\ \A i \in DOMAIN page :
              (\A j \in M \ {page[i]} : Ts[j] # Ts[page[i]]) =>
                Cardinality({j \in M : Precedes(j, page[i])}) = Offset(Shape) + i - 1
         /\ \A k \in M :
              (\A j \in M \ {k} : Ts[j] # Ts[k]) =>
                \/ Cardinality({j \in M : Precedes(j, k)}) < Offset(Shape)
                \/ \E i \in DOMAIN page : page[i] = k
                \/ /\ Len(page) = Shape.perPage
                   /\ Cardinality({j \in M : Precedes(j, k)}) >= Offset(Shape) + Shape.perPage
<1> DEFINE o == Offset(Shape)
           w == Shape.perPage
           c == Cardinality(M)
<1>1. PICK s \in Orderings(M, url.order) : page = Slice(s, Shape)
  BY DEF Pages
<1>2. /\ c \in Nat /\ s \in [1..c -> M]
      /\ \A k \in M : \E p \in 1..c : s[p] = k
      /\ \A p \in 1..c : (\A j \in M \ {s[p]} : Ts[j] # Ts[s[p]]) =>
                            Cardinality({j \in M : Precedes(j, s[p])}) = p - 1
  BY Places
<1>3. o \in Nat /\ w \in Nat \ {0}
  BY ShapeNumbers
<1> DEFINE e == IF c <= o + w THEN c ELSE o + w
<1>4. page = SubSeq(s, o + 1, e)
  <2>1. Len(s) = c
    BY <1>2
  <2>2. \A a, b \in Int : Min({a, b}) = IF a <= b THEN a ELSE b
    BY DEF Min
  <2> QED
    <3>1. o + w \in Int /\ c \in Int
      BY <1>2, <1>3
    <3>2. Min({c, o + w}) = e
      BY <2>2, <3>1
    <3> QED
      BY <1>1, <2>1, <3>2 DEF Slice
<1>5. e \in Int /\ e <= c /\ e <= o + w
  BY <1>2, <1>3
<1>6. /\ page \in Seq(M) /\ Len(page) = IF o + 1 <= e THEN e - (o + 1) + 1 ELSE 0
      /\ \A i \in 1..(e - (o + 1) + 1) : page[i] = s[o + 1 + i - 1]
  <2>1. \A i \in (o + 1)..e : s[i] \in M
    BY <1>2, <1>3, <1>5
  <2>2. o + 1 \in Int /\ e \in Int
    BY <1>3, <1>5
  <2> HIDE DEF e, o
  <2> QED
    BY <1>4, <2>1, <2>2, SubSeqProperties
<1>7. Len(page) = IF c <= o THEN 0 ELSE IF c - o <= w THEN c - o ELSE w
  <2> HIDE DEF o, w, c
  <2> QED
    BY <1>2, <1>3, <1>6
<1>8. DOMAIN page = 1..Len(page) /\ \A i \in DOMAIN page : page[i] = s[o + i] /\ o + i \in 1..c
  <2>1. DOMAIN page = 1..Len(page) /\ Len(page) \in Nat
    BY <1>6
  <2> HIDE DEF o, w, c
  <2> QED
    BY <1>2, <1>3, <1>6, <1>7, <2>1
<1>9. \A i \in DOMAIN page :
        (\A j \in M \ {page[i]} : Ts[j] # Ts[page[i]]) =>
          Cardinality({j \in M : Precedes(j, page[i])}) = o + i - 1
  <2> SUFFICES ASSUME NEW i \in DOMAIN page, \A j \in M \ {page[i]} : Ts[j] # Ts[page[i]]
               PROVE  Cardinality({j \in M : Precedes(j, page[i])}) = o + i - 1
    OBVIOUS
  <2>1. page[i] = s[o + i] /\ o + i \in 1..c
    BY <1>8
  <2>2. PICK q \in 1..c : q = o + i
    BY <2>1
  <2>3. s[q] = page[i]
    BY <2>1, <2>2
  <2>4. \A j \in M \ {s[q]} : Ts[j] # Ts[s[q]]
    BY <2>3
  <2>5. Cardinality({j \in M : Precedes(j, s[q])}) = q - 1
    BY <1>2, <2>4
  <2>6. Cardinality({j \in M : Precedes(j, page[i])}) = q - 1
    BY <2>3, <2>5, Zenon
  <2>7. q - 1 = o + i - 1
    <3>1. i \in Nat /\ o \in Nat
      BY <1>3, <1>6, <1>8
    <3> HIDE DEF o
    <3> QED
      BY <2>2, <3>1
  <2> QED
    BY <2>6, <2>7, Zenon
<1>10. ASSUME NEW k \in M, \A j \in M \ {k} : Ts[j] # Ts[k]
       PROVE  \/ Cardinality({j \in M : Precedes(j, k)}) < o
              \/ \E i \in DOMAIN page : page[i] = k
              \/ Len(page) = w /\ Cardinality({j \in M : Precedes(j, k)}) >= o + w
  <2>1. PICK p \in 1..c : s[p] = k
    BY <1>2
  <2>2. Cardinality({j \in M : Precedes(j, k)}) = p - 1
    BY <1>2, <1>10, <2>1
  <2> HIDE DEF o, w, c
  <2>3. CASE p <= o
    BY <1>2, <1>3, <2>2, <2>3
  <2>4. CASE p > o + w
    BY <1>2, <1>3, <1>7, <2>2, <2>4
  <2>5. CASE o < p /\ p <= o + w
    <3>1. p - o \in DOMAIN page
      BY <1>2, <1>3, <1>7, <1>8, <2>5
    <3> QED
      BY <1>2, <1>3, <1>8, <2>1, <3>1
  <2> QED
    BY <1>2, <1>3, <2>3, <2>4, <2>5
<1> QED
  BY <1>2, <1>6, <1>7, <1>9, <1>10

-----------------------------------------------------------------------------
LEMMA MoreStays ==
  ASSUME NEW a \in Nat, NEW b \in Nat, a <= b, NEW o \in Nat, NEW w \in Nat
  PROVE  (a >= o => b >= o) /\ (a >= o + w => b >= o + w)
OBVIOUS

LEMMA NotBelow ==
  ASSUME NEW a \in Nat
  PROVE  a >= a /\ \A o \in Nat : a >= o => ~(a < o)
OBVIOUS

(* What a step of the handler or the table leaves a walk.                  *)
LEMMA WalkWindow ==
  ASSUME ListInv, Stages, [Next]_vars, client # "revisits", UNCHANGED there
  PROVE  /\ UNCHANGED <<url, Shape, Offset(Shape)>>
         /\ Within(Limit) \subseteq Within(Limit)'
         /\ there # Nothing => there \subseteq Within(Limit)'
         /\ \A k : /\ Cardinality(Ahead(k)) >= Offset(Shape) => Cardinality(Ahead(k)') >= Offset(Shape)
                   /\ Cardinality(Ahead(k)) >= Offset(Shape) + Shape.perPage =>
                        Cardinality(Ahead(k)') >= Offset(Shape) + Shape.perPage
         /\ \A k \in Keys : Tied(k) => Tied(k)'
         /\ there # Nothing /\ Quiet' => Quiet /\ \A k : Ahead(k)' = Ahead(k)
<1>1. /\ UNCHANGED url /\ Within(Limit) \subseteq Within(Limit)'
      /\ \A k : Ahead(k) \subseteq Ahead(k)'
      /\ \A k \in Keys : Tied(k) => Tied(k)'
      /\ url.box # BadBox
  BY WindowGrows DEF Stages
<1>2. UNCHANGED <<Shape, Offset(Shape)>>
  BY <1>1 DEF Shape, Offset
<1>3. there # Nothing => there \subseteq Within(Limit)'
  BY <1>1 DEF Stages
<1>4. Within(Limit)' \subseteq Keys
  <2>1. url.box \subseteq Keys
    BY <1>1, Resolving DEF ListInv
  <2> QED
    BY <1>1, <2>1 DEF Within
<1>5. ASSUME NEW k
      PROVE  /\ Cardinality(Ahead(k)) \in Nat /\ Cardinality(Ahead(k)') \in Nat
             /\ Cardinality(Ahead(k)) <= Cardinality(Ahead(k)')
  <2>1. Ahead(k)' \in SUBSET Keys /\ Ahead(k) \in SUBSET (Ahead(k)')
    BY <1>1, <1>4 DEF Ahead
  <2>2. IsFiniteSet(Ahead(k)')
    BY <2>1, ListingAssumption, FS_Subset
  <2>3. IsFiniteSet(Ahead(k)) /\ Cardinality(Ahead(k)) <= Cardinality(Ahead(k)')
    BY <2>1, <2>2, FS_Subset
  <2> QED
    BY <2>2, <2>3, FS_CardinalityType
<1>6. ASSUME there # Nothing, Quiet' PROVE Quiet /\ \A k : Ahead(k)' = Ahead(k)
  <2>1. Within(Limit)' = there /\ \A k \in there : ~Tied(k)'
    BY <1>1, <1>6 DEF Quiet
  <2>2. Within(Limit) = there /\ there \subseteq Keys
    BY <1>1, <1>4, <1>6, <2>1 DEF Stages
  <2>3. Quiet
    BY <1>1, <2>1, <2>2 DEF Quiet
  <2>4. \A k : Ahead(k)' = Ahead(k)
    BY <1>1, <2>1, <2>2 DEF Ahead, Precedes
  <2> QED
    BY <2>3, <2>4
<1>7. Offset(Shape) \in Nat /\ Shape.perPage \in Nat
  BY ShapeNumbers DEF ListInv
<1> QED
  BY <1>1, <1>2, <1>3, <1>5, <1>6, <1>7, MoreStays

(* The steps that end no request with a page.                              *)
LEMMA StayWalkInv ==
  ASSUME ListInv, WalkInv, [Next]_vars, client # "revisits",
         UNCHANGED <<client, there, got, done, cache>>,
         code' = 200 => code = 200,
         code' = 200 \/ done => pc' = "idle",
         there = Nothing => pc' = "idle",
         pc' = "page" => \/ pc = "page" /\ total' = total
                         \/ total' = Cardinality(Within(Limit))
  PROVE  WalkInv'
<1> USE DEF WalkInv
<1>1. /\ UNCHANGED <<url, Shape, Offset(Shape)>>
      /\ Within(Limit) \subseteq Within(Limit)'
      /\ there # Nothing => there \subseteq Within(Limit)'
      /\ \A k : /\ Cardinality(Ahead(k)) >= Offset(Shape) => Cardinality(Ahead(k)') >= Offset(Shape)
                /\ Cardinality(Ahead(k)) >= Offset(Shape) + Shape.perPage =>
                     Cardinality(Ahead(k)') >= Offset(Shape) + Shape.perPage
      /\ \A k \in Keys : Tied(k) => Tied(k)'
      /\ there # Nothing /\ Quiet' => Quiet /\ \A k : Ahead(k)' = Ahead(k)
  BY WalkWindow
<1>2. Offset(Shape) \in Nat /\ Shape.perPage \in Nat
  BY ShapeNumbers DEF ListInv
<1>3. Stages'
  BY <1>1 DEF Stages
<1>4. NotSkipped'
  <2> SUFFICES ASSUME client = "to short page", there # Nothing, NEW k \in there,
                      k \notin ToSet(got), ~Tied(k)'
               PROVE  /\ ~done
                      /\ Cardinality(Ahead(k)') >= Offset(Shape)
                      /\ code' = 200 => \/ k \in ToSet(Keyed(cache.page))
                                        \/ /\ Len(cache.page) >= Shape.perPage
                                           /\ Cardinality(Ahead(k)') >= Offset(Shape) + Shape.perPage
    BY <1>1 DEF NotSkipped
  <2>1. k \in Keys
    BY WithinFinite DEF ListInv, Stages
  <2>2. /\ ~done
        /\ Cardinality(Ahead(k)) >= Offset(Shape)
        /\ code = 200 => \/ k \in ToSet(Keyed(cache.page))
                         \/ /\ Len(cache.page) >= Shape.perPage
                            /\ Cardinality(Ahead(k)) >= Offset(Shape) + Shape.perPage
    BY <1>1, <2>1 DEF NotSkipped
  <2> QED
    BY <1>1, <2>2, Zenon
<1>5. Exact'
  <2> SUFFICES ASSUME there # Nothing, Quiet' PROVE Exact'
    BY DEF Exact
  <2>1. Quiet /\ \A k : Ahead(k)' = Ahead(k)
    BY <1>1
  <2>2. pc' = "page" => total' = Cardinality(there)
    BY <2>1 DEF Exact, Quiet
  <2>3. \A s, from : Ranks(s, from)' <=> Ranks(s, from)
    BY <2>1 DEF Ranks
  <2> QED
    BY <1>1, <2>1, <2>2, <2>3 DEF Exact, Keyed, Counts
<1> QED
  BY <1>3, <1>4, <1>5

(* A page: whoever is not on it has more points before it than it skips.   *)
LEMMA PageWalkInv ==
  ASSUME ListInv, WalkInv, ReadPage, client # "revisits", UNCHANGED <<client, there, got, done>>
  PROVE  WalkInv'
<1> USE DEF WalkInv
<1>1. PICK page \in PageKeys(filter) :
        cache' = [etag |-> etag,
                  page |-> [i \in DOMAIN page |-> [key |-> page[i], attr |-> rows[page[i]].attr]],
                  total |-> total,
                  pages |-> TotalPages(total, url.perPage)]
  BY DEF ReadPage
<1>2. /\ pc = "page" /\ pc' = "idle" /\ code' = 200 /\ UNCHANGED <<rows, clock, url>>
      /\ url.box # BadBox /\ filter = Normalized(filter) /\ filter \in Filter
      /\ ListType /\ there # Nothing /\ ~done
  BY DEF ReadPage, Answer, ListInv, FilterOfUrl, Stages
<1>3. page \in Pages(Within(Limit))
  <2>1. Matching(filter) = Within(Limit)
    BY <1>2, CountInTag
  <2>2. filter.page = Shape.page /\ filter.perPage = Shape.perPage /\ filter.order = url.order
    BY <1>2 DEF ListInv, FilterOfUrl
  <2> QED
    BY <1>1, <1>2, <2>1, <2>2, PagesOfFilter
<1>4. /\ Within(Limit) \subseteq Keys /\ \A k \in Within(Limit) : rows[k] # NoRow
      /\ there \subseteq Within(Limit)
  BY <1>2, WithinFinite DEF Stages
<1>5. /\ page \in Seq(Within(Limit)) /\ Cardinality(Within(Limit)) \in Nat
      /\ Len(page) = IF Cardinality(Within(Limit)) <= Offset(Shape) THEN 0
                     ELSE IF Cardinality(Within(Limit)) - Offset(Shape) <= Shape.perPage
                     THEN Cardinality(Within(Limit)) - Offset(Shape) ELSE Shape.perPage
      /\ \A i \in DOMAIN page :
           (\A j \in Within(Limit) \ {page[i]} : Ts[j] # Ts[page[i]]) =>
             Cardinality(Ahead(page[i])) = Offset(Shape) + i - 1
      /\ \A k \in Within(Limit) :
           (\A j \in Within(Limit) \ {k} : Ts[j] # Ts[k]) =>
             \/ Cardinality(Ahead(k)) < Offset(Shape)
             \/ \E i \in DOMAIN page : page[i] = k
             \/ /\ Len(page) = Shape.perPage
                /\ Cardinality(Ahead(k)) >= Offset(Shape) + Shape.perPage
  BY <1>2, <1>3, <1>4, PlacesOnPage DEF Ahead
<1>6. /\ Keyed(cache'.page) = page /\ Len(cache'.page) = Len(page)
      /\ cache'.pages = TotalPages(total, url.perPage)
  <2>1. /\ cache'.page = [i \in DOMAIN page |-> [key |-> page[i], attr |-> rows[page[i]].attr]]
        /\ cache'.pages = TotalPages(total, url.perPage)
    BY <1>1
  <2>2. Keyed(cache'.page) = page
    BY <1>2, <1>3, <1>4, <2>1, KeyedBack
  <2>3. DOMAIN page = 1..Len(page) /\ Len(page) \in Nat /\ DOMAIN (cache'.page) = DOMAIN page
    BY <1>5, <2>1
  <2>4. Len(cache'.page) = Len(page)
    BY <2>3
  <2> QED
    BY <2>1, <2>2, <2>4
<1>7. /\ UNCHANGED <<url, Shape, Offset(Shape)>>
      /\ there \subseteq Within(Limit)'
      /\ \A k : /\ Cardinality(Ahead(k)) >= Offset(Shape) => Cardinality(Ahead(k)') >= Offset(Shape)
                /\ Cardinality(Ahead(k)) >= Offset(Shape) + Shape.perPage =>
                     Cardinality(Ahead(k)') >= Offset(Shape) + Shape.perPage
      /\ \A k \in Keys : Tied(k) => Tied(k)'
      /\ Quiet' => Quiet /\ \A k : Ahead(k)' = Ahead(k)
  BY <1>2, WalkWindow DEF Next, Read
<1>8. Offset(Shape) \in Nat /\ Shape.perPage \in Nat /\ \A k : Cardinality(Ahead(k)) \in Nat
  BY <1>2, ShapeNumbers, WithinFinite
<1>9. ASSUME NEW k \in Within(Limit), ~Tied(k)
      PROVE  \A j \in Within(Limit) \ {k} : Ts[j] # Ts[k]
  BY <1>4, <1>9 DEF Tied
<1>10. Stages'
  <2>1. page \in Seq(Keys)
    BY <1>4, <1>5
  <2> QED
    BY <1>2, <1>6, <1>7, <2>1 DEF Stages
<1>11. NotSkipped'
  <2> SUFFICES ASSUME client = "to short page", NEW k \in there,
                      k \notin ToSet(got), ~Tied(k)'
               PROVE  /\ Cardinality(Ahead(k)') >= Offset(Shape)
                      /\ \/ k \in ToSet(page)
                         \/ /\ Len(page) >= Shape.perPage
                            /\ Cardinality(Ahead(k)') >= Offset(Shape) + Shape.perPage
    BY <1>2, <1>6, <1>7 DEF NotSkipped, ToSet
  <2>1. k \in Within(Limit) /\ ~Tied(k)
    BY <1>4, <1>7
  <2>2. Cardinality(Ahead(k)) >= Offset(Shape)
    BY <1>2, <2>1 DEF NotSkipped
  <2>3. \/ Cardinality(Ahead(k)) < Offset(Shape)
        \/ \E i \in DOMAIN page : page[i] = k
        \/ /\ Len(page) = Shape.perPage
           /\ Cardinality(Ahead(k)) >= Offset(Shape) + Shape.perPage
    BY <1>5, <1>9, <2>1
  <2>4. ~(Cardinality(Ahead(k)) < Offset(Shape))
    BY <1>8, <2>2, NotBelow, Zenon
  <2>5. Len(page) = Shape.perPage => Len(page) >= Shape.perPage
    BY <1>8, NotBelow, Zenon
  <2>6. (\E i \in DOMAIN page : page[i] = k) => k \in ToSet(page)
    BY DEF ToSet
  <2> QED
    BY <1>7, <2>2, <2>3, <2>4, <2>5, <2>6, Zenon
<1>12. Exact'
  <2> SUFFICES ASSUME Quiet' PROVE Exact'
    BY DEF Exact
  <2>1. Quiet /\ \A k : Ahead(k)' = Ahead(k)
    BY <1>7
  <2>2. \A s, from : Ranks(s, from)' <=> Ranks(s, from)
    BY <2>1 DEF Ranks
  <2>3. Within(Limit) = there /\ \A k \in there : ~Tied(k)
    BY <2>1 DEF Quiet
  <2>4. Ranks(page, Offset(Shape))
    <3>1. \A i \in DOMAIN page : page[i] \in there
      BY <1>5, <2>3
    <3> QED
      BY <1>5, <1>9, <2>3, <3>1 DEF Ranks
  <2>5. Offset(Shape) <= Cardinality(there) /\ total = Cardinality(there)
    BY <1>2, <2>1 DEF Exact
  <2>6. Len(page) = IF Cardinality(there) - Offset(Shape) <= Shape.perPage
                    THEN Cardinality(there) - Offset(Shape) ELSE Shape.perPage
    BY <1>5, <1>8, <2>3, <2>5
  <2> QED
    BY <1>2, <1>6, <1>7, <2>1, <2>2, <2>3, <2>4, <2>5, <2>6 DEF Exact
<1> QED
  BY <1>10, <1>11, <1>12

(* The page that ends a walk is the one that reaches the end.              *)
LEMMA PagesEnough ==
  ASSUME NEW n \in Nat, NEW w \in Nat \ {0}, NEW p \in Nat
  PROVE  p >= TotalPages(n, w) <=> p * w >= n
<1>1. TotalPages(n, w) = (n + w - 1) \div w
  BY DEF TotalPages
<1>2. n + w - 1 \in Int /\ p + 1 \in Int
  OBVIOUS
<1>3. (n + w - 1) \div w \in Int /\ ((n + w - 1) \div w >= p + 1 <=> n + w - 1 >= (p + 1) * w)
  BY <1>2, Quotient, QuotientAtLeast
<1>4. (p + 1) * w = p * w + w /\ p * w \in Int
  BY SMT
<1> DEFINE q == (n + w - 1) \div w
           m == p * w
<1>5. q \in Int /\ m \in Int /\ (q >= p + 1 <=> n + w - 1 >= m + w)
  BY <1>3, <1>4
<1> HIDE DEF q, m
<1>6. p >= q <=> m >= n
  BY <1>5
<1> QED
  BY <1>1, <1>6 DEF q, m

LEMMA TotalIsInt ==
  ASSUME NEW n \in Nat, NEW v \in Int
  PROVE  TotalPages(n, v) \in Int
<1>1. CASE v > 0
  BY <1>1, Quotient DEF TotalPages
<1>2. CASE ~(v > 0)
  BY <1>2 DEF TotalPages
<1> QED
  BY <1>1, <1>2

(* ... the number of pages is for the per_page that was sent: never too    *)
(* many, and exact for pages of that length.                               *)
LEMMA PagesSent ==
  ASSUME NEW n \in Nat, NEW w \in Nat \ {0}, NEW v \in Int, NEW p \in Nat, v > 0 => w <= v
  PROVE  /\ p < TotalPages(n, v) => p * w < n
         /\ v = w /\ p >= TotalPages(n, v) => p * w >= n
<1> DEFINE t == TotalPages(n, v)
           x == p * w
           Sent == (p < t => x < n) /\ (v = w /\ p >= t => x >= n)
<1>1. ASSUME ~(v > 0) PROVE Sent
  <2>1. t = 0
    BY <1>1 DEF TotalPages
  <2> HIDE DEF t, x
  <2> QED
    BY <1>1, <2>1
<1>2. ASSUME v > 0 PROVE Sent
  <2>1. v \in Nat \ {0} /\ w <= v
    BY <1>2
  <2> DEFINE y == p * v
  <2>2. x <= y /\ x \in Int /\ y \in Int
    BY <2>1, SMT
  <2>3. (p >= t <=> y >= n) /\ (v = w => y = x) /\ t \in Int
    BY <2>1, PagesEnough, TotalIsInt
  <2> HIDE DEF t, x, y
  <2> QED
    BY <2>2, <2>3
<1> QED
  BY <1>1, <1>2

LEMMA TurnCounts ==
  ASSUME NEW n \in Nat, NEW o \in Nat, NEW w \in Nat \ {0}, o <= n,
         NEW l \in Nat, l = IF n - o <= w THEN n - o ELSE w
  PROVE  /\ IF l < w THEN o + l = n ELSE l = w /\ o + l <= n
         /\ IF o + w >= n THEN o + l = n ELSE l = w /\ o + l <= n
OBVIOUS

LEMMA TurnWalkInv ==
  ASSUME ListInv, WalkInv, TurnPage
  PROVE  WalkInv'
<1> DEFINE page == Keyed(cache.page)
<1>1. /\ client # "revisits" /\ pc = "idle" /\ code = 200 /\ ~done
      /\ got' = got \o page /\ (done' <=> LastPage)
      /\ url' = IF LastPage THEN url ELSE [url EXCEPT !.page = @ + 1]
      /\ code' = 0 /\ UNCHANGED <<rows, clock, pc, client, there>>
  BY DEF TurnPage
<1>2. /\ ListType /\ FilterOfUrl /\ url \in Query /\ url.box # BadBox /\ url.page \in Nat \ {0}
      /\ got \in Seq(Keys) /\ page \in Seq(Keys) /\ Len(cache.page) = Len(page)
      /\ there # Nothing /\ there \subseteq Within(Limit)
  BY <1>1 DEF ListInv, ListType, WalkInv, Stages
<1>3. /\ url'.start = url.start /\ url'.end = url.end /\ url'.box = url.box
      /\ url'.order = url.order /\ url'.perPage = url.perPage
      /\ url'.page = IF LastPage THEN url.page ELSE url.page + 1
  BY <1>1, <1>2 DEF Query
<1>4. UNCHANGED <<Within(Limit), Shape.perPage>>
  <2>1. Limit' = Limit
    BY <1>1, <1>3 DEF Limit, Normalized, Resolved
  <2> QED
    BY <1>1, <1>3, <2>1 DEF Within, Shape
<1>5. \A k : (Ahead(k)' = Ahead(k)) /\ (Tied(k)' <=> Tied(k))
  BY <1>1, <1>3, <1>4 DEF Ahead, Precedes, Tied
<1>6. /\ Shape.perPage \in Nat \ {0} /\ Offset(Shape) \in Nat /\ Shape.page = url.page
      /\ Shape.page * Shape.perPage = Offset(Shape) + Shape.perPage
      /\ url.perPage \in Int
      /\ url.perPage \in 1..MaxPerPage => Shape.perPage = url.perPage
      /\ url.perPage > 0 => Shape.perPage <= url.perPage
  BY <1>2, ShapeNumbers
<1>7. ~LastPage => Offset(Shape)' = Offset(Shape) + Shape.perPage
  <2> SUFFICES ASSUME ~LastPage PROVE Offset(Shape)' = Offset(Shape) + Shape.perPage
    OBVIOUS
  <2>1. Shape'.page = url.page + 1 /\ Shape'.perPage = Shape.perPage
    BY <1>2, <1>3, <1>4 DEF Shape
  <2>2. Offset(Shape)' = ((url.page + 1) - 1) * Shape.perPage
    BY <2>1 DEF Offset
  <2>3. (url.page + 1) - 1 = url.page
    BY <1>2
  <2> QED
    BY <1>6, <2>2, <2>3
<1>8. /\ got' \in Seq(Keys) /\ Len(got') = Len(got) + Len(page)
      /\ \A i \in 1..Len(got') : got'[i] = IF i <= Len(got) THEN got[i] ELSE page[i - Len(got)]
  BY <1>1, <1>2, ConcatProperties
<1>9. Stages'
  <2>1. url'.page \in Nat \ {0} /\ code' # 200 /\ url'.box # BadBox
    BY <1>1, <1>2, <1>3
  <2>2. client \in {"revisits", "to short page", "to X-Total-Pages"}
    BY DEF Stages, WalkInv
  <2> HIDE DEF page
  <2> QED
    BY <1>1, <1>2, <1>4, <1>8, <2>1, <2>2 DEF Stages
<1>10. ToSet(got') = ToSet(got) \cup ToSet(page)
  <2>1. Len(got) \in Nat /\ Len(page) \in Nat /\ DOMAIN got = 1..Len(got)
        /\ DOMAIN page = 1..Len(page) /\ DOMAIN got' = 1..Len(got')
    BY <1>2, <1>8
  <2>2. \A i \in DOMAIN got : i \in DOMAIN got' /\ got'[i] = got[i]
    BY <1>8, <2>1
  <2>3. \A i \in DOMAIN page : i + Len(got) \in DOMAIN got' /\ got'[i + Len(got)] = page[i]
    BY <1>8, <2>1
  <2>4. \A i \in DOMAIN got' : got'[i] \in ToSet(got) \cup ToSet(page)
    BY <1>8, <2>1 DEF ToSet
  <2> QED
    BY <2>2, <2>3, <2>4 DEF ToSet
<1>11. code' # 200 /\ (Len(cache.page) >= Shape.perPage => ~(Len(cache.page) < Shape.perPage))
  <2>1. Len(cache.page) \in Nat
    BY <1>2
  <2> QED
    BY <1>1, <1>6, <2>1
<1>12. NotSkipped'
  <2> SUFFICES ASSUME client = "to short page", NEW k \in there,
                      k \notin ToSet(got'), ~Tied(k)
               PROVE  ~done' /\ Cardinality(Ahead(k)) >= Offset(Shape)'
    BY <1>1, <1>5, <1>11 DEF NotSkipped
  <2>1. Len(cache.page) >= Shape.perPage /\ Cardinality(Ahead(k)) >= Offset(Shape) + Shape.perPage
    BY <1>1, <1>2, <1>10 DEF NotSkipped, WalkInv
  <2>2. Normalized(Resolved(url)).perPage = Shape.perPage
    BY <1>2, Resolving, Normalizing DEF Shape, ListType
  <2>3. ~LastPage
    BY <1>11, <2>1, <2>2, Zenon DEF LastPage
  <2> QED
    BY <1>1, <1>7, <2>1, <2>3
<1>13. Exact'
  <2> SUFFICES ASSUME Quiet' PROVE Exact'
    BY DEF Exact
  <2> DEFINE n == Cardinality(there)
             o == Offset(Shape)
             w == Shape.perPage
  <2>1. Quiet /\ (Counts' => Counts)
    BY <1>1, <1>3, <1>4, <1>5 DEF Quiet, Counts
  <2>2. /\ Ranks(got, 0) /\ Len(got) = o /\ o <= n
        /\ Ranks(page, o) /\ cache.pages = TotalPages(n, url.perPage)
        /\ Len(page) = IF n - o <= w THEN n - o ELSE w
    BY <1>1, <1>2, <2>1 DEF Exact, WalkInv
  <2>3. n \in Nat /\ Len(page) \in Nat
    BY <1>2, <2>1, WithinFinite DEF Quiet
  <2>4. /\ IF Len(page) < w THEN o + Len(page) = n ELSE Len(page) = w /\ o + Len(page) <= n
        /\ IF o + w >= n THEN o + Len(page) = n ELSE Len(page) = w /\ o + Len(page) <= n
    <3> HIDE DEF n, o, w, page
    <3> QED
      BY <1>6, <2>2, <2>3, TurnCounts DEF o, w
  <2>5. /\ LastPage /\ Counts => o + Len(page) = n
        /\ ~LastPage => Len(page) = w /\ o + Len(page) <= n
    <3> DEFINE t == TotalPages(n, url.perPage)
    <3>1. LastPage <=> IF client = "to X-Total-Pages" THEN url.page >= t ELSE Len(page) < w
      <4>1. Normalized(Resolved(url)).perPage = w
        BY <1>2, Resolving, Normalizing DEF Shape, ListType
      <4> QED
        BY <1>2, <2>2, <4>1 DEF LastPage
    <3>2. /\ url.page < t => o + w < n
          /\ url.perPage = w /\ url.page >= t => o + w >= n
      <4> HIDE DEF n
      <4>1. /\ url.page < t => url.page * w < n
            /\ url.perPage = w /\ url.page >= t => url.page * w >= n
        BY <1>2, <1>6, <2>3, PagesSent
      <4> QED
        BY <1>6, <4>1
    <3>3. (url.page < t <=> ~(url.page >= t)) /\ (o + w < n <=> ~(o + w >= n))
      <4>1. t \in Int
        BY <1>6, <2>3, TotalIsInt
      <4> HIDE DEF n, o, w, t
      <4> QED
        BY <1>2, <1>6, <2>3, <4>1 DEF o, w
    <3>4. Counts => client = "to short page" \/ url.perPage = w
      BY <1>6 DEF Counts
    <3>5. client = "to short page" => client # "to X-Total-Pages"
      OBVIOUS
    <3> HIDE DEF n, o, w, t, page
    <3> QED
      BY <2>4, <3>1, <3>2, <3>3, <3>4, <3>5, Zenon
  <2>6. Ranks(got', 0)
    <3> SUFFICES ASSUME NEW i \in DOMAIN got'
                 PROVE  got'[i] \in there /\ Cardinality(Ahead(got'[i])) = 0 + i - 1
      BY DEF Ranks
    <3>1. i \in 1..Len(got') /\ i \in Nat /\ o \in Nat /\ DOMAIN got = 1..Len(got)
          /\ DOMAIN page = 1..Len(page)
      BY <1>2, <1>6, <1>8
    <3>2. CASE i <= o
      <4>1. got'[i] = got[i] /\ i \in DOMAIN got
        BY <1>8, <2>2, <3>1, <3>2
      <4> QED
        BY <2>2, <4>1 DEF Ranks
    <3>3. CASE i > o
      <4>1. got'[i] = page[i - o] /\ i - o \in DOMAIN page
        <5> HIDE DEF o, page
        <5> QED
          BY <1>8, <2>2, <2>3, <3>1, <3>3
      <4>2. page[i - o] \in there /\ Cardinality(Ahead(page[i - o])) = o + (i - o) - 1
        BY <2>2, <4>1 DEF Ranks
      <4>3. o + (i - o) - 1 = 0 + i - 1
        <5> HIDE DEF o
        <5> QED
          BY <3>1
      <4> QED
        BY <4>1, <4>2, <4>3, Zenon
    <3> QED
      BY <3>1, <3>2, <3>3
  <2>7. \A s : Ranks(s, 0)' <=> Ranks(s, 0)
    BY <1>1, <1>5 DEF Ranks
  <2>8. /\ ~done' => Len(got') = Offset(Shape)' /\ Offset(Shape)' <= n
        /\ done' /\ Counts' => Len(got') = n
    BY <1>1, <1>7, <1>8, <2>1, <2>2, <2>5
  <2>9. Ranks(got, 0)'
    BY <1>1, <1>5, <2>6 DEF Ranks
  <2> QED
    BY <1>1, <2>8, <2>9 DEF Exact
<1> QED
  BY <1>9, <1>12, <1>13 DEF WalkInv

(* A walk starts before the first page, and with the points of now.        *)
LEMMA StartWalkInv ==
  ASSUME ListInv, WalkInv, StartWalk
  PROVE  WalkInv'
<1>1. /\ client # "revisits" /\ there = Nothing /\ there' = Selected
      /\ UNCHANGED <<rows, clock, url, pc, filter, total, cache, code, client, got, done>>
  BY DEF StartWalk
<1>2. /\ pc = "idle" /\ got = <<>> /\ url.page = 1 /\ code # 200 /\ ~done /\ url.box # BadBox
      /\ ListType /\ FilterOfUrl
  BY <1>1 DEF ListInv, WalkInv, Stages
<1>3. Selected = Within(Limit)
  <2>1. /\ Resolved(url) \in Filter /\ Limit = Normalized(Resolved(url)).end
        /\ Normalized(Resolved(url)) \in Filter
        /\ Normalized(Resolved(url)).box = url.box /\ Normalized(Resolved(url)).start = url.start
    BY <1>2, Resolving, Normalizing, LimitFacts DEF ListType
  <2> QED
    BY <2>1, Window DEF Selected
<1>4. UNCHANGED <<Within(Limit), Shape>>
  BY <1>1 DEF Within, Limit, Normalized, Resolved, Shape
<1>5. Offset(Shape) = 0
  <2>1. Shape.page = 1 /\ Shape.perPage \in Nat
    BY <1>2, ShapeNumbers
  <2> QED
    BY <2>1 DEF Offset
<1>6. Stages'
  BY <1>1, <1>2, <1>3, <1>4 DEF Stages, WalkInv
<1>7. \A k : Cardinality(Ahead(k)') >= Offset(Shape)
  <2>1. \A k : Ahead(k)' = Ahead(k) /\ Cardinality(Ahead(k)) \in Nat
    BY <1>1, <1>2, <1>4, WithinFinite DEF Ahead, Precedes
  <2> QED
    BY <1>5, <2>1
<1>8. NotSkipped'
  BY <1>1, <1>2, <1>4, <1>7 DEF NotSkipped
<1>9. Exact'
  <2>1. Cardinality(there') \in Nat
    BY <1>1, <1>2, <1>3, WithinFinite
  <2>2. Ranks(<<>>, 0)' /\ Len(<<>>) = 0
    BY DEF Ranks
  <2> QED
    BY <1>1, <1>2, <1>4, <1>5, <2>1, <2>2 DEF Exact
<1> QED
  BY <1>6, <1>8, <1>9 DEF WalkInv

LEMMA InitWalkInv == WalkInit => WalkInv
<1> SUFFICES ASSUME WalkInit PROVE WalkInv
  OBVIOUS
<1>1. url \in Query /\ pc = "idle" /\ code = 0
  BY ListingAssumption DEF WalkInit, Init
<1>2. /\ there = Nothing /\ got = <<>> /\ ~done
      /\ client \in {"revisits", "to short page", "to X-Total-Pages"}
      /\ client # "revisits" => url.page = 1 /\ url.box # BadBox
  BY DEF WalkInit
<1>3. url.page = 1 => url.page \in Nat \ {0}
  OBVIOUS
<1>4. code # 200 /\ <<>> \in Seq(Keys)
  BY <1>1
<1> QED
  BY <1>1, <1>2, <1>3, <1>4 DEF WalkInv, Stages, NotSkipped, Exact

LEMMA NextWalkInv ==
  ASSUME ListInv, WalkInv, [WalkNext]_allVars
  PROVE  WalkInv'
<1>1. CASE StartWalk
  BY <1>1, StartWalkInv
<1>2. CASE TurnPage
  BY <1>2, TurnWalkInv
<1>3. CASE client = "revisits" /\ ~StartWalk /\ ~TurnPage
  <2>1. UNCHANGED <<client, done>>
    BY <1>3 DEF WalkNext, Revisit, Fetch, Serve, walkVars, allVars
  <2>2. client' = "revisits" /\ ~done'
    BY <1>3, <2>1 DEF WalkInv, Stages
  <2> QED
    BY <2>2 DEF WalkInv, Stages, NotSkipped, Exact
<1>4. ASSUME client # "revisits", ~StartWalk, ~TurnPage
      PROVE  WalkInv'
  <2>1. /\ UNCHANGED walkVars /\ [Next]_vars
        /\ code = 200 \/ done => pc = "idle" /\ there # Nothing
        /\ there = Nothing => pc = "idle"
    BY <1>4, WalkSteps DEF WalkNext, Revisit, Fetch, Serve, walkVars, allVars, WalkInv, Stages
  <2>2. CASE ReadPage /\ UNCHANGED walkVars
    BY <1>4, <2>2, PageWalkInv DEF walkVars
  <2>3. CASE Fetch
    BY <1>4, <2>1, <2>3, StayWalkInv DEF Fetch, Get, walkVars
  <2>4. CASE ReadFingerprint
    BY <1>4, <2>1, <2>4, StayWalkInv DEF ReadFingerprint, walkVars
  <2>5. CASE CountRows
    <3>1. total' = Cardinality(Within(Limit)) /\ UNCHANGED <<cache, code>> /\ pc = "count"
      <4>1. total' = Cardinality(Matching(Normalized(filter))) /\ pc = "count" /\ UNCHANGED <<cache, code>>
        BY <2>5 DEF CountRows, Matching
      <4> QED
        BY <4>1, CountInTag
    <3> QED
      BY <1>4, <2>1, <3>1, StayWalkInv DEF walkVars
  <2>6. CASE ReadFails
    BY <1>4, <2>1, <2>6, StayWalkInv DEF ReadFails, Answer, walkVars
  <2>7. CASE UNCHANGED readVars
    BY <1>4, <2>1, <2>7, StayWalkInv DEF readVars, walkVars
  <2> QED
    BY <1>4, <2>2, <2>3, <2>4, <2>5, <2>6, <2>7 DEF WalkNext, Revisit, Serve, allVars, readVars
<1> QED
  BY <1>1, <1>2, <1>3, <1>4

(* While uploads commit between the pages, no walk passes over a point     *)
(* that was there, and undisturbed it reads one order from its start       *)
(* (listPoints, List, for any number of points and pages).                 *)
THEOREM WalkInvariance == WalkSpec => [](ListInv /\ WalkInv)
<1>1. WalkInit => ListInv /\ WalkInv
  BY InitListInv, InitWalkInv DEF WalkInit
<1>2. ListInv /\ [WalkNext]_allVars => ListInv'
  BY WalkSteps, NextListInv, TurnListInv
<1>3. (ListInv /\ WalkInv) /\ [WalkNext]_allVars => (ListInv /\ WalkInv)'
  BY <1>2, NextWalkInv
<1> QED
  BY <1>1, <1>3, PTL DEF WalkSpec

(* A walk to the first short page misses no point but ones with equal      *)
(* timestamps, whatever arrives between its requests and between their     *)
(* statements (OFFSET and ORDER BY timestamp in List).                     *)
THEOREM WalksMissOnlyTies == WalkSpec => []MissesOnlyTies
<1>1. ListInv /\ WalkInv => MissesOnlyTies
  BY DEF WalkInv, Stages, NotSkipped, MissesOnlyTies
<1> QED
  BY WalkInvariance, <1>1, PTL

(* A sequence without repetitions is as long as the set of its elements.   *)
LEMMA LengthIsSize ==
  ASSUME NEW n \in Nat, NEW S, NEW s \in [1..n -> S], S = {s[i] : i \in 1..n},
         \A i, j \in 1..n : s[i] = s[j] => i = j
  PROVE  Cardinality(S) = n
<1>1. s \in Bijection(1..n, S)
  BY DEF Bijection, Injection, Surjection, IsInjective
<1>2. IsFiniteSet(1..n) /\ Cardinality(1..n) = n
  BY FS_Interval
<1> QED
  BY <1>1, <1>2, FS_Bijection DEF ExistsBijection

(* Whoever comes before k has fewer points before it.                      *)
LEMMA AheadGrows ==
  ASSUME ListType, url.box # BadBox,
         NEW j \in Within(Limit), NEW k \in Within(Limit), Precedes(j, k)
  PROVE  Cardinality(Ahead(j)) + 1 <= Cardinality(Ahead(k))
<1>1. Ts[j] \in Int /\ Ts[k] \in Int /\ \A i \in Within(Limit) : Ts[i] \in Int
  BY WithinFinite, ListingAssumption
<1>2. j \notin Ahead(j) /\ Ahead(j) \cup {j} \in SUBSET Ahead(k)
  BY <1>1 DEF Ahead, Precedes
<1>3. IsFiniteSet(Ahead(j)) /\ IsFiniteSet(Ahead(k))
  BY WithinFinite
<1>4. Cardinality(Ahead(j) \cup {j}) = Cardinality(Ahead(j)) + 1
  BY <1>2, <1>3, FS_AddElement
<1> QED
  BY <1>2, <1>3, <1>4, FS_Subset

(* ... and its pages are the beginning of the selection, every point once, *)
(* in order and without a gap, when nothing arrives and no two points are  *)
(* tied, whatever per_page is sent; and all of it, unless the walk follows *)
(* X-Total-Pages with a per_page above the maximum (listPoints, List).     *)
THEOREM QuietWalksAreExact == WalkSpec => []QuietWalkExact
<1>1. ASSUME ListInv, WalkInv, done, Selected = there, \A k \in there : ~Tied(k)
      PROVE  /\ got \in Orderings(ToSet(got), url.order) /\ ToSet(got) \subseteq there
             /\ \A j \in ToSet(got), k \in there \ ToSet(got) :
                  IF url.order = "asc" THEN Ts[j] < Ts[k] ELSE Ts[j] > Ts[k]
             /\ Counts => ToSet(got) = there
  <2>1. /\ client # "revisits" /\ url.box # BadBox /\ pc = "idle" /\ there # Nothing
        /\ got \in Seq(Keys) /\ ListType /\ FilterOfUrl
    BY <1>1 DEF WalkInv, Stages, ListInv
  <2>2. Within(Limit) = there
    <3>1. /\ Limit = Normalized(Resolved(url)).end /\ Normalized(Resolved(url)) \in Filter
          /\ Normalized(Resolved(url)).box = url.box /\ Normalized(Resolved(url)).start = url.start
      BY <2>1, Resolving, Normalizing, LimitFacts DEF ListType
    <3> QED
      BY <1>1, <3>1, Window DEF Selected
  <2>3. Ranks(got, 0) /\ (Counts => Len(got) = Cardinality(there))
    BY <1>1, <2>1, <2>2 DEF WalkInv, Exact, Quiet
  <2> DEFINE D == 1..Len(got)
             S == ToSet(got)
  <2>4. /\ there \subseteq Keys /\ IsFiniteSet(there) /\ Cardinality(there) \in Nat
        /\ \A k : Ahead(k) \subseteq there /\ IsFiniteSet(Ahead(k))
        /\ \A k \in there : Ts[k] \in Int
    BY <2>1, <2>2, WithinFinite, ListingAssumption
  <2>5. /\ DOMAIN got = D /\ Len(got) \in Nat /\ D \subseteq Int
        /\ \A i \in D : got[i] \in there /\ Cardinality(Ahead(got[i])) = 0 + i - 1
    BY <2>1, <2>3 DEF Ranks
  <2>6. S = {got[i] : i \in D} /\ S \subseteq there /\ got \in [D -> S]
    BY <2>1, <2>5 DEF ToSet
  <2>7. \A i, j \in D : got[i] = got[j] => i = j
    BY <2>5
  <2>8. ASSUME NEW j \in there, NEW k \in there, Precedes(j, k)
        PROVE  Cardinality(Ahead(j)) + 1 <= Cardinality(Ahead(k))
    BY <2>1, <2>2, <2>8, AheadGrows
  <2>9. ASSUME NEW i \in D, NEW j \in D, i < j
        PROVE  IF url.order = "asc" THEN Ts[got[i]] <= Ts[got[j]] ELSE Ts[got[i]] >= Ts[got[j]]
    <3>1. Ts[got[i]] \in Int /\ Ts[got[j]] \in Int /\ got[i] \in there /\ got[j] \in there
      BY <2>4, <2>5
    <3>2. ~Precedes(got[j], got[i])
      <4>1. Cardinality(Ahead(got[i])) = 0 + i - 1 /\ Cardinality(Ahead(got[j])) = 0 + j - 1
        BY <2>5
      <4>2. Precedes(got[j], got[i]) => (0 + j - 1) + 1 <= 0 + i - 1
        BY <2>8, <3>1, <4>1
      <4> QED
        BY <2>5, <2>9, <4>2
    <3> QED
      BY <3>1, <3>2 DEF Precedes
  <2>10. got \in Orderings(S, url.order)
    <3>1. Len(got) = Cardinality(S)
      BY <2>5, <2>6, <2>7, LengthIsSize
    <3>2. got \in SetToSeqs(S)
      BY <2>6, <2>7, <3>1 DEF SetToSeqs
    <3> QED
      BY <2>5, <2>9, <3>2 DEF Orderings
  <2>11. ASSUME NEW i \in D, NEW k \in there \ S
         PROVE  IF url.order = "asc" THEN Ts[got[i]] < Ts[k] ELSE Ts[got[i]] > Ts[k]
    <3> DEFINE c == Cardinality(Ahead(k))
    <3>1. got[i] \in there /\ k # got[i] /\ Ts[got[i]] # Ts[k] /\ Ts[got[i]] \in Int /\ Ts[k] \in Int
      BY <1>1, <2>1, <2>2, <2>4, <2>5, <2>6, WithinFinite DEF Tied
    <3>2. c \in Nat
      BY <2>4, FS_CardinalityType
    <3>3. ~Precedes(k, got[i])
      <4> SUFFICES ASSUME Precedes(k, got[i]) PROVE FALSE
        OBVIOUS
      <4>1. c + 1 <= 0 + i - 1 /\ Cardinality(Ahead(got[i])) = 0 + i - 1
        BY <2>5, <2>8, <3>1
      <4> HIDE DEF c
      <4>2. c + 1 \in D /\ i \in D
        BY <2>5, <3>2, <4>1
      <4>3. got[c + 1] \in there /\ Cardinality(Ahead(got[c + 1])) = c
        BY <2>5, <3>2, <4>2
      <4>4. k # got[c + 1]
        BY <2>6, <4>2
      <4>5. Ts[k] # Ts[got[c + 1]] /\ Ts[k] \in Int /\ Ts[got[c + 1]] \in Int
        BY <1>1, <2>1, <2>2, <2>4, <4>3, <4>4, WithinFinite DEF Tied
      <4>6. Precedes(k, got[c + 1]) \/ Precedes(got[c + 1], k)
        BY <4>5 DEF Precedes
      <4>7. c + 1 <= c
        BY <2>8, <4>3, <4>6 DEF c
      <4> QED
        BY <3>2, <4>7
    <3> QED
      BY <3>1, <3>3 DEF Precedes
  <2>12. ASSUME Counts PROVE S = there
    <3>1. Cardinality(S) = Cardinality(there)
      BY <2>3, <2>5, <2>6, <2>7, <2>12, LengthIsSize
    <3> QED
      BY <2>4, <2>6, <3>1, FS_Subset
  <2> QED
    BY <2>6, <2>10, <2>11, <2>12
<1>2. ListInv /\ WalkInv => QuietWalkExact
  BY <1>1 DEF QuietWalkExact
<1> QED
  BY WalkInvariance, <1>2, PTL
=============================================================================
