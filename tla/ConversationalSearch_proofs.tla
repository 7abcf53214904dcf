---------------------- MODULE ConversationalSearch_proofs ----------------------
(***************************************************************************)
(* Proofs about ConversationalSearch, for any texts and any number of user  *)
(* events and of requests that have not ended: the safety properties follow *)
(* from what is known of the one request the page waits for.                *)
(***************************************************************************)
EXTENDS ConversationalSearch, TLAPS

\* Versions tell the requests apart, and an aborted one is older than the page.
Ordered ==
    /\ \A r \in inflight : r.version <= page.version /\ (r.aborted => r.version < page.version)
    /\ \A r, s \in inflight : r.version = s.version => r = s

\* The request the page waits for was made for what the page still shows.
Awaited ==
    page.pending =>
        /\ ~page.timer /\ page.query = page.input
        /\ \A r \in inflight : ~r.aborted => r.query = page.query /\ r.filters = filters

IInv == WaitsForOne /\ Ordered /\ Awaited /\ ResultsBelong /\ RowsDrawn

-----------------------------------------------------------------------------
LEMMA Kinds ==
  /\ Null \in Matches /\ Searching \in Matches /\ Null # Searching /\ NoFilters \in Filters
  /\ Null.kind # "answer" /\ Searching.kind # "answer"
  /\ Blank \in Texts
  BY DEF Null, Searching, Matches, NoFilters, Filters, Texts

LEMMA Answers ==
  ASSUME NEW request \in Requests, NEW found \in BOOLEAN
  PROVE  LET a == Answer(request, found) IN
         /\ a \in Matches /\ a # Searching /\ a # Null
         /\ a.kind = "answer" /\ a.query = request.query /\ a.filters = request.filters
  BY DEF Answer, Requests, Matches, Null, Searching

\* What is drawn depends on three fields only.
LEMMA Viewed ==
  ASSUME NEW p \in Page, NEW q \in Page, NEW f \in Filters,
         q.matches = p.matches, q.fallback = p.fallback, q.query = p.query
  PROVE  View(q, f) = View(p, f)
  BY DEF View

LEMMA ViewOK ==
  ASSUME NEW p \in Page, NEW f \in Filters
  PROVE  View(p, f) \in Views /\ View(p, f).matches = p.matches
  BY Kinds DEF View, Views, Page, Texts

-----------------------------------------------------------------------------
\* What each change of the page leaves
LEMMA Rendered ==
  ASSUME NEW p \in Page, NEW f \in Filters
  PROVE  LET q == Render(p, f) IN
         /\ q \in Page /\ q.shown = View(q, f) /\ q.shown.matches = q.matches
         /\ q.input = p.input /\ q.query = p.query /\ q.matches = p.matches
         /\ q.fallback = p.fallback /\ q.version = p.version /\ q.controller = p.controller
         /\ q.pending = p.pending /\ q.timer = p.timer /\ q.status = p.status
         /\ q.refinements = p.refinements /\ q.reasons = p.reasons
<1>1. Render(p, f) = [p EXCEPT !.shown = View(p, f)]
  BY DEF Render
<1>2. View(p, f) \in Views /\ View(p, f).matches = p.matches
  BY ViewOK
<1> DEFINE q == Render(p, f)
<1>3. /\ q \in Page /\ q.shown = View(p, f)
      /\ q.input = p.input /\ q.query = p.query /\ q.matches = p.matches
      /\ q.fallback = p.fallback /\ q.version = p.version /\ q.controller = p.controller
      /\ q.pending = p.pending /\ q.timer = p.timer /\ q.status = p.status
      /\ q.refinements = p.refinements /\ q.reasons = p.reasons
  BY <1>1, <1>2 DEF Page
<1>4. View(q, f) = View(p, f)
  BY <1>3, Viewed
<1> QED
  BY <1>2, <1>3, <1>4

LEMMA Cancelled ==
  ASSUME NEW p \in Page
  PROVE  LET q == Cancel(p) IN
         /\ q \in Page /\ q.version = p.version + 1 /\ ~q.pending /\ ~q.controller
         /\ q.input = p.input /\ q.query = p.query /\ q.matches = p.matches
         /\ q.fallback = p.fallback /\ q.timer = p.timer /\ q.status = p.status
         /\ q.refinements = p.refinements /\ q.shown = p.shown /\ q.reasons = p.reasons
<1>1. p.version + 1 \in Nat
  BY DEF Page
<1>2. Cancel(p) = [p EXCEPT !.version = p.version + 1, !.controller = FALSE, !.pending = FALSE]
  BY DEF Cancel
<1> QED
  BY <1>1, <1>2 DEF Page

LEMMA RestoredEffect ==
  ASSUME NEW p \in Page, NEW f \in Filters
  PROVE  LET q == Restored(p, f) IN
         /\ q \in Page /\ q.version = p.version + 1 /\ ~q.pending /\ ~q.controller /\ ~q.timer
         /\ q.matches = Null /\ q.reasons = Null /\ q.status = "browse"
         /\ q.shown = View(q, f) /\ q.shown.matches = q.matches
<1> DEFINE c == Cancel(p)
           d == [c EXCEPT !.timer = FALSE, !.query = Blank, !.matches = Null,
                   !.fallback = FALSE, !.input = Blank, !.refinements = FALSE,
                   !.reasons = Null, !.status = "browse"]
<1>1. Restored(p, f) = Render(d, f)
  BY DEF Restored
<1>2. c \in Page /\ c.version = p.version + 1 /\ ~c.pending /\ ~c.controller
  BY Cancelled
<1> HIDE DEF c
<1>3. /\ d \in Page /\ d.version = c.version /\ d.pending = c.pending
      /\ d.controller = c.controller /\ ~d.timer /\ d.matches = Null /\ d.reasons = Null
      /\ d.status = "browse"
  BY <1>2, Kinds DEF Page, Statuses
<1> HIDE DEF d
<1> QED
  BY <1>1, <1>2, <1>3, Rendered

LEMMA AskingEffect ==
  ASSUME NEW p \in Page, NEW query \in Queries, NEW f \in Filters
  PROVE  LET q == Asking(p, query, f) IN
         /\ q \in Page /\ q.version = p.version + 1 /\ q.pending /\ q.controller /\ ~q.timer
         /\ q.input = query /\ q.query = query
         /\ q.matches = Searching /\ q.reasons = Null /\ q.status = "finding"
         /\ q.shown = View(q, f) /\ q.shown.matches = q.matches
<1> DEFINE c == Cancel(p)
           d == [c EXCEPT !.timer = FALSE, !.input = query, !.controller = TRUE,
                   !.query = query, !.matches = Searching, !.fallback = FALSE,
                   !.refinements = FALSE, !.status = "finding", !.pending = TRUE,
                   !.reasons = Null]
<1>1. Asking(p, query, f) = Render(d, f)
  BY DEF Asking
<1>2. c \in Page /\ c.version = p.version + 1
  BY Cancelled
<1> HIDE DEF c
<1>3. /\ d \in Page /\ d.version = c.version /\ d.pending /\ d.controller /\ ~d.timer
      /\ d.matches = Searching /\ d.reasons = Null /\ d.status = "finding"
      /\ d.input = query /\ d.query = query
  BY <1>2, Kinds DEF Page, Statuses, Texts
<1> HIDE DEF d
<1> QED
  BY <1>1, <1>2, <1>3, Rendered

LEMMA RepeatedEffect ==
  ASSUME NEW p \in Page, NEW f \in Filters
  PROVE  LET q == Repeated(p, f) IN
         /\ q \in Page /\ ~q.timer /\ q.reasons = q.matches
         /\ q.shown = View(q, f) /\ q.shown.matches = q.matches
         /\ q.input = p.input /\ q.query = p.query /\ q.matches = p.matches
         /\ q.fallback = p.fallback /\ q.version = p.version /\ q.controller = p.controller
         /\ q.pending = p.pending /\ q.status = p.status /\ q.refinements = p.refinements
<1> DEFINE d == [p EXCEPT !.timer = FALSE, !.reasons = p.matches]
<1>1. Repeated(p, f) = Render(d, f)
  BY DEF Repeated
<1>2. /\ d \in Page /\ ~d.timer /\ d.reasons = p.matches
      /\ d.input = p.input /\ d.query = p.query /\ d.matches = p.matches
      /\ d.fallback = p.fallback /\ d.version = p.version /\ d.controller = p.controller
      /\ d.pending = p.pending /\ d.status = p.status /\ d.refinements = p.refinements
      /\ d.shown = p.shown
  BY DEF Page
<1> HIDE DEF d
<1> QED
  BY <1>1, <1>2, Rendered

LEMMA NamesEffect ==
  ASSUME NEW p \in Page, NEW f \in Filters
  PROVE  LET q == NamesOnly(p, f) IN
         /\ q \in Page /\ q.matches = Null /\ q.reasons = Null /\ q.status = "unavailable"
         /\ q.shown = View(q, f) /\ q.shown.matches = q.matches
         /\ q.input = p.input /\ q.query = p.query /\ q.version = p.version
         /\ q.controller = p.controller /\ q.pending = p.pending /\ q.timer = p.timer
<1> DEFINE d == [p EXCEPT !.matches = Null, !.fallback = TRUE, !.reasons = Null,
                          !.refinements = FALSE, !.status = "unavailable"]
<1>1. NamesOnly(p, f) = Render(d, f)
  BY DEF NamesOnly
<1>2. /\ d \in Page /\ d.matches = Null /\ d.reasons = Null /\ d.status = "unavailable"
      /\ d.input = p.input /\ d.query = p.query /\ d.version = p.version
      /\ d.controller = p.controller /\ d.pending = p.pending /\ d.timer = p.timer
  BY Kinds DEF Page, Statuses
<1> HIDE DEF d
<1> QED
  BY <1>1, <1>2, Rendered

-----------------------------------------------------------------------------
\* The requests after an abort: none is awaited, and the next version is new.
LEMMA Aborted ==
  ASSUME IInv
  PROVE  LET left == Abort(inflight, page.version) IN
         /\ left \subseteq Requests
         /\ \A r \in left : r.aborted /\ r.version <= page.version
         /\ \A r, s \in left : r.version = s.version => r = s
<1> DEFINE left == Abort(inflight, page.version)
           with(r) == [r EXCEPT !.aborted = @ \/ r.version = page.version]
<1>0. left = {with(r) : r \in inflight}
  BY DEF Abort
<1>1. page.version \in Nat /\ inflight \subseteq Requests
  BY DEF IInv, WaitsForOne, TypeOK, Page
<1>2. ASSUME NEW r \in inflight
      PROVE  with(r) \in Requests /\ with(r).aborted /\ with(r).version = r.version
  <2>1. r \in Requests /\ (r.aborted \/ r.version = page.version)
    BY <1>1 DEF IInv, WaitsForOne
  <2> QED
    BY <2>1 DEF Requests
<1>3. \A r \in inflight : r.version <= page.version
  BY DEF IInv, Ordered
<1>4. \A r, s \in inflight : r.version = s.version => r = s
  BY DEF IInv, Ordered
<1> HIDE DEF with, left
<1>5. left \subseteq Requests /\ \A s \in left : s.aborted /\ s.version <= page.version
  BY <1>0, <1>1, <1>2, <1>3
<1>6. ASSUME NEW s \in left, NEW t \in left, s.version = t.version
      PROVE  s = t
  BY <1>0, <1>2, <1>4, <1>6
<1> QED
  BY <1>5, <1>6 DEF left

\* A page that waits for nothing, with all requests aborted
LEMMA Quiet ==
  ASSUME IInv, page' \in Page, filters' \in Filters, events' \in 0..MaxEvents, dropped' \in BOOLEAN,
         inflight' = Abort(inflight, page.version), page'.version = page.version + 1,
         ~page'.pending, ~page'.controller, ResultsBelong', RowsDrawn'
  PROVE  IInv'
<1>1. page.version \in Nat
  BY DEF IInv, WaitsForOne, TypeOK, Page
<1>2. /\ inflight' \subseteq Requests /\ \A r \in inflight' : r.aborted /\ r.version <= page.version
      /\ \A r, s \in inflight' : r.version = s.version => r = s
  BY Aborted
<1>3. \A r \in inflight' : r.version \in Nat
  BY <1>2 DEF Requests
<1>4. WaitsForOne'
  BY <1>2 DEF WaitsForOne, TypeOK
<1>5. Ordered'
  BY <1>1, <1>2, <1>3 DEF Ordered
<1>6. Awaited'
  BY DEF Awaited
<1> QED
  BY <1>4, <1>5, <1>6 DEF IInv

LEMMA Restores ==
  ASSUME IInv, filters' \in Filters, events' \in 0..MaxEvents, dropped' \in BOOLEAN,
         page' = Restored(page, filters'), inflight' = Abort(inflight, page.version)
  PROVE  IInv'
<1>1. page \in Page
  BY DEF IInv, WaitsForOne, TypeOK
<1>2. /\ page' \in Page /\ page'.version = page.version + 1 /\ ~page'.pending /\ ~page'.controller
      /\ page'.matches = Null /\ page'.reasons = Null /\ page'.status = "browse"
      /\ page'.shown = View(page', filters') /\ page'.shown.matches = page'.matches
  BY <1>1, RestoredEffect
<1>3. ResultsBelong'
  BY <1>2 DEF ResultsBelong
<1>4. RowsDrawn'
  BY <1>2, Kinds DEF RowsDrawn
<1> QED
  BY <1>2, <1>3, <1>4, Quiet

LEMMA Asks ==
  ASSUME IInv, filters' \in Filters, events' \in 0..MaxEvents, dropped' \in BOOLEAN,
         NEW query \in Queries, page' = Asking(page, query, filters'),
         inflight' = Abort(inflight, page.version) \cup
            {[version |-> page'.version, query |-> query, filters |-> filters', aborted |-> FALSE]}
  PROVE  IInv'
<1>1. page \in Page /\ page.version \in Nat
  BY DEF IInv, WaitsForOne, TypeOK, Page
<1>2. /\ page' \in Page /\ page'.version = page.version + 1 /\ page'.pending /\ page'.controller
      /\ ~page'.timer /\ page'.input = query /\ page'.query = query
      /\ page'.matches = Searching /\ page'.reasons = Null /\ page'.status = "finding"
      /\ page'.shown = View(page', filters') /\ page'.shown.matches = page'.matches
  BY <1>1, AskingEffect
<1> DEFINE left == Abort(inflight, page.version)
           new == [version |-> page'.version, query |-> query, filters |-> filters', aborted |-> FALSE]
<1>3. /\ left \subseteq Requests /\ \A r \in left : r.aborted /\ r.version <= page.version
      /\ \A r, s \in left : r.version = s.version => r = s
  BY Aborted
<1>4. /\ new \in Requests /\ new.version = page.version + 1 /\ ~new.aborted
      /\ new.query = query /\ new.filters = filters'
  BY <1>1, <1>2 DEF Requests
<1>5. inflight' = left \cup {new}
  OBVIOUS
<1> HIDE DEF left, new
<1>6. \A r \in left : r.version \in Nat /\ r.version < page'.version
  BY <1>1, <1>2, <1>3 DEF Requests
<1>7. \A r \in left : r.version # new.version
  BY <1>1, <1>4, <1>6, <1>2
<1>8. WaitsForOne'
  <2>1. TypeOK'
    BY <1>2, <1>3, <1>4, <1>5 DEF TypeOK
  <2>2. \A r \in inflight' : ~r.aborted <=> (page'.pending /\ r.version = page'.version)
    <3>1. \A r \in left : r.aborted /\ r.version # page'.version
      BY <1>1, <1>2, <1>3, <1>6
    <3>2. ~new.aborted /\ new.version = page'.version /\ page'.pending
      BY <1>2, <1>4
    <3> QED
      BY <1>5, <3>1, <3>2
  <2>3. \E r \in inflight' : ~r.aborted
    BY <1>4, <1>5
  <2> QED
    BY <1>2, <2>1, <2>2, <2>3 DEF WaitsForOne
<1>9. Ordered'
  BY <1>1, <1>2, <1>3, <1>4, <1>5, <1>6, <1>7 DEF Ordered
<1>10. Awaited'
  BY <1>2, <1>3, <1>4, <1>5 DEF Awaited
<1>11. ResultsBelong' /\ RowsDrawn'
  BY <1>2 DEF ResultsBelong, RowsDrawn
<1> QED
  BY <1>8, <1>9, <1>10, <1>11 DEF IInv

\* The same query again only draws what is there.
LEMMA Repeats ==
  ASSUME IInv, filters' = filters, events' \in 0..MaxEvents, dropped' = (dropped \/ page.timer),
         ~page.pending, page' = Repeated(page, filters), inflight' = inflight
  PROVE  IInv'
<1>1. page \in Page /\ filters \in Filters /\ page.timer \in BOOLEAN /\ dropped \in BOOLEAN
  BY DEF IInv, WaitsForOne, TypeOK, Page
<1>2. /\ page' \in Page /\ ~page'.timer /\ page'.reasons = page'.matches
      /\ page'.shown = View(page', filters) /\ page'.shown.matches = page'.matches
      /\ page'.input = page.input /\ page'.query = page.query /\ page'.matches = page.matches
      /\ page'.fallback = page.fallback /\ page'.version = page.version /\ page'.controller = page.controller
      /\ page'.pending = page.pending /\ page'.status = page.status /\ page'.refinements = page.refinements
  BY <1>1, RepeatedEffect
<1>3. WaitsForOne' /\ Ordered' /\ Awaited'
  BY <1>1, <1>2 DEF IInv, WaitsForOne, TypeOK, Ordered, Awaited
<1>4. ResultsBelong'
  BY <1>1, <1>2 DEF IInv, ResultsBelong
<1>5. RowsDrawn'
  BY <1>1, <1>2 DEF IInv, RowsDrawn
<1> QED
  BY <1>3, <1>4, <1>5 DEF IInv

LEMMA SearchKeeps ==
  ASSUME IInv, filters' \in Filters, events' \in 0..MaxEvents, dropped' \in BOOLEAN,
         NEW query \in Texts, NEW force \in BOOLEAN, Search(query, filters', force),
         ~force => filters' = filters /\ dropped' = (~page'.pending /\ (dropped \/ page.timer))
  PROVE  IInv'
<1>1. CASE query = Blank
  BY <1>1, Restores DEF Search
<1>2. CASE query # Blank /\ ~force /\ query = page.query /\ ~page.pending
  <2>1. page' = Repeated(page, filters) /\ inflight' = inflight
    BY <1>2 DEF Search
  <2>2. page'.pending = page.pending
    BY <2>1, RepeatedEffect DEF IInv, WaitsForOne, TypeOK
  <2> QED
    BY <1>2, <2>1, <2>2, Repeats
<1>3. CASE query # Blank /\ ~(~force /\ query = page.query /\ ~page.pending)
  <2>1. query \in Queries
    BY <1>3 DEF Texts
  <2> QED
    BY <1>3, <2>1, Asks DEF Search
<1> QED
  BY <1>1, <1>2, <1>3

-----------------------------------------------------------------------------
LEMMA Counting ==
  ASSUME IInv, User
  PROVE  events' \in 0..MaxEvents
  BY PageConstants DEF User, IInv, WaitsForOne, TypeOK

LEMMA SubmitKeeps ==
  ASSUME IInv, Submit
  PROVE  IInv'
<1>1. PICK query \in Texts : Search(query, filters, TRUE)
  BY DEF Submit
<1>2. filters' = filters /\ dropped' = FALSE /\ filters \in Filters
  BY DEF Submit, IInv, WaitsForOne, TypeOK
<1> QED
  BY <1>1, <1>2, Counting, SearchKeeps DEF Submit

LEMMA EditKeeps ==
  ASSUME IInv, NEW text \in Texts, Edit(text)
  PROVE  IInv'
<1>1. /\ page \in Page /\ filters \in Filters /\ filters' = filters /\ events' \in 0..MaxEvents
      /\ inflight' = Abort(inflight, page.version) /\ dropped \in BOOLEAN /\ page.timer \in BOOLEAN
  BY Counting DEF Edit, IInv, WaitsForOne, TypeOK, Page
<1>2. CASE text = Blank
  BY <1>1, <1>2, Restores DEF Edit
<1>3. CASE text # Blank
  <2> DEFINE given == [page EXCEPT !.matches = Null, !.query = Blank, !.fallback = FALSE,
                                   !.reasons = Null]
             drawn == IF page.pending THEN Render(given, filters) ELSE page
             p == Cancel(drawn)
             q == [p EXCEPT !.input = text, !.timer = FALSE, !.refinements = FALSE,
                            !.status = IF p.query # Blank THEN "edited" ELSE "press"]
  <2>1. page' = q /\ dropped' = (dropped \/ page.timer)
    BY <1>3 DEF Edit
  <2>2. /\ given \in Page /\ given.matches = Null /\ given.reasons = Null /\ given.version = page.version
    BY <1>1, Kinds DEF Page
  <2> HIDE DEF given
  <2>3. /\ drawn \in Page /\ drawn.version = page.version
        /\ drawn.shown.matches = drawn.matches /\ drawn.reasons \in {Null, drawn.matches}
        /\ ~dropped' => drawn.shown = View(drawn, filters)
        /\ drawn.shown.matches = Searching => dropped'
    <3>1. CASE page.pending
      BY <1>1, <2>1, <2>2, <3>1, Rendered, Kinds
    <3>2. CASE ~page.pending
      BY <1>1, <2>1, <3>2 DEF IInv, RowsDrawn
    <3> QED
      BY <3>1, <3>2
  <2> HIDE DEF drawn
  <2>4. /\ p \in Page /\ p.version = drawn.version + 1 /\ ~p.pending /\ ~p.controller
        /\ p.input = drawn.input /\ p.query = drawn.query /\ p.matches = drawn.matches
        /\ p.fallback = drawn.fallback /\ p.timer = drawn.timer /\ p.status = drawn.status
        /\ p.refinements = drawn.refinements /\ p.shown = drawn.shown /\ p.reasons = drawn.reasons
    BY <2>3, Cancelled
  <2> HIDE DEF p
  <2>5. /\ q \in Page /\ q.status \in {"edited", "press"}
        /\ q.query = p.query /\ q.matches = p.matches /\ q.fallback = p.fallback
        /\ q.version = p.version /\ q.controller = p.controller /\ q.pending = p.pending
        /\ q.shown = p.shown /\ q.reasons = p.reasons
    BY <1>1, <2>4 DEF Page, Statuses
  <2> HIDE DEF q
  <2>6. View(page', filters) = View(drawn, filters)
    BY <1>1, <2>1, <2>3, <2>4, <2>5, Viewed
  <2>7. ResultsBelong'
    BY <2>1, <2>5 DEF ResultsBelong
  <2>8. RowsDrawn'
    BY <1>1, <2>1, <2>3, <2>4, <2>5, <2>6 DEF RowsDrawn
  <2> QED
    BY <1>1, <2>1, <2>3, <2>4, <2>5, <2>7, <2>8, Quiet
<1> QED
  BY <1>2, <1>3

LEMMA ClearKeeps ==
  ASSUME IInv, Clear
  PROVE  IInv'
<1>1. filters' = filters /\ filters \in Filters /\ dropped' = FALSE /\ events' \in 0..MaxEvents
  BY Counting DEF Clear, IInv, WaitsForOne, TypeOK
<1> QED
  BY <1>1, Restores DEF Clear

LEMMA ChangeFiltersKeeps ==
  ASSUME IInv, NEW f \in Filters, ChangeFilters(f)
  PROVE  IInv'
<1>1. /\ page \in Page /\ filters' = f /\ events' \in 0..MaxEvents /\ dropped' = dropped
      /\ dropped \in BOOLEAN /\ inflight' = Abort(inflight, page.version)
  BY Counting DEF ChangeFilters, IInv, WaitsForOne, TypeOK
<1> DEFINE p == Cancel(page)
<1>2. page' = [p EXCEPT !.timer = TRUE]
  BY DEF ChangeFilters
<1>3. /\ p \in Page /\ p.version = page.version + 1 /\ ~p.pending /\ ~p.controller
      /\ p.input = page.input /\ p.query = page.query /\ p.matches = page.matches
      /\ p.fallback = page.fallback /\ p.timer = page.timer /\ p.status = page.status
      /\ p.refinements = page.refinements /\ p.shown = page.shown /\ p.reasons = page.reasons
  BY <1>1, Cancelled
<1> HIDE DEF p
<1>4. /\ page' \in Page /\ page'.timer
      /\ page'.input = p.input /\ page'.query = p.query /\ page'.matches = p.matches
      /\ page'.fallback = p.fallback /\ page'.version = p.version /\ page'.controller = p.controller
      /\ page'.pending = p.pending /\ page'.status = p.status /\ page'.refinements = p.refinements
      /\ page'.shown = p.shown /\ page'.reasons = p.reasons
  BY <1>2, <1>3 DEF Page
<1>5. ResultsBelong'
  BY <1>3, <1>4 DEF IInv, ResultsBelong
<1>6. RowsDrawn'
  BY <1>3, <1>4 DEF IInv, RowsDrawn
<1> QED
  BY <1>1, <1>3, <1>4, <1>5, <1>6, Quiet

LEMMA RefineKeeps ==
  ASSUME IInv, Refine
  PROVE  IInv'
<1>1. /\ filters' \in Filters /\ page.query \in Texts /\ dropped' = FALSE
      /\ Search(page.query, filters', TRUE)
  BY DEF Refine, IInv, WaitsForOne, TypeOK, Page, Filters
<1> QED
  BY <1>1, Counting, SearchKeeps DEF Refine

LEMMA UnpinKeeps ==
  ASSUME IInv, Unpin
  PROVE  IInv'
<1>1. /\ page.input \in Texts /\ filters \in Filters /\ filters' = filters
      /\ Search(page.input, filters, FALSE) /\ dropped' \in BOOLEAN
      /\ dropped' = (~page'.pending /\ (dropped \/ page.timer))
  BY DEF Unpin, IInv, WaitsForOne, TypeOK, Page
<1> QED
  BY <1>1, Counting, SearchKeeps DEF Unpin

LEMMA TimerFiresKeeps ==
  ASSUME IInv, TimerFires
  PROVE  IInv'
<1>1. /\ page.input \in Texts /\ filters \in Filters /\ filters' = filters
      /\ Search(page.input, filters, TRUE) /\ dropped' = FALSE /\ events' \in 0..MaxEvents
  BY DEF TimerFires, IInv, WaitsForOne, TypeOK, Page
<1> QED
  BY <1>1, SearchKeeps

-----------------------------------------------------------------------------
\* Only the end of the awaited request changes the page.
LEMMA CurrentIsAwaited ==
  ASSUME IInv, NEW request \in inflight, Current(request)
  PROVE  /\ page.pending /\ ~request.aborted
         /\ request.query = page.query /\ request.filters = filters
         /\ page.query = page.input /\ ~page.timer
<1>1. page.version \in Nat
  BY DEF IInv, WaitsForOne, TypeOK, Page
<1>2. ~request.aborted
  BY <1>1 DEF IInv, Ordered, Current
<1> QED
  BY <1>2 DEF IInv, WaitsForOne, Awaited, Current

\* Afterwards none is left that has not been aborted.
LEMMA Ends ==
  ASSUME IInv, NEW request \in inflight, inflight' = inflight \ {request},
         Current(request), page' \in Page, page'.version = page.version,
         ~page'.pending, ~page'.controller, UNCHANGED <<filters, events, dropped>>
  PROVE  WaitsForOne' /\ Ordered' /\ Awaited'
<1>1. /\ \A r \in inflight : r.version <= page.version /\ (r.aborted => r.version < page.version)
      /\ \A r, s \in inflight : r.version = s.version => r = s
  BY DEF IInv, Ordered
<1>2. \A r \in inflight' : r.aborted
  BY <1>1 DEF IInv, WaitsForOne, Current
<1>3. WaitsForOne'
  BY <1>2 DEF IInv, WaitsForOne, TypeOK
<1>4. Ordered' /\ Awaited'
  BY <1>1 DEF Ordered, Awaited
<1> QED
  BY <1>3, <1>4

LEMMA LateEnds ==
  ASSUME IInv, NEW request \in inflight, inflight' = inflight \ {request},
         ~Current(request), page' = page, UNCHANGED <<filters, events, dropped>>
  PROVE  IInv'
<1>1. request.aborted
  BY DEF IInv, WaitsForOne, Current
<1>2. WaitsForOne' /\ Ordered' /\ Awaited'
  BY <1>1 DEF IInv, WaitsForOne, TypeOK, Ordered, Awaited
<1>3. ResultsBelong' /\ RowsDrawn'
  BY DEF IInv, ResultsBelong, RowsDrawn
<1> QED
  BY <1>2, <1>3 DEF IInv

LEMMA RespondKeeps ==
  ASSUME IInv, NEW request \in inflight, Respond(request)
  PROVE  IInv'
<1>1. /\ page \in Page /\ filters \in Filters /\ request \in Requests
      /\ inflight' = inflight \ {request} /\ UNCHANGED <<filters, events, dropped>>
  BY DEF Respond, IInv, WaitsForOne, TypeOK
<1>2. CASE Current(request)
  <2>1. PICK found \in BOOLEAN :
          LET p == [page EXCEPT !.matches = Answer(request, found), !.pending = FALSE,
                                !.controller = FALSE, !.status = "results"]
          IN page' = Render([p EXCEPT !.reasons = p.matches,
                                !.refinements = found /\ filters.license # "opensource"], filters)
    BY <1>2 DEF Respond
  <2> DEFINE p == [page EXCEPT !.matches = Answer(request, found), !.pending = FALSE,
                               !.controller = FALSE, !.status = "results"]
             d == [p EXCEPT !.reasons = p.matches,
                            !.refinements = found /\ filters.license # "opensource"]
  <2>2. page' = Render(d, filters)
    BY <2>1
  <2>3. /\ p \in Page /\ p.matches = Answer(request, found) /\ ~p.pending /\ ~p.controller
        /\ p.status = "results"
        /\ p.input = page.input /\ p.query = page.query /\ p.fallback = page.fallback
        /\ p.version = page.version /\ p.timer = page.timer /\ p.refinements = page.refinements
        /\ p.shown = page.shown /\ p.reasons = page.reasons
    BY <1>1, Answers DEF Page, Statuses
  <2> HIDE DEF p
  <2>4. /\ d \in Page /\ d.reasons = p.matches
        /\ d.input = p.input /\ d.query = p.query /\ d.matches = p.matches
        /\ d.fallback = p.fallback /\ d.version = p.version /\ d.controller = p.controller
        /\ d.pending = p.pending /\ d.timer = p.timer /\ d.status = p.status
        /\ d.shown = p.shown
    BY <2>3 DEF Page
  <2> HIDE DEF d
  <2>5. /\ page' \in Page /\ page'.shown = View(page', filters) /\ page'.shown.matches = page'.matches
        /\ page'.input = d.input /\ page'.query = d.query /\ page'.matches = d.matches
        /\ page'.fallback = d.fallback /\ page'.version = d.version /\ page'.controller = d.controller
        /\ page'.pending = d.pending /\ page'.timer = d.timer /\ page'.status = d.status
        /\ page'.refinements = d.refinements /\ page'.reasons = d.reasons
    BY <1>1, <2>2, <2>4, Rendered
  <2>6. /\ page.pending /\ request.query = page.query /\ request.filters = filters
        /\ page.query = page.input
    BY <1>2, CurrentIsAwaited
  <2>7. /\ page'.matches # Searching /\ page'.matches.kind = "answer"
        /\ page'.matches.query = page.query /\ page'.matches.filters = filters
    BY <1>1, <2>3, <2>4, <2>5, <2>6, Answers
  <2>8. WaitsForOne' /\ Ordered' /\ Awaited'
    BY <1>1, <1>2, <2>3, <2>4, <2>5, Ends
  <2>9. ResultsBelong'
    BY <1>1, <2>3, <2>4, <2>5, <2>6, <2>7 DEF ResultsBelong
  <2>10. RowsDrawn'
    BY <1>1, <2>3, <2>4, <2>5, <2>7 DEF RowsDrawn
  <2> QED
    BY <2>8, <2>9, <2>10 DEF IInv
<1>3. CASE ~Current(request)
  BY <1>1, <1>3, LateEnds DEF Respond
<1> QED
  BY <1>2, <1>3

LEMMA FailKeeps ==
  ASSUME IInv, NEW request \in inflight, Fail(request)
  PROVE  IInv'
<1>1. /\ page \in Page /\ filters \in Filters
      /\ inflight' = inflight \ {request} /\ UNCHANGED <<filters, events, dropped>>
  BY DEF Fail, IInv, WaitsForOne, TypeOK
<1>2. CASE Current(request)
  <2> DEFINE d == [page EXCEPT !.pending = FALSE, !.controller = FALSE]
  <2>1. page' = NamesOnly(d, filters)
    BY <1>2 DEF Fail
  <2>2. /\ d \in Page /\ ~d.pending /\ ~d.controller
        /\ d.input = page.input /\ d.query = page.query /\ d.matches = page.matches
        /\ d.fallback = page.fallback /\ d.version = page.version /\ d.timer = page.timer
        /\ d.status = page.status /\ d.refinements = page.refinements /\ d.shown = page.shown
        /\ d.reasons = page.reasons
    BY <1>1 DEF Page
  <2> HIDE DEF d
  <2>3. /\ page' \in Page /\ page'.matches = Null /\ page'.reasons = Null
        /\ page'.status = "unavailable" /\ page'.version = page.version
        /\ ~page'.pending /\ ~page'.controller
        /\ page'.shown = View(page', filters) /\ page'.shown.matches = page'.matches
    BY <1>1, <2>1, <2>2, NamesEffect
  <2>4. WaitsForOne' /\ Ordered' /\ Awaited'
    BY <1>1, <1>2, <2>3, Ends
  <2>5. ResultsBelong' /\ RowsDrawn'
    BY <1>1, <2>3, Kinds DEF ResultsBelong, RowsDrawn
  <2> QED
    BY <2>4, <2>5 DEF IInv
<1>3. CASE ~Current(request)
  BY <1>1, <1>3, LateEnds DEF Fail
<1> QED
  BY <1>2, <1>3

-----------------------------------------------------------------------------
LEMMA InitOK ==
  ASSUME Init
  PROVE  IInv
<1>1. /\ page = Loaded /\ filters = NoFilters /\ inflight = {} /\ events = 0 /\ dropped = FALSE
  BY DEF Init
<1>2. View([matches |-> Null, fallback |-> FALSE], NoFilters)
        = [matches |-> Null, words |-> Blank, filters |-> NoFilters]
  BY DEF View
<1>3. Loaded \in Page
  BY <1>2, Kinds DEF Loaded, Page, Views, Statuses
<1>4. /\ Loaded.shown = View(Loaded, NoFilters) /\ Loaded.shown.matches = Loaded.matches
      /\ Loaded.matches = Null /\ Loaded.reasons = Null /\ ~Loaded.pending /\ ~Loaded.controller
      /\ Loaded.status = "browse" /\ Loaded.version = 0
  BY <1>2 DEF Loaded, View
<1>5. TypeOK
  <2>1. 0 \in 0..MaxEvents
    BY PageConstants
  <2>2. page \in Page /\ filters \in Filters
    BY <1>1, <1>3, Kinds
  <2> QED
    BY <1>1, <2>1, <2>2 DEF TypeOK
<1>6. Ordered /\ Awaited
  BY <1>1, <1>4 DEF Ordered, Awaited
<1>7. ResultsBelong /\ RowsDrawn
  BY <1>1, <1>4, Kinds DEF ResultsBelong, RowsDrawn
<1> QED
  BY <1>1, <1>4, <1>5, <1>6, <1>7 DEF IInv, WaitsForOne

LEMMA NextKeeps ==
  ASSUME IInv, [Next]_vars
  PROVE  IInv'
<1>1. CASE Next
  <2>1. CASE EndRequest
    BY <2>1, RespondKeeps, FailKeeps DEF EndRequest
  <2>2. CASE \E text \in Texts : Edit(text)
    BY <2>2, EditKeeps
  <2>3. CASE \E f \in Filters : ChangeFilters(f)
    BY <2>3, ChangeFiltersKeeps
  <2> QED
    BY <1>1, <2>1, <2>2, <2>3, SubmitKeeps, ClearKeeps, RefineKeeps, UnpinKeeps, TimerFiresKeeps
       DEF Next
<1>2. CASE UNCHANGED vars
  BY <1>2 DEF vars, IInv, WaitsForOne, TypeOK, Ordered, Awaited, ResultsBelong, RowsDrawn, Current
<1> QED
  BY <1>1, <1>2

\* The invariant holds in every reachable state.
THEOREM Invariance == Spec => []IInv
<1>1. IInv /\ [Next]_vars => IInv'
  BY NextKeeps
<1> QED
  BY <1>1, InitOK, PTL DEF Spec

\* At most one request is awaited, and the page is busy exactly then
\* (conversational-search.js:160-172, 229-233, 294-299).
THEOREM OneRequestAwaited == Spec => []WaitsForOne
<1>1. IInv => WaitsForOne
  BY DEF IInv
<1> QED
  BY <1>1, Invariance, PTL

\* Late answers never show (conversational-search.js:223-228, 256, 290, 302-312).
THEOREM ResultsAreCurrent == Spec => []ResultsBelong
<1>1. IInv => ResultsBelong
  BY DEF IInv
<1> QED
  BY <1>1, Invariance, PTL

\* The table is drawn after each change (conversational-search.js:48-61, 118-139, 323-333).
THEOREM RowsAreDrawn == Spec => []RowsDrawn
<1>1. IInv => RowsDrawn
  BY DEF IInv
<1> QED
  BY <1>1, Invariance, PTL
=============================================================================
