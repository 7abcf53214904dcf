------------------------- MODULE ConversationalSearch -------------------------
(***************************************************************************)
(* conversational-search.js on the dashboard's page, with the handlers of   *)
(* search.js that call it.  A step is one task of the page's event loop: a  *)
(* user event, a timer, or the end of a request.  A request that was        *)
(* aborted still ends, and its end may still be an answer.                  *)
(***************************************************************************)
EXTENDS Naturals, FiniteSets

CONSTANTS
    Queries,        \* texts that are not blank
    Blank,          \* the empty text
    MaxEvents       \* bound: what the user does

ASSUME PageConstants == Blank \notin Queries /\ MaxEvents \in Nat

Texts == Queries \cup {Blank}

\* The selected license and the check box; a category behaves like the license.
Filters == [license : {"all", "opensource"}, tested : BOOLEAN]
NoFilters == [license |-> "all", tested |-> FALSE]

\* state.matches: null, the empty map of a search under way, or an answer, by its request;
\* "found" tells whether a package of it is in the table.
Null == [kind |-> "null", query |-> Blank, filters |-> NoFilters, found |-> FALSE]
Searching == [Null EXCEPT !.kind = "searching"]
Answer(request, found) ==
    [kind |-> "answer", query |-> request.query, filters |-> request.filters, found |-> found]
Matches == {Null, Searching} \cup
           [kind : {"answer"}, query : Queries, filters : Filters, found : BOOLEAN]

Requests == [version : Nat, query : Queries, filters : Filters, aborted : BOOLEAN]
Views == [matches : Matches, words : Texts, filters : Filters]
Statuses == {"browse", "finding", "results", "unavailable", "edited", "press"}

VARIABLES
    page,       \* the input, the closure's state, and what the page shows
    filters,    \* the selected filters
    inflight,   \* requests that have not ended, aborted ones too
    events,     \* bound: user events so far
    dropped     \* history: an unpinned row or an edit has cleared a pending filter timer

vars == <<page, filters, inflight, events, dropped>>

Page == [input : Texts, query : Texts, matches : Matches, fallback : BOOLEAN,
         version : Nat, controller : BOOLEAN, pending : BOOLEAN, timer : BOOLEAN,
         status : Statuses, refinements : BOOLEAN, shown : Views, reasons : Matches]

TypeOK ==
    /\ page \in Page /\ filters \in Filters
    /\ inflight \subseteq Requests
    /\ events \in 0..MaxEvents /\ dropped \in BOOLEAN

-----------------------------------------------------------------------------
\* rowsToHide: an answer decides alone; otherwise the local filters, and in the fallback the
\* words of the query.
View(p, f) ==
    IF p.matches # Null THEN [matches |-> p.matches, words |-> Blank, filters |-> NoFilters]
    ELSE [matches |-> Null, words |-> IF p.fallback THEN p.query ELSE Blank, filters |-> f]

Render(p, f) == [p EXCEPT !.shown = View(p, f)]

\* Wrong variants: the version stays, so that the old request is the page's; the page stays
\* busy.
SameVersion(p) == [p EXCEPT !.controller = FALSE, !.pending = FALSE]
StillBusy(p) == [p EXCEPT !.version = @ + 1, !.controller = FALSE]

\* cancelRequest, without the abort itself
Cancel(p) == [p EXCEPT !.version = @ + 1, !.controller = FALSE, !.pending = FALSE]

Abort(requests, version) ==
    {[r EXCEPT !.aborted = @ \/ r.version = version] : r \in requests}

\* Wrong variant: the rows are left as they were.
RestoredUndrawn(p, f) ==
    [Cancel(p) EXCEPT !.timer = FALSE, !.query = Blank, !.matches = Null,
        !.fallback = FALSE, !.input = Blank, !.refinements = FALSE,
        !.reasons = Null, !.status = "browse"]

\* restoreCatalog
Restored(p, f) ==
    Render([Cancel(p) EXCEPT !.timer = FALSE, !.query = Blank, !.matches = Null,
                !.fallback = FALSE, !.input = Blank, !.refinements = FALSE,
                !.reasons = Null, !.status = "browse"], f)

\* showNameFallback
NamesOnly(p, f) ==
    Render([p EXCEPT !.matches = Null, !.fallback = TRUE, !.reasons = Null,
                !.refinements = FALSE, !.status = "unavailable"], f)

\* The page after search(query) has asked
Asking(p, query, f) ==
    Render([Cancel(p) EXCEPT !.timer = FALSE, !.input = query, !.controller = TRUE,
                !.query = query, !.matches = Searching, !.fallback = FALSE,
                !.refinements = FALSE, !.status = "finding", !.pending = TRUE,
                !.reasons = Null], f)

\* The page after search(query) with the query it already shows
Repeated(p, f) == Render([p EXCEPT !.timer = FALSE, !.reasons = p.matches], f)

Search(query, f, force) ==
    IF query = Blank THEN page' = Restored(page, f) /\ inflight' = Abort(inflight, page.version)
    ELSE IF ~force /\ query = page.query /\ ~page.pending
    THEN page' = Repeated(page, f) /\ UNCHANGED inflight
    ELSE /\ page' = Asking(page, query, f)
         /\ inflight' = Abort(inflight, page.version) \cup
                {[version |-> page'.version, query |-> query, filters |-> f, aborted |-> FALSE]}

-----------------------------------------------------------------------------
\* The page is loaded; a search or a filter in its address comes as a first event.
Loaded ==
    [input |-> Blank, query |-> Blank, matches |-> Null, fallback |-> FALSE, version |-> 0,
     controller |-> FALSE, pending |-> FALSE, timer |-> FALSE, status |-> "browse",
     refinements |-> FALSE, shown |-> View([matches |-> Null, fallback |-> FALSE], NoFilters),
     reasons |-> Null]

Init ==
    /\ page = Loaded /\ filters = NoFilters /\ inflight = {}
    /\ events = 0 /\ dropped = FALSE

User == events < MaxEvents /\ events' = events + 1

\* The form is submitted, or an example is clicked.
Submit ==
    /\ User
    /\ \E query \in Texts :
         /\ query = page.input \/ query \in Queries
         /\ Search(query, filters, TRUE)
    /\ dropped' = FALSE
    /\ UNCHANGED filters

\* The input is edited.
Edit(text) ==
    /\ User
    /\ inflight' = Abort(inflight, page.version)
    /\ IF text = Blank THEN page' = Restored(page, filters) /\ dropped' = FALSE
       ELSE LET given == [page EXCEPT !.matches = Null, !.query = Blank, !.fallback = FALSE,
                                      !.reasons = Null]
                p == Cancel(IF page.pending THEN Render(given, filters) ELSE page)
            IN /\ page' = [p EXCEPT !.input = text, !.timer = FALSE, !.refinements = FALSE,
                              !.status = IF p.query # Blank THEN "edited" ELSE "press"]
               /\ dropped' = (dropped \/ page.timer)
    /\ UNCHANGED filters

\* The clear button
Clear ==
    /\ User
    /\ page' = Restored(page, filters) /\ inflight' = Abort(inflight, page.version)
    /\ dropped' = FALSE
    /\ UNCHANGED filters

\* filtersChanged, by a license, the check box, or "clear filters"
ChangeFilters(f) ==
    /\ User /\ f # filters
    /\ filters' = f
    /\ page' = [Cancel(page) EXCEPT !.timer = TRUE]
    /\ inflight' = Abort(inflight, page.version)
    /\ UNCHANGED dropped

\* The "open source" refinement sets the control itself, which fires no event.
Refine ==
    /\ User /\ page.refinements
    /\ filters' = [filters EXCEPT !.license = "opensource"]
    /\ Search(page.query, filters', TRUE)
    /\ dropped' = FALSE

\* A row is unpinned: the table searches again for what is in the input.
Unpin ==
    /\ User /\ page.input # Blank
    /\ Search(page.input, filters, FALSE)
    /\ dropped' = (~page'.pending /\ (dropped \/ page.timer))
    /\ UNCHANGED filters

TimerFires ==
    /\ page.timer
    /\ Search(page.input, filters, TRUE)
    /\ dropped' = FALSE
    /\ UNCHANGED <<filters, events>>

\* Wrong variant: every answer is the current one.
AlwaysCurrent(request) == TRUE

Current(request) == request.version = page.version

\* A valid response arrives.
Respond(request) ==
    /\ inflight' = inflight \ {request}
    /\ IF Current(request)
       THEN \E found \in BOOLEAN :
              LET p == [page EXCEPT !.matches = Answer(request, found), !.pending = FALSE,
                                    !.controller = FALSE, !.status = "results"]
              IN page' = Render([p EXCEPT !.reasons = p.matches,
                                    !.refinements = found /\ filters.license # "opensource"],
                                filters)
       ELSE UNCHANGED page
    /\ UNCHANGED <<filters, events, dropped>>

\* An error, a malformed response, an abort, or the end of its fifteen seconds
Fail(request) ==
    /\ inflight' = inflight \ {request}
    /\ IF Current(request)
       THEN page' = NamesOnly([page EXCEPT !.pending = FALSE, !.controller = FALSE], filters)
       ELSE UNCHANGED page
    /\ UNCHANGED <<filters, events, dropped>>

EndRequest == \E request \in inflight : Respond(request) \/ Fail(request)

Next ==
    \/ Submit \/ Clear \/ Refine \/ Unpin \/ TimerFires \/ EndRequest
    \/ \E text \in Texts : Edit(text)
    \/ \E f \in Filters : ChangeFilters(f)

Spec == Init /\ [][Next]_vars

\* Timers fire, and the timeout ends a request at the latest.
FairSpec == Spec /\ WF_vars(TimerFires) /\ WF_vars(EndRequest)

-----------------------------------------------------------------------------
\* The page waits for at most one request, the only one it has not aborted, and says that it
\* is busy exactly then; an edit, a clear and a filter change leave none behind
\* (conversational-search.js:160-172, 229-233, 294-299).
WaitsForOne ==
    /\ TypeOK
    /\ page.pending <=> page.controller
    /\ \A r \in inflight : ~r.aborted <=> (page.pending /\ r.version = page.version)
    /\ page.pending <=> \E r \in inflight : ~r.aborted

\* Results are those of the query in the input and of the selected filters, whatever answers
\* come late and in whatever order; while a filter change waits for its timer they may be the
\* former ones.  An unpinned row that clears the timer first loses the change, until the
\* next search (conversational-search.js:223-228, 256, 290, 302-312).
ResultsBelong ==
    page.status = "results" =>
        /\ page.matches.kind = "answer" /\ page.query = page.input
        /\ page.matches.query = page.query
        /\ ~page.timer /\ ~dropped => page.matches.filters = filters

\* The rows on the page and their reasons are those of the page's state: no handler changes
\* the state, or the filters the rows depend on, and forgets to draw
\* (conversational-search.js:48-61, 118-139, 323-333).  An empty table means that a search
\* is under way or that a filter change will start one, but for the edit or the unpinned row
\* that clears its timer (conversational-search.js:233-245).
RowsDrawn ==
    /\ ~page.timer /\ ~dropped => page.shown = View(page, filters)
    /\ page.shown.matches = page.matches
    /\ page.reasons \in {Null, page.matches}
    /\ page.reasons # Null => page.shown.matches = page.reasons
    /\ page.shown.matches = Searching => page.pending \/ page.timer \/ dropped

\* The page comes to rest: searches end, and filter changes take effect or are superseded
\* (conversational-search.js:246, 294-312).
ComesToRest == <>[](~page.pending /\ ~page.timer)
=============================================================================
