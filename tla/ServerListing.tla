---------------------------- MODULE ServerListing ----------------------------
(***************************************************************************)
(* Reading the list of servers page by page while servers are registered   *)
(* (RegistryService.list_servers).  The rows are ordered by creation time, *)
(* newest first, and by id where times are equal; a cursor names the last  *)
(* row of a page and the next page starts below it.  Ids are random, so a  *)
(* new row can fall anywhere among the rows of its own creation time.      *)
(***************************************************************************)
EXTENDS Naturals, FiniteSets

CONSTANTS
    Rows,           \* ids of servers, ordered as numbers
    PerPage,
    MaxClock,       \* bound: the latest creation time
    NoCursor

ASSUME ListingAssumption ==
    /\ Rows \subseteq Nat /\ PerPage \in Nat \ {0} /\ MaxClock \in Nat
    /\ NoCursor \notin Nat /\ NoCursor \notin Nat \X Nat

VARIABLES
    created,        \* the creation time of each row, or NoCursor while it does not exist
    clock,
    cursor,         \* <<time, id>> of the last row read; NoCursor before the first page
    more,           \* the last answer said has_more
    listed,         \* history: in how many answers of this walk each row was (2: or more)
    present         \* history: the rows that existed when the walk began

listingVars == <<created, clock, cursor, more, listed, present>>

Existing == {r \in Rows : created[r] # NoCursor}

ListingInit ==
    /\ created = [r \in Rows |-> NoCursor]
    /\ clock = 0
    /\ cursor = NoCursor /\ more = TRUE
    /\ listed = [r \in Rows |-> 0]
    /\ present = {}
------------------------------------------------------------------------------
BelowTimeOnly(r, c) == created[r] < c[1]   \* mutant: equal times are not told apart
\* The WHERE clause of a cursor.
Below(r, c) == created[r] < c[1] \/ (created[r] = c[1] /\ r < c[2])

\* ORDER BY created_at DESC, id DESC
Precedes(r, q) == created[q] < created[r] \/ (created[q] = created[r] /\ q < r)

\* The rows of the query, and the first n of them.
Matching == {r \in Existing : cursor = NoCursor \/ Below(r, cursor)}
FirstOf(S, n) == {r \in S : Cardinality({q \in S : Precedes(q, r)}) < n}

\* One row more than a page is fetched, to learn whether there are more.
Fetched == FirstOf(Matching, PerPage + 1)
HasMore == Cardinality(Fetched) > PerPage
Page == FirstOf(Fetched, PerPage)
LastOfPage == CHOOSE r \in Page : \A q \in Page : q = r \/ Precedes(q, r)

NextCursor == <<created[LastOfPage], LastOfPage>>

\* A request for the next page; the answer's cursor is there only when there are more rows.
ReadPage ==
    /\ more
    /\ listed' = [r \in Rows |-> IF r \in Page /\ listed[r] < 2 THEN listed[r] + 1 ELSE listed[r]]
    /\ more' = HasMore
    /\ cursor' = IF HasMore THEN NextCursor ELSE cursor
    /\ present' = IF cursor = NoCursor THEN Existing ELSE present
    /\ UNCHANGED <<created, clock>>

\* A reader starts over.
Restart ==
    /\ ~more
    /\ cursor' = NoCursor /\ more' = TRUE
    /\ listed' = [r \in Rows |-> 0] /\ present' = {}
    /\ UNCHANGED <<created, clock>>

\* A registration commits; created_at is the time at which its transaction began.
Register(r, t) ==
    /\ created[r] = NoCursor /\ t <= clock
    /\ created' = [created EXCEPT ![r] = t]
    /\ UNCHANGED <<clock, cursor, more, listed, present>>

ClockTick == clock < MaxClock /\ clock' = clock + 1 /\ UNCHANGED <<created, cursor, more, listed, present>>

\* GET /servers, with a cursor and without one.
ListServers == ReadPage \/ Restart
ListingNext == ListServers \/ (\E r \in Rows, t \in 0..MaxClock : Register(r, t)) \/ ClockTick
\* A reader that was told there is more asks for it.
ListingSpec == ListingInit /\ [][ListingNext]_listingVars /\ WF_listingVars(ReadPage)
------------------------------------------------------------------------------
\* The type of the table, the clock and the reader.
ListingTypeOK ==
    /\ created \in [Rows -> (0..MaxClock) \cup {NoCursor}]
    /\ clock \in 0..MaxClock
    /\ cursor \in ((0..MaxClock) \X Rows) \cup {NoCursor}
    /\ more \in BOOLEAN
    /\ listed \in [Rows -> 0..2]
    /\ present \subseteq Existing

\* However many servers are registered meanwhile, no server is listed twice in one walk, and
\* at its end every server that was there at its start has been listed (list_servers:
\* "doesn't shift when rows are added").
WalkIsComplete ==
    /\ \A r \in Rows : listed[r] <= 1
    /\ ~more => \A r \in present : listed[r] = 1
==============================================================================
