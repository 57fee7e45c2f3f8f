----------------------------- MODULE ExportWalk -----------------------------
(***************************************************************************)
(* A consumer walks an export of the meter page by page (spans_export,       *)
(* pairs_export) while the table is written.  A cursor is the key of the     *)
(* last row shown; between two pages anything may happen.                    *)
(***************************************************************************)
EXTENDS UsageReads

CONSTANTS
    PageLimit,   \* rows per page
    Export,      \* what a walk may ask for: <<"spans" or "pairs", window>>
    Everything   \* no window

ASSUME WalkAssumption ==
    /\ PageLimit \in Nat \ {0}
    /\ \A x \in Export : x[1] = "spans" \/ (x[1] = "pairs" /\ x[2] \in Nat \X Nat)

VARIABLE walk

walkVars == <<vars, walk>>
NoWalk == [pc |-> "idle"]

\* What a walk of an export has to show: the rows of its window, or the pairs
\* that have ended their time together.
Matches(i, w) == IF w = Everything THEN i \in Here ELSE InPeriod(i, w)
Due(export, w) ==
    IF export = "spans" THEN {i \in Span : Matches(i, w)}
    ELSE UNION {PairKeys(r, {i \in Here : ~IsOpen(i)}, w, now) : r \in Room}

\* What the walk was owed when it began, less what is no longer there.
StillOwed ==
    IF walk.pc = "idle" THEN UNCHANGED walk
    ELSE \E export \in {walk.export}, w \in {walk.window} :
           walk' = [walk EXCEPT !.owed = @ \cap Due(export, w)']

-----------------------------------------------------------------------------
(* The exports, page by page.  Rows are in the order of <<joined_at, id>>,   *)
(* pairs in that of <<room, user_a, user_b>>.                                *)

Key(i) == <<rows[i].joined, i>>
Precedes(k, l) ==
    \E n \in DOMAIN k : k[n] < l[n] /\ \A m \in 1..n - 1 : k[m] = l[m]
Greatest(keys) == CHOOSE k \in keys : \A l \in keys \ {k} : Precedes(l, k)
FirstOf(keys, n) ==
    {k \in keys : Cardinality({l \in keys : Precedes(l, k)}) < n}

StartWalk(export, w) ==
    /\ walk = NoWalk
    /\ walk' = [pc |-> "between", export |-> export, window |-> w, cursor |-> <<>>,
                owed |-> Due(export, w), seen |-> {}, again |-> FALSE,
                todo |-> {}, at |-> 0, taken |-> {}]
    /\ UNCHANGED vars

\* The rows of a page go out, with a cursor if there are more.
Answer(page, keys, more) ==
    walk' = [walk EXCEPT
        !.seen = @ \cup page, !.again = @ \/ page \cap walk.seen # {},
        !.pc = IF more THEN "between" ELSE "done",
        !.cursor = IF more THEN Greatest(keys) ELSE @,
        !.todo = {}, !.at = 0, !.taken = {}]

\* Mutant of PastCursor: the row the cursor names is read again.
PastCursorToo(key) == walk.cursor = <<>> \/ key = walk.cursor \/ Precedes(walk.cursor, key)

PastCursor(key) == walk.cursor = <<>> \/ Precedes(walk.cursor, key)

\* Mutant of SpansPage: the cursor is the arrival alone.
SpansPageByArrival ==
    /\ walk.pc = "between" /\ walk.export = "spans"
    /\ LET keys == {Key(i) : i \in {j \in Span : Matches(j, walk.window)
                                     /\ (walk.cursor = <<>> \/ rows[j].joined > walk.cursor[1])}}
           page == FirstOf(keys, PageLimit)
       IN  Answer({k[2] : k \in page}, page, page # keys)
    /\ UNCHANGED vars

\* spans_export: one query.
SpansPage ==
    /\ walk.pc = "between" /\ walk.export = "spans"
    /\ LET keys == {k \in {Key(i) : i \in {j \in Span : Matches(j, walk.window)}} : PastCursor(k)}
           page == FirstOf(keys, PageLimit)
       IN  Answer({k[2] : k \in page}, page, page # keys)
    /\ UNCHANGED vars

\* pairs_export: the rooms of the window from the cursor on, and the moment
\* that open stays run to.
PairsRooms ==
    /\ walk.pc = "between" /\ walk.export = "pairs"
    /\ walk' = [walk EXCEPT !.pc = "rooms", !.at = now,
                  !.todo = {r \in Room : /\ \E i \in Span : InPeriod(i, walk.window) /\ RoomOf[i] = r
                                         /\ walk.cursor = <<>> \/ r >= walk.cursor[1]}]
    /\ UNCHANGED vars

\* A room's stays are one query; its pairs fill the page or leave it open.
PairsOfRoom ==
    /\ walk.pc = "rooms" /\ walk.todo # {}
    /\ LET room == Least(walk.todo)
           keys == {k \in PairKeys(room, Span, walk.window, walk.at) : PastCursor(k)}
           page == walk.taken \cup FirstOf(keys, PageLimit - Cardinality(walk.taken))
       IN  IF page = walk.taken \cup keys
             THEN walk' = [walk EXCEPT !.taken = page, !.todo = @ \ {room}]
             ELSE Answer(page, page, TRUE)
    /\ UNCHANGED vars

PairsEnd ==
    /\ walk.pc = "rooms" /\ walk.todo = {}
    /\ Answer(walk.taken, walk.taken, FALSE)
    /\ UNCHANGED vars

EndWalk ==
    /\ walk.pc = "done"
    /\ walk' = NoWalk
    /\ UNCHANGED vars

-----------------------------------------------------------------------------
WalkInit == Init /\ walk = NoWalk

Exporter ==
    \/ \E x \in Export : StartWalk(x[1], x[2])
    \/ SpansPage \/ PairsRooms \/ PairsOfRoom \/ PairsEnd \/ EndWalk

WalkNext ==
    \/ Meter /\ StillOwed
    \/ Exporter

WalkSpec == WalkInit /\ [][WalkNext]_walkVars

-----------------------------------------------------------------------------
(* Properties.                                                              *)

\* "a full walk visits every row exactly once even while the sweeper closes
\* spans underneath it" (functions.py:91-92): what the walk was owed at its start
\* and was never deleted or renamed is in some page,
WalkIsComplete == walk.pc = "done" => walk.owed \subseteq walk.seen

\* and nothing is in two.
RowIsShownOnce == walk # NoWalk => ~walk.again
=============================================================================
