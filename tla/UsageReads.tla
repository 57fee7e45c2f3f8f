----------------------------- MODULE UsageReads -----------------------------
(***************************************************************************)
(* What is read from the meter while it is written: totals per person, room *)
(* and tenant (presence.py, functions.py, views.py), and the tenant backfill. *)
(* Underneath, webhooks, the sweep, merges, erasures and the purge go on (see *)
(* PresenceMeter and AccountLifecycle for those).                            *)
(***************************************************************************)
EXTENDS UsageArithmetic

CONSTANTS
    Span,        \* row ids, ordered as the uuids are
    User,        \* user_id values, ordered; erased ones among them
    Guest, Account, \* who may be merged into whom
    Room, Tenant,
    Subject,     \* the person whose stay a row records
    RoomOf,      \* the room of that stay
    ConnOf,      \* its connection
    GrantOf,     \* the tenant its join grant names, or Unscoped
    TenantOf,    \* the host's answer for a room: a tenant, or Unscoped
    Pseudonym,   \* the digest of a user id
    Month,       \* the months a caller may ask for
    Capable,     \* <<user, tenant>>: who may read whose usage
    MonthsShown, \* how many months a table has
    Retention,   \* the age at which a row is purged
    RoomsPerRun, \* --limit of the backfill command, a bound on its rooms
    MaxTime,     \* bound: the last instant of the clock; arrivals are before it
    Unscoped     \* no tenant

ASSUME ReadsAssumption ==
    /\ Span \subseteq Nat /\ User \subseteq Nat /\ Room \subseteq Nat
    /\ IsFiniteSet(Span) /\ IsFiniteSet(User)
    /\ Subject \in [Span -> User] /\ RoomOf \in [Span -> Room]
    /\ GrantOf \in [Span -> Tenant \cup {Unscoped}]
    /\ TenantOf \in [Room -> Tenant \cup {Unscoped}] /\ Unscoped \notin Tenant
    /\ DOMAIN Pseudonym \subseteq User /\ \A u \in DOMAIN Pseudonym : Pseudonym[u] \in User 
    /\ Guest \subseteq User /\ Account \subseteq User \ Guest
    /\ MonthsShown \in Nat \ {0} /\ RoomsPerRun \in Nat \ {0} /\ Retention \in Nat /\ MaxTime \in Nat

\* The calendar: months are numbered, one after the other, and start in that
\* order; the clock is always in one of them, with the months of a table before it.
Ordinal(m) == 12 * m[1] + m[2]
ASSUME CalendarAssumption ==
    /\ DOMAIN Midnight \subseteq Nat \X (1..12) /\ Midnight \in [DOMAIN Midnight -> Nat]
    /\ \A m, n \in DOMAIN Midnight : Ordinal(m) <= Ordinal(n) => Midnight[m] <= Midnight[n]
    /\ \A t \in 0..MaxTime : \E m, n \in DOMAIN Midnight :
          /\ Ordinal(n) = Ordinal(m) + 1 /\ Midnight[m] <= t /\ t < Midnight[n]
          /\ \A k \in 1..MonthsShown : \E p \in DOMAIN Midnight : Ordinal(p) + k = Ordinal(m) + 1
    /\ Month \subseteq Nat \X (1..12)
    /\ \A m \in Month : Ordinal(m) < 12 * MaxYear + 12 =>
          m \in DOMAIN Midnight /\ \E n \in DOMAIN Midnight : Ordinal(n) = Ordinal(m) + 1

VARIABLES
    now,
    rows,    \* the ParticipantSpan table, by id
    filling  \* the backfill command

vars == <<now, rows, filling>>

Absent == [user |-> "absent"]
Gone == [user |-> "gone"]   \* deleted: an id is not used twice
Row == [user: User, joined: 0..MaxTime, left: 0..MaxTime \cup {Open}, tenant: Tenant \cup {Unscoped}]
IsRow(i) == rows[i] # Absent /\ rows[i] # Gone
Here == {i \in Span : IsRow(i)}
IsOpen(i) == IsRow(i) /\ rows[i].left = Open

Window == {MonthBounds(m) : m \in {n \in Month : IsPeriod(n)}} \cup {<<0, MaxTime>>}
NoFill == [pc |-> "idle"]

-----------------------------------------------------------------------------
(* Reads.                                                                   *)

\* _spans_in_period.
InPeriod(i, w) ==
    IsRow(i) /\ rows[i].joined < w[2] /\ (rows[i].left = Open \/ rows[i].left > w[1])

Timeline(ids, w, at) == UNION {Clip(rows[i], w[1], w[2], at) : i \in ids}
SpansOf(u, ids) == {i \in ids : rows[i].user = u}

\* Mutant of SecondsOf: the stays are summed.
SecondsOfSummed(u, ids, w) ==
    Total([i \in SpansOf(u, ids) |-> IntervalSeconds(Merged(Timeline({i}, w, now)))])

\* A person's time: the stays are united.
SecondsOf(u, ids, w) == IntervalSeconds(Merged(Timeline(SpansOf(u, ids), w, now)))
Counted(ids, w) == {i \in ids : Clip(rows[i], w[1], w[2], now) # {}}

\* presence_aggregate: exactly one of a user and a room is asked for.
Asked(asked, w) ==
    {i \in Span : /\ InPeriod(i, w)
                  /\ asked.by = "user" => rows[i].user = asked.key
                  /\ asked.by = "room" => RoomOf[i] = asked.key}
PersonSeconds(counted, w) ==
    Total([u \in {rows[i].user : i \in counted} |-> SecondsOf(u, counted, w)])
SecondsAsked(asked, w) == PersonSeconds(Counted(Asked(asked, w), w), w)
Aggregate(asked, w) ==
    LET ids == Asked(asked, w)
        counted == Counted(ids, w)
    IN  [seconds |-> PersonSeconds(counted, w),
         rooms |-> Cardinality({RoomOf[i] : i \in counted}),
         users |-> Cardinality({rows[i].user : i \in counted}), spans |-> Cardinality(ids)]

ByUser(u) == [by |-> "user", key |-> u]
ByRoom(r) == [by |-> "room", key |-> r]

\* usage_rollup: a row per person, of their counted stays.
RollupRow(u, mine, w) ==
    LET merged == Merged(Timeline(mine, w, now))
    IN  [user |-> u, seconds |-> IntervalSeconds(merged),
         rooms |-> Cardinality({RoomOf[i] : i \in mine}),
         connections |-> Cardinality({ConnOf[i] : i \in mine}),
         first |-> merged[1][1], last |-> merged[Len(merged)][2]]
RowsOf(counted, w) ==
    {RollupRow(u, SpansOf(u, counted), w) : u \in {rows[i].user : i \in counted}}

\* Mutant of Rollup: the tenant filter is dropped.
RollupAnyTenant(tenant, w) == RowsOf(Counted({i \in Span : InPeriod(i, w)}, w), w)

\* One tenant's window.
Rollup(tenant, w) ==
    RowsOf(Counted({i \in Span : InPeriod(i, w) /\ rows[i].tenant = tenant}, w), w)

\* usage_rollup_by_month, from the month it is now.
ThisMonth ==
    CHOOSE m \in DOMAIN Midnight : Midnight[m] <= now /\ \A n \in DOMAIN Midnight \ {m} :
        Midnight[n] <= now => n[1] < m[1] \/ (n[1] = m[1] /\ n[2] < m[2])
Table(tenant, count) ==
    LET months == RecentMonths(count, ThisMonth)
    IN  [i \in 1..count |-> [start |-> MonthBounds(months[i])[1], end |-> MonthBounds(months[i])[2],
                             users |-> Rollup(tenant, MonthBounds(months[i]))]]

\* ScopeUsageView: a tenant somebody else owns, and one that is not there, are
\* both not found; a month that is none is refused.
MayRead(caller, tenant) == <<caller, tenant>> \in Capable
ScopeUsage(caller, tenant, month) ==
    IF ~MayRead(caller, tenant) THEN [status |-> 404, users |-> {}]
    ELSE IF ~IsPeriod(month) THEN [status |-> 400, users |-> {}]
    ELSE [status |-> 200, users |-> Rollup(tenant, MonthBounds(month))]

\* _room_pairs: <<user_a, user_b, seconds>> with user_a < user_b.
RoomPairs(room, ids, w, at) ==
    LET mine == {i \in ids : InPeriod(i, w) /\ RoomOf[i] = room}
        line == [u \in {rows[i].user : i \in mine} |-> Merged(Timeline(SpansOf(u, mine), w, at))]
    IN  {p \in {<<a, b, OverlapSeconds(line[a], line[b])>> : a, b \in DOMAIN line} :
            p[1] < p[2] /\ p[3] > 0}

PairKeys(room, ids, w, at) == {<<room, p[1], p[2]>> : p \in RoomPairs(room, ids, w, at)}

-----------------------------------------------------------------------------
(* The table is written.                                                    *)

Init ==
    /\ now = 0
    /\ rows = [i \in Span |-> Absent]
    /\ filling = NoFill

Tick ==
    /\ now < MaxTime
    /\ now' = now + 1
    /\ UNCHANGED <<rows, filling>>

WholeSecond(t) == t % TicksPerSecond = 0

\* Mutant of OpenSpan: a redelivery stamps the tenant its grant names by now.
OpenSpanRestamps(i, joined) ==
    /\ rows[i] # Gone /\ joined <= now /\ joined < MaxTime /\ WholeSecond(joined)
    /\ rows' = [rows EXCEPT ![i] =
                  IF i \in Here THEN [@ EXCEPT !.tenant = GrantOf[i]]
                  ELSE [user |-> Subject[i], joined |-> joined, left |-> Open, tenant |-> GrantOf[i]]]
    /\ UNCHANGED <<now, filling>>

\* open_span, now or long after the arrival.  A redelivery finds its row and
\* changes nothing.
OpenSpan(i, joined) ==
    /\ rows[i] = Absent /\ joined <= now /\ joined < MaxTime /\ WholeSecond(joined)
    /\ rows' = [rows EXCEPT ![i] = [user |-> Subject[i], joined |-> joined,
                                    left |-> Open, tenant |-> GrantOf[i]]]
    /\ UNCHANGED <<now, filling>>

\* Mutant of CloseSpan: the end is not clamped to the arrival.
CloseSpanUnclamped(i, at) ==
    /\ IsOpen(i) /\ at <= now
    /\ rows' = [rows EXCEPT ![i].left = at]
    /\ UNCHANGED <<now, filling>>

\* close_span: by a webhook, a leave button, or the sweep, which closes at the
\* last moment it saw.
CloseSpan(i, at) ==
    /\ IsOpen(i) /\ at <= now
    /\ rows' = [rows EXCEPT ![i].left = Later(at, rows[i].joined)]
    /\ UNCHANGED <<now, filling>>

Renamed(from, to) ==
    /\ SpansOf(from, Here) # {}
    /\ rows' = [i \in Span |-> IF i \in SpansOf(from, Here)
                                 THEN [rows[i] EXCEPT !.user = to] ELSE rows[i]]
    /\ UNCHANGED <<now, filling>>

Deleted(ids) ==
    /\ ids # {}
    /\ rows' = [i \in Span |-> IF i \in ids THEN Gone ELSE rows[i]]
    /\ UNCHANGED <<now, filling>>

\* handle_user_merged re-keys the meter.
MergeSpans(guest, account) ==
    /\ guest \in Guest /\ account \in Account
    /\ Renamed(guest, account)

\* Mutant of PseudonymizeUser: the rows are deleted.
PseudonymizeUserDeletes(u) == u \in DOMAIN Pseudonym /\ Deleted(SpansOf(u, Here))

PseudonymizeUser(u) == u \in DOMAIN Pseudonym /\ Renamed(u, Pseudonym[u])

\* purge_participant_spans: by arrival, open rows too.
Purge == Deleted({i \in Here : rows[i].joined + Retention < now})

-----------------------------------------------------------------------------
(* video_backfill_scope.                                                    *)

Least(rooms) == CHOOSE r \in rooms : \A q \in rooms : r <= q

UnscopedIn(r) == {i \in Here : RoomOf[i] = r /\ rows[i].tenant = Unscoped}

\* backfill_scope_keys: the first rooms, in order, that have an unscoped row.
FillStart ==
    /\ filling = NoFill
    /\ LET rooms == {r \in Room : UnscopedIn(r) # {}} IN
         /\ rooms # {}
         /\ filling' = [pc |-> "rooms", ids |-> {},
                        todo |-> {r \in rooms : Cardinality({q \in rooms : q < r}) < RoomsPerRun}]
    /\ UNCHANGED <<now, rows>>

\* The resolver's answer for the next room, then a batch of its ids; a room that
\* is not resolved, or has none left, is done with.
FillRead ==
    /\ filling.pc = "rooms"
    /\ LET r == Least(filling.todo) IN
         filling' = IF TenantOf[r] # Unscoped /\ UnscopedIn(r) # {}
                      THEN [filling EXCEPT !.pc = "stamp", !.ids = UnscopedIn(r)]
                    ELSE IF filling.todo = {r} THEN NoFill
                    ELSE [filling EXCEPT !.todo = @ \ {r}]
    /\ UNCHANGED <<now, rows>>

\* _stamp_room's UPDATE: whatever of the batch is still there.
FillStamp ==
    /\ filling.pc = "stamp"
    /\ rows' = [i \in Span |-> IF i \in filling.ids \cap Here
                                 THEN [rows[i] EXCEPT !.tenant = TenantOf[RoomOf[i]]] ELSE rows[i]]
    /\ filling' = [filling EXCEPT !.pc = "rooms", !.ids = {}]
    /\ UNCHANGED now

\* The command dies: what it stamped has left the population.
FillDies ==
    /\ filling # NoFill
    /\ filling' = NoFill
    /\ UNCHANGED <<now, rows>>

-----------------------------------------------------------------------------
Meter ==
    \/ Tick \/ Purge
    \/ \E i \in Span, at \in 0..MaxTime : OpenSpan(i, at) \/ CloseSpan(i, at)
    \/ \E guest, account \in User : MergeSpans(guest, account)
    \/ \E u \in User : PseudonymizeUser(u)

Backfill == FillStart \/ FillRead \/ FillStamp \/ FillDies

Next == Meter \/ Backfill
Spec == Init /\ [][Next]_vars

\* An operator runs the command again and again, and it does not always die.
FillSpec ==
    /\ Init /\ [][Next]_vars
    /\ WF_vars(FillStart) /\ SF_vars(FillRead) /\ SF_vars(FillStamp)

-----------------------------------------------------------------------------
(* Properties.                                                              *)

\* Types; no stay ends before it began.
TypeOK ==
    /\ now \in 0..MaxTime
    /\ rows \in [Span -> Row \cup {Absent, Gone}]
    /\ \A i \in Here : rows[i].left # Open => rows[i].left >= rows[i].joined
    /\ filling = NoFill \/ (filling.pc \in {"rooms", "stamp"} /\ filling.todo \subseteq Room
                            /\ filling.ids \subseteq Span)

\* The reference the arithmetic is held against: the instants of a window in
\* which some of the stays was in the call.
Present(ids, w) ==
    {t \in w[1]..w[2] - 1 : \E i \in ids :
        rows[i].joined <= t /\ t < (IF rows[i].left = Open THEN now ELSE rows[i].left)}
Seconds(instants) == Cardinality(instants) \div TicksPerSecond
In(r) == {i \in Here : RoomOf[i] = r}

PersonIsPresence(u, w) == SecondsAsked(ByUser(u), w) = Seconds(Present(SpansOf(u, Here), w))
SecondsOfBoth(a, b, r, w) ==
    Seconds(Present(SpansOf(a, In(r)), w) \cap Present(SpansOf(b, In(r)), w))
RoomIsPresence(r, w) ==
    /\ SecondsAsked(ByRoom(r), w) = Total([u \in User |-> Seconds(Present(SpansOf(u, In(r)), w))])
    /\ RoomPairs(r, Here, w, now) =
         {p \in {<<a, b, SecondsOfBoth(a, b, r, w)>> : a, b \in User} : p[1] < p[2] /\ p[3] > 0}

\* "Seconds are UNIONED, not summed" (functions.py:66-68): totals, and the time
\* of two people together, count each instant once, whatever overlaps, touches
\* or is still open.
MeterIsPresence ==
    \A w \in Window :
        (\A u \in User : PersonIsPresence(u, w)) /\ (\A r \in Room : RoomIsPresence(r, w))

StaysOf(tenant) == {i \in Here : rows[i].tenant = tenant}
IsUsageOf(answer, ids, w) ==
    /\ {a.user : a \in answer} = {u \in User : Present(SpansOf(u, ids), w) # {}}
    /\ \A a \in answer :
          LET seen == Present(SpansOf(a.user, ids), w)
          IN  /\ a.seconds = Seconds(seen)
              /\ {a.first, a.last - 1} \subseteq seen /\ seen \subseteq a.first..a.last - 1

\* A tenant's page shows exactly the people that were in its calls, when they
\* were, and no other tenant's (usage.py:26-30); what may not be read looks the
\* same whether there is anything or not.
UsageIsTheTenants ==
    \A caller \in User, tenant \in Tenant, m \in Month :
      LET answer == ScopeUsage(caller, tenant, m)
      IN  /\ answer.status = 200 <=> MayRead(caller, tenant) /\ IsPeriod(m)
          /\ answer.status # 200 => answer.users = {}
          /\ answer.status = 200 => IsUsageOf(answer.users, StaysOf(tenant), MonthBounds(m))

SecondsIn(answer, u) == Total([a \in {b \in answer : b.user = u} |-> a.seconds])
Tiles(table) ==
    \A t \in table[MonthsShown].start..now :
        \E i \in 1..MonthsShown : \A j \in 1..MonthsShown :
            (table[j].start <= t /\ t < table[j].end) <=> i = j

\* The months of a table tile the time they cover, so that their rows add up to
\* the whole, but for the fraction of a second that each row drops.
MonthsAddUp ==
    \A tenant \in Tenant :
      LET table == Table(tenant, MonthsShown)
          all == Rollup(tenant, <<table[MonthsShown].start, table[1].end>>)
      IN  /\ Tiles(table)
          /\ \A u \in User :
                LET parts == Total([i \in 1..MonthsShown |-> SecondsIn(table[i].users, u)])
                IN  parts <= SecondsIn(all, u) /\ SecondsIn(all, u) <= parts + MonthsShown - 1

\* "a historical month never grows because somebody's span is still open today"
\* (presence.py:686-688): only a stay that is recorded late, or a person's new
\* name, adds to a month that is over.
HistoryStands ==
    [][(Here' \subseteq Here /\ \A i \in Here' : rows'[i].user = rows[i].user) =>
         \A w \in {MonthBounds(m) : m \in {n \in Month : IsPeriod(n)}} : w[2] <= now =>
            \A u \in {rows[i].user : i \in Here} :
               SecondsAsked(ByUser(u), w)' <= SecondsAsked(ByUser(u), w)]_<<now, rows>>

\* "distinct counts and pair overlaps survive untouched" (presence.py:524-526):
\* an erasure restates no room, unless it follows one of the same person.
ErasureKeepsTheMeter ==
    [][\A u \in DOMAIN Pseudonym :
         SpansOf(Pseudonym[u], Here) = {} /\ PseudonymizeUser(u) =>
         \A w \in Window, r \in Room :
            /\ Aggregate(ByRoom(r), w)' = Aggregate(ByRoom(r), w)
            /\ Cardinality(RoomPairs(r, Span, w, now)') = Cardinality(RoomPairs(r, Span, w, now))]_rows

\* "must not silently move a recorded stay from one tenant's invoice to
\* another's" (presence.py:206-209), by a redelivery or a backfill.
StayKeepsItsTenant ==
    [][\A i \in Here \cap Here' :
          rows[i].tenant # Unscoped => rows'[i].tenant = rows[i].tenant]_rows
=============================================================================
