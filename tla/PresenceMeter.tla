---------------------------- MODULE PresenceMeter ----------------------------
(***************************************************************************)
(* The presence meter: presence.py's two webhooks, its sweep and the host's *)
(* explicit close, and retention.py's purge.  A span is one connection's    *)
(* stay in one room.  Each look at the table or at the media server is a    *)
(* step of its own: what a handler or the sweep listed may be stale when it *)
(* is written.  live and past are the truth the spans are about.            *)
(***************************************************************************)
EXTENDS Integers, FiniteSets

CONSTANTS
    Room, Conn,     \* room keys; connection ids, each of one person
    User, Owner,    \* people; whose connection it is, by the minted identity
    Worker,         \* webhook handlers and host requests that run at the same time
    Retention,      \* PRESENCE_SPAN_RETENTION_DAYS
    MaxTime,        \* bound: the clock stops here
    MaxStays        \* bound: connections made

ASSUME ConstantsAssumption ==
    /\ Owner \in [Conn -> User]
    /\ Retention \in Nat
    /\ {MaxTime, MaxStays} \subseteq Nat

VARIABLES
    now,      \* the clock, in the media server's whole seconds
    live,     \* who is connected: the roster list_participants reads
    past,     \* the stays that are over
    events,   \* webhooks the media server may deliver, any number of times
    spans,    \* the ParticipantSpan table
    job,      \* per worker, the closes it has yet to make
    sweep     \* where sweep_open_spans is in its pass

vars == <<now, live, past, events, spans, job, sweep>>

Never == -1
Time == Nat \cup {Never}
Reason == {"", "webhook", "sweeper", "explicit"}

Arrival == [room: Room, conn: Conn, joined: Nat]
Stay == [room: Room, conn: Conn, joined: Nat, left: Nat]
Event == [kind: {"joined", "left"}, room: Room, conn: Conn, joined: Time, ts: Nat]
Span == [room: Room, conn: Conn, joined: Nat, left: Time, reason: Reason, seen: Nat]

\* A worker's todo holds span instances as it read them; a record is a stay reported whole.
Job == [pc: {"idle", "close", "record"}, todo: SUBSET Span, at: Time, reason: Reason]
NoJob == [pc |-> "idle", todo |-> {}, at |-> Never, reason |-> ""]

\* here holds the room the pass is at; todo its open spans as they were listed.
Pass == [pc: {"idle", "room", "list", "mark"}, at: Time, rooms: SUBSET Room, here: SUBSET Room,
         alive: SUBSET Arrival, todo: SUBSET Span, known: SUBSET Conn]
NoPass == [pc |-> "idle", at |-> Never, rooms |-> {}, here |-> {},
           alive |-> {}, todo |-> {}, known |-> {}]

Init ==
    /\ now = 0
    /\ live = {} /\ past = {} /\ events = {} /\ spans = {}
    /\ job = [w \in Worker |-> NoJob]
    /\ sweep = NoPass

Tick ==
    /\ now < MaxTime
    /\ now' = now + 1
    /\ UNCHANGED <<live, past, events, spans, job, sweep>>

-----------------------------------------------------------------------------
(* The media server.  A webhook it may deliver is delivered late, again, or *)
(* never; a departure's may lack its joined_at.                             *)

Truth == <<now, live, past, events>>

Emit(e) ==
    \/ events' = events \cup {e}
    \/ /\ e.kind = "left"
       /\ events' = events \cup {[e EXCEPT !.joined = Never]}

Connect(r, c) ==
    /\ Cardinality(live) + Cardinality(past) < MaxStays
    /\ \A a \in live : a.room = r => a.conn # c
    /\ live' = live \cup {[room |-> r, conn |-> c, joined |-> now]}
    /\ Emit([kind |-> "joined", room |-> r, conn |-> c, joined |-> now, ts |-> now])
    /\ UNCHANGED <<now, past, spans, job, sweep>>

Disconnect(a) ==
    /\ a \in live
    /\ live' = live \ {a}
    /\ past' = past \cup {[room |-> a.room, conn |-> a.conn, joined |-> a.joined, left |-> now]}
    /\ Emit([kind |-> "left", room |-> a.room, conn |-> a.conn, joined |-> a.joined, ts |-> now])
    /\ UNCHANGED <<now, spans, job, sweep>>

-----------------------------------------------------------------------------
(* The two writes: open_span and close_span.                                *)

IsOpen(s) == s.left = Never
SameRow(s, t) == s.conn = t.conn /\ s.joined = t.joined
NewSpan(a) == [room |-> a.room, conn |-> a.conn, joined |-> a.joined,
               left |-> Never, reason |-> "", seen |-> a.joined]

\* Never before the arrival: a departure may be stamped, or delivered, out of order.
ClosedAt(s, at, reason) ==
    LET end == IF at < s.joined THEN s.joined ELSE at
    IN [s EXCEPT !.left = end, !.reason = reason, !.seen = end]

\* Mutant of OpenSpan: create, with no look at the key it has.
OpenSpanAgain(new) == spans' = spans \cup {new}

\* get_or_create on (connection_id, joined_at).
OpenSpan(new) ==
    spans' = IF \E t \in spans : SameRow(t, new) THEN spans ELSE spans \cup {new}

\* Mutant of CloseSpan: span.save() in place of the conditional UPDATE.
CloseSpanSaved(s, at, reason) ==
    spans' = {IF SameRow(t, s) THEN ClosedAt(t, at, reason) ELSE t : t \in spans}

\* The UPDATE is conditional on the row still being open.
CloseSpan(s, at, reason) ==
    spans' = {IF SameRow(t, s) /\ IsOpen(t) THEN ClosedAt(t, at, reason) ELSE t : t \in spans}

-----------------------------------------------------------------------------
(* Webhooks and the host.                                                   *)

Become(w, j) == job' = [job EXCEPT ![w] = j]

\* handle_participant_joined: one get_or_create.
Joined(e) ==
    /\ e \in events /\ e.kind = "joined"
    /\ OpenSpan(NewSpan(e))
    /\ UNCHANGED <<Truth, job, sweep>>

\* Mutant of OpenIn: the room is not asked for.
OpenAnywhere(r, c) == {s \in spans : s.conn = c /\ IsOpen(s)}

\* The spans of a connection still open in a room.
OpenIn(r, c) == {s \in spans : s.room = r /\ s.conn = c /\ IsOpen(s)}

\* Mutant of LeftLook: a stay is recorded from an event that has no joined_at.
LeftLookUnchecked(w, e) ==
    /\ e \in events /\ e.kind = "left"
    /\ job[w].pc = "idle" /\ OpenIn(e.room, e.conn) = {}
    /\ Become(w, [pc |-> "record", todo |-> {ClosedAt(NewSpan(e), e.ts, "webhook")},
                  at |-> e.ts, reason |-> "webhook"])
    /\ UNCHANGED <<Truth, spans, sweep>>

\* handle_participant_left reads the newest open span of the connection ...
LeftLook(w, e) ==
    /\ e \in events /\ e.kind = "left"
    /\ job[w].pc = "idle"
    /\ \/ \E s \in OpenIn(e.room, e.conn) :
            /\ \A t \in OpenIn(e.room, e.conn) : t.joined <= s.joined
            /\ Become(w, [pc |-> "close", todo |-> {s}, at |-> e.ts, reason |-> "webhook"])
       \/ /\ OpenIn(e.room, e.conn) = {} /\ e.joined # Never
          /\ Become(w, [pc |-> "record", todo |-> {ClosedAt(NewSpan(e), e.ts, "webhook")},
                        at |-> e.ts, reason |-> "webhook"])
    /\ UNCHANGED <<Truth, spans, sweep>>

\* ... and, when there was none, records the whole stay from the event alone.
LeftRecord(w) ==
    /\ job[w].pc = "record"
    /\ \E new \in job[w].todo : OpenSpan(new)
    /\ Become(w, NoJob)
    /\ UNCHANGED <<Truth, sweep>>

\* close_spans_explicitly lists a person's open spans in a room, or one connection's ...
LeaveExplicitly(w, r, cs) ==
    /\ job[w].pc = "idle"
    /\ LET todo == UNION {OpenIn(r, c) : c \in cs} IN
       /\ todo # {}
       /\ Become(w, [pc |-> "close", todo |-> todo, at |-> now, reason |-> "explicit"])
    /\ UNCHANGED <<Truth, spans, sweep>>

\* ... and each listed span is closed by an UPDATE of its own.
CloseListed(w, s) ==
    /\ job[w].pc = "close" /\ s \in job[w].todo
    /\ CloseSpan(s, job[w].at, job[w].reason)
    /\ Become(w, [job[w] EXCEPT !.todo = @ \ {s}])
    /\ UNCHANGED <<Truth, sweep>>

Answered(w) ==
    /\ job[w].pc = "close" /\ job[w].todo = {}
    /\ Become(w, NoJob)
    /\ UNCHANGED <<Truth, spans, sweep>>

Whose == {{c} : c \in Conn} \cup {{c \in Conn : Owner[c] = u} : u \in User}

Handle(w) ==
    \/ \E e \in events : LeftLook(w, e)
    \/ \E r \in Room, cs \in Whose : LeaveExplicitly(w, r, cs)
    \/ LeftRecord(w) \/ Answered(w)
    \/ \E s \in job[w].todo : CloseListed(w, s)

\* purge_participant_spans deletes by the arrival, open or not; a close listed
\* for a deleted row will match no row, not even one made again for that arrival.
Purge ==
    LET Kept(S) == {s \in S : s.joined >= now - Retention} IN
    /\ spans' = Kept(spans)
    /\ job' = [w \in Worker |->
                 IF job[w].pc = "close" THEN [job[w] EXCEPT !.todo = Kept(@)] ELSE job[w]]
    /\ sweep' = [sweep EXCEPT !.todo = Kept(@)]
    /\ UNCHANGED Truth

-----------------------------------------------------------------------------
(* sweep_open_spans.                                                        *)

Sweeping(pc) == sweep.pc = pc
Resume(p) == sweep' = p

\* The rooms that hold an open span; the pass's own instant.
SweepStart ==
    /\ Sweeping("idle")
    /\ Resume([NoPass EXCEPT !.pc = "room", !.at = now,
                             !.rooms = {s.room : s \in {t \in spans : IsOpen(t)}}])
    /\ UNCHANGED <<Truth, spans, job>>

\* Mutant of SweepRead: an empty roster is taken for no answer.
SweepReadNonEmpty(r) ==
    /\ Sweeping("room") /\ r \in sweep.rooms
    /\ Resume(IF \E a \in live : a.room = r
              THEN [sweep EXCEPT !.pc = "list", !.here = {r}, !.rooms = @ \ {r},
                                 !.alive = {a \in live : a.room = r}]
              ELSE [sweep EXCEPT !.rooms = @ \ {r}])
    /\ UNCHANGED <<Truth, spans, job>>

\* The roster of one room, before its open spans are listed.
SweepRead(r) ==
    /\ Sweeping("room") /\ r \in sweep.rooms
    /\ Resume([sweep EXCEPT !.pc = "list", !.here = {r}, !.rooms = @ \ {r},
                            !.alive = {a \in live : a.room = r}])
    /\ UNCHANGED <<Truth, spans, job>>

\* One unreachable room does not strand the others.
SweepUnreachable(r) ==
    /\ Sweeping("room") /\ r \in sweep.rooms
    /\ Resume([sweep EXCEPT !.rooms = @ \ {r}])
    /\ UNCHANGED <<Truth, spans, job>>

SweepList ==
    /\ Sweeping("list")
    /\ LET listed == {s \in spans : s.room \in sweep.here /\ IsOpen(s)}
       IN Resume([sweep EXCEPT !.pc = "mark", !.todo = listed,
                               !.known = {s.conn : s \in listed}])
    /\ UNCHANGED <<Truth, spans, job>>

\* Mutant of SweepMark: a zombie is closed at the pass's own instant.
SweepMarkNow(s) ==
    /\ Sweeping("mark") /\ s \in sweep.todo
    /\ \A a \in sweep.alive : a.conn # s.conn
    /\ CloseSpan(s, sweep.at, "sweeper")
    /\ Resume([sweep EXCEPT !.todo = @ \ {s}])
    /\ UNCHANGED <<Truth, job>>

\* A listed span is confirmed, or closed where it was last confirmed.
SweepMark(s) ==
    /\ Sweeping("mark") /\ s \in sweep.todo
    /\ \/ /\ \E a \in sweep.alive : a.conn = s.conn
          /\ spans' = {IF SameRow(t, s) /\ IsOpen(t) THEN [t EXCEPT !.seen = sweep.at] ELSE t
                         : t \in spans}
       \/ /\ \A a \in sweep.alive : a.conn # s.conn
          /\ CloseSpan(s, s.seen, "sweeper")
    /\ Resume([sweep EXCEPT !.todo = @ \ {s}])
    /\ UNCHANGED <<Truth, job>>

\* A connection on the roster that the list did not hold gets a span.
SweepRepair(a) ==
    /\ Sweeping("mark") /\ sweep.todo = {}
    /\ a \in sweep.alive /\ a.conn \notin sweep.known
    /\ OpenSpan(NewSpan(a))
    /\ Resume([sweep EXCEPT !.alive = @ \ {a}])
    /\ UNCHANGED <<Truth, job>>

RoomDone ==
    /\ Sweeping("mark") /\ sweep.todo = {}
    /\ \A a \in sweep.alive : a.conn \in sweep.known
    /\ Resume([sweep EXCEPT !.pc = "room", !.here = {}, !.alive = {}, !.known = {}])
    /\ UNCHANGED <<Truth, spans, job>>

SweepEnd ==
    /\ Sweeping("room") /\ sweep.rooms = {}
    /\ Resume(NoPass)
    /\ UNCHANGED <<Truth, spans, job>>

SweepStep ==
    \/ SweepStart \/ SweepList \/ RoomDone \/ SweepEnd
    \/ \E r \in sweep.rooms : SweepRead(r) \/ SweepUnreachable(r)
    \/ \E s \in sweep.todo : SweepMark(s)
    \/ \E a \in sweep.alive : SweepRepair(a)

\* The beat's process dies; the next pass starts over.
SweepDies ==
    /\ sweep.pc # "idle"
    /\ Resume(NoPass)
    /\ UNCHANGED <<Truth, spans, job>>

\* A handler dies with what it had read.
HandlerDies(w) ==
    /\ job[w].pc # "idle"
    /\ Become(w, NoJob)
    /\ UNCHANGED <<Truth, spans, sweep>>

-----------------------------------------------------------------------------
Media ==
    \/ \E r \in Room, c \in Conn : Connect(r, c)
    \/ \E a \in live : Disconnect(a)

Webhook ==
    \/ \E e \in events : Joined(e)
    \/ \E w \in Worker : Handle(w)

\* The beat's process lives.
LiveNext ==
    \/ Tick \/ Media \/ Webhook \/ SweepStep \/ Purge
    \/ \E w \in Worker : HandlerDies(w)

Next == LiveNext \/ SweepDies

Spec == Init /\ [][Next]_vars

\* The beat is scheduled, its passes end, and each room is reachable now and then.
SweepFairness ==
    /\ WF_vars(SweepStep)
    /\ \A r \in Room : SF_vars(SweepRead(r))

-----------------------------------------------------------------------------
(* Properties.                                                              *)

\* Every span, event, job and pass has its shape.
TypeOK ==
    /\ now \in 0..MaxTime
    /\ live \subseteq Arrival /\ past \subseteq Stay
    /\ events \subseteq Event /\ spans \subseteq Span
    /\ job \in [Worker -> Job]
    /\ sweep \in Pass

\* c was connected to r at t or later, and is, or has been, since.
PresentFrom(r, c, t) ==
    \/ \E a \in live : a.room = r /\ a.conn = c /\ t <= now
    \/ \E p \in past : p.room = r /\ p.conn = c /\ t <= p.left

\* A stay is not billed past the presence it is about: an open span's last
\* confirmed moment, and the end the media server or the sweeper gave a closed
\* one, are no later than a moment its connection was in that room, through
\* late, repeated and overtaken webhooks and a roster already stale.
NeverBeyondPresence ==
    \A s \in spans :
        \/ s.reason = "explicit"
        \/ PresentFrom(s.room, s.conn, s.seen)

\* Append-only: whoever closes a row second, from an instance read while it
\* was open, changes nothing, and no row forgets its arrival.
ClosedSpanStays ==
    [][\A s \in spans : ~IsOpen(s) =>
          \/ s \in spans'
          \/ \A t \in spans' : ~SameRow(s, t)]_vars

\* Stays end after they begin, and not in the future.
StaysTrue ==
    /\ \A a \in live : a.joined <= now
    /\ \A p \in past : p.joined <= p.left /\ p.left <= now

\* A webhook, however late, tells of moments at which its connection was there.
EventsTrue ==
    \A e \in events :
        /\ PresentFrom(e.room, e.conn, e.ts)
        /\ PresentFrom(e.room, e.conn, e.joined)
        /\ e.kind = "joined" => e.joined # Never

ClosedExplicitly(s) == s.reason = "explicit" /\ ~IsOpen(s)

\* So does a row, of its arrival and its last confirmed moment; an arrival has one row.
RowsTrue ==
    /\ \A s, t \in spans : SameRow(s, t) => s = t
    /\ \A s \in spans :
          /\ PresentFrom(s.room, s.conn, s.joined)
          /\ ClosedExplicitly(s) \/ PresentFrom(s.room, s.conn, s.seen)

\* An instance a process holds is of a row that is there, in the room it was read in.
Stored(s) == \E t \in spans : SameRow(t, s) /\ t.room = s.room

\* What a handler means to write holds of the row it will meet.
JobTrue(j) ==
    \A s \in j.todo :
        /\ j.pc = "close" =>
              /\ Stored(s)
              /\ j.reason = "explicit" \/ PresentFrom(s.room, s.conn, j.at)
        /\ j.pc = "record" =>
              /\ PresentFrom(s.room, s.conn, s.joined)
              /\ PresentFrom(s.room, s.conn, s.seen)

\* So does what a pass of the sweep carries, all of it of one room.
PassTrue(p) ==
    /\ p.at <= now
    /\ p.pc # "idle" => p.at # Never
    /\ p.pc = "room" => p.todo = {}
    /\ \A q, r \in p.here : q = r
    /\ \A a \in p.alive :
          /\ a.room \in p.here
          /\ PresentFrom(a.room, a.conn, p.at)
          /\ PresentFrom(a.room, a.conn, a.joined)
    /\ \A s \in p.todo :
          /\ s.room \in p.here
          /\ Stored(s)
          /\ PresentFrom(s.room, s.conn, s.seen)

\* What NeverBeyondPresence rests on: the truth a webhook, a handler and a
\* pass of the sweep carry is still true when they write it, however late.
IInv ==
    /\ StaysTrue /\ EventsTrue /\ RowsTrue
    /\ \A w \in Worker : JobTrue(job[w])
    /\ PassTrue(sweep)

HasZombie(r, c) == \E s \in OpenIn(r, c) : \A a \in live : a.room = r => a.conn # c

\* A departure whose webhook is lost still ends its span: a span open for a
\* connection that is gone is closed, or deleted, or its connection is back.
ZombiesEnd == \A r \in Room, c \in Conn : HasZombie(r, c) ~> ~HasZombie(r, c)
=============================================================================
