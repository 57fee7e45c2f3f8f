-------------------------- MODULE PresenceProofs --------------------------
(***************************************************************************)
(* Proofs about PresenceMeter: a closed span never changes, and no span is *)
(* billed past the presence it is about. TypeOK and IInv are inductive     *)
(* together: the rows keep their type because events, jobs and the pass    *)
(* carry moments, and the moments are there because of their types. Then   *)
(* that two passes of the sweep beside each other (OverlappingSweeps) keep *)
(* the invariant: a pass only ever writes a row it listed, by a            *)
(* conditional UPDATE, or makes one, so what the other carries stays true, *)
(* and RowsKept is all either pass needs of the other.                     *)
(***************************************************************************)
EXTENDS OverlappingSweeps, TLAPS

\* What was so of a connection at a moment stays so.
Remembered ==
    \A r \in Room, c \in Conn, t \in Int : PresentFrom(r, c, t) => PresentFrom(r, c, t)'

\* Every row is there after the step, in its room.
RowsKept == \A s \in spans : \E t \in spans' : SameRow(t, s) /\ t.room = s.room

\* A step of the meter does not touch the truth.
LEMMA TruthSteps ==
    ASSUME [Next]_vars
    PROVE  \/ Tick
           \/ \E r \in Room, c \in Conn : Connect(r, c)
           \/ \E a \in live : Disconnect(a)
           \/ UNCHANGED Truth
<1>1. CASE Webhook
  BY <1>1 DEF Webhook, Joined, Handle, LeftLook, LeftRecord, LeaveExplicitly, CloseListed,
              Answered, Truth
<1>2. CASE SweepStep
  BY <1>2 DEF SweepStep, SweepStart, SweepRead, SweepUnreachable, SweepList, SweepMark,
              SweepRepair, RoomDone, SweepEnd, Truth
<1>3. CASE Purge \/ SweepDies \/ \E w \in Worker : HandlerDies(w)
  BY <1>3 DEF Purge, SweepDies, HandlerDies, Truth
<1>4. CASE UNCHANGED vars
  BY <1>4 DEF vars, Truth
<1> QED BY <1>1, <1>2, <1>3, <1>4 DEF Next, LiveNext, Media

\* The stays keep their shape and stay in order.
LEMMA StaysStep ==
    ASSUME TypeOK, StaysTrue, [Next]_vars
    PROVE  /\ now' \in 0..MaxTime /\ live' \subseteq Arrival /\ past' \subseteq Stay
           /\ StaysTrue'
<1> USE ConstantsAssumption DEF TypeOK, StaysTrue, Arrival, Stay
<1>1. CASE Tick
  BY <1>1 DEF Tick
<1>2. ASSUME NEW r \in Room, NEW c \in Conn, Connect(r, c)
      PROVE  /\ now' \in 0..MaxTime /\ live' \subseteq Arrival /\ past' \subseteq Stay
             /\ StaysTrue'
  BY <1>2 DEF Connect
<1>3. ASSUME NEW a \in live, Disconnect(a)
      PROVE  /\ now' \in 0..MaxTime /\ live' \subseteq Arrival /\ past' \subseteq Stay
             /\ StaysTrue'
  BY <1>3 DEF Disconnect
<1>4. CASE UNCHANGED Truth
  BY <1>4 DEF Truth
<1> QED BY <1>1, <1>2, <1>3, <1>4, TruthSteps

\* Time passing, arrivals and departures do not undo a presence.
LEMMA Presence ==
    ASSUME TypeOK, StaysTrue, [Next]_vars
    PROVE  Remembered
<1> USE DEF TypeOK, StaysTrue, Arrival, Stay
<1>1. CASE Tick
  BY <1>1, ConstantsAssumption DEF Tick, PresentFrom, Remembered
<1>2. ASSUME NEW r \in Room, NEW c \in Conn, Connect(r, c)
      PROVE  Remembered
  BY <1>2 DEF Connect, PresentFrom, Remembered
<1>3. ASSUME NEW b \in live, Disconnect(b)
      PROVE  Remembered
  <2> SUFFICES ASSUME NEW r \in Room, NEW c \in Conn, NEW t \in Int, PresentFrom(r, c, t)
               PROVE  PresentFrom(r, c, t)'
    BY DEF Remembered
  <2>1. CASE \E p \in past : p.room = r /\ p.conn = c /\ t <= p.left
    BY <2>1, <1>3 DEF Disconnect, PresentFrom
  <2>2. CASE \E a \in live : a.room = r /\ a.conn = c /\ t <= now
    <3>1. PICK a \in live : a.room = r /\ a.conn = c /\ t <= now
      BY <2>2
    <3>2. CASE a = b
      <4> DEFINE p == [room |-> a.room, conn |-> a.conn, joined |-> a.joined, left |-> now]
      <4>1. p \in past'
        BY <3>2, <1>3 DEF Disconnect
      <4>2. p.room = r /\ p.conn = c /\ t <= p.left
        BY <3>1
      <4> HIDE DEF p
      <4> QED BY <4>1, <4>2 DEF PresentFrom
    <3>3. CASE a # b
      BY <3>1, <3>3, <1>3 DEF Disconnect, PresentFrom
    <3> QED BY <3>2, <3>3
  <2> QED BY <2>1, <2>2 DEF PresentFrom
<1>4. CASE UNCHANGED Truth
  BY <1>4 DEF Truth, PresentFrom, Remembered
<1> QED BY <1>1, <1>2, <1>3, <1>4, TruthSteps

-----------------------------------------------------------------------------
(* The writes.                                                              *)

\* get_or_create keeps the rows true, whatever process brings the arrival.
LEMMA OpenKeeps ==
    ASSUME TypeOK, RowsTrue, Remembered, NEW new \in Span, OpenSpan(new),
           PresentFrom(new.room, new.conn, new.joined),
           PresentFrom(new.room, new.conn, new.seen)
    PROVE  spans' \subseteq Span /\ RowsTrue' /\ RowsKept
<1>1. spans' \subseteq Span
  BY DEF OpenSpan, TypeOK
<1>2. \A s, t \in spans' : SameRow(s, t) => s = t
  BY DEF OpenSpan, RowsTrue, SameRow
<1>3. ASSUME NEW s \in spans'
      PROVE  /\ PresentFrom(s.room, s.conn, s.joined)'
             /\ ClosedExplicitly(s) \/ PresentFrom(s.room, s.conn, s.seen)'
  <2>1. s \in Span /\ s.room \in Room /\ s.conn \in Conn /\ s.joined \in Int /\ s.seen \in Int
    BY <1>1, <1>3 DEF Span
  <2>2. /\ PresentFrom(s.room, s.conn, s.joined)
        /\ ClosedExplicitly(s) \/ PresentFrom(s.room, s.conn, s.seen)
    BY <1>3 DEF OpenSpan, RowsTrue
  <2> QED BY <2>1, <2>2 DEF Remembered
<1>4. RowsKept
  BY DEF OpenSpan, RowsKept, SameRow
<1> QED BY <1>1, <1>2, <1>3, <1>4 DEF RowsTrue

\* A step that maps the rows one by one, keeping arrival and room, keeps the
\* rows true when each image is.
LEMMA MapKeeps ==
    ASSUME TypeOK, RowsTrue, Remembered, NEW f \in [spans -> Span],
           spans' = {f[t] : t \in spans},
           \A t \in spans : SameRow(f[t], t) /\ f[t].room = t.room,
           \A t \in spans : \/ ClosedExplicitly(f[t])
                            \/ PresentFrom(t.room, t.conn, f[t].seen)
    PROVE  spans' \subseteq Span /\ RowsTrue' /\ RowsKept
<1>1. spans' \subseteq Span
  OBVIOUS
<1>2. \A s, t \in spans' : SameRow(s, t) => s = t
  BY DEF RowsTrue, SameRow
<1>3. ASSUME NEW s \in spans'
      PROVE  /\ PresentFrom(s.room, s.conn, s.joined)'
             /\ ClosedExplicitly(s) \/ PresentFrom(s.room, s.conn, s.seen)'
  <2>1. PICK t \in spans : s = f[t]
    BY <1>3
  <2>2. s \in Span /\ s.room \in Room /\ s.conn \in Conn /\ s.joined \in Int /\ s.seen \in Int
    BY <1>1, <1>3 DEF Span
  <2>3. s.room = t.room /\ s.conn = t.conn /\ s.joined = t.joined
    BY <2>1 DEF SameRow
  <2>4. /\ PresentFrom(s.room, s.conn, s.joined)
        /\ ClosedExplicitly(s) \/ PresentFrom(s.room, s.conn, s.seen)
    BY <2>1, <2>3 DEF RowsTrue
  <2> QED BY <2>2, <2>4 DEF Remembered
<1>4. RowsKept
  BY DEF RowsKept
<1> QED BY <1>1, <1>2, <1>3, <1>4 DEF RowsTrue

\* A closed row has its shape, and its end is not before its arrival.
LEMMA ClosedShape ==
    ASSUME NEW s \in Span, NEW at \in Int, NEW reason \in Reason
    PROVE  /\ ClosedAt(s, at, reason) \in Span
           /\ SameRow(ClosedAt(s, at, reason), s)
           /\ ClosedAt(s, at, reason).room = s.room
           /\ ClosedAt(s, at, reason).reason = reason /\ ~IsOpen(ClosedAt(s, at, reason))
           /\ ClosedAt(s, at, reason).seen = IF at < s.joined THEN s.joined ELSE at
<1> DEFINE end == IF at < s.joined THEN s.joined ELSE at
<1>1. end \in Nat
  BY DEF Span
<1>2. ClosedAt(s, at, reason) = [s EXCEPT !.left = end, !.reason = reason, !.seen = end]
  BY DEF ClosedAt
<1> HIDE DEF end
<1>a. ClosedAt(s, at, reason).left = end /\ ClosedAt(s, at, reason).reason = reason
  BY <1>2 DEF Span
<1>b. ~IsOpen(ClosedAt(s, at, reason))
  BY <1>1, <1>a DEF IsOpen, Never
<1>3. /\ ClosedAt(s, at, reason) \in Span
      /\ SameRow(ClosedAt(s, at, reason), s)
      /\ ClosedAt(s, at, reason).room = s.room
      /\ ClosedAt(s, at, reason).seen = end
  BY <1>1, <1>2 DEF Span, Time, SameRow
<1> QED BY <1>3, <1>a, <1>b DEF end

\* The conditional UPDATE keeps the rows true when its instance is of a row that
\* is there and its connection was in the room at the moment it writes.
LEMMA CloseKeeps ==
    ASSUME TypeOK, RowsTrue, Remembered,
           NEW s \in Span, NEW at \in Int, NEW reason \in Reason,
           CloseSpan(s, at, reason), Stored(s),
           reason = "explicit" \/ PresentFrom(s.room, s.conn, at)
    PROVE  spans' \subseteq Span /\ RowsTrue' /\ RowsKept
<1> DEFINE f == [t \in spans |-> IF SameRow(t, s) /\ IsOpen(t) THEN ClosedAt(t, at, reason)
                                                            ELSE t]
<1>1. ASSUME NEW t \in spans
      PROVE  /\ f[t] \in Span /\ SameRow(f[t], t) /\ f[t].room = t.room
             /\ ClosedExplicitly(f[t]) \/ PresentFrom(t.room, t.conn, f[t].seen)
  <2>1. t \in Span
    BY DEF TypeOK
  <2>2. CASE SameRow(t, s) /\ IsOpen(t)
    <3>1. t.room = s.room /\ t.conn = s.conn
      BY <2>2 DEF Stored, RowsTrue, SameRow
    <3>2. f[t] = ClosedAt(t, at, reason)
      BY <2>2
    <3> HIDE DEF f
    <3>3. PresentFrom(t.room, t.conn, t.joined)
      BY DEF RowsTrue
    <3>4. ClosedExplicitly(f[t]) \/ PresentFrom(t.room, t.conn, f[t].seen)
      BY <2>1, <3>1, <3>2, <3>3, ClosedShape DEF ClosedExplicitly
    <3> QED BY <2>1, <3>2, <3>4, ClosedShape
  <2>3. CASE ~(SameRow(t, s) /\ IsOpen(t))
    <3>1. f[t] = t
      BY <2>3
    <3> HIDE DEF f
    <3> QED BY <2>1, <3>1 DEF RowsTrue, SameRow
  <2> QED BY <2>2, <2>3
<1>2. spans' = {f[t] : t \in spans}
  BY DEF CloseSpan
<1>3. f \in [spans -> Span]
  BY <1>1
<1> HIDE DEF f
<1> QED BY <1>1, <1>2, <1>3, MapKeeps

\* A confirmation keeps the rows true.
LEMMA ConfirmKeeps ==
    ASSUME TypeOK, RowsTrue, Remembered, NEW s \in Span, NEW at \in Nat, Stored(s),
           PresentFrom(s.room, s.conn, at),
           spans' = {IF SameRow(t, s) /\ IsOpen(t) THEN [t EXCEPT !.seen = at] ELSE t
                      : t \in spans}
    PROVE  spans' \subseteq Span /\ RowsTrue' /\ RowsKept
<1> DEFINE f == [t \in spans |-> IF SameRow(t, s) /\ IsOpen(t) THEN [t EXCEPT !.seen = at] ELSE t]
<1>1. ASSUME NEW t \in spans
      PROVE  /\ f[t] \in Span /\ SameRow(f[t], t) /\ f[t].room = t.room
             /\ ClosedExplicitly(f[t]) \/ PresentFrom(t.room, t.conn, f[t].seen)
  <2>1. t \in Span
    BY DEF TypeOK
  <2>2. CASE SameRow(t, s) /\ IsOpen(t)
    <3>1. t.room = s.room /\ t.conn = s.conn
      BY <2>2 DEF Stored, RowsTrue, SameRow
    <3>2. f[t] = [t EXCEPT !.seen = at]
      BY <2>2
    <3> HIDE DEF f
    <3> QED BY <2>1, <3>1, <3>2 DEF Span, SameRow
  <2>3. CASE ~(SameRow(t, s) /\ IsOpen(t))
    <3>1. f[t] = t
      BY <2>3
    <3> HIDE DEF f
    <3> QED BY <2>1, <3>1 DEF RowsTrue, SameRow
  <2> QED BY <2>2, <2>3
<1>2. spans' = {f[t] : t \in spans}
  OBVIOUS
<1>3. f \in [spans -> Span]
  BY <1>1
<1> HIDE DEF f
<1> QED BY <1>1, <1>2, <1>3, MapKeeps

\* Rows left alone, or deleted, stay true.
LEMMA FewerKeeps ==
    ASSUME TypeOK, RowsTrue, Remembered, spans' \subseteq spans
    PROVE  spans' \subseteq Span /\ RowsTrue'
<1>1. ASSUME NEW s \in spans'
      PROVE  /\ PresentFrom(s.room, s.conn, s.joined)'
             /\ ClosedExplicitly(s) \/ PresentFrom(s.room, s.conn, s.seen)'
  <2>1. s \in spans /\ s.room \in Room /\ s.conn \in Conn /\ s.joined \in Int /\ s.seen \in Int
    BY <1>1 DEF Span, TypeOK
  <2> QED BY <2>1 DEF RowsTrue, Remembered
<1> QED BY <1>1 DEF RowsTrue, TypeOK
-----------------------------------------------------------------------------
(* What is carried past a step.                                             *)

LEMMA EventsCarry ==
    ASSUME TypeOK, EventsTrue, Remembered, UNCHANGED events
    PROVE  events' \subseteq Event /\ EventsTrue'
<1>1. ASSUME NEW e \in events
      PROVE  /\ PresentFrom(e.room, e.conn, e.ts)'
             /\ PresentFrom(e.room, e.conn, e.joined)'
             /\ e.kind = "joined" => e.joined # Never
  <2>1. e.room \in Room /\ e.conn \in Conn /\ e.ts \in Int /\ e.joined \in Int
    BY DEF TypeOK, Event, Time, Never
  <2> QED BY <2>1 DEF EventsTrue, Remembered
<1> QED BY <1>1 DEF EventsTrue, TypeOK

\* A row once there is there after a step that keeps the rows.
LEMMA StoredCarries ==
    ASSUME RowsKept, NEW s, Stored(s)
    PROVE  Stored(s)'
<1>1. PICK t \in spans : SameRow(t, s) /\ t.room = s.room
  BY DEF Stored
<1>2. PICK u \in spans' : SameRow(u, t) /\ u.room = t.room
  BY DEF RowsKept
<1> QED BY <1>1, <1>2 DEF Stored, SameRow

LEMMA JobCarries ==
    ASSUME Remembered, RowsKept, NEW j \in Job, JobTrue(j)
    PROVE  JobTrue(j)'
<1> SUFFICES ASSUME NEW s \in j.todo
             PROVE  /\ j.pc = "close" =>
                          /\ Stored(s)'
                          /\ j.reason = "explicit" \/ PresentFrom(s.room, s.conn, j.at)'
                    /\ j.pc = "record" =>
                          /\ PresentFrom(s.room, s.conn, s.joined)'
                          /\ PresentFrom(s.room, s.conn, s.seen)'
  BY DEF JobTrue
<1>1. /\ s.room \in Room /\ s.conn \in Conn /\ s.joined \in Int /\ s.seen \in Int
      /\ j.at \in Int
  BY DEF Job, Span, Time, Never
<1>2. j.pc = "close" => Stored(s)'
  BY StoredCarries DEF JobTrue
<1> QED BY <1>1, <1>2 DEF JobTrue, Remembered

LEMMA PassCarries ==
    ASSUME Remembered, RowsKept, NEW p \in Pass, PassTrue(p), now \in Int, now' \in Int, now <= now'
    PROVE  PassTrue(p)'
<1>1. p.at \in Int
  BY DEF Pass, Time, Never
<1>2. ASSUME NEW a \in p.alive
      PROVE  PresentFrom(a.room, a.conn, p.at)' /\ PresentFrom(a.room, a.conn, a.joined)'
  <2>1. a.room \in Room /\ a.conn \in Conn /\ a.joined \in Int
    BY DEF Pass, Arrival
  <2> QED BY <1>1, <2>1 DEF PassTrue, Remembered
<1>3. ASSUME NEW s \in p.todo
      PROVE  Stored(s)' /\ PresentFrom(s.room, s.conn, s.seen)'
  <2>1. s.room \in Room /\ s.conn \in Conn /\ s.seen \in Int
    BY DEF Pass, Span
  <2> QED BY <2>1, StoredCarries DEF PassTrue, Remembered
<1>4. p.at <= now'
  BY <1>1 DEF PassTrue
<1> QED BY <1>2, <1>3, <1>4 DEF PassTrue

\* The workers' jobs after one of them turned to the job j.
LEMMA BecomeKeeps ==
    ASSUME TypeOK, \A v \in Worker : JobTrue(job[v]), Remembered, RowsKept,
           NEW w \in Worker, NEW j \in Job, JobTrue(j), Become(w, j)
    PROVE  job' \in [Worker -> Job] /\ \A v \in Worker : JobTrue(job[v])'
<1>1. job' \in [Worker -> Job]
  BY DEF Become, TypeOK
<1>2. ASSUME NEW v \in Worker
      PROVE  JobTrue(job[v])'
  <2>1. PICK k \in Job : k = job'[v] /\ JobTrue(k)
    BY DEF Become, TypeOK
  <2>2. JobTrue(k)'
    BY <2>1, JobCarries
  <2> QED BY <2>1, <2>2 DEF JobTrue
<1> QED BY <1>1, <1>2

LEMMA JobsCarry ==
    ASSUME TypeOK, \A v \in Worker : JobTrue(job[v]), Remembered, RowsKept, UNCHANGED job
    PROVE  job' \in [Worker -> Job] /\ \A v \in Worker : JobTrue(job[v])'
<1>1. ASSUME NEW v \in Worker
      PROVE  JobTrue(job[v])'
  <2>1. PICK k \in Job : k = job'[v] /\ JobTrue(k)
    BY DEF TypeOK
  <2>2. JobTrue(k)'
    BY <2>1, JobCarries
  <2> QED BY <2>1, <2>2 DEF JobTrue
<1> QED BY <1>1 DEF TypeOK

\* The sweep after it turned to the pass p, or stayed as it was.
LEMMA ResumeKeeps ==
    ASSUME Remembered, RowsKept, NEW p \in Pass, PassTrue(p), sweep' = p,
           now \in Int, now' \in Int, now <= now'
    PROVE  sweep' \in Pass /\ PassTrue(sweep)'
<1>1. PassTrue(p)'
  BY PassCarries
<1> QED BY <1>1 DEF PassTrue
-----------------------------------------------------------------------------
(* The steps.                                                               *)

Inv == TypeOK /\ IInv

\* What every step has: the stays in order, and every presence remembered.
LEMMA Frame ==
    ASSUME Inv, [Next]_vars
    PROVE  /\ now' \in 0..MaxTime /\ live' \subseteq Arrival /\ past' \subseteq Stay
           /\ StaysTrue' /\ Remembered
           /\ now \in Int /\ now' \in Int /\ now <= now'
<1>1. /\ now' \in 0..MaxTime /\ live' \subseteq Arrival /\ past' \subseteq Stay
      /\ StaysTrue' /\ Remembered
  BY StaysStep, Presence DEF Inv, IInv
<1>2. now \in Nat
  BY ConstantsAssumption DEF Inv, TypeOK
<1>3. now' = now \/ now' = now + 1
  BY TruthSteps DEF Tick, Connect, Disconnect, Truth
<1> QED BY <1>1, <1>2, <1>3

\* The rows left alone.
LEMMA RowsCarry ==
    ASSUME Inv, Remembered, UNCHANGED spans
    PROVE  spans' \subseteq Span /\ RowsTrue' /\ RowsKept
<1>1. spans' \subseteq Span /\ RowsTrue'
  BY FewerKeeps DEF Inv, IInv
<1> QED BY <1>1 DEF RowsKept, SameRow

\* The sweep left alone.
LEMMA PassCarry ==
    ASSUME Inv, [Next]_vars, RowsKept, UNCHANGED sweep
    PROVE  sweep' \in Pass /\ PassTrue(sweep)'
<1>1. PICK p \in Pass : p = sweep /\ PassTrue(p)
  BY DEF Inv, IInv, TypeOK
<1> QED BY <1>1, Frame, ResumeKeeps

\* The parts of the invariant after a step.
LEMMA Together ==
    ASSUME Inv, [Next]_vars,
           events' \subseteq Event, EventsTrue',
           spans' \subseteq Span, RowsTrue',
           job' \in [Worker -> Job], \A v \in Worker : JobTrue(job[v])',
           sweep' \in Pass, PassTrue(sweep)'
    PROVE  Inv'
BY Frame DEF Inv, IInv, TypeOK

\* A step of the meter that keeps rows, jobs and pass true keeps the invariant.
LEMMA MeterStep ==
    ASSUME Inv, [Next]_vars, UNCHANGED Truth,
           spans' \subseteq Span, RowsTrue',
           job' \in [Worker -> Job], \A v \in Worker : JobTrue(job[v])',
           sweep' \in Pass, PassTrue(sweep)'
    PROVE  Inv'
<1>1. events' \subseteq Event /\ EventsTrue'
  BY Frame, EventsCarry DEF Inv, IInv, Truth
<1> QED BY <1>1, Together

\* A step of the media server: its webhook tells the truth.
LEMMA MediaStep ==
    ASSUME Inv, [Next]_vars, Media \/ Tick
    PROVE  Inv'
<1>0. Remembered
  BY Frame
<1>1. UNCHANGED <<spans, job, sweep>>
  BY DEF Media, Connect, Disconnect, Tick
<1>2. spans' \subseteq Span /\ RowsTrue' /\ RowsKept
  BY <1>0, <1>1, RowsCarry
<1>3. job' \in [Worker -> Job] /\ \A v \in Worker : JobTrue(job[v])'
  BY <1>0, <1>1, <1>2, JobsCarry DEF Inv, IInv
<1>4. sweep' \in Pass /\ PassTrue(sweep)'
  BY <1>1, <1>2, PassCarry
<1>5. events' \subseteq Event /\ EventsTrue'
  <2>1. CASE Tick
    BY <1>0, <2>1, EventsCarry DEF Tick, Inv, IInv
  <2>2. ASSUME NEW e \in Event, Emit(e),
               PresentFrom(e.room, e.conn, e.ts)', PresentFrom(e.room, e.conn, e.joined)',
               e.joined # Never, e.ts \in Nat
        PROVE  events' \subseteq Event /\ EventsTrue'
    <3> DEFINE d == [e EXCEPT !.joined = Never]
    <3>1. events' = events \cup {e} \/ (e.kind = "left" /\ events' = events \cup {d})
      BY <2>2 DEF Emit
    <3>2. /\ d \in Event /\ d.room = e.room /\ d.conn = e.conn /\ d.ts = e.ts
          /\ d.kind = e.kind /\ d.joined = Never
      BY DEF Event, Time
    <3>3. PresentFrom(e.room, e.conn, Never)'
      <4>1. now' \in Nat /\ past' \subseteq Stay
        BY Frame, ConstantsAssumption
      <4> QED BY <2>2, <4>1 DEF PresentFrom, Never, Stay
    <3>4. ASSUME NEW f \in events'
          PROVE  /\ f \in Event
                 /\ PresentFrom(f.room, f.conn, f.ts)'
                 /\ PresentFrom(f.room, f.conn, f.joined)'
                 /\ f.kind = "joined" => f.joined # Never
      <4>1. CASE f \in events
        <5>1. f \in Event /\ f.room \in Room /\ f.conn \in Conn /\ f.ts \in Int /\ f.joined \in Int
          BY <4>1 DEF Inv, TypeOK, Event, Time, Never
        <5> QED BY <4>1, <5>1, <1>0 DEF Inv, IInv, EventsTrue, Remembered
      <4>2. CASE f = e
        BY <4>2, <2>2
      <4>3. CASE f = d /\ e.kind = "left"
        <5> HIDE DEF d
        <5> QED BY <4>3, <2>2, <3>2, <3>3
      <4> QED BY <3>1, <3>4, <4>1, <4>2, <4>3
    <3> QED BY <3>4 DEF EventsTrue
  <2>3. ASSUME NEW r \in Room, NEW c \in Conn, Connect(r, c)
        PROVE  events' \subseteq Event /\ EventsTrue'
    <3>1. PICK n \in Nat : n = now
      BY DEF Inv, TypeOK
    <3> DEFINE e == [kind |-> "joined", room |-> r, conn |-> c, joined |-> n, ts |-> n]
               a == [room |-> r, conn |-> c, joined |-> n]
    <3>2. Emit(e) /\ a \in live' /\ now' = n
      BY <2>3, <3>1 DEF Connect
    <3>3. e \in Event /\ e.joined # Never /\ e.ts \in Nat
      BY DEF Event, Time, Never
    <3>4. PresentFrom(r, c, n)'
      <4>1. a.room = r /\ a.conn = c
        OBVIOUS
      <4> HIDE DEF a
      <4> QED BY <3>2, <4>1 DEF PresentFrom
    <3> QED BY <3>2, <3>3, <3>4, <2>2
  <2>4. ASSUME NEW a \in live, Disconnect(a)
        PROVE  events' \subseteq Event /\ EventsTrue'
    <3>1. PICK n \in Nat : n = now
      BY DEF Inv, TypeOK
    <3> DEFINE e == [kind |-> "left", room |-> a.room, conn |-> a.conn, joined |-> a.joined, ts |-> n]
               p == [room |-> a.room, conn |-> a.conn, joined |-> a.joined, left |-> n]
    <3>2. a \in Arrival /\ a.joined <= n
      BY <3>1 DEF Inv, IInv, TypeOK, StaysTrue
    <3>3. Emit(e) /\ p \in past'
      BY <2>4, <3>1 DEF Disconnect
    <3>4. e \in Event /\ e.joined # Never /\ e.ts \in Nat
      BY <3>2 DEF Arrival, Event, Time, Never
    <3>5. PresentFrom(a.room, a.conn, n)' /\ PresentFrom(a.room, a.conn, a.joined)'
      <4>1. p.room = a.room /\ p.conn = a.conn /\ n <= p.left /\ a.joined <= p.left
        BY <3>2
      <4> HIDE DEF p
      <4> QED BY <3>3, <4>1 DEF PresentFrom
    <3> QED BY <3>3, <3>4, <3>5, <2>2
  <2> QED BY <2>1, <2>3, <2>4 DEF Media
<1> QED BY <1>2, <1>3, <1>4, <1>5, Together
\* A step that only turns worker w to the job j.
LEMMA JobStep ==
    ASSUME Inv, [Next]_vars, UNCHANGED <<Truth, spans, sweep>>,
           NEW w \in Worker, NEW j \in Job, JobTrue(j), Become(w, j)
    PROVE  Inv'
<1>1. spans' \subseteq Span /\ RowsTrue' /\ RowsKept
  BY Frame, RowsCarry
<1>2. job' \in [Worker -> Job] /\ \A v \in Worker : JobTrue(job[v])'
  BY <1>1, Frame, BecomeKeeps DEF Inv, IInv
<1>3. sweep' \in Pass /\ PassTrue(sweep)'
  BY <1>1, PassCarry
<1> QED BY <1>1, <1>2, <1>3, MeterStep

\* A step that only turns the sweep to the pass p.
LEMMA SweepOnlyStep ==
    ASSUME Inv, [Next]_vars, UNCHANGED <<Truth, spans, job>>,
           NEW p \in Pass, PassTrue(p), sweep' = p
    PROVE  Inv'
<1>1. spans' \subseteq Span /\ RowsTrue' /\ RowsKept
  BY Frame, RowsCarry
<1>2. job' \in [Worker -> Job] /\ \A v \in Worker : JobTrue(job[v])'
  BY <1>1, Frame, JobsCarry DEF Inv, IInv
<1>3. sweep' \in Pass /\ PassTrue(sweep)'
  BY <1>1, Frame, ResumeKeeps
<1> QED BY <1>1, <1>2, <1>3, MeterStep

\* An event that has its joined_at makes a row of its own.
LEMMA NewSpanShape ==
    ASSUME Inv, NEW e \in events, e.joined # Never
    PROVE  /\ NewSpan(e) \in Span /\ NewSpan(e).room = e.room /\ NewSpan(e).conn = e.conn
           /\ NewSpan(e).joined = e.joined /\ NewSpan(e).seen = e.joined
           /\ PresentFrom(e.room, e.conn, e.joined) /\ PresentFrom(e.room, e.conn, e.ts)
           /\ e.ts \in Nat
BY DEF NewSpan, Span, Time, Reason, Never, Event, Inv, IInv, TypeOK, EventsTrue

LEMMA JoinedStep ==
    ASSUME Inv, [Next]_vars, NEW e \in events, Joined(e)
    PROVE  Inv'
<1>1. e.joined # Never
  BY DEF Joined, Inv, IInv, EventsTrue
<1>2. PICK new \in Span : new = NewSpan(e)
  BY <1>1, NewSpanShape
<1>3. OpenSpan(new) /\ UNCHANGED <<Truth, job, sweep>>
  BY <1>2 DEF Joined
<1>4. PresentFrom(new.room, new.conn, new.joined) /\ PresentFrom(new.room, new.conn, new.seen)
  BY <1>1, <1>2, NewSpanShape
<1>5. spans' \subseteq Span /\ RowsTrue' /\ RowsKept
  BY <1>3, <1>4, Frame, OpenKeeps DEF Inv, IInv
<1>6. job' \in [Worker -> Job] /\ \A v \in Worker : JobTrue(job[v])'
  BY <1>3, <1>5, Frame, JobsCarry DEF Inv, IInv
<1>7. sweep' \in Pass /\ PassTrue(sweep)'
  BY <1>3, <1>5, PassCarry
<1> QED BY <1>3, <1>5, <1>6, <1>7, MeterStep

LEMMA LeftLookStep ==
    ASSUME Inv, [Next]_vars, NEW w \in Worker, NEW e \in events, LeftLook(w, e)
    PROVE  Inv'
<1>0. UNCHANGED <<Truth, spans, sweep>>
  BY DEF LeftLook
<1>1. e \in Event /\ PresentFrom(e.room, e.conn, e.ts)
  BY DEF Inv, IInv, TypeOK, EventsTrue
<1>2. ASSUME NEW s \in OpenIn(e.room, e.conn),
             Become(w, [pc |-> "close", todo |-> {s}, at |-> e.ts, reason |-> "webhook"])
      PROVE  Inv'
  <2>1. PICK j : j = [pc |-> "close", todo |-> {s}, at |-> e.ts, reason |-> "webhook"]
    OBVIOUS
  <2>2. s \in spans /\ s \in Span /\ s.room = e.room /\ s.conn = e.conn
    BY DEF OpenIn, Inv, TypeOK
  <2>3. j \in Job
    BY <1>1, <2>1, <2>2 DEF Job, Event, Time, Reason
  <2>4. JobTrue(j)
    BY <1>1, <2>1, <2>2 DEF JobTrue, Stored, SameRow
  <2> QED BY <1>0, <1>2, <2>1, <2>3, <2>4, JobStep
<1>3. ASSUME e.joined # Never,
             Become(w, [pc |-> "record", todo |-> {ClosedAt(NewSpan(e), e.ts, "webhook")},
                        at |-> e.ts, reason |-> "webhook"])
      PROVE  Inv'
  <2>1. PICK new : new = NewSpan(e)
    OBVIOUS
  <2>2. PICK s : s = ClosedAt(new, e.ts, "webhook")
    OBVIOUS
  <2>3. PICK j : j = [pc |-> "record", todo |-> {s}, at |-> e.ts, reason |-> "webhook"]
    OBVIOUS
  <2>4. /\ new \in Span /\ new.room = e.room /\ new.conn = e.conn /\ new.joined = e.joined
        /\ PresentFrom(e.room, e.conn, e.joined) /\ e.ts \in Nat
    BY <1>3, <2>1, NewSpanShape
  <2>5. /\ s \in Span /\ s.room = e.room /\ s.conn = e.conn /\ s.joined = e.joined
        /\ s.seen \in {e.joined, e.ts}
    <3>0. "webhook" \in Reason /\ e.ts \in Int
      BY <2>4 DEF Reason
    <3>1. /\ s \in Span /\ SameRow(s, new) /\ s.room = new.room
          /\ s.seen = IF e.ts < new.joined THEN new.joined ELSE e.ts
      BY <3>0, <2>2, <2>4, ClosedShape
    <3> QED BY <2>4, <3>1 DEF SameRow
  <2>6. j \in Job
    BY <2>3, <2>4, <2>5 DEF Job, Time, Reason
  <2>7. JobTrue(j)
    <3> SUFFICES PresentFrom(s.room, s.conn, s.joined) /\ PresentFrom(s.room, s.conn, s.seen)
      BY <2>3 DEF JobTrue
    <3> QED BY <1>1, <2>4, <2>5
  <2>8. Become(w, j)
    BY <1>3, <2>1, <2>2, <2>3
  <2> QED BY <1>0, <2>6, <2>7, <2>8, JobStep
<1> QED BY <1>2, <1>3 DEF LeftLook

LEMMA LeftRecordStep ==
    ASSUME Inv, [Next]_vars, NEW w \in Worker, LeftRecord(w)
    PROVE  Inv'
<1>1. PICK new \in job[w].todo : OpenSpan(new)
  BY DEF LeftRecord
<1>2. job[w].pc = "record" /\ Become(w, NoJob) /\ UNCHANGED <<Truth, sweep>>
  BY DEF LeftRecord
<1>3. /\ new \in Span
      /\ PresentFrom(new.room, new.conn, new.joined) /\ PresentFrom(new.room, new.conn, new.seen)
  BY <1>1, <1>2 DEF Inv, IInv, JobTrue, TypeOK, Job
<1>4. spans' \subseteq Span /\ RowsTrue' /\ RowsKept
  BY <1>1, <1>3, Frame, OpenKeeps DEF Inv, IInv
<1>5. NoJob \in Job /\ JobTrue(NoJob)
  BY DEF NoJob, Job, Time, Reason, JobTrue
<1>6. job' \in [Worker -> Job] /\ \A v \in Worker : JobTrue(job[v])'
  BY <1>2, <1>4, <1>5, Frame, BecomeKeeps DEF Inv, IInv
<1>7. sweep' \in Pass /\ PassTrue(sweep)'
  BY <1>2, <1>4, PassCarry
<1> QED BY <1>2, <1>4, <1>6, <1>7, MeterStep

LEMMA LeaveStep ==
    ASSUME Inv, [Next]_vars, NEW w \in Worker, NEW r, NEW cs, LeaveExplicitly(w, r, cs)
    PROVE  Inv'
<1>1. PICK todo : /\ todo = UNION {OpenIn(r, c) : c \in cs}
                  /\ Become(w, [pc |-> "close", todo |-> todo, at |-> now, reason |-> "explicit"])
  BY DEF LeaveExplicitly
<1>2. PICK j : j = [pc |-> "close", todo |-> todo, at |-> now, reason |-> "explicit"]
  OBVIOUS
<1>3. todo \subseteq spans
  BY <1>1 DEF OpenIn
<1>4. j \in Job
  <2>1. now \in Nat /\ todo \subseteq Span
    BY <1>3, ConstantsAssumption DEF Inv, TypeOK
  <2> QED BY <1>2, <2>1 DEF Job, Time, Reason
<1>5. JobTrue(j)
  BY <1>2, <1>3 DEF JobTrue, Stored, SameRow
<1> QED BY <1>1, <1>2, <1>4, <1>5, JobStep DEF LeaveExplicitly

LEMMA CloseListedStep ==
    ASSUME Inv, [Next]_vars, NEW w \in Worker, NEW s \in job[w].todo, CloseListed(w, s)
    PROVE  Inv'
<1>1. PICK j \in Job : j = job[w] /\ JobTrue(j)
  BY DEF Inv, IInv, TypeOK
<1>2. /\ j.pc = "close" /\ s \in j.todo /\ CloseSpan(s, j.at, j.reason)
      /\ Become(w, [j EXCEPT !.todo = @ \ {s}]) /\ UNCHANGED <<Truth, sweep>>
  BY <1>1 DEF CloseListed
<1>3. /\ s \in Span /\ j.at \in Int /\ j.reason \in Reason /\ Stored(s)
      /\ j.reason = "explicit" \/ PresentFrom(s.room, s.conn, j.at)
  BY <1>1, <1>2 DEF Job, Time, Never, JobTrue
<1>4. spans' \subseteq Span /\ RowsTrue' /\ RowsKept
  BY <1>2, <1>3, Frame, CloseKeeps DEF Inv, IInv
<1>5. PICK k : k = [j EXCEPT !.todo = @ \ {s}]
  OBVIOUS
<1>6. k \in Job /\ JobTrue(k)
  BY <1>1, <1>5 DEF Job, JobTrue
<1>7. job' \in [Worker -> Job] /\ \A v \in Worker : JobTrue(job[v])'
  BY <1>2, <1>4, <1>5, <1>6, Frame, BecomeKeeps DEF Inv, IInv
<1>8. sweep' \in Pass /\ PassTrue(sweep)'
  BY <1>2, <1>4, PassCarry
<1> QED BY <1>2, <1>4, <1>7, <1>8, MeterStep

LEMMA NoJobStep ==
    ASSUME Inv, [Next]_vars, NEW w \in Worker, Answered(w) \/ HandlerDies(w)
    PROVE  Inv'
<1>1. NoJob \in Job /\ JobTrue(NoJob)
  BY DEF NoJob, Job, Time, Reason, JobTrue
<1> QED BY <1>1, JobStep DEF Answered, HandlerDies
-----------------------------------------------------------------------------
(* A pass from q to p, whichever process runs it.                           *)

LEMMA PassStarts ==
    ASSUME Inv, NEW p, p = [NoPass EXCEPT !.pc = "room", !.at = now,
                                          !.rooms = {s.room : s \in {t \in spans : IsOpen(t)}}]
    PROVE  p \in Pass /\ PassTrue(p)
<1>1. now \in Nat /\ spans \subseteq Span
  BY ConstantsAssumption DEF Inv, TypeOK
<1>2. {s.room : s \in {t \in spans : IsOpen(t)}} \subseteq Room
  BY <1>1 DEF Span
<1>3. /\ p.pc = "room" /\ p.at = now /\ p.here = {} /\ p.alive = {} /\ p.todo = {}
      /\ p \in Pass
  BY <1>1, <1>2 DEF NoPass, Pass, Time
<1> QED BY <1>1, <1>3 DEF PassTrue, Never

LEMMA PassReads ==
    ASSUME Inv, NEW q \in Pass, PassTrue(q), q.pc = "room", NEW r \in q.rooms,
           NEW p, p = [q EXCEPT !.pc = "list", !.here = {r}, !.rooms = @ \ {r},
                                !.alive = {a \in live : a.room = r}]
    PROVE  p \in Pass /\ PassTrue(p)
<1>1. PICK alive : alive = {a \in live : a.room = r}
  OBVIOUS
<1>2. now \in Nat /\ live \subseteq Arrival
  BY ConstantsAssumption DEF Inv, TypeOK
<1>3. r \in Room /\ q.at \in Nat /\ q.at <= now
  BY DEF Pass, PassTrue, Time, Never
<1>4. p \in Pass
  BY <1>1, <1>2, <1>3 DEF Pass
<1>5. ASSUME NEW a \in alive
      PROVE  /\ a.room = r /\ PresentFrom(a.room, a.conn, q.at)
             /\ PresentFrom(a.room, a.conn, a.joined)
  BY <1>1, <1>3 DEF PresentFrom, Inv, IInv, StaysTrue
<1>6. p.at = q.at /\ p.here = {r} /\ p.alive = alive /\ p.todo = q.todo /\ q.todo = {}
  BY <1>1 DEF Pass, PassTrue
<1> QED BY <1>3, <1>4, <1>5, <1>6 DEF PassTrue, Never

LEMMA PassLists ==
    ASSUME Inv, NEW q \in Pass, PassTrue(q), q.pc = "list",
           NEW listed, listed = {s \in spans : s.room \in q.here /\ IsOpen(s)},
           NEW p, p = [q EXCEPT !.pc = "mark", !.todo = listed, !.known = {s.conn : s \in listed}]
    PROVE  p \in Pass /\ PassTrue(p)
<1>1. spans \subseteq Span
  BY DEF Inv, TypeOK
<1>2. listed \subseteq Span /\ {s.conn : s \in listed} \subseteq Conn
  BY <1>1 DEF Span
<1>3. p \in Pass
  BY <1>2 DEF Pass
<1>4. ASSUME NEW s \in listed
      PROVE  s.room \in q.here /\ Stored(s) /\ PresentFrom(s.room, s.conn, s.seen)
  <2>1. s \in spans /\ s.room \in q.here /\ s.left = Never
    BY DEF IsOpen
  <2> QED BY <2>1 DEF Stored, SameRow, Inv, IInv, RowsTrue, ClosedExplicitly, IsOpen
<1>5. /\ p.at = q.at /\ p.here = q.here /\ p.alive = q.alive /\ p.todo = listed /\ q.at # Never
      /\ p.pc = "mark"
  BY DEF Pass, PassTrue
<1> QED BY <1>3, <1>4, <1>5 DEF PassTrue

LEMMA PassEnds ==
    ASSUME Inv
    PROVE  NoPass \in Pass /\ PassTrue(NoPass)
<1>1. now \in Nat
  BY ConstantsAssumption DEF Inv, TypeOK
<1> QED BY <1>1 DEF NoPass, Pass, Time, Never, PassTrue

LEMMA PassShrinks ==
    ASSUME NEW q \in Pass, PassTrue(q), NEW p,
           \/ \E r : p = [q EXCEPT !.rooms = @ \ {r}]
           \/ \E s : q.pc = "mark" /\ p = [q EXCEPT !.todo = @ \ {s}]
           \/ \E a : p = [q EXCEPT !.alive = @ \ {a}]
           \/ /\ q.pc = "mark" /\ q.todo = {}
              /\ p = [q EXCEPT !.pc = "room", !.here = {}, !.alive = {}, !.known = {}]
    PROVE  p \in Pass /\ PassTrue(p)
<1>1. CASE \E r : p = [q EXCEPT !.rooms = @ \ {r}]
  BY <1>1 DEF Pass, PassTrue
<1>2. CASE \E s : q.pc = "mark" /\ p = [q EXCEPT !.todo = @ \ {s}]
  BY <1>2 DEF Pass, PassTrue
<1>3. CASE \E a : p = [q EXCEPT !.alive = @ \ {a}]
  BY <1>3 DEF Pass, PassTrue
<1>4. CASE /\ q.pc = "mark" /\ q.todo = {}
           /\ p = [q EXCEPT !.pc = "room", !.here = {}, !.alive = {}, !.known = {}]
  BY <1>4 DEF Pass, PassTrue
<1> QED BY <1>1, <1>2, <1>3, <1>4

\* A listed span is confirmed or closed from what the pass carries.
LEMMA MarkWrites ==
    ASSUME Inv, Remembered, NEW q \in Pass, PassTrue(q), q.pc = "mark", NEW s \in q.todo,
           \/ /\ \E a \in q.alive : a.conn = s.conn
              /\ spans' = {IF SameRow(t, s) /\ IsOpen(t) THEN [t EXCEPT !.seen = q.at] ELSE t
                             : t \in spans}
           \/ CloseSpan(s, s.seen, "sweeper")
    PROVE  spans' \subseteq Span /\ RowsTrue' /\ RowsKept
<1>1. /\ s \in Span /\ s.room \in q.here /\ Stored(s) /\ PresentFrom(s.room, s.conn, s.seen)
      /\ q.at \in Nat /\ s.seen \in Int
  BY DEF Pass, PassTrue, Time, Never, Span
<1>2. CASE CloseSpan(s, s.seen, "sweeper")
  <2>1. "sweeper" \in Reason
    BY DEF Reason
  <2> QED BY <1>1, <1>2, <2>1, CloseKeeps DEF Inv, IInv
<1>3. ASSUME NEW a \in q.alive, a.conn = s.conn,
             spans' = {IF SameRow(t, s) /\ IsOpen(t) THEN [t EXCEPT !.seen = q.at] ELSE t
                        : t \in spans}
      PROVE  spans' \subseteq Span /\ RowsTrue' /\ RowsKept
  <2>1. PresentFrom(s.room, s.conn, q.at)
    BY <1>1, <1>3 DEF PassTrue
  <2> QED BY <1>1, <1>3, <2>1, ConfirmKeeps DEF Inv, IInv
<1> QED BY <1>2, <1>3

\* A connection seen on the roster gets a row of its arrival.
LEMMA RepairWrites ==
    ASSUME Inv, Remembered, NEW q \in Pass, PassTrue(q), NEW a \in q.alive, OpenSpan(NewSpan(a))
    PROVE  spans' \subseteq Span /\ RowsTrue' /\ RowsKept
<1>1. PICK new : new = NewSpan(a)
  OBVIOUS
<1>2. a \in Arrival /\ PresentFrom(a.room, a.conn, a.joined)
  BY DEF Pass, PassTrue
<1>3. /\ new \in Span /\ new.room = a.room /\ new.conn = a.conn
      /\ new.joined = a.joined /\ new.seen = a.joined
  BY <1>1, <1>2 DEF NewSpan, Arrival, Span, Time, Reason
<1> QED BY <1>1, <1>2, <1>3, OpenKeeps DEF Inv, IInv

\* A pass that starts, reads a roster, lists, ends or dies writes no row.
LEMMA SweepReadsStep ==
    ASSUME Inv, [Next]_vars,
           \/ SweepStart \/ SweepList \/ RoomDone \/ SweepEnd \/ SweepDies
           \/ \E r \in sweep.rooms : SweepRead(r) \/ SweepUnreachable(r)
    PROVE  Inv'
<1>0. PICK q \in Pass : q = sweep /\ PassTrue(q)
  BY DEF Inv, IInv, TypeOK
<1>1. CASE SweepStart
  <2>1. PICK p : p = [NoPass EXCEPT !.pc = "room", !.at = now,
                                    !.rooms = {s.room : s \in {t \in spans : IsOpen(t)}}]
    OBVIOUS
  <2>2. p \in Pass /\ PassTrue(p)
    BY <2>1, PassStarts
  <2> QED BY <1>1, <2>1, <2>2, SweepOnlyStep DEF SweepStart, Resume
<1>2. CASE SweepList
  <2>1. PICK listed : listed = {s \in spans : s.room \in q.here /\ IsOpen(s)}
    OBVIOUS
  <2>2. PICK p : p = [q EXCEPT !.pc = "mark", !.todo = listed, !.known = {s.conn : s \in listed}]
    OBVIOUS
  <2>3. p \in Pass /\ PassTrue(p)
    BY <1>0, <1>2, <2>1, <2>2, PassLists DEF SweepList, Sweeping
  <2> QED BY <1>0, <1>2, <2>1, <2>2, <2>3, SweepOnlyStep DEF SweepList, Resume
<1>3. CASE RoomDone
  <2>1. PICK p : p = [q EXCEPT !.pc = "room", !.here = {}, !.alive = {}, !.known = {}]
    OBVIOUS
  <2>2. p \in Pass /\ PassTrue(p)
    BY <1>0, <1>3, <2>1, PassShrinks DEF RoomDone, Sweeping
  <2> QED BY <1>0, <1>3, <2>1, <2>2, SweepOnlyStep DEF RoomDone, Resume
<1>4. CASE SweepEnd \/ SweepDies
  BY <1>4, PassEnds, SweepOnlyStep DEF SweepEnd, SweepDies, Resume
<1>5. ASSUME NEW r \in sweep.rooms, SweepRead(r)
      PROVE  Inv'
  <2>1. PICK p : p = [q EXCEPT !.pc = "list", !.here = {r}, !.rooms = @ \ {r},
                               !.alive = {a \in live : a.room = r}]
    OBVIOUS
  <2>2. p \in Pass /\ PassTrue(p)
    BY <1>0, <1>5, <2>1, PassReads DEF SweepRead, Sweeping
  <2> QED BY <1>0, <1>5, <2>1, <2>2, SweepOnlyStep DEF SweepRead, Resume
<1>6. ASSUME NEW r \in sweep.rooms, SweepUnreachable(r)
      PROVE  Inv'
  <2>1. PICK p : p = [q EXCEPT !.rooms = @ \ {r}]
    OBVIOUS
  <2>2. p \in Pass /\ PassTrue(p)
    BY <1>0, <2>1, PassShrinks
  <2> QED BY <1>0, <1>6, <2>1, <2>2, SweepOnlyStep DEF SweepUnreachable, Resume
<1> QED BY <1>1, <1>2, <1>3, <1>4, <1>5, <1>6

LEMMA SweepMarkStep ==
    ASSUME Inv, [Next]_vars, NEW s \in sweep.todo, SweepMark(s)
    PROVE  Inv'
<1>0. PICK q \in Pass : q = sweep /\ PassTrue(q)
  BY DEF Inv, IInv, TypeOK
<1>1. PICK p : p = [q EXCEPT !.todo = @ \ {s}]
  OBVIOUS
<1>2. sweep' = p /\ UNCHANGED <<Truth, job>> /\ q.pc = "mark"
  BY <1>0, <1>1 DEF SweepMark, Resume, Sweeping
<1>3. p \in Pass /\ PassTrue(p)
  BY <1>0, <1>1, <1>2, PassShrinks
<1>4. spans' \subseteq Span /\ RowsTrue' /\ RowsKept
  BY <1>0, <1>2, Frame, MarkWrites DEF SweepMark
<1>5. job' \in [Worker -> Job] /\ \A v \in Worker : JobTrue(job[v])'
  BY <1>2, <1>4, Frame, JobsCarry DEF Inv, IInv
<1>6. sweep' \in Pass /\ PassTrue(sweep)'
  BY <1>2, <1>3, <1>4, Frame, ResumeKeeps
<1> QED BY <1>2, <1>4, <1>5, <1>6, MeterStep

LEMMA SweepRepairStep ==
    ASSUME Inv, [Next]_vars, NEW a \in sweep.alive, SweepRepair(a)
    PROVE  Inv'
<1>0. PICK q \in Pass : q = sweep /\ PassTrue(q)
  BY DEF Inv, IInv, TypeOK
<1>1. PICK p : p = [q EXCEPT !.alive = @ \ {a}]
  OBVIOUS
<1>2. OpenSpan(NewSpan(a)) /\ sweep' = p /\ UNCHANGED <<Truth, job>>
  BY <1>0, <1>1 DEF SweepRepair, Resume
<1>3. p \in Pass /\ PassTrue(p)
  BY <1>0, <1>1, PassShrinks
<1>4. spans' \subseteq Span /\ RowsTrue' /\ RowsKept
  BY <1>0, <1>2, Frame, RepairWrites
<1>5. job' \in [Worker -> Job] /\ \A v \in Worker : JobTrue(job[v])'
  BY <1>2, <1>4, Frame, JobsCarry DEF Inv, IInv
<1>6. sweep' \in Pass /\ PassTrue(sweep)'
  BY <1>2, <1>3, <1>4, Frame, ResumeKeeps
<1> QED BY <1>2, <1>4, <1>5, <1>6, MeterStep

\* A row goes with every instance of it: what a pass still holds is stored.
LEMMA PassPurged ==
    ASSUME Inv, Remembered, NEW q \in Pass, PassTrue(q), UNCHANGED now,
           spans' = {s \in spans : s.joined >= now - Retention},
           NEW p, p = [q EXCEPT !.todo = {s \in @ : s.joined >= now - Retention}]
    PROVE  p \in Pass /\ PassTrue(p)'
<1>1. /\ p \in Pass /\ p.pc = q.pc /\ p.at = q.at /\ p.here = q.here /\ p.alive = q.alive
      /\ p.todo = {s \in q.todo : s.joined >= now - Retention}
  BY DEF Pass
<1>2. ASSUME NEW s \in p.todo
      PROVE  s.room \in p.here /\ Stored(s)' /\ PresentFrom(s.room, s.conn, s.seen)'
  <2>1. s \in q.todo /\ s.joined >= now - Retention
    BY <1>1
  <2>2. s.room \in q.here /\ Stored(s) /\ PresentFrom(s.room, s.conn, s.seen)
    BY <2>1 DEF PassTrue
  <2>3. s.room \in Room /\ s.conn \in Conn /\ s.seen \in Int
    BY <2>1 DEF Pass, Span
  <2>4. Stored(s)'
    BY <2>1, <2>2 DEF Stored, SameRow
  <2> QED BY <1>1, <2>2, <2>3, <2>4 DEF Remembered
<1>3. ASSUME NEW a \in p.alive
      PROVE  /\ a.room \in p.here
             /\ PresentFrom(a.room, a.conn, p.at)'
             /\ PresentFrom(a.room, a.conn, a.joined)'
  <2>1. a.room \in Room /\ a.conn \in Conn /\ a.joined \in Int /\ p.at \in Int
    BY <1>1 DEF Pass, Arrival, Time, Never
  <2> QED BY <1>1, <2>1 DEF PassTrue, Remembered
<1>4. p.at <= now' /\ (p.pc # "idle" => p.at # Never) /\ \A x, y \in p.here : x = y
  BY <1>1 DEF PassTrue
<1>5. p.pc = "room" => p.todo = {}
  BY <1>1 DEF PassTrue
<1> QED BY <1>1, <1>2, <1>3, <1>4, <1>5 DEF PassTrue

\* What a purge leaves is still stored: a row goes with every instance of it.
LEMMA PurgeStep ==
    ASSUME Inv, [Next]_vars, Purge
    PROVE  Inv'
<1> DEFINE Kept(S) == {s \in S : s.joined >= now - Retention}
<1>0. UNCHANGED Truth /\ spans' = Kept(spans)
  BY DEF Purge
<1>1. spans' \subseteq Span /\ RowsTrue'
  BY <1>0, Frame, FewerKeeps DEF Inv, IInv
<1>2. ASSUME NEW s, Stored(s), s.joined >= now - Retention
      PROVE  Stored(s)'
  BY <1>0, <1>2 DEF Stored, SameRow
<1>3. ASSUME NEW v \in Worker
      PROVE  job'[v] \in Job /\ JobTrue(job[v])'
  <2>1. PICK j \in Job : j = job[v] /\ JobTrue(j)
    BY DEF Inv, IInv, TypeOK
  <2>2. PICK k : k = IF j.pc = "close" THEN [j EXCEPT !.todo = Kept(@)] ELSE j
    OBVIOUS
  <2>3. job'[v] = k
    BY <2>1, <2>2 DEF Purge
  <2>4. k \in Job /\ k.pc = j.pc /\ k.at = j.at /\ k.reason = j.reason /\ k.todo \subseteq j.todo
    BY <2>2 DEF Job
  <2>5. ASSUME NEW s \in k.todo
        PROVE  /\ s.room \in Room /\ s.conn \in Conn /\ s.joined \in Int /\ s.seen \in Int
               /\ k.at \in Int
               /\ k.pc = "close" => s.joined >= now - Retention
    BY <2>2, <2>4 DEF Job, Span, Time, Never
  <2>6. ASSUME NEW s \in k.todo
        PROVE  /\ k.pc = "close" =>
                     /\ Stored(s)'
                     /\ k.reason = "explicit" \/ PresentFrom(s.room, s.conn, k.at)'
               /\ k.pc = "record" =>
                     /\ PresentFrom(s.room, s.conn, s.joined)'
                     /\ PresentFrom(s.room, s.conn, s.seen)'
    <3>1. CASE k.pc = "close"
      <4>1. Stored(s) /\ (k.reason = "explicit" \/ PresentFrom(s.room, s.conn, k.at))
        BY <2>1, <2>4, <3>1 DEF JobTrue
      <4>2. Stored(s)'
        BY <1>2, <2>5, <3>1, <4>1
      <4> QED BY <2>5, <3>1, <4>1, <4>2, Frame DEF Remembered
    <3>2. CASE k.pc = "record"
      BY <2>1, <2>4, <2>5, <3>2, Frame DEF JobTrue, Remembered
    <3> QED BY <3>1, <3>2
  <2>7. JobTrue(k)'
    BY <2>6 DEF JobTrue
  <2> QED BY <2>3, <2>4, <2>7 DEF JobTrue
<1>4. job' \in [Worker -> Job]
  <2>1. job' = [w \in Worker |-> job'[w]]
    BY DEF Purge
  <2> QED BY <1>3, <2>1
<1>5. sweep' \in Pass /\ PassTrue(sweep)'
  <2>1. PICK q \in Pass : q = sweep /\ PassTrue(q)
    BY DEF Inv, IInv, TypeOK
  <2>2. PICK p : p = [q EXCEPT !.todo = {s \in @ : s.joined >= now - Retention}]
    OBVIOUS
  <2>3. sweep' = p
    BY <2>1, <2>2 DEF Purge
  <2>4. p \in Pass /\ PassTrue(p)'
    BY <1>0, <2>1, <2>2, Frame, PassPurged DEF Truth
  <2> QED BY <2>3, <2>4 DEF PassTrue
<1> QED BY <1>0, <1>1, <1>3, <1>4, <1>5, MeterStep

\* Stuttering.
LEMMA StutterStep ==
    ASSUME Inv, UNCHANGED vars
    PROVE  Inv'
BY DEF vars, Inv, TypeOK, IInv, StaysTrue, EventsTrue, RowsTrue, JobTrue, PassTrue, Stored,
       PresentFrom, ClosedExplicitly, IsOpen, SameRow

-----------------------------------------------------------------------------
(* The theorems.                                                            *)

LEMMA InitInv == Init => Inv
<1> SUFFICES ASSUME Init PROVE Inv
  OBVIOUS
<1>1. TypeOK
  <2>1. now \in 0..MaxTime
    BY ConstantsAssumption DEF Init
  <2>2. NoJob \in Job
    BY DEF NoJob, Job, Time, Reason
  <2>3. NoPass \in Pass
    BY DEF NoPass, Pass, Time
  <2> QED BY <2>1, <2>2, <2>3 DEF Init, TypeOK
<1>2. StaysTrue /\ EventsTrue /\ RowsTrue
  BY DEF Init, StaysTrue, EventsTrue, RowsTrue
<1>3. \A w \in Worker : JobTrue(job[w])
  BY DEF Init, JobTrue, NoJob
<1>4. PassTrue(sweep)
  BY DEF Init, PassTrue, NoPass, Never
<1> QED BY <1>1, <1>2, <1>3, <1>4 DEF Inv, IInv

LEMMA NextInv == Inv /\ [Next]_vars => Inv'
<1> SUFFICES ASSUME Inv, [Next]_vars PROVE Inv'
  OBVIOUS
<1>1. CASE Webhook
  BY <1>1, JoinedStep, LeftLookStep, LeaveStep, LeftRecordStep, NoJobStep, CloseListedStep
     DEF Webhook, Handle
<1>2. CASE SweepStep
  BY <1>2, SweepReadsStep, SweepMarkStep, SweepRepairStep DEF SweepStep
<1>3. CASE Tick \/ Media
  BY <1>3, MediaStep
<1>4. CASE Purge
  BY <1>4, PurgeStep
<1>5. CASE SweepDies \/ \E w \in Worker : HandlerDies(w)
  BY <1>5, SweepReadsStep, NoJobStep
<1>6. CASE UNCHANGED vars
  BY <1>6, StutterStep
<1> QED BY <1>1, <1>2, <1>3, <1>4, <1>5, <1>6 DEF Next, LiveNext

\* Rows, jobs, webhooks and passes keep their shape, and what they carry is true
\* of the presence they are about, in every behaviour of the meter.
THEOREM MeterInductive == Spec => [](TypeOK /\ IInv)
<1> QED BY InitInv, NextInv, PTL DEF Spec, Inv

\* Every span, event, job and pass keeps its shape: a row has an arrival, whatever a
\* departure's webhook lacks.
THEOREM MeterTypes == Spec => []TypeOK
<1> QED BY MeterInductive, PTL

\* No stay is billed past the presence it is about (presence.py, close_span and
\* sweep_open_spans), for any rooms, connections, handlers and retention.
THEOREM NoOvercount == Spec => []NeverBeyondPresence
<1>1. Inv => NeverBeyondPresence
  BY DEF Inv, IInv, RowsTrue, ClosedExplicitly, NeverBeyondPresence
<1> QED BY <1>1, InitInv, NextInv, PTL DEF Spec

\* A closed span never changes (models.ParticipantSpan, "append-only by contract"),
\* whatever stale instances handlers and the sweep write from.
THEOREM AppendOnly == Spec => ClosedSpanStays
<1>1. ASSUME [Next]_vars, NEW s \in spans, ~IsOpen(s)
      PROVE  s \in spans' \/ \A t \in spans' : ~SameRow(s, t)
  <2>1. CASE UNCHANGED spans
    BY <2>1
  <2>2. CASE \E new : OpenSpan(new)
    BY <2>2 DEF OpenSpan
  <2>3. CASE \E x, at, reason : CloseSpan(x, at, reason)
    BY <1>1, <2>3 DEF CloseSpan
  <2>4. CASE \E x : spans' = {IF SameRow(t, x) /\ IsOpen(t) THEN [t EXCEPT !.seen = sweep.at] ELSE t
                             : t \in spans}
    BY <1>1, <2>4
  <2>5. CASE Purge
    <3>1. CASE s.joined >= now - Retention
      BY <2>5, <3>1 DEF Purge
    <3>2. CASE ~(s.joined >= now - Retention)
      BY <2>5, <3>2 DEF Purge, SameRow
    <3> QED BY <3>1, <3>2
  <2>6. CASE Webhook
    BY <2>6, <2>1, <2>2, <2>3 DEF Webhook, Joined, Handle, LeftLook, LeaveExplicitly, LeftRecord,
                                  Answered, CloseListed
  <2>7. CASE SweepStep
    BY <2>7, <2>1, <2>2, <2>3, <2>4 DEF SweepStep, SweepStart, SweepRead, SweepUnreachable,
          SweepList, SweepMark, SweepRepair, RoomDone, SweepEnd
  <2>8. CASE Tick \/ Media \/ SweepDies \/ (\E w \in Worker : HandlerDies(w)) \/ UNCHANGED vars
    BY <2>8, <2>1 DEF Tick, Media, Connect, Disconnect, SweepDies, HandlerDies, vars
  <2> QED BY <1>1, <2>5, <2>6, <2>7, <2>8 DEF Next, LiveNext
<1>2. [Next]_vars => [\A s \in spans : ~IsOpen(s) =>
                         \/ s \in spans'
                         \/ \A t \in spans' : ~SameRow(s, t)]_vars
  BY <1>1
<1> QED BY <1>2, PTL DEF Spec, ClosedSpanStays

-----------------------------------------------------------------------------
(* Two passes beside each other.                                            *)

BothInv == Inv /\ later \in Pass /\ PassTrue(later)

\* What a pass at q turns to, and what it writes.
PassMoves(q, p) ==
    \/ /\ UNCHANGED spans
       /\ \/ p = [NoPass EXCEPT !.pc = "room", !.at = now,
                                !.rooms = {s.room : s \in {t \in spans : IsOpen(t)}}]
          \/ /\ q.pc = "room"
             /\ \E r \in q.rooms : p = [q EXCEPT !.pc = "list", !.here = {r}, !.rooms = @ \ {r},
                                                 !.alive = {a \in live : a.room = r}]
          \/ \E r \in q.rooms : p = [q EXCEPT !.rooms = @ \ {r}]
          \/ /\ q.pc = "list"
             /\ \E listed : /\ listed = {s \in spans : s.room \in q.here /\ IsOpen(s)}
                            /\ p = [q EXCEPT !.pc = "mark", !.todo = listed,
                                             !.known = {s.conn : s \in listed}]
          \/ /\ q.pc = "mark" /\ q.todo = {}
             /\ p = [q EXCEPT !.pc = "room", !.here = {}, !.alive = {}, !.known = {}]
          \/ p = NoPass
    \/ \E s \in q.todo :
         /\ q.pc = "mark" /\ p = [q EXCEPT !.todo = @ \ {s}]
         /\ \/ /\ \E a \in q.alive : a.conn = s.conn
               /\ spans' = {IF SameRow(t, s) /\ IsOpen(t) THEN [t EXCEPT !.seen = q.at] ELSE t
                              : t \in spans}
            \/ CloseSpan(s, s.seen, "sweeper")
    \/ \E a \in q.alive : OpenSpan(NewSpan(a)) /\ p = [q EXCEPT !.alive = @ \ {a}]

\* The second pass moves so, and leaves the truth and the handlers alone.
LEMMA SecondMoves ==
    ASSUME Second!SweepStep \/ Second!SweepDies
    PROVE  UNCHANGED <<Truth, job>> /\ PassMoves(later, later')
<1> USE DEF Second!Truth, Truth, Second!Resume, Second!Sweeping, PassMoves,
            Second!NoPass, NoPass, Second!Never, Never, Second!IsOpen, IsOpen
<1>1. CASE Second!SweepStart
  BY <1>1 DEF Second!SweepStart
<1>2. CASE Second!SweepList
  BY <1>2 DEF Second!SweepList
<1>3. CASE Second!RoomDone
  BY <1>3 DEF Second!RoomDone
<1>4. CASE Second!SweepEnd \/ Second!SweepDies
  BY <1>4 DEF Second!SweepEnd, Second!SweepDies
<1>5. ASSUME NEW r \in later.rooms, Second!SweepRead(r) \/ Second!SweepUnreachable(r)
      PROVE  UNCHANGED <<Truth, job>> /\ PassMoves(later, later')
  BY <1>5 DEF Second!SweepRead, Second!SweepUnreachable
<1>6. ASSUME NEW s \in later.todo, Second!SweepMark(s)
      PROVE  UNCHANGED <<Truth, job>> /\ PassMoves(later, later')
  BY <1>6 DEF Second!SweepMark, Second!CloseSpan, CloseSpan, Second!ClosedAt, ClosedAt,
              Second!SameRow, SameRow
<1>7. ASSUME NEW a \in later.alive, Second!SweepRepair(a)
      PROVE  UNCHANGED <<Truth, job>> /\ PassMoves(later, later')
  BY <1>7 DEF Second!SweepRepair, Second!OpenSpan, OpenSpan, Second!NewSpan, NewSpan,
              Second!SameRow, SameRow
<1> QED BY <1>1, <1>2, <1>3, <1>4, <1>5, <1>6, <1>7 DEF Second!SweepStep

\* A pass that moves so stays true, and so do the rows.
LEMMA MovesKeep ==
    ASSUME Inv, Remembered, NEW q \in Pass, PassTrue(q), NEW p, PassMoves(q, p)
    PROVE  p \in Pass /\ PassTrue(p) /\ spans' \subseteq Span /\ RowsTrue' /\ RowsKept
<1>1. CASE UNCHANGED spans
  BY <1>1, RowsCarry, PassStarts, PassReads, PassShrinks, PassLists, PassEnds DEF PassMoves
<1>2. ASSUME NEW s \in q.todo, q.pc = "mark", p = [q EXCEPT !.todo = @ \ {s}],
             \/ /\ \E a \in q.alive : a.conn = s.conn
                /\ spans' = {IF SameRow(t, s) /\ IsOpen(t) THEN [t EXCEPT !.seen = q.at] ELSE t
                               : t \in spans}
             \/ CloseSpan(s, s.seen, "sweeper")
      PROVE  p \in Pass /\ PassTrue(p) /\ spans' \subseteq Span /\ RowsTrue' /\ RowsKept
  BY <1>2, PassShrinks, MarkWrites
<1>3. ASSUME NEW a \in q.alive, OpenSpan(NewSpan(a)), p = [q EXCEPT !.alive = @ \ {a}]
      PROVE  p \in Pass /\ PassTrue(p) /\ spans' \subseteq Span /\ RowsTrue' /\ RowsKept
  BY <1>3, PassShrinks, RepairWrites
<1> QED BY <1>1, <1>2, <1>3 DEF PassMoves

LEMMA SecondKeeps ==
    ASSUME BothInv, SecondStep
    PROVE  BothInv'
<1>1. UNCHANGED <<Truth, job, sweep>> /\ PassMoves(later, later')
  BY SecondMoves DEF SecondStep
<1>2. Remembered /\ now \in Int /\ now' = now
  BY <1>1, ConstantsAssumption DEF Remembered, PresentFrom, Truth, BothInv, Inv, TypeOK
<1>3. PICK q \in Pass : q = later /\ PassTrue(q)
  BY DEF BothInv
<1>4. PICK p : p = later'
  OBVIOUS
<1>5. p \in Pass /\ PassTrue(p) /\ spans' \subseteq Span /\ RowsTrue' /\ RowsKept
  <2>1. PassMoves(q, p)
    BY <1>1, <1>3, <1>4
  <2> QED BY <1>2, <1>3, <2>1, MovesKeep DEF BothInv
<1>6. later' \in Pass /\ PassTrue(later)'
  <2>1. PassTrue(p)'
    BY <1>2, <1>5, PassCarries
  <2> QED BY <1>4, <1>5, <2>1 DEF PassTrue
<1>7. sweep' \in Pass /\ PassTrue(sweep)'
  <2>1. PICK r \in Pass : r = sweep /\ PassTrue(r)
    BY DEF BothInv, Inv, IInv, TypeOK
  <2> QED BY <1>1, <1>2, <1>5, <2>1, ResumeKeeps
<1>8. job' \in [Worker -> Job] /\ \A v \in Worker : JobTrue(job[v])'
  BY <1>1, <1>2, <1>5, JobsCarry DEF BothInv, Inv, IInv
<1>9. events' \subseteq Event /\ EventsTrue'
  BY <1>1, <1>2, EventsCarry DEF BothInv, Inv, IInv, Truth
<1>10. /\ now' \in 0..MaxTime /\ live' \subseteq Arrival /\ past' \subseteq Stay
       /\ StaysTrue'
  BY <1>1 DEF BothInv, Inv, IInv, TypeOK, StaysTrue, Truth
<1> QED BY <1>5, <1>6, <1>7, <1>8, <1>9, <1>10 DEF BothInv, Inv, IInv, TypeOK

\* Every step of the meter but the purge leaves every row there, in its room.
LEMMA OthersKeepRows ==
    ASSUME Inv, Tick \/ Media \/ Webhook \/ SweepStep \/ \E w \in Worker : HandlerDies(w)
    PROVE  RowsKept
<1>0. spans \subseteq Span
  BY DEF Inv, TypeOK
<1>1. CASE UNCHANGED spans
  BY <1>1 DEF RowsKept, SameRow
<1>2. CASE \E new : OpenSpan(new)
  BY <1>2 DEF OpenSpan, RowsKept, SameRow
<1>3. ASSUME NEW f, spans' = {f[t] : t \in spans},
             \A t \in spans : SameRow(f[t], t) /\ f[t].room = t.room
      PROVE  RowsKept
  BY <1>3 DEF RowsKept
<1>4. ASSUME NEW s, NEW at, NEW reason, CloseSpan(s, at, reason)
      PROVE  RowsKept
  <2> DEFINE f == [t \in spans |-> IF SameRow(t, s) /\ IsOpen(t) THEN ClosedAt(t, at, reason)
                                                                 ELSE t]
  <2>1. spans' = {f[t] : t \in spans}
    BY <1>4 DEF CloseSpan
  <2>2. ASSUME NEW t \in spans
        PROVE  SameRow(f[t], t) /\ f[t].room = t.room
    BY <1>0 DEF Span, SameRow, ClosedAt
  <2> HIDE DEF f
  <2> QED BY <1>3, <2>1, <2>2
<1>5. ASSUME NEW s \in sweep.todo, SweepMark(s)
      PROVE  RowsKept
  <2>1. CASE CloseSpan(s, s.seen, "sweeper")
    BY <1>4, <2>1
  <2>2. CASE spans' = {IF SameRow(t, s) /\ IsOpen(t) THEN [t EXCEPT !.seen = sweep.at] ELSE t
                         : t \in spans}
    <3> DEFINE f == [t \in spans |-> IF SameRow(t, s) /\ IsOpen(t)
                                     THEN [t EXCEPT !.seen = sweep.at] ELSE t]
    <3>1. spans' = {f[t] : t \in spans}
      BY <2>2
    <3>2. ASSUME NEW t \in spans
          PROVE  SameRow(f[t], t) /\ f[t].room = t.room
      BY <1>0 DEF Span, SameRow
    <3> HIDE DEF f
    <3> QED BY <1>3, <3>1, <3>2
  <2> QED BY <1>5, <2>1, <2>2 DEF SweepMark
<1>6. CASE Webhook
  BY <1>6, <1>1, <1>2, <1>4 DEF Webhook, Joined, Handle, LeftLook, LeaveExplicitly, LeftRecord,
                                Answered, CloseListed
<1>7. CASE SweepStep
  BY <1>7, <1>1, <1>2, <1>5 DEF SweepStep, SweepStart, SweepRead, SweepUnreachable, SweepList,
                                SweepRepair, RoomDone, SweepEnd
<1>8. CASE Tick \/ Media \/ \E w \in Worker : HandlerDies(w)
  BY <1>8, <1>1 DEF Tick, Media, Connect, Disconnect, HandlerDies
<1> QED BY <1>6, <1>7, <1>8

LEMMA FirstKeeps ==
    ASSUME BothInv, FirstStep
    PROVE  BothInv'
<1>1. [Next]_vars
  BY DEF FirstStep, Next, LiveNext
<1>2. Inv'
  BY <1>1, NextInv DEF BothInv
<1>3. RowsKept
  BY OthersKeepRows DEF FirstStep, BothInv
<1>4. PICK q \in Pass : q = later /\ PassTrue(q)
  BY DEF BothInv
<1>5. PassTrue(q)'
  BY <1>1, <1>3, <1>4, Frame, PassCarries DEF BothInv
<1>6. later' = q
  BY <1>4 DEF FirstStep
<1> QED BY <1>2, <1>5, <1>6 DEF BothInv, PassTrue

LEMMA PurgeKeeps ==
    ASSUME BothInv, BothPurge
    PROVE  BothInv'
<1>1. Purge /\ [Next]_vars
  BY DEF BothPurge, Next, LiveNext
<1>2. Inv'
  BY <1>1, NextInv DEF BothInv
<1>3. PICK q \in Pass : q = later /\ PassTrue(q)
  BY DEF BothInv
<1>4. PICK p : p = [q EXCEPT !.todo = {s \in @ : s.joined >= now - Retention}]
  OBVIOUS
<1>5. later' = p
  BY <1>3, <1>4 DEF BothPurge, Second!Purge
<1>6. UNCHANGED now /\ spans' = {s \in spans : s.joined >= now - Retention}
  BY <1>1 DEF Purge, Truth
<1>7. p \in Pass /\ PassTrue(p)'
  BY <1>1, <1>3, <1>4, <1>6, Frame, PassPurged DEF BothInv
<1> QED BY <1>2, <1>5, <1>7 DEF BothInv, PassTrue

LEMMA BothStutter ==
    ASSUME BothInv, UNCHANGED allVars
    PROVE  BothInv'
<1>1. Inv'
  BY NextInv DEF BothInv, allVars
<1> QED BY <1>1 DEF BothInv, PassTrue, Stored, SameRow, PresentFrom, allVars, vars

\* What the second pass carries, in the words of the first's module.
LEMMA SameTruth == BothInv => BothTrue
BY DEF BothInv, BothTrue, Inv, IInv, Second!IInv,
       StaysTrue, Second!StaysTrue, EventsTrue, Second!EventsTrue, RowsTrue, Second!RowsTrue,
       JobTrue, Second!JobTrue, PassTrue, Second!PassTrue, PresentFrom, Second!PresentFrom,
       Stored, Second!Stored, SameRow, Second!SameRow, IsOpen, Second!IsOpen,
       ClosedExplicitly, Second!ClosedExplicitly, Never, Second!Never

LEMMA BothInitInv == BothInit => BothInv
<1> SUFFICES ASSUME BothInit PROVE BothInv
  OBVIOUS
<1>1. Inv
  BY InitInv DEF BothInit
<1>2. later = NoPass
  BY DEF BothInit, Second!Init, Second!NoPass, NoPass, Second!Never, Never
<1> QED BY <1>1, <1>2, PassEnds DEF BothInv

\* Two passes of sweep_open_spans beside each other (presence.py takes no lock) keep what
\* either carries true, for any rooms, connections, handlers and retention.
THEOREM OverlapIsHarmless == BothSpec => []BothTrue
<1>1. BothInv /\ [BothNext]_allVars => BothInv'
  BY FirstKeeps, SecondKeeps, PurgeKeeps, BothStutter DEF BothNext
<1> QED BY <1>1, BothInitInv, SameTruth, PTL DEF BothSpec

\* So no stay is billed past its presence, whichever pass writes it.
THEOREM OverlapNeverOvercounts == BothSpec => []NeverBeyondPresence
<1>1. BothInv => NeverBeyondPresence
  BY DEF BothInv, Inv, IInv, RowsTrue, ClosedExplicitly, NeverBeyondPresence
<1>2. BothInv /\ [BothNext]_allVars => BothInv'
  BY FirstKeeps, SecondKeeps, PurgeKeeps, BothStutter DEF BothNext
<1> QED BY <1>1, <1>2, BothInitInv, PTL DEF BothSpec
=============================================================================
