# Verification of stapel-video

stapel-video (0.13.0) is a Django library that adds video to a host application: rooms with a
lobby, 1:1 calls that ring, a presence meter that turns media-server webhooks into billable
spans, and the queries that sell those spans. This directory holds TLA+ modules of its
behaviour, TLC configurations that check them on small instances, and TLAPS proofs of the
properties that matter most.

## 1. The system

| component | state it keeps | operations | talks to |
|---|---|---|---|
| call lifecycle (`calls/services.py`, `calls/models.py`, `calls/sweeper.py`, `calls/views.py`) | one `Call` row per call: state, two parties, `started_at`, `answered_at`, `ended_at`, `end_reason` | create, read, active, accept, decline, hangup, token; `close_from_room` from two webhooks and the sweep; `sweep_calls` | provider (room, grant, roster), frames, pushes, chat line |
| call frames and pushes (`calls/realtime.py`, `notify.py`, `thread.py`, `consumers.py`) | none (best-effort) | `notify_user`, push, chat line | realtime transport, notifications, chat |
| call authorisation (`calls/authorize.py`, `mirror.py`) | mirrored users | one question per create, fail-closed | chat service |
| presence meter (`presence.py`, `retention.py`, `models.ParticipantSpan`) | one span per connection: joined, left, provenance of the end | joined/left webhooks, sweep of open spans, explicit close, backfill, pseudonymise, purge | provider roster, outbox |
| room admission (`services.py`, `views.py`, `consumers.py`) | `Room`, `RoomParticipant` (waiting / admitted / denied / left) | create, join, rejoin, admit, deny, lobby stream, guarded reads | provider grants, lobby frames, the host's scope provider |
| account lifecycle (`actions.py`, `erasure.py`, `gdpr.py`) | rows of the other components | merge, rename, erasure | identity events, live rooms |
| webhook dispatch (`webhooks.py`) | handler registry | merge of settings and code registrations, dispatch | all of the above |
| usage queries (`presence.py`, `functions.py`, `usage.py`, `views.py`) | none | aggregates, rollup, by month, pairs, scope page, paged exports | presence rows, the host's authoriser |
| provider seam (`providers/`) | none | mint, ensure, roster, rename, parse webhook | LiveKit |
| scope, live rooms, tasks, conf, checks, admin, codegen, migrations, commands | start-up configuration, read-only views | | |

How they interact: a request of a party, a webhook of the media server, an event of another
service and a beat task are kinds of process that share nothing but the database. There are no
locks: correctness rests on conditional UPDATEs (`filter(state__in=…).update(…)`), on (partial)
unique constraints, on `get_or_create`, and on reading again. Everything else (frames, pushes,
the chat line, a rename in the media server) is told after a write and may be lost.

### What is hard here

* the interleaving of check-then-write at READ COMMITTED: the busy gate and the insert; accept's
  gate and its UPDATE; the lobby's answer and the row; a merge's reads and its writes;
* lists made first and acted on later: both sweeps, the explicit close, the backfill, the rename;
* several independent witnesses of one end, late, repeated and out of order;
* instances in memory that are older than the row they speak for;
* clocks: a deadline noticed by a reader or by the sweep, an end instant taken from a webhook, a
  stay that is still open when a month is billed;
* a worker or the beat process that dies between two statements, a beat that is not scheduled,
  two passes of one sweep at the same time;
* the exclusive answer that no constraint can express (being caller of one call and callee of
  another).

What makes each component correct:

* **calls**: nobody is in two answered calls; a closed call is never rewritten and is announced
  at most once; missed and declined mean never answered; a ring that ran out and an answered call
  nobody ends are ended; the sweep never ends a call that had no time to connect.
* **presence**: an arrival has one span; a closed span never changes; no span is counted past a
  moment its connection was in the room; a span nobody closes is closed by the sweep, also when
  two passes of it run.
* **admission**: no token and no look without the room's answer; only a request that was already
  under way can lift a denial.
* **accounts**: whatever rooms and admissions a guest had when its merge was read are kept, for
  the survivor, and are moved together with the meter or not at all; what was erased is never given
  a person again; nobody else's room or admission is touched. What the guest writes after those
  reads, and its calls, need not be kept: what is still its own goes with its user row.
* **usage**: every total is the measure of a set of instants; a tenant sees its own; the months of
  a table tile its time; a month that is over does not grow; a walk of an export shows each row
  once; a stay keeps its tenant.
* **names**: a rename reaches every tile of its person and changes nothing else.

## 2. Modules

| module | what it is | extends |
|---|---|---|
| `CallLedger` | the abstract call: it rings once, is answered at most once and exclusively, closes once with a fitting outcome | |
| `VideoCall` | the call lifecycle in full, its properties, and `Ledger == INSTANCE CallLedger WITH …` | |
| `VideoCallClaims` | what the repository's text says of calls and the code does not keep | `VideoCall` |
| `PresenceMeter` | spans, the media server's webhooks, the host's close, the sweep, the purge | |
| `OverlappingSweeps` | the meter with two passes of the sweep: `Second == INSTANCE PresenceMeter WITH sweep <- later` | `PresenceMeter` |
| `RoomAdmission` | a room's lobby: join, verdicts, the socket, the guarded reads | |
| `AccountLifecycle` | merge, erasure and deletion of accounts over rooms, admissions, calls and spans | |
| `AccountClaims` | what one would expect of a merge and the code does not keep | `AccountLifecycle` |
| `UsageArithmetic` | clip, union, overlap, months: pure operators | |
| `UsageReads` | every query of usage over a span table that is written, and the backfill | `UsageArithmetic` |
| `ExportWalk` | the paged exports, page by page, over that table | `UsageReads` |
| `LiveNames` | a rename that is pushed into the rooms a person sits in | |
| `MC…` | the instances for TLC: symmetry, constants, specifications with fewer processes | the module they name |
| `VideoCallProofs` | proofs about `VideoCall` | `VideoCall` |
| `PresenceProofs` | proofs about `PresenceMeter` and `OverlappingSweeps` | `OverlappingSweeps` |
| `RoomAdmissionProofs`, `AccountProofs`, `LiveNamesProofs` | proofs about the module they name | that module |
| `UsageArithmeticProofs` | sums, unions and overlaps of any finite set of intervals, and the induction they need | `UsageArithmetic` |
| `UsageReadsProofs` | proofs about `UsageReads`, from those | `UsageReads`, `UsageArithmeticProofs` |
| `ExportWalkProofs` | proofs about `ExportWalk`, from those | `ExportWalk`, `UsageReadsProofs` |

An operator called "Mutant of …" in a comment is a plausible bug in the operator after it. It is
used nowhere; it serves to see a property fail.

### VideoCall and the code

A process is one request or webhook handler (`Worker`) or the beat task (`Sweeper`). `work[p]`
is what it is doing, for whom, and `seen`: the `Call` instance it holds in memory, which may be
older than `row[c]`, the row. One action is what a process does between two looks at the
database. So `create_call` is `BeginCreate` (authorised), `Gate` (`_refuse_if_busy`), `Insert`
(the INSERT under the two partial unique constraints), and `Ring` or `Fail` (the provider's
answer); `accept_call` is `Resolve` (`get_call`), `ExpireOnRead`, `AcceptCheck` (the gate re-run),
`AcceptUpdate` (the conditional UPDATE and commit) and `AcceptTell` or `AcceptMintFails`;
`close_from_room` is `LookUp` and `Close`. Every end but `_fail`'s goes through `Terminate`, the
conditional UPDATE of `_terminate`, and the winner then takes `Announce`, from its own instance.

The views read the call through `get_call` and the service expires it a second time; the second
look at the clock subsumes the first (an expiry that moved the row, or lost it, leaves nothing
for the second to do), so `ExpireOnRead` is one step. A caller who asks to accept or decline is a
mere reader: the role check comes after the read.

`sweep_calls` is `SweepStart` (the overdue rings), `SweepExpire`/`SweepExpireWrite` for each,
`SweepList` (the accepted calls and those over the cap), `SweepCap` for each, `SweepSelect` (those
past the connect grace, from the *same* list), and `SweepPoll`, `SweepSkip` or `SweepEnd`
(roster readable, unreadable, not supported by the provider). The lists are kept in `sweep` as the
code keeps them in memory, and nothing refreshes them.

The media server is the environment: whoever holds a token may connect and disconnect, an empty
room finishes, and every departure and finish may or may not become a webhook (`Emit`), which is
delivered any number of times, whenever (`hooks` never shrinks). `Crash` drops a process between
any two of its statements.

Left out: the chat line and the pushes (told at the same points as the frames), the payload of a
frame beyond state and duration, the scope key, the media kind, the expiry of tokens, the cap of
two connections on the media room (the model lets as many tokens connect as were minted; only the
two parties ever hold one).

### PresenceMeter, OverlappingSweeps and the code

`live` and `past` are the truth: who is connected to which room and every stay that is over. The
code never sees them but through webhooks (`events`), the roster (`SweepRead`) and the host.
`spans` is the `ParticipantSpan` table. A connection id is the mark a browser keeps
(`client_session_id`), so the same connection comes back, and may be in two rooms.

| action | code |
|---|---|
| `Joined` | `handle_participant_joined`: one `get_or_create` (`OpenSpan`) |
| `LeftLook`, then `CloseListed` or `LeftRecord` | `handle_participant_left`: the newest open span is closed by a conditional UPDATE (`CloseSpan`), or the whole stay is recorded |
| `LeaveExplicitly`, `CloseListed`, `Answered` | `close_spans_explicitly`: the list, one UPDATE for each, the return |
| `SweepStart` … `SweepEnd` | `sweep_open_spans`: the rooms, and for each the roster, the open spans, a confirmation or a close for each, a repair for each connection without a span |
| `Purge` | `purge_participant_spans` |
| `HandlerDies`, `SweepDies` | a process ends between two statements |

Every look at the table is a step of its own and what it listed is kept in `job` or `sweep`, as the
code keeps instances in memory. An instance of a purged row leaves them with the row: the UPDATE
is by primary key and will match nothing, not even a row made again for the same arrival.

The code takes no lock on a pass, so one that takes longer than the beat's interval, or an operator's
`video_sweep_presence`, runs beside the next. `OverlappingSweeps` is the same module a second time
with another `sweep` variable: the two passes share the table and the media server and nothing else.

Left out: the outbox events (one transaction with each write), the scope key and the person (only
`close_spans_explicitly` selects by person, through `Owner`), `dry_run`, the provider that
lists no participants (it is `SweepUnreachable` of every room), an event with no timestamp at all.
The media server's clock and the application's are one clock `now`, in whole seconds;
`NeverBeyondPresence` is about that clock.

### RoomAdmission and the code

One room. `req[r]` is one HTTP request and what it has read: the view's `Room` (`StartJoin`; its
`admit_required` is not looked at again), the participant row (`FindRow`), the membership answer of
the host's scope provider (`Ask`, `AskAgain`, which may take long and may fail), the row that won
(`InsertRow`, a `get_or_create`), and the save (`Promote`, `update_fields=["status"]`, which writes
whatever the row says by now). `Rejoin` is the table of `_rejoin`. A verdict is `StartVerdict`
(`_waiting`), `SaveVerdict` and `TellVerdict`. `Abort` is a 503, a provider that refuses, or a worker
that dies, at any of these points. A lobby frame is one copy per socket, in `wire` until it is
delivered or its socket closes; `Deliver` is the redaction in `realtime_signal`.

`answer` is history, the best answer the room has reached about a user; no guard reads it. Left out:
the payload of frames beyond the token, the join link, `leave` of the provider room, and rooms in the
plural (no query of the lobby spans two).

### AccountLifecycle and the code

`host`, `seat`, `name` and `calls` are the columns that name a person: `Room.created_by`, the
participant rows, `ParticipantSpan.user_id`, and the two parties of a `Call`. `handle_user_merged` is
`MergeLook` (the SELECT of the guest's admissions), `MergeRead` (the next three: whether it hosts, and
of the survivor its row and its admissions, which no request of the guest's touches) and then one of
`MergeMeter` (nothing but spans to move), `MergeAll`,
`MergeNotReady` (`MergeTargetNotReady`, raised inside the transaction), `MergeFails` (a unique or
foreign key constraint): its writes are one transaction and what they are based on may be stale. An
erasure is three statements without one (`EraseRooms`, `EraseSeats`, `EraseSpans`). `Webhook` is
`open_span`, any time. `CreateRoom`, `Knock` and `PlaceCall` are requests: all they need is a user
row, so somebody whose merge or erasure was published goes on opening rooms, knocking and ringing for
as long as that row is there, before, between and after the handler's statements. `DeleteAccount` is
the end of the user row and what its foreign keys CASCADE to: rooms with all their admissions,
admissions, and calls as either party. `Project` adds a user row late.

`late` is history, and no guard reads it: the rooms a guest opened, or knocked at, when a worker had
begun its merge's reads or had returned from it. The code need not carry these over (nothing reads again
after the commit, unless the event happens to be redelivered), and the properties except exactly them. `AccountClaims` states the same without the
exception.

`AccountsAssumption` says that nobody merges into a guest (chains of merges are excluded: the
identity service resolves them before it publishes). One order is assumed of the service that owns
the accounts: the user row goes after this service has handled its merge or erasure once. Left out:
the GDPR export, which reads; the moves of a call, which are `VideoCall`'s (a merge and an erasure
leave Call rows alone).

### UsageArithmetic, UsageReads, ExportWalk and the code

Time is in ticks, `TicksPerSecond` to a second: webhooks and months fall on whole seconds
(`WholeSecond`), a sweep's close and a read fall anywhere, and totals are truncated to seconds once
(`IntervalSeconds`). `Merged` is `_merge_intervals` as a fold over sorted intervals, `OverlapSeconds`
the two-pointer loop of `_overlap_seconds`, `Clip` is `_clip`. `Midnight` gives the calendar, of which
`CalendarAssumption` says: months are numbered one after the other and start in that order, the clock is
in one of them, and the months of a table before it are there, with an end.

The queries are operators (`Aggregate`, `Rollup`, `Table`, `ScopeUsage`, `RoomPairs`), evaluated by
the properties in every state of a table that webhooks, the sweep, merges, erasures, the purge and the
backfill write (`OpenSpan`, `CloseSpan`, `MergeSpans`, `PseudonymizeUser`, `Purge`, `FillStart` …
`FillDies`). A merge or an erasure of the meter's rows is one step here; its place among the other
statements is `AccountLifecycle`. The batch size of `_stamp_room` is left out: a batch is all ids of
the room. `ExportWalk` adds a consumer: `SpansPage` is one query; a page of pairs is a list of
rooms and a query for each, at the moment `at` the page began.

### LiveNames and the code

`profile` and `published` are stapel-profiles; `media` is LiveKit's view of a connection, name and
metadata. `Mint` puts the current name into a token; `handle_profile_changed` is `Deliver`
(`LiveRooms`, the seats and live calls), and for each room `ListRoom` (list and `_mine`), `Skip` or
`Update` for each connection, and `RoomDone` or `RoomFails` (the exception is logged, the loop goes on,
the call that failed may have been carried out). Names are versions of a person's name, metadata is
told apart by the grant it came with. `owed` is history: the connections that were there when the
event was picked up and neither left, nor were replaced, nor sat in a room that failed, nor were
part of two pushes of one person at a time.

## 3. Runs

The clocks stop at `MaxTime` and the worlds run out of people, so deadlock is not checked.

| run | instance | shows |
|---|---|---|
| `exclusion` | `RequestSpec` (requests, worker crashes): 3 people, 2 calls, 2 workers; accept, decline | `AtMostOneAnswered`, the inductive invariant `IInv`, and the refinement `LedgerSpec` |
| `witnesses` | `UnsweptSpec` (plus clock, media, webhooks): 2 people, 1 call, 2 workers; accept, decline, hangup, token | types, `EndAnnouncedOnce`, `ClosedIsFinal` while witnesses race |
| `sweep` | `BeatSpec` (everything, the beat scheduled): 2 people, 1 call, 1 worker and the sweep, 3 instants; accept, active | `UnansweredMeansUnanswered`, `SweeperWaits`, `EndAnnouncedOnce` against stale lists; `RingEnds`, `AnsweredEnds` |
| `presence` | 2 rooms, 1 connection, 2 stays, 3 instants, 1 handler, the sweep, the purge | types, `NeverBeyondPresence`, the inductive invariant `IInv`, `ClosedSpanStays` |
| `overlap` | 1 room, 1 connection, 1 stay, 3 instants, two passes, the second may be killed | `BothTrue`: neither pass misleads the other; `ZombiesEnd` |
| `lobby` | 2 users, 2 requests | `IInv`, `TokenNeedsYes`, `NothingBeforeAnswer`, `DenialOutlastsJoins` |
| `accounts` | a guest, an account and another, 1 room, 1 stay, 2 workers; the guest acts on after signing in | `HandledMergeMissesNothing`, `RoomsOutliveTheGuest`, `AdmissionsOutliveTheGuest`, `MetersMoveWithRooms`, `OwnAdmissionStays`, `ErasedSpanStaysErased`; `MergeCompletes` |
| `usage` | 3 stays, 3 user ids, 2 rooms, 2 tenants, 5 instants of half a second, months of one second | every total against a set of instants (`MeterIsPresence`, `UsageIsTheTenants`, `MonthsAddUp`), `HistoryStands`, `ErasureKeepsTheMeter`, `StayKeepsItsTenant`, types |
| `exports` | 3 stays, pages of one row; all rows, and the pairs of a window | `WalkIsComplete`, `RowIsShownOnce` |
| `names` | persons "1" and "12", 3 connections, 1 handler at a time, 1 rename and 2 tokens each | `TilesShowTheirOwn`, `ReachesEveryTile`, `OnlyTheNameIsPushed` |
| `late_departure` | violation, of `PresenceMeter` | a late departure closes the next stay |
| `backfill_slices` | violation, of `UsageReads` | a backfill in slices never gets past a room the host cannot place |

### Bounds

**Calls.** Exclusion is about pairs of calls, and the only race the constraints leave is between
crossing roles: two calls that share a person need three people at most, and two workers are
enough to hold both past the gate and both past the check. Finality, announcement and the sweep
are about one row and two processes that hold an instance of it; a third process would only
repeat what the second can do after finishing. `MaxTime` reaches the shortest timeouts in
`witnesses` and all of them in `sweep`; `MaxHooks = 1` with unlimited delivery gives late and
repeated webhooks. `Asked` splits the party requests over the runs: each takes those its question
is about. `ConnectGrace` and `RingTimeout` are 1 and `MaxDuration` is 2, so grace and cap fall on
different instants.

**Meter.** Spans of different connections never meet (every look is by connection, or
by room for the sweep), so one connection that comes back is the hard case; a second stay is what a
late webhook can be mistaken for, and a second room is where a missing filter would show. Three
instants put a pass of the sweep between an arrival and a departure. A webhook in `events` may
be delivered never, late or again without bound. `Retention` is 1, so the purge takes rows that
handlers and the sweep still hold. Two passes need one stay: they can disagree about its
confirmation, its close and its repair.

**Lobby.** Two requests about one guest are a race of two first joins, a join and a verdict, or two
tabs of the host; the second user is the host, or another visitor with a lobby socket.

**Accounts.** The guest who signs in, the account, and a third person whose room the guest visits; one
room in which both may hold an admission; two workers for a merge and its redelivery, or a merge and
an erasure. One stay is enough, since its statements are UPDATEs by user id. `Forgets` bounds who asks
to be erased to the guest and the account: an erasure concerns a merge only if it is of one of its two
sides (the third person's room can still go, once the account has become its host or the room was
opened again by the account). `Rings` is one pair, the guest and the third person: a call is only ever
inserted and deleted here. `Visits` lets the guest and the account knock; the third person's admission
is the one to a room of its own, which is one more that no merge may touch.

**Usage.** Two stays of one person and one of another, in two rooms, give stays that overlap, touch and
contain each other, and pairs. Half-second ticks make truncation show, months of one second put
boundaries inside stays, `<<2, 12>>` is the last month and has no end. The stays of a state are few, so
`MCUsageReads` also asserts (`UnionIsExact`, `OverlapIsExact`) that the union, and the overlap of two
timelines, are exact on *all* timelines of up to three (two) intervals within 0..5; the theorems of the
same names prove it of all.

**Exports.** Pages of one row put the table's every change between two pages; three stays can share
an arrival, so that the id decides.

**Names.** User id "12" begins with user id "1". One person has a connection in a room and one in a call;
two tokens let a connection be replaced while it is listed.

### Fairness

`SweepFairness` of the calls says that time passes and that the beat's pass goes on once it has
begun (`WF` of the sweep's steps together, not of each: an unreadable roster may be skipped for
ever). The beat schedule justifies it; nothing is assumed of workers, clients, or webhooks, all of
which may stop or be lost. The beat may be restarted, but not for ever: only while the clock runs. The
deadlines are stated for calls early enough to reach them before the clock stops at `MaxTime`.

`SweepFairness` of the meter says that a pass goes on once begun and that a room is not unreachable
for ever (`SF` of `SweepRead` for each room); a room that is skipped for ever is an outage of the
media server, for which nothing can be promised. In `overlap` it holds of the first pass only.

`Fairness` of the accounts: of the handlers that run, some one goes on or dies (nothing is said of each: one
may hang); the outbox delivers what is owed and
does so again until a handler returned, and a merge that can read on, or complete, over and over is not
killed each time (`SF`). `MergeCompletes` allows that the survivor never lands here, or leaves: then the code
rightly keeps raising.

`FillSpec` of the backfill: an operator runs the command again and again, and it does not always die.

### Findings

The two violation runs each refute a sentence of the repository; `PROJECT.json` quotes it.

* `late_departure`: `handle_participant_left` asks which span of the connection is open, not which
  span the event is about. A departure delivered after the same browser came back closes the
  new stay at its very start, and nothing reopens it: the stay is not billed.
* `backfill_slices`: `backfill_scope_keys` takes the first rooms of the population that has no tenant,
  and a room the host places nowhere stays in it. Once as many of those as `--limit` sort first,
  every further slice asks about the same ones.

`VideoCallClaims` states four more. Each is refuted by TLC under the constants of `exclusion` with two
people and one call, and the differences named here:

| statement | instance | what happens |
|---|---|---|
| `RingsBeforeItEnds` | `Spec`, 2 workers, `Asked = {"hangup"}`, `MaxTime = 0` | `create_call` rings after the provider round trip without looking at the row again: the callee gets `call.ended`, then `call.incoming` |
| `FailedWasNeverAnswered` | `Spec`, 2 workers, `Asked = {"accept"}`, `MaxTime = 0` | the row can be accepted before the provider has answered; `_fail` ends an accepted call as `failed`, with an `answered_at` |
| `BusyMeansOnACall` | `Spec`, 1 worker, `Asked = {}`, `MaxTime = 1` | `_refuse_if_busy` counts a ring that ran out: without the sweep both people stay busy until one of them reads that call |
| `DepartureLeavesNobody` | `UnsweptSpec`, 1 worker, `Asked = {"accept"}`, `MaxTime = 0`, `MaxHooks = 1`, `MaxDuration = 2` | a reconnect yields a `participant_left` of the old connection; it ends the call though both parties are in the room |

`AccountClaims` states two, each refuted under the constants of `accounts`:

| statement | steps | what happens |
|---|---|---|
| `NothingIsLeftToLose` | `SignIn`, `MergeLook`, `MergeRead`, `CreateRoom`, `MergeMeter` | the merge read nothing to move; the guest's session opens a room before it returns; success is returned (actions.py:201-207), nothing is delivered again, and the guest's deletion takes the room |
| `CallsOutliveTheGuest` | `SignIn`, `MergeLook`, `PlaceCall`, `MergeRead`, `MergeMeter`, `DeleteAccount` (the call may as well come first) | `Call.caller` and `Call.callee` are CASCADE too (calls/models.py:146-155) and the handler moves no call: the guest's calls go with it, from the other party's history as well |

## 4. Proofs

Each theorem holds for any values of the constants that satisfy the named assumptions of its module.

### Calls (`VideoCallProofs`; `ConstantsAssumption`)

The assumption: the sweep is not a worker, the two null values are not people or calls, timeouts are
positive.

* `TypeCorrect`: `Spec => []TypeOK`. `TypeOK` is not inductive by itself: `Ring` writes the token of
  `work[p].user` and `_terminate` writes `row[work[p].call]`, so one must know that a process past
  its first read holds a call that has a row and, where a token is minted, a user. `InFlight`
  (`Holding` of every process; a row not inserted is blank; the sweep's lists name rows) says so,
  and `Inv0 == TypeOK /\ InFlight` is inductive, one lemma per operation.
* `RowSteps` (lemma): every step makes at most one of three writes to one row: it opens it,
  answers it, or ends it, each from the state it must be in. The next three rest on it.
* `Finality`: `Spec => ClosedIsFinal`.
* `Exclusion`: `Spec => []AtMostOneAnswered`. The invariant must speak of a call *before* its UPDATE:
  `Cleared(c)` holds when c is answered, or ringing with a worker between accept's check and
  its UPDATE. `ClearedExcludes`: two cleared calls share nobody. It is inductive because a call is
  newly cleared only by a check that saw no other live call of its parties (`NewlyCleared`), and
  a cleared call is live: so the second of two conflicting rings to be checked is refused, and a
  ring inserted after the check is not cleared and cannot be until the first has ended. This is why
  the check must look at *ringing* rivals too and not only at answered ones.
* `Implements`: `Spec => LedgerSpec`, the refinement, from the same invariant.
* `MissedIsUnanswered`, `SweepIsPatient`: `UnansweredMeansUnanswered` and `SweeperWaits`. Both are about
  an instant that was compared on a read and a row that is written later. `Timely` carries it: what a
  row's own instants say (`TimelyRow`), what a process between the two knows of its call
  (`TimelyWork`), and what every entry of the sweep's lists has been checked for (`TimelySweep`). It is
  inductive because an answered row keeps its `answered_at` and the clock only moves forward.
* `EndsAreAnnouncedOnce`: `EndAnnouncedOnce`. Between the winning UPDATE and the frame there is a process
  that *owes* the announcement: at most one per call (`OwedOnce`), of a row that is closed as it
  believes and that nobody was told about (`OwedRightly`); what was told is one and right (`ToldOnce`,
  `ToldRightly`).

### Presence (`PresenceProofs`; `ConstantsAssumption`)

* `NoOvercount`: `Spec => []NeverBeyondPresence`. The property speaks of the table alone and is not
  inductive: a row is closed at a moment somebody else read earlier. `PresentFrom(r, c, t)` (c was in
  r at t or later) is what all of them carry, and it is remembered by every step (`Presence`): a
  departure turns a live stay into a past one that ends no earlier. `IInv` says that webhooks,
  rows, jobs and the pass each carry moments of which it holds (`EventsTrue`, `RowsTrue`,
  `JobTrue`, `PassTrue`), that an arrival has one row, and that an instance in memory is of a row that
  is there, in the room it was read in (`Stored`). Without the last, a close by key could fall on
  a row of another room. The pass confirms at an instant taken before its rosters are read;
  `PassTrue` fails if it is taken after.
* `MeterInductive`, `MeterTypes`: `Spec => [](TypeOK /\ IInv)`. Rows keep their type only because an
  arrival's event carries its moment and a pass its instant, so the two are proved together.
* `AppendOnly`: `Spec => ClosedSpanStays`, from the shapes of the writes; it needs no invariant.
* `OverlapIsHarmless`, `OverlapNeverOvercounts`: the same with two passes. A pass needs of all others
  only that rows it holds are kept or leave it with the purge (`RowsKept`); every step of the other
  pass is such (`PassMoves`). The lemmas about one pass are those of the first part.

### Admission (`RoomAdmissionProofs`; `ReqAssumption`)

* `AdmissionInductive`: `IInv` is inductive: it says what each step of a request has behind it
  (`StepKnows`: whoever is about to be written has been answered, whoever is about to get a token has
  been answered yes), that rows never run ahead of the answer, and that a frame is about a token
  that was minted and reaches no other socket. `TokensNeedYes` and `NothingBefore` follow.
* `DenialStays`: `DenialOutlastsJoins`, from the writes to `seat` and `IInv`.

### Accounts (`AccountProofs`; `AccountsAssumption`, `DigestAssumption`)

* `MergesMissNothing`: `HandledMergeMissesNothing`, though a merge's writes rest on stale reads and the
  guest acts on. The invariant says that what a merge read, in two steps, still *covers* what the guest has
  (`LookCovers`, `ReadsCover`), except for what came `late`: a row of the guest that is new since the reads was written
  by the guest itself (`GuestRows`), because nobody merges into a guest, and is then in `late`. That is
  the place where chains of merges would break it, and why the assumption excludes them. A commit empties
  what was covered (`MergeEmpties`), and what the guest writes after it is `late` again.
* `AdmissionsOutlive`: `AdmissionsOutliveTheGuest`. A merge deletes the guest's row where the survivor had
  one *when it read*; so `ReadsCover` also says that the survivor still sits there, or was erased: nothing
  but an erasure or the room's end takes a survivor's admission (`SurvivorSits`). And a guest deleted by
  CASCADE has only `late` rows, as its event was handled.
* `RoomsOutlive`, `MetersFollowRooms`, `SurvivorsKeep`, `ErasureStands`: the other four action properties,
  from the same invariant; the last also from `DigestAssumption` (a digest is nobody's id).

### The arithmetic (`UsageArithmeticProofs`; `ArithmeticAssumption`)

* `UnionIsExact`: for any finite set of intervals, what `_merge_intervals` leaves lasts as long as the
  instants that some interval covers: an instant under two spans is counted once, and one under none
  not at all, though the code never looks at instants.
* `OverlapIsExact`: the two-pointer walk of `_overlap_seconds` over two merged timelines counts the instants
  both cover.

The model writes both loops, and `sum()`, as folds and recursive functions, so that their values are
facts about data of any size. They are proved by induction stated of *sets*: a set of numbers that is
not empty has a least member (`LeastNat`, from the well-foundedness of the naturals), so a set of finite
sets that has the empty one and grows with any element has them all (`FiniteIsIn`), and a function given
by recursion along a measure exists (`RecursionExists`). `TotalIs` makes `Total` the sum; what the merge
keeps is `IsTimeline` (in order, not touching, the instants so far), and what the walk has counted is the
overlap up to the two pointers, because the interval that ends first cannot meet what comes later.

### Usage (`UsageReadsProofs`; `ReadsAssumption`, `CalendarAssumption`)

* `ReadsTypes`, `TenantsStay`: `TypeOK` and `StayKeepsItsTenant`. The backfill stamps ids it
  read before, so the invariant says that whatever is left of the batch has no tenant yet
  (`BatchUnplaced`): ids are not reused and nothing else gives a tenant to a row that is there.
* `MeterOfPresence`: `MeterIsPresence`. `ClipIs` and `TimelineIs` turn a stay, and the stays of a person, into
  the instants they cover in the window; by `UnionIsExact` the seconds are their number. That a
  room's total is the sum over *all* users, and its pairs those of all pairs, needs that whoever was not counted was not
  there.
* `PageOfTenant`: `UsageIsTheTenants`. A person has a row if and only if they were present; the row's first and
  last instant are ends of a merged timeline, hence instants of presence with nothing outside them.
* `MonthsOfTable`: `MonthsAddUp`. Stepping back from the month it is now gives consecutive months
  (`RecentMonthsAre`), each ending where the one before it in the table starts (`IsCalendar`), so the instants of the
  whole are the disjoint union of those of the months; truncating each loses less than a second.
* `PastMonthsStand`: `HistoryStands`. A step that adds no stay and renames nobody leaves of each stay its arrival
  and, if it has one, its end (`Stands`); so an instant of a window that is over, at which somebody is present
  after the step, is one at which they were present before.
* `ErasureIsInvisible`: `ErasureKeepsTheMeter`. An erasure under a digest that nobody has is a change of
  names, and a change of names is a bijection (`Swap`): of people, which keeps counts and sums, and of
  pairs, which it may turn around (`SwappedPair`, `AsManyPairs`).

### Exports (`ExportWalkProofs`; `WalkAssumption` and those of the usage)

* `WalkShowsAll`, `WalkShowsOnce`: `WalkIsComplete` and `RowIsShownOnce`. Neither is inductive: they speak of
  the end of a walk, and of a flag. `WalkInv` says that the cursor is past every row shown (so no page
  repeats one) and short of every row still owed (so none is skipped). It survives what happens between
  two pages because no write moves the key of a row that is there, and because an id is used once: without the
  latter, a stay deleted and recorded again would be shown twice. Of pairs, the key names people and
  a merge may rename them; what was owed under the old name is then no longer owed. Within a page of pairs, what is
  owed has been taken or is in a room still to do, and the rooms to do come after all that was taken from
  (`PairsWalked`), which is where the order of the rooms is needed.

### Names (`LiveNamesProofs`; `NamesAssumption`)

* `OwnNames`: `TilesShowTheirOwn`. `OwnerIsPrefix`: of two user ids without a separator, one with a
  separator after it begins an identity of the other only if they are equal. So what `_mine` lists is the person's, and
  what is written there is a name they had.
* `RenameReaches`: `ReachesEveryTile`. `Owes(j, c)`: a connection that a push owes its name has it already,
  or is on the list in hand, or sits in a room that is still to come.
* `MetadataStays`: `OnlyTheNameIsPushed`: what was listed of an owed connection is what it still has,
  because every replacement forgives it and two pushes of one person owe nothing.

### What is only model-checked

Every safety invariant and every action property that a passing run checks is the statement of a theorem.
The liveness properties (`RingEnds`, `AnsweredEnds`, `ZombiesEnd`, `MergeCompletes`) are checked by TLC alone:
they rest on fairness and `ENABLED`, which are out of the prover's reach. So are the statements the violation runs
refute, which are false.

## 5. Not modelled

* Configuration, checks, admin, code generation, migrations, the celery registration and the registry of
  webhook handlers: start-up only, no run-time state to interleave.
* Call authorisation: one external question per create, fail-closed. `VideoCall` begins at its yes.
* Pushes and the chat line: best-effort, told where the frames are told.
* The egress webhook (a log line and a hook of the host) and the LiveKit wire format.
* The GDPR export: a read of rows the other modules model.
* Chains of merges: `AccountLifecycle` assumes that
  the account signed into is no guest.

What would come next: `participant_left` composed over the meter and the calls, whose handlers share the
event and nothing else; and an abstract meter (a set of stays, each with a person and a tenant) that
`PresenceMeter`, `AccountLifecycle` and `UsageReads` each implement, so that the three tables they model are
shown to be one.
