------------------------------ MODULE VideoCall ------------------------------
(***************************************************************************)
(* The 1:1 call lifecycle: calls/services.py, calls/sweeper.py, the call    *)
(* views and the two webhooks that end a call.  Every request, webhook and  *)
(* sweep is a process; one action is what a process does between two looks  *)
(* at the database, so a read (a gate, a snapshot, a roster) and the UPDATE *)
(* that relies on it are separate steps, as they are at READ COMMITTED.     *)
(***************************************************************************)
EXTENDS Integers, FiniteSets, Sequences

CONSTANTS
    User,           \* people
    Call,           \* call ids; room_name is one per id
    Worker,         \* request and webhook handlers that run at the same time
    Sweeper,        \* the periodic task that runs sweep_calls
    Nobody,         \* "no user"
    NoCall,         \* "no call"
    RingTimeout,    \* CALL_RING_TIMEOUT_SECONDS
    ConnectGrace,   \* CALL_CONNECT_GRACE_SECONDS
    MaxDuration,    \* CALL_MAX_DURATION_SECONDS
    Asked,          \* bound: the kinds of request the parties make
    MaxTime,        \* bound: the clock stops here
    MaxHooks        \* bound: webhook events the media server emits

ASSUME ConstantsAssumption ==
    /\ Sweeper \notin Worker
    /\ Nobody \notin User
    /\ NoCall \notin Call
    /\ Asked \subseteq {"read", "active", "accept", "decline", "hangup", "token"}
    /\ {RingTimeout, ConnectGrace, MaxDuration} \subseteq Nat \ {0}
    /\ {MaxTime, MaxHooks} \subseteq Nat

VARIABLES
    now,      \* timezone.now()
    row,      \* the Call table
    work,     \* what each process is doing, and the instance it holds in memory
    sweep,    \* where sweep_calls is in its pass
    told,     \* per call, the frames published about it, in order
    tokens,   \* per call, who holds a media token for its room
    inRoom,   \* per call, who is connected to its room
    hooks     \* webhook events the media server may deliver, any number of times

callVars == <<now, row, work, sweep, told, tokens>>
vars == <<now, row, work, sweep, told, tokens, inRoom, hooks>>

-----------------------------------------------------------------------------
(* Rows.                                                                    *)

Never == -1
Time == Nat \cup {Never}
LiveStates == {"ringing", "accepted"}
TerminalStates == {"declined", "missed", "ended", "failed"}
CallState == {"none"} \cup LiveStates \cup TerminalStates
CallEndReason == {"", "hangup", "declined", "ring_timeout", "remote_left",
                  "room_finished", "reconciled", "max_duration", "provider_error"}

Row == [state: CallState, caller: User \cup {Nobody}, callee: User \cup {Nobody},
        started: Time, answered: Time, ended: Time, reason: CallEndReason]
NoRow == [state |-> "none", caller |-> Nobody, callee |-> Nobody, started |-> Never,
          answered |-> Never, ended |-> Never, reason |-> ""]

IsLive(r) == r.state \in LiveStates
Party(r) == {r.caller, r.callee}
LiveCallsOf(people) == {c \in Call : IsLive(row[c]) /\ Party(row[c]) \cap people # {}}

\* Mutant of Duration: no floor at zero.
UnflooredDuration(r) ==
    IF r.answered = Never \/ r.ended = Never THEN 0 ELSE r.ended - r.answered

\* duration_seconds: zero unless answered, never negative.
Duration(r) ==
    IF r.answered = Never \/ r.ended = Never \/ r.ended < r.answered
      THEN 0 ELSE r.ended - r.answered

Overdue(r) == r.state = "ringing" /\ now >= r.started + RingTimeout

Signal == {"incoming", "accepted", "declined", "ended"}
Frame == [signal: Signal, state: CallState, seconds: Nat]
FrameOf(s, r) == [signal |-> s, state |-> r.state, seconds |-> Duration(r)]

-----------------------------------------------------------------------------
(* Processes.                                                               *)

Proc == Worker \cup {Sweeper}
Pc == {"idle", "gate", "insert", "provision", "expire", "check", "update",
       "mint", "act", "close", "announce"}
Op == {"none", "create", "read", "active", "accept", "decline", "hangup", "token",
       "left", "finished", "expire", "cap", "reconcile"}
\* user and peer are the actor and, for a create, the callee; seen is the Call
\* instance the handler holds; at is the instant it will write.
Work == [pc: Pc, op: Op, user: User \cup {Nobody}, peer: User \cup {Nobody},
         call: Call \cup {NoCall}, seen: Row, at: Time]
Idle == [pc |-> "idle", op |-> "none", user |-> Nobody, peer |-> Nobody,
         call |-> NoCall, seen |-> NoRow, at |-> Never]

Phase == {"idle", "expire", "cap", "poll"}
Sweep == [phase: Phase, at: Time, todo: SUBSET Call, accepted: SUBSET Call]
NoSweep == [phase |-> "idle", at |-> Never, todo |-> {}, accepted |-> {}]

Hook == [call: Call, op: {"left", "finished"}, ts: Nat]

At(p, pc) == work[p].pc = pc
Become(p, w) == work' = [work EXCEPT ![p] = w]
Finish(p) == Become(p, Idle)
Goto(p, pc) == Become(p, [work[p] EXCEPT !.pc = pc])
Tell(c, frames) == told' = [told EXCEPT ![c] = @ \o frames]

-----------------------------------------------------------------------------
Init ==
    /\ now = 0
    /\ row = [c \in Call |-> NoRow]
    /\ work = [p \in Proc |-> Idle]
    /\ sweep = NoSweep
    /\ told = [c \in Call |-> <<>>]
    /\ tokens = [c \in Call |-> {}]
    /\ inRoom = [c \in Call |-> {}]
    /\ hooks = {}

Tick ==
    /\ now < MaxTime
    /\ now' = now + 1
    /\ UNCHANGED <<row, work, sweep, told, tokens, inRoom, hooks>>

-----------------------------------------------------------------------------
(* _terminate: the one write that ends a call, conditional on the state it  *)
(* leaves.  The winner announces; the loser re-reads the row and goes on    *)
(* to "elsewhere".                                                          *)

Terminated(r, state, reason, at) ==
    [r EXCEPT !.state = state, !.reason = reason, !.ended = at]

Terminate(p, state, reason, fromStates, at, elsewhere) ==
    LET c == work[p].call IN
    \/ /\ row[c].state \in fromStates
       /\ row' = [row EXCEPT ![c] = Terminated(row[c], state, reason, at)]
       /\ Become(p, [work[p] EXCEPT !.pc = "announce",
                       !.seen = Terminated(work[p].seen, state, reason, at)])
    \/ /\ row[c].state \notin fromStates
       /\ Become(p, IF elsewhere = "idle" THEN Idle
                    ELSE [work[p] EXCEPT !.pc = elsewhere, !.seen = row[c]])
       /\ UNCHANGED row

\* _announce_ended (and decline's own frame before it) from the in-memory instance.
Announce(p) ==
    /\ At(p, "announce")
    /\ LET w == work[p]
           ended == <<FrameOf("ended", w.seen)>>
       IN Tell(w.call, IF w.seen.state = "declined"
                         THEN <<FrameOf("declined", w.seen)>> \o ended ELSE ended)
    /\ Finish(p)
    /\ UNCHANGED <<now, row, sweep, tokens, inRoom, hooks>>

-----------------------------------------------------------------------------
(* create_call.                                                             *)

\* The request arrives, names another person and the authorizer lets it through.
BeginCreate(p, u, v) ==
    /\ At(p, "idle")
    /\ u # v
    /\ Become(p, [Idle EXCEPT !.pc = "gate", !.op = "create", !.user = u, !.peer = v])
    /\ UNCHANGED <<now, row, sweep, told, tokens, inRoom, hooks>>

\* _refuse_if_busy: any live row of either person refuses the call.
Gate(p) ==
    /\ At(p, "gate")
    /\ IF LiveCallsOf({work[p].user, work[p].peer}) # {} THEN Finish(p) ELSE Goto(p, "insert")
    /\ UNCHANGED <<now, row, sweep, told, tokens, inRoom, hooks>>

\* The two partial unique constraints: one live row per caller, one per callee.
ConstraintsAllow(u, v) ==
    \A d \in Call : IsLive(row[d]) => row[d].caller # u /\ row[d].callee # v

Insert(p, c) ==
    /\ At(p, "insert")
    /\ row[c].state = "none"
    /\ LET w == work[p]
           new == [NoRow EXCEPT !.state = "ringing", !.caller = w.user,
                                !.callee = w.peer, !.started = now]
       IN \/ /\ ConstraintsAllow(w.user, w.peer)
             /\ row' = [row EXCEPT ![c] = new]
             /\ Become(p, [w EXCEPT !.pc = "provision", !.call = c, !.seen = new])
          \/ /\ ~ConstraintsAllow(w.user, w.peer)
             /\ Finish(p)
             /\ UNCHANGED row
    /\ UNCHANGED <<now, sweep, told, tokens, inRoom, hooks>>

\* _provision_room and _mint succeed, then _ring: the callee's frame goes out.
Ring(p) ==
    /\ At(p, "provision")
    /\ Tell(work[p].call, <<FrameOf("incoming", work[p].seen)>>)
    /\ tokens' = [tokens EXCEPT ![work[p].call] = @ \cup {work[p].user}]
    /\ Finish(p)
    /\ UNCHANGED <<now, row, sweep, inRoom, hooks>>

\* The provider refuses the room or the grant: _fail, from any live state.
Fail(p) ==
    /\ At(p, "provision")
    /\ LET c == work[p].call IN
       IF row[c].state \in LiveStates
         THEN row' = [row EXCEPT ![c] = Terminated(row[c], "failed", "provider_error", now)]
         ELSE UNCHANGED row
    /\ Finish(p)
    /\ UNCHANGED <<now, sweep, told, tokens, inRoom, hooks>>

-----------------------------------------------------------------------------
(* The requests of a party.  get_call reads the row; accept and decline are *)
(* the callee's alone.                                                      *)

Resolve(p, u, c, op) ==
    /\ At(p, "idle")
    /\ u \in Party(row[c])
    /\ op \in {"accept", "decline"} => u = row[c].callee
    /\ Become(p, [Idle EXCEPT !.pc = "expire", !.op = op, !.user = u,
                              !.call = c, !.seen = row[c]])
    /\ UNCHANGED <<now, row, sweep, told, tokens, inRoom, hooks>>

\* active_call_for: the newest live call of this person.
ReadActive(p, u, c) ==
    /\ At(p, "idle")
    /\ c \in LiveCallsOf({u})
    /\ \A d \in LiveCallsOf({u}) : row[d].started <= row[c].started
    /\ Become(p, [Idle EXCEPT !.pc = "expire", !.op = "active", !.user = u,
                              !.call = c, !.seen = row[c]])
    /\ UNCHANGED <<now, row, sweep, told, tokens, inRoom, hooks>>

AfterExpire(op) ==
    CASE op = "accept" -> "check"
      [] op \in {"decline", "hangup"} -> "act"
      [] op = "token" -> "mint"
      [] OTHER -> "idle"

\* Mutant of ExpireOnRead: the expiry is not conditional on the row still ringing.
ExpireOnReadAnyLive(p) ==
    /\ At(p, "expire")
    /\ p # Sweeper
    /\ LET w == work[p]
           next == AfterExpire(w.op)
       IN IF Overdue(w.seen)
            THEN Terminate(p, "missed", "ring_timeout", LiveStates, now, next)
            ELSE /\ IF next = "idle" THEN Finish(p) ELSE Goto(p, next)
                 /\ UNCHANGED row
    /\ UNCHANGED <<now, sweep, told, tokens, inRoom, hooks>>

\* _expire_if_overdue on the instance in hand.  When it moved the row the call is
\* missed, so whatever was asked is refused once the end has been announced.
ExpireOnRead(p) ==
    /\ At(p, "expire")
    /\ p # Sweeper
    /\ LET w == work[p]
           next == AfterExpire(w.op)
       IN IF Overdue(w.seen)
            THEN Terminate(p, "missed", "ring_timeout", {"ringing"}, now, next)
            ELSE /\ IF next = "idle" THEN Finish(p) ELSE Goto(p, next)
                 /\ UNCHANGED row
    /\ UNCHANGED <<now, sweep, told, tokens, inRoom, hooks>>

-----------------------------------------------------------------------------
(* accept_call.                                                             *)

\* Mutant of Rivals: the gate forgets that a party may be the callee elsewhere.
RivalsAsCaller(c) ==
    {d \in Call : IsLive(row[d]) /\ row[d].caller \in Party(row[c])} \ {c}

\* Re-run the gate over every OTHER live call of the two parties.
Rivals(c) == LiveCallsOf(Party(row[c])) \ {c}

\* Mutant of AcceptCheck: the gate is not re-run.
AcceptCheckNoGate(p) ==
    /\ At(p, "check")
    /\ IF work[p].seen.state # "ringing"
         THEN Finish(p)
         ELSE Become(p, [work[p] EXCEPT !.pc = "update", !.at = now])
    /\ UNCHANGED <<now, row, sweep, told, tokens, inRoom, hooks>>

AcceptCheck(p) ==
    /\ At(p, "check")
    /\ IF work[p].seen.state # "ringing" \/ Rivals(work[p].call) # {}
         THEN Finish(p)
         ELSE Become(p, [work[p] EXCEPT !.pc = "update", !.at = now])
    /\ UNCHANGED <<now, row, sweep, told, tokens, inRoom, hooks>>

\* Mutant of AcceptUpdate: save() in place of the conditional UPDATE.
AcceptUpdateAlways(p) ==
    /\ At(p, "update")
    /\ LET w == work[p] IN
       /\ row' = [row EXCEPT ![w.call].state = "accepted", ![w.call].answered = w.at]
       /\ Become(p, [w EXCEPT !.pc = "mint", !.seen.state = "accepted",
                              !.seen.answered = w.at])
    /\ UNCHANGED <<now, sweep, told, tokens, inRoom, hooks>>

\* The conditional UPDATE ringing -> accepted, and the commit.
AcceptUpdate(p) ==
    /\ At(p, "update")
    /\ LET w == work[p] IN
       IF row[w.call].state = "ringing"
         THEN /\ row' = [row EXCEPT ![w.call].state = "accepted", ![w.call].answered = w.at]
              /\ Become(p, [w EXCEPT !.pc = "mint", !.seen.state = "accepted",
                                     !.seen.answered = w.at])
         ELSE Finish(p) /\ UNCHANGED row
    /\ UNCHANGED <<now, sweep, told, tokens, inRoom, hooks>>

\* The callee's token is minted and the caller is told ...
AcceptTell(p) ==
    /\ At(p, "mint") /\ work[p].op = "accept"
    /\ Tell(work[p].call, <<FrameOf("accepted", work[p].seen)>>)
    /\ tokens' = [tokens EXCEPT ![work[p].call] = @ \cup {work[p].user}]
    /\ Finish(p)
    /\ UNCHANGED <<now, row, sweep, inRoom, hooks>>

\* ... or the provider raises, the view does not catch it, and nobody is told.
AcceptMintFails(p) ==
    /\ At(p, "mint") /\ work[p].op = "accept"
    /\ Finish(p)
    /\ UNCHANGED <<now, row, sweep, told, tokens, inRoom, hooks>>

-----------------------------------------------------------------------------
(* decline_call, hangup_call, CallTokenView.                                *)

\* Mutant of Decline: conditional on the party, not on the state it leaves.
DeclineAny(p) ==
    /\ At(p, "act") /\ work[p].op = "decline"
    /\ Terminate(p, "declined", "declined", CallState, now, "idle")
    /\ UNCHANGED <<now, sweep, told, tokens, inRoom, hooks>>

Decline(p) ==
    /\ At(p, "act") /\ work[p].op = "decline"
    /\ Terminate(p, "declined", "declined", {"ringing"}, now, "idle")
    /\ UNCHANGED <<now, sweep, told, tokens, inRoom, hooks>>

\* Mutant of Hangup: a second hangup ends the call, and announces it, again.
HangupAgain(p) ==
    /\ At(p, "act") /\ work[p].op = "hangup"
    /\ Terminate(p, "ended", "hangup", LiveStates \cup {"ended"}, now, "idle")
    /\ UNCHANGED <<now, sweep, told, tokens, inRoom, hooks>>

Hangup(p) ==
    /\ At(p, "act") /\ work[p].op = "hangup"
    /\ Terminate(p, "ended", "hangup", LiveStates, now, "idle")
    /\ UNCHANGED <<now, sweep, told, tokens, inRoom, hooks>>

\* Live calls only, as far as the instance in hand knows.
MintToken(p) ==
    /\ At(p, "mint") /\ work[p].op = "token"
    /\ LET w == work[p] IN
       IF IsLive(w.seen)
         THEN tokens' = [tokens EXCEPT ![w.call] = @ \cup {w.user}]
         ELSE UNCHANGED tokens
    /\ Finish(p)
    /\ UNCHANGED <<now, row, sweep, told, inRoom, hooks>>

-----------------------------------------------------------------------------
(* close_from_room: the webhooks and the sweeper look the live row up by    *)
(* room name, then end it.                                                  *)

ReasonOf(op) ==
    CASE op = "left" -> "remote_left"
      [] op = "finished" -> "room_finished"
      [] op = "cap" -> "max_duration"
      [] op = "reconcile" -> "reconciled"

LookUp(p, c, op, at) ==
    /\ At(p, "idle")
    /\ IF IsLive(row[c])
         THEN Become(p, [Idle EXCEPT !.pc = "close", !.op = op, !.call = c,
                                     !.seen = row[c], !.at = at])
         ELSE UNCHANGED work

\* Mutant of Close: the end is taken from the lookup, not from the UPDATE.
CloseLookedUp(p) ==
    /\ At(p, "close")
    /\ Terminate(p, "ended", ReasonOf(work[p].op), CallState, work[p].at, "idle")
    /\ UNCHANGED <<now, sweep, told, tokens, inRoom, hooks>>

Close(p) ==
    /\ At(p, "close")
    /\ Terminate(p, "ended", ReasonOf(work[p].op), LiveStates, work[p].at, "idle")
    /\ UNCHANGED <<now, sweep, told, tokens, inRoom, hooks>>

\* handle_participant_left (after the meter) and handle_room_finished.
Webhook(p, h) ==
    /\ LookUp(p, h.call, h.op, h.ts)
    /\ UNCHANGED <<now, row, sweep, told, tokens, inRoom, hooks>>

-----------------------------------------------------------------------------
(* sweep_calls: expire what is overdue, list what is accepted, cap what is  *)
(* too long, poll the rosters of what had time to connect.                  *)

Sweeping(phase) == sweep.phase = phase /\ At(Sweeper, "idle")
Enter(phase, todo) == sweep' = [sweep EXCEPT !.phase = phase, !.todo = todo]
Tackle(c) == sweep' = [sweep EXCEPT !.todo = @ \ {c}]
\* Mutant of AnsweredFor: an answered call is taken at once, whatever its age.
AnsweredAtAll(c, age) == row[c].answered <= sweep.at
AnsweredFor(c, age) == row[c].answered + age <= sweep.at

\* Mutant of SweepStart: rings are left to expire when somebody reads them.
SweepStartNoRings ==
    /\ Sweeping("idle")
    /\ sweep' = [phase |-> "expire", at |-> now, accepted |-> {}, todo |-> {}]
    /\ UNCHANGED <<now, row, work, told, tokens, inRoom, hooks>>

SweepStart ==
    /\ Sweeping("idle")
    /\ sweep' = [phase |-> "expire", at |-> now, accepted |-> {},
                 todo |-> {c \in Call : Overdue(row[c])}]
    /\ UNCHANGED <<now, row, work, told, tokens, inRoom, hooks>>

SweepExpire(c) ==
    /\ Sweeping("expire") /\ c \in sweep.todo
    /\ Tackle(c)
    /\ Become(Sweeper, [Idle EXCEPT !.pc = "expire", !.op = "expire", !.call = c,
                                    !.seen = row[c]])
    /\ UNCHANGED <<now, row, told, tokens, inRoom, hooks>>

\* Mutant of SweepExpireWrite: the listed ring is expired even if answered meanwhile.
SweepExpireAnyLive ==
    /\ At(Sweeper, "expire")
    /\ Terminate(Sweeper, "missed", "ring_timeout", LiveStates, now, "idle")
    /\ UNCHANGED <<now, sweep, told, tokens, inRoom, hooks>>

SweepExpireWrite ==
    /\ At(Sweeper, "expire")
    /\ Terminate(Sweeper, "missed", "ring_timeout", {"ringing"}, now, "idle")
    /\ UNCHANGED <<now, sweep, told, tokens, inRoom, hooks>>

\* Mutant of SweepList: no cap on the length of a call.
SweepListNoCap ==
    /\ Sweeping("expire") /\ sweep.todo = {}
    /\ LET accepted == {c \in Call : row[c].state = "accepted"} IN
       sweep' = [sweep EXCEPT !.phase = "cap", !.accepted = accepted, !.todo = {}]
    /\ UNCHANGED <<now, row, work, told, tokens, inRoom, hooks>>

SweepList ==
    /\ Sweeping("expire") /\ sweep.todo = {}
    /\ LET accepted == {c \in Call : row[c].state = "accepted"} IN
       sweep' = [sweep EXCEPT !.phase = "cap", !.accepted = accepted,
                              !.todo = {c \in accepted : AnsweredFor(c, MaxDuration)}]
    /\ UNCHANGED <<now, row, work, told, tokens, inRoom, hooks>>

SweepCap(c) ==
    /\ Sweeping("cap") /\ c \in sweep.todo
    /\ Tackle(c)
    /\ LookUp(Sweeper, c, "cap", sweep.at)
    /\ UNCHANGED <<now, row, told, tokens, inRoom, hooks>>

SweepSelect ==
    /\ Sweeping("cap") /\ sweep.todo = {}
    /\ Enter("poll", {c \in sweep.accepted : AnsweredFor(c, ConnectGrace)})
    /\ UNCHANGED <<now, row, work, told, tokens, inRoom, hooks>>

\* The roster is readable: fewer than two connections ends the call.
SweepPoll(c) ==
    /\ Sweeping("poll") /\ c \in sweep.todo
    /\ Tackle(c)
    /\ IF Cardinality(inRoom[c]) < 2
         THEN LookUp(Sweeper, c, "reconcile", sweep.at)
         ELSE UNCHANGED work
    /\ UNCHANGED <<now, row, told, tokens, inRoom, hooks>>

\* The provider could not read this room; the next pass asks again.
SweepSkip(c) ==
    /\ Sweeping("poll") /\ c \in sweep.todo
    /\ Tackle(c)
    /\ UNCHANGED <<now, row, work, told, tokens, inRoom, hooks>>

\* The pass is over, or the provider cannot list participants at all.
SweepEnd ==
    /\ Sweeping("poll")
    /\ sweep' = NoSweep
    /\ UNCHANGED <<now, row, work, told, tokens, inRoom, hooks>>

-----------------------------------------------------------------------------
\* A worker is killed, or the beat process restarts, between two statements.
Crash(p) ==
    /\ ~At(p, "idle") \/ (p = Sweeper /\ sweep.phase # "idle")
    /\ Finish(p)
    /\ sweep' = IF p = Sweeper THEN NoSweep ELSE sweep
    /\ UNCHANGED <<now, row, told, tokens, inRoom, hooks>>

-----------------------------------------------------------------------------
(* The media server: who is in the room, and the events it emits (or loses).*)

Emit(h) == hooks' = hooks \/ (Cardinality(hooks) < MaxHooks /\ hooks' = hooks \cup {h})

Connect(u, c) ==
    /\ u \in tokens[c] \ inRoom[c]
    /\ inRoom' = [inRoom EXCEPT ![c] = @ \cup {u}]
    /\ UNCHANGED <<callVars, hooks>>

Disconnect(u, c) ==
    /\ u \in inRoom[c]
    /\ inRoom' = [inRoom EXCEPT ![c] = @ \ {u}]
    /\ Emit([call |-> c, op |-> "left", ts |-> now])
    /\ UNCHANGED callVars

\* Once provisioned, a room that stays empty is closed.
RoomFinishes(c) ==
    /\ row[c].state # "none" /\ inRoom[c] = {}
    /\ \A p \in Worker : ~(At(p, "provision") /\ work[p].call = c)
    /\ Emit([call |-> c, op |-> "finished", ts |-> now])
    /\ UNCHANGED <<callVars, inRoom>>

-----------------------------------------------------------------------------
Request(p) ==
    \/ \E u, v \in User : BeginCreate(p, u, v)
    \/ \E u \in User, c \in Call, op \in Asked \ {"active"} : Resolve(p, u, c, op)
    \/ "active" \in Asked /\ \E u \in User, c \in Call : ReadActive(p, u, c)
    \/ \E h \in hooks : Webhook(p, h)

Handle(p) ==
    \/ Gate(p) \/ Ring(p) \/ Fail(p)
    \/ \E c \in Call : Insert(p, c)
    \/ ExpireOnRead(p)
    \/ AcceptCheck(p) \/ AcceptUpdate(p) \/ AcceptTell(p) \/ AcceptMintFails(p)
    \/ Decline(p) \/ Hangup(p) \/ MintToken(p)

SweepStep ==
    \/ SweepStart \/ SweepExpireWrite \/ SweepList \/ SweepSelect \/ SweepEnd
    \/ \E c \in Call : SweepExpire(c) \/ SweepCap(c) \/ SweepPoll(c) \/ SweepSkip(c)

Serve == \E p \in Worker : Request(p) \/ Handle(p)
Finishing == \E p \in Proc : Close(p) \/ Announce(p)
Media ==
    \/ \E u \in User, c \in Call : Connect(u, c) \/ Disconnect(u, c)
    \/ \E c \in Call : RoomFinishes(c)

Next == Tick \/ Serve \/ Finishing \/ SweepStep \/ Media \/ (\E p \in Proc : Crash(p))

Spec == Init /\ [][Next]_vars

\* The beat schedule: time passes and a pass that has begun goes on.
SweepFairness == WF_vars(Tick) /\ WF_vars(SweepStep \/ Close(Sweeper) \/ Announce(Sweeper))

-----------------------------------------------------------------------------
(* Properties.                                                              *)

\* Every variable holds a value of its type.
TypeOK ==
    /\ now \in Nat
    /\ row \in [Call -> Row]
    /\ work \in [Proc -> Work]
    /\ sweep \in Sweep
    /\ told \in [Call -> Seq(Frame)]
    /\ tokens \in [Call -> SUBSET User]
    /\ inRoom \in [Call -> SUBSET User]
    /\ hooks \subseteq Hook

Answered(c) == row[c].state = "accepted"
Conflict(c, d) == c # d /\ Party(row[c]) \cap Party(row[d]) # {}

\* accept_call's promise: two rings may exist, but nobody is ever in two answered
\* calls, although its check and its UPDATE are two statements.
AtMostOneAnswered == \A c, d \in Call : Answered(c) /\ Answered(d) => ~Conflict(c, d)

\* A call that was missed or declined was never answered; and a call is missed only
\* once its ring has run out, whoever of the reader and the sweeper noticed.
UnansweredMeansUnanswered ==
    \A c \in Call : row[c].state \in {"missed", "declined"} =>
        /\ row[c].answered = Never
        /\ row[c].state = "missed" => row[c].ended >= row[c].started + RingTimeout

\* The sweeper ends an answered call only when the connect grace (the cap) has passed
\* since the answer, with the instant of its pass as the end.
SweeperWaits ==
    \A c \in Call :
        /\ row[c].reason = "reconciled" =>
              Never < row[c].answered /\ row[c].answered + ConnectGrace <= row[c].ended
        /\ row[c].reason = "max_duration" =>
              Never < row[c].answered /\ row[c].answered + MaxDuration <= row[c].ended

Frames(c, s) == {i \in DOMAIN told[c] : told[c][i].signal = s}

\* However many witnesses report the end, the parties hear of it at most once, and what
\* they hear is the state the row has.
EndAnnouncedOnce ==
    \A c \in Call :
        /\ Cardinality(Frames(c, "ended")) <= 1
        /\ \A i \in Frames(c, "ended") : told[c][i].state = row[c].state

\* A terminal state is the last write to the row: no later witness restates the end.
ClosedIsFinal ==
    [][\A c \in Call : row[c].state \in TerminalStates => row'[c] = row[c]]_vars

\* A worker that holds a ring past accept's check is the only one that may answer among
\* the calls its parties are in.
Cleared(c) ==
    \/ Answered(c)
    \/ row[c].state = "ringing" /\ \E p \in Worker : At(p, "update") /\ work[p].call = c

\* The strengthening that makes AtMostOneAnswered inductive.
ClearedExcludes == \A c, d \in Call : Cleared(c) /\ Cleared(d) => ~Conflict(c, d)

\* What a process in flight holds: a call that has a row, an actor, a reason to close.
Holding(w) ==
    /\ w.pc \notin {"idle", "gate", "insert"} => w.call \in Call /\ row[w.call].state # "none"
    /\ w.pc \in {"gate", "insert"} => {w.user, w.peer} \subseteq User /\ w.user # w.peer
    /\ w.op \in {"create", "accept", "token"} => w.user \in User
    /\ w.pc \in {"gate", "insert", "provision"} => w.op = "create"
    /\ w.pc = "close" => w.op \in {"left", "finished", "cap", "reconcile"}

\* Every process holds what it needs, a row not yet inserted is blank, and the sweep
\* works on rows.
InFlight ==
    /\ \A p \in Proc : Holding(work[p])
    /\ \A c \in Call : row[c].state = "none" => row[c] = NoRow
    /\ \A c \in sweep.todo \cup sweep.accepted : row[c].state # "none"

IInv == TypeOK /\ InFlight /\ ClearedExcludes

\* The refinement mapping: what a Call row stands for in CallLedger.
phase == [c \in Call |-> CASE row[c].state = "none" -> "unborn"
                            [] row[c].state = "accepted" -> "answered"
                            [] OTHER -> row[c].state]
parties == [c \in Call |-> Party(row[c]) \ {Nobody}]

Ledger == INSTANCE CallLedger WITH User <- User, Call <- Call, phase <- phase, parties <- parties

\* The code's calls behave as the abstract ones: rung once, answered at most once and
\* exclusively, closed once with a fitting outcome.
LedgerSpec == Ledger!Spec

\* With the sweep scheduled, no ring outlives its deadline for ever, whatever requests
\* crash (for the rings that start early enough to expire before the clock stops).
RingEnds ==
    \A c \in Call :
        (row[c].state = "ringing" /\ row[c].started + RingTimeout <= MaxTime)
            ~> row[c].state # "ringing"

\* With the sweep scheduled, an answered call that nobody hangs up and no webhook ends is
\* still ended, even if no roster can ever be read.
AnsweredEnds ==
    \A c \in Call :
        (Answered(c) /\ row[c].answered + MaxDuration <= MaxTime) ~> ~Answered(c)
=============================================================================
