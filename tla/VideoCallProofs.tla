-------------------------- MODULE VideoCallProofs --------------------------
(***************************************************************************)
(* Safety of VideoCall for every value of its constants: types and what a  *)
(* process in flight holds, then what a step can do to the Call table, and *)
(* from it the finality of a closed call, the exclusion of answered calls, *)
(* and that the lifecycle implements CallLedger. Then how a call ends. A   *)
(* missed call's ring had run out, and the sweep ended only answered calls *)
(* old enough: both are decided on a read (an instance in hand, a list     *)
(* made at the start of a pass) and written later, so the invariant        *)
(* carries what each read established up to the write. Last, that the end  *)
(* is announced once: a process that wins the conditional UPDATE announces *)
(* later, from its own instance, so the invariant is about the             *)
(* announcement that is owed: one process owes it, the row it is about is  *)
(* closed the way the process believes, and nobody has been told yet.      *)
(***************************************************************************)
EXTENDS VideoCall, FiniteSetTheorems, TLAPS

-----------------------------------------------------------------------------
(* Types.                                                                   *)

LEMMA WorkType ==
    ASSUME TypeOK, NEW p \in Proc, NEW w \in Work, Become(p, w)
    PROVE  work' \in [Proc -> Work]
  BY DEF TypeOK, Become

LEMMA IdleType == Idle \in Work /\ NoRow \in Row
  BY DEF Idle, NoRow, Work, Pc, Op, Row, CallState, CallEndReason, Time, Never

LEMMA FrameType ==
    ASSUME NEW r \in Row, NEW s \in Signal
    PROVE  FrameOf(s, r) \in Frame
  BY DEF Row, Signal, Frame, FrameOf, Duration, Time, Never

LEMMA TerminatedType ==
    ASSUME NEW r \in Row, NEW s \in TerminalStates, NEW reason \in CallEndReason,
           NEW at \in Time
    PROVE  Terminated(r, s, reason, at) \in Row
  BY DEF Row, Terminated, CallState, TerminalStates

LEMMA TellType ==
    ASSUME TypeOK, NEW c \in Call, NEW frames \in Seq(Frame), Tell(c, frames)
    PROVE  told' \in [Call -> Seq(Frame)]
  BY DEF TypeOK, Tell

LEMMA TerminateType ==
    ASSUME TypeOK, NEW p \in Proc, work[p].call \in Call,
           NEW s \in TerminalStates, NEW reason \in CallEndReason, NEW from,
           NEW at \in Time, NEW elsewhere \in Pc,
           Terminate(p, s, reason, from, at, elsewhere)
    PROVE  row' \in [Call -> Row] /\ work' \in [Proc -> Work]
<1> DEFINE w == work[p]
           c == w.call
<1>1. w \in Work /\ w.seen \in Row /\ row[c] \in Row
  BY DEF TypeOK, Work
<1>2. /\ Terminated(row[c], s, reason, at) \in Row
      /\ Terminated(w.seen, s, reason, at) \in Row
  BY <1>1, TerminatedType
<1>3. CASE row[c].state \in from
  <2>1. [w EXCEPT !.pc = "announce", !.seen = Terminated(w.seen, s, reason, at)] \in Work
    BY <1>1, <1>2 DEF Work, Pc
  <2>2. QED
    BY <1>2, <1>3, <2>1 DEF Terminate, Become, TypeOK
<1>4. CASE row[c].state \notin from
  <2>1. [w EXCEPT !.pc = elsewhere, !.seen = row[c]] \in Work
    BY <1>1 DEF Work
  <2>2. QED
    BY <1>4, <2>1, IdleType DEF Terminate, Become, TypeOK
<1>5. QED
  BY <1>3, <1>4

-----------------------------------------------------------------------------
(* Types and holdings are an inductive invariant.                           *)

Inv0 == TypeOK /\ InFlight

RowsStay == \A c \in Call : row[c].state # "none" => row'[c].state # "none"

\* When only p changes, p is well held afterwards and no row disappears, all are.
LEMMA HoldingStep ==
    ASSUME Inv0, NEW p \in Proc, \A q \in Proc : q # p => work'[q] = work[q],
           Holding(work[p])', RowsStay
    PROVE  \A q \in Proc : Holding(work[q])'
<1>1. SUFFICES ASSUME NEW q \in Proc, q # p PROVE Holding(work[q])'
  OBVIOUS
<1>2. Holding(work[q]) /\ work'[q] = work[q]
  BY <1>1 DEF Inv0, InFlight
<1>3. QED
  BY <1>2 DEF Holding, RowsStay

LEMMA TerminateHolding ==
    ASSUME Inv0, NEW p \in Proc, work[p].call \in Call, row[work[p].call].state # "none",
           NEW s \in TerminalStates, NEW reason \in CallEndReason, NEW from \in SUBSET LiveStates,
           NEW at \in Time, NEW elsewhere \in {"idle", "check", "act", "mint"},
           work[p].op \in {"create", "accept", "token"} => work[p].user \in User,
           Terminate(p, s, reason, from, at, elsewhere), UNCHANGED sweep
    PROVE  InFlight'
<1> DEFINE w == work[p]
           c == w.call
<1>1. w \in Work /\ row \in [Call -> Row] /\ work \in [Proc -> Work]
  BY DEF Inv0, TypeOK
<1>2. CASE row[c].state \in from
  <2>1. /\ row' = [row EXCEPT ![c] = Terminated(row[c], s, reason, at)]
        /\ work' = [work EXCEPT ![p] = [w EXCEPT !.pc = "announce",
                                          !.seen = Terminated(w.seen, s, reason, at)]]
    BY <1>2 DEF Terminate, Become, LiveStates
  <2>2. row'[c].state = s /\ s # "none" /\ \A d \in Call : d # c => row'[d] = row[d]
    BY <1>1, <2>1 DEF Terminated, TerminalStates, Row
  <2>3. RowsStay
    BY <2>2 DEF RowsStay
  <2>4. /\ work'[p].pc = "announce" /\ work'[p].op = w.op
        /\ work'[p].user = w.user /\ work'[p].call = c
        /\ \A q \in Proc : q # p => work'[q] = work[q]
    BY <1>1, <2>1 DEF Work
  <2>5. Holding(work[p])'
    BY <2>2, <2>4 DEF Holding
  <2>6. \A q \in Proc : Holding(work[q])'
    BY <2>3, <2>4, <2>5, HoldingStep
  <2>7. QED
    BY <2>2, <2>6 DEF Inv0, InFlight, TypeOK, Sweep
<1>3. CASE row[c].state \notin from
  <2>1. /\ row' = row
        /\ work' = [work EXCEPT ![p] = IF elsewhere = "idle" THEN Idle
                                       ELSE [w EXCEPT !.pc = elsewhere, !.seen = row[c]]]
    BY <1>3 DEF Terminate, Become
  <2>2. /\ work'[p] = IF elsewhere = "idle" THEN Idle
                      ELSE [w EXCEPT !.pc = elsewhere, !.seen = row[c]]
        /\ \A q \in Proc : q # p => work'[q] = work[q]
    BY <1>1, <2>1
  <2>3. Holding(work[p])'
    BY <1>1, <2>1, <2>2 DEF Holding, Idle, Work
  <2>4. RowsStay
    BY <2>1 DEF RowsStay
  <2>5. \A q \in Proc : Holding(work[q])'
    BY <2>2, <2>3, <2>4, HoldingStep
  <2>6. QED
    BY <2>1, <2>5 DEF Inv0, InFlight
<1>4. QED
  BY <1>2, <1>3

Born == {c \in Call : row[c].state # "none"}

\* A step that writes no row: p takes up w, which is well typed and well held.
LEMMA MoveOn ==
    ASSUME Inv0, NEW p \in Proc, NEW w \in Work, Become(p, w), Holding(w), UNCHANGED row,
           sweep' \in Sweep, sweep'.todo \cup sweep'.accepted \subseteq Born
    PROVE  work' \in [Proc -> Work] /\ InFlight'
<1>1. work' = [work EXCEPT ![p] = w] /\ work \in [Proc -> Work]
  BY DEF Become, Inv0, TypeOK
<1>2. work'[p] = w /\ \A q \in Proc : q # p => work'[q] = work[q]
  BY <1>1
<1>3. Holding(work[p])'
  BY <1>2 DEF Holding
<1>4. RowsStay
  BY DEF RowsStay
<1>5. \A q \in Proc : Holding(work[q])'
  BY <1>2, <1>3, <1>4, HoldingStep
<1>6. QED
  BY <1>1, <1>5 DEF Inv0, InFlight, Born

LEMMA FinishStep ==
    ASSUME Inv0, NEW p \in Proc, Finish(p), UNCHANGED row,
           sweep' \in Sweep, sweep'.todo \cup sweep'.accepted \subseteq Born
    PROVE  work' \in [Proc -> Work] /\ InFlight'
<1>1. Holding(Idle)
  BY DEF Holding, Idle
<1>2. QED
  BY <1>1, IdleType, MoveOn DEF Finish

\* The sweep is well typed and works on rows, so a step that leaves it alone keeps it so.
LEMMA SweepStays ==
    ASSUME Inv0, UNCHANGED sweep
    PROVE  sweep' \in Sweep /\ sweep'.todo \cup sweep'.accepted \subseteq Born
  BY DEF Inv0, TypeOK, InFlight, Sweep, Born

-----------------------------------------------------------------------------
(* One lemma per operation: it preserves Inv0.                              *)

LEMMA CreateInv0 ==
    ASSUME Inv0, ConstantsAssumption, NEW p \in Worker,
           \/ \E u, v \in User : BeginCreate(p, u, v)
           \/ Gate(p)
           \/ \E c \in Call : Insert(p, c)
           \/ Ring(p)
           \/ Fail(p)
    PROVE  Inv0'
<1> p \in Proc
  BY DEF Proc
<1>w. work[p] \in Work /\ Holding(work[p]) /\ row \in [Call -> Row] /\ work \in [Proc -> Work]
  BY DEF Inv0, TypeOK, InFlight
<1>1. CASE \E u, v \in User : BeginCreate(p, u, v)
  <2>1. PICK u \in User, v \in User : BeginCreate(p, u, v)
    BY <1>1
  <2> DEFINE w == [Idle EXCEPT !.pc = "gate", !.op = "create", !.user = u, !.peer = v]
  <2>2. w \in Work /\ Holding(w)
    BY <2>1, IdleType DEF Idle, Work, Pc, Op, Holding, BeginCreate
  <2>3. work' \in [Proc -> Work] /\ InFlight'
    BY <2>1, <2>2, MoveOn, SweepStays DEF BeginCreate
  <2>4. QED
    BY <2>1, <2>3 DEF Inv0, TypeOK, BeginCreate
<1>2. CASE Gate(p)
  <2> DEFINE w == [work[p] EXCEPT !.pc = "insert"]
  <2>1. w \in Work /\ (At(p, "gate") => Holding(w))
    BY <1>w DEF Work, Pc, Holding, At
  <2>2. work' \in [Proc -> Work] /\ InFlight'
    BY <1>2, <2>1, MoveOn, FinishStep, SweepStays DEF Gate, Goto
  <2>3. QED
    BY <1>2, <2>2 DEF Inv0, TypeOK, Gate
<1>3. CASE \E c \in Call : Insert(p, c)
  <2>1. PICK c \in Call : Insert(p, c)
    BY <1>3
  <2> DEFINE new == [NoRow EXCEPT !.state = "ringing", !.caller = work[p].user,
                                  !.callee = work[p].peer, !.started = now]
             w == [work[p] EXCEPT !.pc = "provision", !.call = c, !.seen = new]
  <2>2. CASE ~ConstraintsAllow(work[p].user, work[p].peer)
    <3>1. work' \in [Proc -> Work] /\ InFlight'
      BY <2>1, <2>2, FinishStep, SweepStays DEF Insert
    <3>2. QED
      BY <2>1, <2>2, <3>1 DEF Inv0, TypeOK, Insert
  <2>3. CASE ConstraintsAllow(work[p].user, work[p].peer)
    <3>1. new \in Row
      BY <1>w DEF Inv0, TypeOK, NoRow, Row, Work, CallState, LiveStates, CallEndReason, Time, Never
    <3>2. row' = [row EXCEPT ![c] = new] /\ Become(p, w) /\ At(p, "insert")
      BY <2>1, <2>3 DEF Insert
    <3>3. w \in Work
      BY <1>w, <3>1 DEF Work, Pc
    <3>4. work' \in [Proc -> Work] /\ row' \in [Call -> Row]
      BY <1>w, <3>1, <3>2, <3>3 DEF Become
    <3>5. row'[c].state = "ringing" /\ \A d \in Call : d # c => row'[d] = row[d]
      BY <1>w, <3>2 DEF NoRow
    <3>6. RowsStay
      BY <3>5 DEF RowsStay
    <3>7. /\ work'[p].pc = "provision" /\ work'[p].call = c /\ work'[p].op = work[p].op
          /\ work'[p].user = work[p].user /\ work'[p].peer = work[p].peer
          /\ \A q \in Proc : q # p => work'[q] = work[q]
      BY <1>w, <3>2 DEF Become, Work
    <3>8. work[p].op = "create"
      BY <2>1, <1>w DEF Holding, Insert, At
    <3>9. Holding(work[p])'
      BY <1>w, <3>5, <3>7, <3>8 DEF Holding
    <3>10. \A q \in Proc : Holding(work[q])'
      BY <3>6, <3>7, <3>9, HoldingStep
    <3>11. InFlight'
      BY <2>1, <3>5, <3>10 DEF Inv0, InFlight, Insert, TypeOK, Sweep
    <3>12. QED
      BY <2>1, <3>4, <3>11 DEF Inv0, TypeOK, Insert
  <2>4. QED
    BY <2>2, <2>3
<1>4. CASE Ring(p)
  <2>1. work[p].call \in Call /\ work[p].user \in User /\ work[p].seen \in Row
    BY <1>4, <1>w DEF Ring, At, Holding, Work
  <2>2. <<FrameOf("incoming", work[p].seen)>> \in Seq(Frame)
    BY <2>1, FrameType DEF Signal
  <2>3. told' \in [Call -> Seq(Frame)]
    BY <1>4, <2>1, <2>2, TellType DEF Ring, Inv0
  <2>4. tokens' \in [Call -> SUBSET User]
    BY <1>4, <2>1 DEF Ring, Inv0, TypeOK
  <2>5. work' \in [Proc -> Work] /\ InFlight'
    BY <1>4, FinishStep, SweepStays DEF Ring
  <2>6. QED
    BY <1>4, <2>3, <2>4, <2>5 DEF Inv0, TypeOK, Ring
<1>5. CASE Fail(p)
  <2> DEFINE c == work[p].call
  <2>1. c \in Call /\ row[c].state # "none" /\ row[c] \in Row
    BY <1>5, <1>w DEF Fail, At, Holding
  <2>2. CASE row[c].state \in LiveStates
    <3>1. row' = [row EXCEPT ![c] = Terminated(row[c], "failed", "provider_error", now)]
      BY <1>5, <2>2 DEF Fail
    <3>2. Terminated(row[c], "failed", "provider_error", now) \in Row
      BY <2>1, TerminatedType DEF Inv0, TypeOK, TerminalStates, CallEndReason, Time
    <3>3. row' \in [Call -> Row]
      BY <1>w, <3>1, <3>2
    <3>4. row'[c].state = "failed" /\ \A d \in Call : d # c => row'[d] = row[d]
      BY <1>w, <2>1, <3>1 DEF Terminated, Row
    <3>5. RowsStay
      BY <3>4 DEF RowsStay
    <3>6. work'[p] = Idle /\ work' \in [Proc -> Work] /\ \A q \in Proc : q # p => work'[q] = work[q]
      BY <1>5, <1>w, IdleType DEF Fail, Finish, Become
    <3>7. Holding(work[p])'
      BY <3>6 DEF Holding, Idle
    <3>8. \A q \in Proc : Holding(work[q])'
      BY <3>5, <3>6, <3>7, HoldingStep
    <3>9. InFlight'
      BY <1>5, <3>4, <3>8 DEF Inv0, InFlight, Fail, TypeOK, Sweep
    <3>10. QED
      BY <1>5, <3>3, <3>6, <3>9 DEF Inv0, TypeOK, Fail
  <2>3. CASE row[c].state \notin LiveStates
    <3>1. work' \in [Proc -> Work] /\ InFlight'
      BY <1>5, <2>3, FinishStep, SweepStays DEF Fail
    <3>2. QED
      BY <1>5, <2>3, <3>1 DEF Inv0, TypeOK, Fail
  <2>4. QED
    BY <2>2, <2>3
<1>6. QED
  BY <1>1, <1>2, <1>3, <1>4, <1>5

\* A conditional ending write, everything else left alone.
LEMMA TerminateInv0 ==
    ASSUME Inv0, NEW p \in Proc, work[p].call \in Call, row[work[p].call].state # "none",
           NEW s \in TerminalStates, NEW reason \in CallEndReason, NEW from \in SUBSET LiveStates,
           NEW at \in Time, NEW elsewhere \in {"idle", "check", "act", "mint"},
           work[p].op \in {"create", "accept", "token"} => work[p].user \in User,
           Terminate(p, s, reason, from, at, elsewhere),
           UNCHANGED <<now, sweep, told, tokens, inRoom, hooks>>
    PROVE  Inv0'
<1>1. row' \in [Call -> Row] /\ work' \in [Proc -> Work]
  BY TerminateType DEF Inv0, Pc
<1>2. InFlight'
  BY TerminateHolding
<1>3. QED
  BY <1>1, <1>2 DEF Inv0, TypeOK

LEMMA ReadInv0 ==
    ASSUME Inv0, ConstantsAssumption, NEW p \in Worker,
           \/ \E u \in User, c \in Call, op \in Asked \ {"active"} : Resolve(p, u, c, op)
           \/ \E u \in User, c \in Call : ReadActive(p, u, c)
           \/ ExpireOnRead(p)
    PROVE  Inv0'
<1> p \in Proc
  BY DEF Proc
<1>w. work[p] \in Work /\ Holding(work[p]) /\ row \in [Call -> Row] /\ work \in [Proc -> Work]
  BY DEF Inv0, TypeOK, InFlight
<1>1. CASE \E u \in User, c \in Call, op \in Asked \ {"active"} : Resolve(p, u, c, op)
  <2>1. PICK u \in User, c \in Call, op \in Asked \ {"active"} : Resolve(p, u, c, op)
    BY <1>1
  <2> DEFINE w == [Idle EXCEPT !.pc = "expire", !.op = op, !.user = u,
                               !.call = c, !.seen = row[c]]
  <2>2. row[c].state # "none"
    <3>1. SUFFICES ASSUME row[c].state = "none" PROVE FALSE
      OBVIOUS
    <3>2. row[c] = NoRow
      BY <3>1 DEF Inv0, InFlight
    <3>3. u \in {NoRow.caller, NoRow.callee}
      BY <2>1, <3>2 DEF Resolve, Party
    <3>4. QED
      BY <3>3, ConstantsAssumption DEF NoRow
  <2>3. op \in {"read", "accept", "decline", "hangup", "token"}
    BY ConstantsAssumption
  <2>4. w \in Work
    BY <1>w, <2>3, IdleType DEF Work, Pc, Op
  <2>5. Holding(w)
    BY <2>2, <2>3 DEF Idle, Holding
  <2>6. work' \in [Proc -> Work] /\ InFlight'
    BY <2>1, <2>4, <2>5, MoveOn, SweepStays DEF Resolve
  <2>7. QED
    BY <2>1, <2>6 DEF Inv0, TypeOK, Resolve
<1>2. CASE \E u \in User, c \in Call : ReadActive(p, u, c)
  <2>1. PICK u \in User, c \in Call : ReadActive(p, u, c)
    BY <1>2
  <2> DEFINE w == [Idle EXCEPT !.pc = "expire", !.op = "active", !.user = u,
                               !.call = c, !.seen = row[c]]
  <2>2. row[c].state # "none"
    BY <2>1 DEF ReadActive, LiveCallsOf, IsLive, LiveStates
  <2>3. w \in Work
    BY <1>w, IdleType DEF Work, Pc, Op
  <2>4. Holding(w)
    BY <2>2 DEF Idle, Holding
  <2>5. work' \in [Proc -> Work] /\ InFlight'
    BY <2>1, <2>3, <2>4, MoveOn, SweepStays DEF ReadActive
  <2>6. QED
    BY <2>1, <2>5 DEF Inv0, TypeOK, ReadActive
<1>3. CASE ExpireOnRead(p)
  <2> DEFINE next == AfterExpire(work[p].op)
  <2>1. /\ work[p].call \in Call /\ row[work[p].call].state # "none"
        /\ work[p].op \in {"create", "accept", "token"} => work[p].user \in User
    BY <1>3, <1>w DEF ExpireOnRead, At, Holding
  <2>2. next \in {"idle", "check", "act", "mint"}
    BY DEF AfterExpire
  <2>3. CASE Overdue(work[p].seen)
    <3>1. /\ Terminate(p, "missed", "ring_timeout", {"ringing"}, now, next)
          /\ UNCHANGED <<now, sweep, told, tokens, inRoom, hooks>>
      BY <1>3, <2>3 DEF ExpireOnRead
    <3>2. /\ "missed" \in TerminalStates /\ "ring_timeout" \in CallEndReason
          /\ {"ringing"} \in SUBSET LiveStates /\ now \in Time
      BY DEF TerminalStates, CallEndReason, LiveStates, Time, Inv0, TypeOK
    <3>3. QED
      BY <2>1, <2>2, <3>1, <3>2, TerminateInv0
  <2>4. CASE ~Overdue(work[p].seen) /\ next = "idle"
    <3>1. work' \in [Proc -> Work] /\ InFlight'
      BY <1>3, <2>4, FinishStep, SweepStays DEF ExpireOnRead
    <3>2. QED
      BY <1>3, <2>4, <3>1 DEF Inv0, TypeOK, ExpireOnRead
  <2>5. CASE ~Overdue(work[p].seen) /\ next # "idle"
    <3> DEFINE w == [work[p] EXCEPT !.pc = next]
    <3>1. w \in Work
      BY <1>w, <2>2 DEF Work, Pc
    <3>2. Holding(w)
      BY <1>w, <2>1, <2>2, <2>5 DEF Holding, Work
    <3>3. work' \in [Proc -> Work] /\ InFlight'
      BY <1>3, <2>5, <3>1, <3>2, MoveOn, SweepStays DEF ExpireOnRead, Goto
    <3>4. QED
      BY <1>3, <2>5, <3>3 DEF Inv0, TypeOK, ExpireOnRead
  <2>6. QED
    BY <2>3, <2>4, <2>5
<1>4. QED
  BY <1>1, <1>2, <1>3

LEMMA AcceptInv0 ==
    ASSUME Inv0, ConstantsAssumption, NEW p \in Worker,
           AcceptCheck(p) \/ AcceptUpdate(p) \/ AcceptTell(p) \/ AcceptMintFails(p)
    PROVE  Inv0'
<1> p \in Proc
  BY DEF Proc
<1>w. work[p] \in Work /\ Holding(work[p]) /\ row \in [Call -> Row] /\ work \in [Proc -> Work]
  BY DEF Inv0, TypeOK, InFlight
<1>1. CASE AcceptCheck(p)
  <2> DEFINE w == [work[p] EXCEPT !.pc = "update", !.at = now]
  <2>1. w \in Work
    BY <1>w DEF Work, Pc, Time, Inv0, TypeOK
  <2>2. Holding(w)
    BY <1>1, <1>w DEF Holding, Work, AcceptCheck, At
  <2>3. work' \in [Proc -> Work] /\ InFlight'
    BY <1>1, <2>1, <2>2, MoveOn, FinishStep, SweepStays DEF AcceptCheck
  <2>4. QED
    BY <1>1, <2>3 DEF Inv0, TypeOK, AcceptCheck
<1>2. CASE AcceptUpdate(p)
  <2> DEFINE c == work[p].call
  <2>1. c \in Call /\ row[c] \in Row /\ At(p, "update")
    BY <1>2, <1>w DEF AcceptUpdate, At, Holding
  <2>2. CASE row[c].state # "ringing"
    <3>1. work' \in [Proc -> Work] /\ InFlight'
      BY <1>2, <2>2, FinishStep, SweepStays DEF AcceptUpdate
    <3>2. QED
      BY <1>2, <2>2, <3>1 DEF Inv0, TypeOK, AcceptUpdate
  <2>3. CASE row[c].state = "ringing"
    <3> DEFINE new == [row[c] EXCEPT !.state = "accepted", !.answered = work[p].at]
               w == [work[p] EXCEPT !.pc = "mint", !.seen.state = "accepted",
                                    !.seen.answered = work[p].at]
    <3>1. new \in Row
      BY <1>w, <2>1 DEF Work, Row, CallState, LiveStates
    <3>2. work[p].seen \in Row /\ [work[p].seen EXCEPT !.state = "accepted",
                                                       !.answered = work[p].at] \in Row
      BY <1>w DEF Work, Row, CallState, LiveStates
    <3>3. w \in Work
      BY <1>w, <3>2 DEF Work, Pc
    <3>4. row' = [row EXCEPT ![c] = new] /\ Become(p, w)
      BY <1>2, <1>w, <2>1, <2>3 DEF AcceptUpdate
    <3>5. row' \in [Call -> Row] /\ work' \in [Proc -> Work]
      BY <1>w, <3>1, <3>3, <3>4 DEF Become
    <3>6. row'[c].state = "accepted" /\ \A d \in Call : d # c => row'[d] = row[d]
      BY <1>w, <2>1, <3>4 DEF Row
    <3>7. RowsStay
      BY <3>6 DEF RowsStay
    <3>8. /\ work'[p].pc = "mint" /\ work'[p].call = c /\ work'[p].op = work[p].op
          /\ work'[p].user = work[p].user
          /\ \A q \in Proc : q # p => work'[q] = work[q]
      BY <1>w, <3>4 DEF Become, Work
    <3>9. Holding(work[p])'
      BY <1>w, <2>1, <3>6, <3>8 DEF Holding
    <3>10. \A q \in Proc : Holding(work[q])'
      BY <3>7, <3>8, <3>9, HoldingStep
    <3>11. InFlight'
      BY <1>2, <3>6, <3>10 DEF Inv0, InFlight, AcceptUpdate, TypeOK, Sweep
    <3>12. QED
      BY <1>2, <3>5, <3>11 DEF Inv0, TypeOK, AcceptUpdate
  <2>4. QED
    BY <2>2, <2>3
<1>3. CASE AcceptTell(p)
  <2>1. work[p].call \in Call /\ work[p].user \in User /\ work[p].seen \in Row
    BY <1>3, <1>w DEF AcceptTell, At, Holding, Work
  <2>2. <<FrameOf("accepted", work[p].seen)>> \in Seq(Frame)
    BY <2>1, FrameType DEF Signal
  <2>3. told' \in [Call -> Seq(Frame)]
    BY <1>3, <2>1, <2>2, TellType DEF AcceptTell, Inv0
  <2>4. tokens' \in [Call -> SUBSET User]
    BY <1>3, <2>1 DEF AcceptTell, Inv0, TypeOK
  <2>5. work' \in [Proc -> Work] /\ InFlight'
    BY <1>3, FinishStep, SweepStays DEF AcceptTell
  <2>6. QED
    BY <1>3, <2>3, <2>4, <2>5 DEF Inv0, TypeOK, AcceptTell
<1>4. CASE AcceptMintFails(p)
  <2>1. work' \in [Proc -> Work] /\ InFlight'
    BY <1>4, FinishStep, SweepStays DEF AcceptMintFails
  <2>2. QED
    BY <1>4, <2>1 DEF Inv0, TypeOK, AcceptMintFails
<1>5. QED
  BY <1>1, <1>2, <1>3, <1>4

LEMMA EndingInv0 ==
    ASSUME Inv0, NEW p \in Proc,
           Decline(p) \/ Hangup(p) \/ MintToken(p) \/ Close(p) \/ Announce(p)
    PROVE  Inv0'
<1>w. work[p] \in Work /\ Holding(work[p]) /\ row \in [Call -> Row] /\ work \in [Proc -> Work]
  BY DEF Inv0, TypeOK, InFlight
<1>h. /\ work[p].pc \in {"act", "close", "announce", "mint"}
      /\ work[p].call \in Call /\ row[work[p].call].state # "none"
      /\ work[p].op \in {"create", "accept", "token"} => work[p].user \in User
  BY <1>w DEF Decline, Hangup, MintToken, Close, Announce, At, Holding
<1>t. /\ "idle" \in {"idle", "check", "act", "mint"} /\ {"declined", "ended"} \subseteq TerminalStates
      /\ {"declined", "hangup"} \subseteq CallEndReason
      /\ {"ringing"} \in SUBSET LiveStates /\ LiveStates \in SUBSET LiveStates
      /\ now \in Time /\ work[p].at \in Time
  BY <1>w DEF TerminalStates, CallEndReason, LiveStates, Time, Inv0, TypeOK, Work
<1>1. CASE Decline(p)
  <2>1. /\ Terminate(p, "declined", "declined", {"ringing"}, now, "idle")
        /\ UNCHANGED <<now, sweep, told, tokens, inRoom, hooks>>
    BY <1>1 DEF Decline
  <2>2. QED
    BY <2>1, <1>h, <1>t, TerminateInv0
<1>2. CASE Hangup(p)
  <2>1. /\ Terminate(p, "ended", "hangup", LiveStates, now, "idle")
        /\ UNCHANGED <<now, sweep, told, tokens, inRoom, hooks>>
    BY <1>2 DEF Hangup
  <2>2. QED
    BY <2>1, <1>h, <1>t, TerminateInv0
<1>3. CASE MintToken(p)
  <2>1. work[p].user \in User
    BY <1>3, <1>h DEF MintToken
  <2>2. \/ tokens' = tokens
        \/ tokens' = [tokens EXCEPT ![work[p].call] = @ \cup {work[p].user}]
    BY <1>3 DEF MintToken
  <2>3. tokens' \in [Call -> SUBSET User]
    <3>1. tokens \in [Call -> SUBSET User] /\ work[p].call \in Call
      BY <1>h DEF Inv0, TypeOK
    <3>2. QED
      BY <2>1, <2>2, <3>1
  <2>4. work' \in [Proc -> Work] /\ InFlight'
    BY <1>3, FinishStep, SweepStays DEF MintToken
  <2>5. QED
    BY <1>3, <2>3, <2>4 DEF Inv0, TypeOK, MintToken
<1>4. CASE Close(p)
  <2>1. /\ Terminate(p, "ended", ReasonOf(work[p].op), LiveStates, work[p].at, "idle")
        /\ UNCHANGED <<now, sweep, told, tokens, inRoom, hooks>>
    BY <1>4 DEF Close
  <2>2. ReasonOf(work[p].op) \in CallEndReason
    BY <1>4, <1>w DEF Close, At, Holding, ReasonOf, CallEndReason
  <2>3. QED
    BY <2>1, <2>2, <1>h, <1>t, TerminateInv0
<1>5. CASE Announce(p)
  <2> DEFINE seen == work[p].seen
             ended == <<FrameOf("ended", seen)>>
             frames == IF seen.state = "declined"
                         THEN <<FrameOf("declined", seen)>> \o ended ELSE ended
  <2>1. FrameOf("ended", seen) \in Frame /\ FrameOf("declined", seen) \in Frame
    BY <1>w, FrameType DEF Work, Signal
  <2>2. frames \in Seq(Frame)
    BY <2>1
  <2>3. told' \in [Call -> Seq(Frame)]
    BY <1>5, <1>h, <2>2, TellType DEF Announce, Inv0
  <2>4. work' \in [Proc -> Work] /\ InFlight'
    BY <1>5, FinishStep, SweepStays DEF Announce
  <2>5. QED
    BY <1>5, <2>3, <2>4 DEF Inv0, TypeOK, Announce
<1>6. QED
  BY <1>1, <1>2, <1>3, <1>4, <1>5

LEMMA LookUpInv0 ==
    ASSUME Inv0, NEW p \in Proc, NEW c \in Call,
           NEW op \in {"left", "finished", "cap", "reconcile"}, NEW at \in Time,
           LookUp(p, c, op, at), UNCHANGED <<now, row, told, tokens, inRoom, hooks>>,
           sweep' \in Sweep, sweep'.todo \cup sweep'.accepted \subseteq Born
    PROVE  Inv0'
<1> DEFINE w == [Idle EXCEPT !.pc = "close", !.op = op, !.call = c,
                             !.seen = row[c], !.at = at]
<1>1. CASE IsLive(row[c])
  <2>1. w \in Work
    BY IdleType DEF Work, Pc, Op, Inv0, TypeOK
  <2>2. Holding(w)
    BY <1>1 DEF Idle, Holding, IsLive, LiveStates
  <2>3. Become(p, w)
    BY <1>1 DEF LookUp
  <2>4. work' \in [Proc -> Work] /\ InFlight'
    BY <2>1, <2>2, <2>3, MoveOn
  <2>5. QED
    BY <2>4 DEF Inv0, TypeOK
<1>2. CASE ~IsLive(row[c])
  <2>1. work' = work
    BY <1>2 DEF LookUp
  <2>2. QED
    BY <2>1 DEF Inv0, TypeOK, InFlight, Holding, Born
<1>3. QED
  BY <1>1, <1>2

\* A step of the sweep that only moves it on.
LEMMA SweepMoves ==
    ASSUME Inv0, UNCHANGED <<now, row, work, told, tokens, inRoom, hooks>>,
           sweep' \in Sweep, sweep'.todo \cup sweep'.accepted \subseteq Born
    PROVE  Inv0'
  BY DEF Inv0, TypeOK, InFlight, Holding, Born

LEMMA TackleType ==
    ASSUME Inv0, NEW c \in Call, Tackle(c)
    PROVE  sweep' \in Sweep /\ sweep'.todo \cup sweep'.accepted \subseteq Born
  BY DEF Inv0, TypeOK, InFlight, Tackle, Sweep, Born

LEMMA SweepInv0 ==
    ASSUME Inv0, SweepStep
    PROVE  Inv0'
<1> Sweeper \in Proc
  BY DEF Proc
<1>w. /\ work[Sweeper] \in Work /\ Holding(work[Sweeper]) /\ work \in [Proc -> Work]
      /\ row \in [Call -> Row] /\ sweep \in Sweep /\ now \in Time /\ sweep.at \in Time
  BY DEF Inv0, TypeOK, InFlight, Sweep, Time
<1>1. CASE SweepStart
  <2>1. \A c \in Call : Overdue(row[c]) => c \in Born
    BY DEF Overdue, Born
  <2>2. sweep' \in Sweep /\ sweep'.todo \cup sweep'.accepted \subseteq Born
    BY <1>1, <1>w, <2>1 DEF SweepStart, Sweep, Phase
  <2>3. QED
    BY <1>1, <2>2, SweepMoves DEF SweepStart
<1>2. CASE SweepExpireWrite
  <2>1. work[Sweeper].call \in Call /\ row[work[Sweeper].call].state # "none"
        /\ (work[Sweeper].op \in {"create", "accept", "token"} => work[Sweeper].user \in User)
    BY <1>2, <1>w DEF SweepExpireWrite, At, Holding
  <2>2. /\ Terminate(Sweeper, "missed", "ring_timeout", {"ringing"}, now, "idle")
        /\ UNCHANGED <<now, sweep, told, tokens, inRoom, hooks>>
    BY <1>2 DEF SweepExpireWrite
  <2>3. /\ "missed" \in TerminalStates /\ "ring_timeout" \in CallEndReason
        /\ {"ringing"} \in SUBSET LiveStates /\ "idle" \in {"idle", "check", "act", "mint"}
    BY DEF TerminalStates, CallEndReason, LiveStates
  <2>4. QED
    BY <1>w, <2>1, <2>2, <2>3, TerminateInv0
<1>3. CASE SweepList
  <2>1. \A c \in Call : row[c].state = "accepted" => c \in Born
    BY DEF Born
  <2>2. sweep' \in Sweep /\ sweep'.todo \cup sweep'.accepted \subseteq Born
    BY <1>3, <1>w, <2>1 DEF SweepList, Sweep, Phase
  <2>3. QED
    BY <1>3, <2>2, SweepMoves DEF SweepList
<1>4. CASE SweepSelect
  <2>1. sweep.accepted \subseteq Born
    BY DEF Inv0, InFlight, TypeOK, Sweep, Born
  <2>2. sweep' \in Sweep /\ sweep'.todo \cup sweep'.accepted \subseteq Born
    BY <1>4, <1>w, <2>1 DEF SweepSelect, Enter, Sweep, Phase
  <2>3. QED
    BY <1>4, <2>2, SweepMoves DEF SweepSelect
<1>5. CASE SweepEnd
  <2>1. sweep' \in Sweep /\ sweep'.todo \cup sweep'.accepted \subseteq Born
    BY <1>5 DEF SweepEnd, NoSweep, Sweep, Phase, Time
  <2>2. QED
    BY <1>5, <2>1, SweepMoves DEF SweepEnd
<1>6. CASE \E c \in Call : SweepExpire(c)
  <2>1. PICK c \in Call : SweepExpire(c)
    BY <1>6
  <2> DEFINE w == [Idle EXCEPT !.pc = "expire", !.op = "expire", !.call = c, !.seen = row[c]]
  <2>2. w \in Work
    BY <1>w, IdleType DEF Work, Pc, Op
  <2>3. row[c].state # "none"
    BY <2>1 DEF SweepExpire, Inv0, InFlight
  <2>4. Holding(w)
    BY <2>3 DEF Idle, Holding
  <2>5. sweep' \in Sweep /\ sweep'.todo \cup sweep'.accepted \subseteq Born
    BY <2>1, TackleType DEF SweepExpire
  <2>6. work' \in [Proc -> Work] /\ InFlight'
    BY <2>1, <2>2, <2>4, <2>5, MoveOn DEF SweepExpire
  <2>7. QED
    BY <2>1, <2>5, <2>6 DEF Inv0, TypeOK, SweepExpire
<1>7. CASE \E c \in Call : SweepCap(c) \/ SweepPoll(c) \/ SweepSkip(c)
  <2>1. PICK c \in Call : SweepCap(c) \/ SweepPoll(c) \/ SweepSkip(c)
    BY <1>7
  <2>2. sweep' \in Sweep /\ sweep'.todo \cup sweep'.accepted \subseteq Born
    BY <2>1, TackleType DEF SweepCap, SweepPoll, SweepSkip
  <2>3. UNCHANGED <<now, row, told, tokens, inRoom, hooks>>
    BY <2>1 DEF SweepCap, SweepPoll, SweepSkip
  <2>4. \/ LookUp(Sweeper, c, "cap", sweep.at) \/ LookUp(Sweeper, c, "reconcile", sweep.at)
        \/ UNCHANGED work
    BY <2>1 DEF SweepCap, SweepPoll, SweepSkip
  <2>5. QED
    BY <1>w, <2>2, <2>3, <2>4, LookUpInv0, SweepMoves
<1>8. QED
  BY <1>1, <1>2, <1>3, <1>4, <1>5, <1>6, <1>7 DEF SweepStep

LEMMA CrashInv0 ==
    ASSUME Inv0, NEW p \in Proc, Crash(p)
    PROVE  Inv0'
<1>1. sweep' \in Sweep /\ sweep'.todo \cup sweep'.accepted \subseteq Born
  BY SweepStays DEF Crash, NoSweep, Sweep, Phase, Time
<1>2. work' \in [Proc -> Work] /\ InFlight'
  BY <1>1, FinishStep DEF Crash
<1>3. QED
  BY <1>1, <1>2 DEF Inv0, TypeOK, Crash

LEMMA MediaInv0 ==
    ASSUME Inv0, Media \/ Tick
    PROVE  Inv0'
<1>1. UNCHANGED <<row, work, sweep, told, tokens>>
  BY DEF Media, Tick, Connect, Disconnect, RoomFinishes, callVars
<1>2. now' \in Nat
  <2>1. now \in Nat
    BY DEF Inv0, TypeOK
  <2>2. now' = now \/ now' = now + 1
    BY DEF Media, Tick, Connect, Disconnect, RoomFinishes, callVars
  <2>3. QED
    BY <2>1, <2>2
<1>3. inRoom' \in [Call -> SUBSET User]
  <2>1. inRoom \in [Call -> SUBSET User]
    BY DEF Inv0, TypeOK
  <2>2. CASE \E u \in User, c \in Call : Connect(u, c) \/ Disconnect(u, c)
    <3>1. PICK u \in User, c \in Call : Connect(u, c) \/ Disconnect(u, c)
      BY <2>2
    <3>2. \/ inRoom' = [inRoom EXCEPT ![c] = @ \cup {u}]
          \/ inRoom' = [inRoom EXCEPT ![c] = @ \ {u}]
      BY <3>1 DEF Connect, Disconnect
    <3>3. QED
      BY <2>1, <3>2
  <2>3. CASE UNCHANGED inRoom
    BY <2>1, <2>3
  <2>4. QED
    BY <2>2, <2>3 DEF Media, Tick, RoomFinishes
<1>4. hooks' \subseteq Hook
  BY DEF Media, Tick, Connect, Disconnect, RoomFinishes, Emit, Hook, Inv0, TypeOK
<1>5. QED
  BY <1>1, <1>2, <1>3, <1>4 DEF Inv0, TypeOK, InFlight, Holding

-----------------------------------------------------------------------------
LEMMA Inv0Init ==
    ASSUME ConstantsAssumption, Init
    PROVE  Inv0
<1>1. TypeOK
  BY IdleType DEF Init, TypeOK, NoSweep, Sweep, Phase, Time
<1>2. InFlight
  BY DEF Init, InFlight, Holding, Idle, NoSweep
<1>3. QED
  BY <1>1, <1>2 DEF Inv0

LEMMA Inv0Next ==
    ASSUME ConstantsAssumption, Inv0, [Next]_vars
    PROVE  Inv0'
<1>1. CASE Tick \/ Media
  BY <1>1, MediaInv0
<1>2. CASE \E p \in Worker : Request(p) \/ Handle(p)
  <2>1. PICK p \in Worker : Request(p) \/ Handle(p)
    BY <1>2
  <2> p \in Proc
    BY DEF Proc
  <2>2. CASE \E h \in hooks : Webhook(p, h)
    <3>1. PICK h \in hooks : Webhook(p, h)
      BY <2>2
    <3>2. h.call \in Call /\ h.op \in {"left", "finished"} /\ h.ts \in Time
      BY DEF Inv0, TypeOK, Hook, Time
    <3>3. QED
      BY <3>1, <3>2, LookUpInv0, SweepStays DEF Webhook
  <2>3. CASE \/ \E u, v \in User : BeginCreate(p, u, v)
             \/ Gate(p) \/ Ring(p) \/ Fail(p)
             \/ \E c \in Call : Insert(p, c)
    BY <2>3, CreateInv0
  <2>4. CASE \/ \E u \in User, c \in Call, op \in Asked \ {"active"} : Resolve(p, u, c, op)
             \/ \E u \in User, c \in Call : ReadActive(p, u, c)
             \/ ExpireOnRead(p)
    BY <2>4, ReadInv0
  <2>5. CASE AcceptCheck(p) \/ AcceptUpdate(p) \/ AcceptTell(p) \/ AcceptMintFails(p)
    BY <2>5, AcceptInv0
  <2>6. CASE Decline(p) \/ Hangup(p) \/ MintToken(p)
    BY <2>6, EndingInv0
  <2>7. QED
    BY <2>1, <2>2, <2>3, <2>4, <2>5, <2>6 DEF Request, Handle
<1>3. CASE Finishing
  BY <1>3, EndingInv0 DEF Finishing
<1>4. CASE SweepStep
  BY <1>4, SweepInv0
<1>5. CASE \E p \in Proc : Crash(p)
  BY <1>5, CrashInv0
<1>6. CASE UNCHANGED vars
  BY <1>6 DEF vars, Inv0, TypeOK, InFlight, Holding
<1>7. QED
  BY <1>1, <1>2, <1>3, <1>4, <1>5, <1>6 DEF Next, Serve

\* Every variable keeps its type and every process in flight holds what it needs.
THEOREM Typed == Spec => []Inv0
<1>1. Init => Inv0
  BY Inv0Init, ConstantsAssumption
<1>2. Inv0 /\ [Next]_vars => Inv0'
  BY Inv0Next, ConstantsAssumption
<1>3. QED
  BY <1>1, <1>2, PTL DEF Spec

\* Type correctness of the call lifecycle: every row, instance in hand, frame and sweep
\* is what the code's types say, whatever requests, webhooks and crashes interleave.
THEOREM TypeCorrect == Spec => []TypeOK
<1>1. Inv0 => TypeOK
  BY DEF Inv0
<1>2. QED
  BY <1>1, Typed, PTL

-----------------------------------------------------------------------------
(* The three writes to the table.                                           *)

Opens(c, u, v) ==
    /\ row[c].state = "none"
    /\ u # v
    /\ row' = [row EXCEPT ![c] = [NoRow EXCEPT !.state = "ringing", !.caller = u,
                                               !.callee = v, !.started = now]]

Answers(c) ==
    /\ row[c].state = "ringing"
    /\ \E p \in Worker :
          /\ At(p, "update") /\ work[p].call = c
          /\ row' = [row EXCEPT ![c].state = "accepted", ![c].answered = work[p].at]

Ends(c, s) ==
    /\ row[c].state \in IF s \in {"missed", "declined"} THEN {"ringing"} ELSE LiveStates
    /\ \E reason \in CallEndReason, at \in Time :
          row' = [row EXCEPT ![c] = Terminated(row[c], s, reason, at)]

RowStep ==
    \/ UNCHANGED row
    \/ \E c \in Call, u, v \in User : Opens(c, u, v)
    \/ \E c \in Call : Answers(c)
    \/ \E c \in Call, s \in TerminalStates : Ends(c, s)

LEMMA TerminateRowStep ==
    ASSUME NEW p \in Proc, work[p].call \in Call, NEW s \in TerminalStates,
           NEW reason \in CallEndReason, NEW at \in Time, NEW elsewhere,
           NEW from \in SUBSET LiveStates, s \in {"missed", "declined"} => from = {"ringing"},
           Terminate(p, s, reason, from, at, elsewhere)
    PROVE  RowStep
<1>1. CASE row[work[p].call].state \in from
  <2>1. Ends(work[p].call, s)
    BY <1>1 DEF Terminate, Ends
  <2>2. QED
    BY <2>1 DEF RowStep
<1>2. CASE row[work[p].call].state \notin from
  BY <1>2 DEF Terminate, RowStep
<1>3. QED
  BY <1>1, <1>2

\* Every step of the lifecycle makes at most one of the three writes, to one row.
LEMMA RowSteps ==
    ASSUME Inv0, [Next]_vars
    PROVE  RowStep
<1>w. \A p \in Proc : work[p] \in Work /\ Holding(work[p])
  BY DEF Inv0, TypeOK, InFlight
<1>t. /\ {"missed", "declined", "ended", "failed"} = TerminalStates /\ {"ringing"} \subseteq LiveStates
      /\ {"hangup", "declined", "ring_timeout", "provider_error"} \subseteq CallEndReason
      /\ now \in Time
  BY DEF TerminalStates, LiveStates, CallEndReason, Time, Inv0, TypeOK
<1>1. CASE Tick \/ Media \/ (\E p \in Proc : Crash(p)) \/ UNCHANGED vars
  BY <1>1 DEF RowStep, Tick, Media, Crash, Connect, Disconnect, RoomFinishes, callVars, vars
<1>2. CASE \E p \in Proc : Close(p) \/ Announce(p)
  <2>1. PICK p \in Proc : Close(p) \/ Announce(p)
    BY <1>2
  <2>2. CASE Announce(p)
    BY <2>2 DEF Announce, RowStep
  <2>3. CASE Close(p)
    <3>1. work[p].call \in Call /\ work[p].at \in Time /\ ReasonOf(work[p].op) \in CallEndReason
      BY <2>3, <1>w DEF Close, At, Holding, ReasonOf, CallEndReason, Work
    <3>2. Terminate(p, "ended", ReasonOf(work[p].op), LiveStates, work[p].at, "idle")
      BY <2>3 DEF Close
    <3>3. QED
      BY <3>1, <3>2, <1>t, TerminateRowStep
  <2>4. QED
    BY <2>1, <2>2, <2>3
<1>3. CASE SweepStep
  <2>1. CASE SweepExpireWrite
    <3>1. Sweeper \in Proc /\ work[Sweeper].call \in Call
      BY <2>1, <1>w DEF Proc, SweepExpireWrite, At, Holding
    <3>2. Terminate(Sweeper, "missed", "ring_timeout", {"ringing"}, now, "idle")
      BY <2>1 DEF SweepExpireWrite
    <3>3. QED
      BY <3>1, <3>2, <1>t, TerminateRowStep
  <2>2. CASE ~SweepExpireWrite
    BY <1>3, <2>2 DEF SweepStep, SweepStart, SweepList, SweepSelect, SweepEnd, SweepExpire,
                      SweepCap, SweepPoll, SweepSkip, RowStep
  <2>3. QED
    BY <2>1, <2>2
<1>4. CASE \E p \in Worker : Request(p) \/ Handle(p)
  <2>1. PICK p \in Worker : Request(p) \/ Handle(p)
    BY <1>4
  <2> p \in Proc
    BY DEF Proc
  <2>2. CASE Request(p) \/ Gate(p) \/ Ring(p) \/ AcceptCheck(p) \/ AcceptTell(p)
             \/ AcceptMintFails(p) \/ MintToken(p)
    BY <2>2 DEF Request, BeginCreate, Resolve, ReadActive, Webhook, Gate, Ring, AcceptCheck,
                AcceptTell, AcceptMintFails, MintToken, RowStep
  <2>3. CASE Fail(p)
    <3>1. work[p].call \in Call
      BY <2>3, <1>w DEF Fail, At, Holding
    <3>2. UNCHANGED row \/ Ends(work[p].call, "failed")
      BY <2>3, <3>1, <1>t DEF Fail, Ends
    <3>3. QED
      BY <3>1, <3>2, <1>t DEF RowStep
  <2>4. CASE \E c \in Call : Insert(p, c)
    <3>1. PICK c \in Call : Insert(p, c)
      BY <2>4
    <3>2. work[p].user \in User /\ work[p].peer \in User /\ work[p].user # work[p].peer
      BY <3>1, <1>w DEF Insert, At, Holding
    <3>3. UNCHANGED row \/ Opens(c, work[p].user, work[p].peer)
      BY <3>1, <3>2 DEF Insert, Opens
    <3>4. QED
      BY <3>2, <3>3 DEF RowStep
  <2>5. CASE AcceptUpdate(p)
    <3>1. work[p].call \in Call
      BY <2>5, <1>w DEF AcceptUpdate, At, Holding
    <3>2. UNCHANGED row \/ Answers(work[p].call)
      BY <2>5 DEF AcceptUpdate, Answers
    <3>3. QED
      BY <3>1, <3>2 DEF RowStep
  <2>6. CASE ExpireOnRead(p)
    <3>1. work[p].call \in Call
      BY <2>6, <1>w DEF ExpireOnRead, At, Holding
    <3>2. UNCHANGED row \/ Terminate(p, "missed", "ring_timeout", {"ringing"}, now, AfterExpire(work[p].op))
      BY <2>6 DEF ExpireOnRead
    <3>3. QED
      BY <3>1, <3>2, <1>t, TerminateRowStep DEF RowStep
  <2>7. CASE Decline(p) \/ Hangup(p)
    <3>1. work[p].call \in Call
      BY <2>7, <1>w DEF Decline, Hangup, At, Holding
    <3>2. \/ Terminate(p, "declined", "declined", {"ringing"}, now, "idle")
          \/ Terminate(p, "ended", "hangup", LiveStates, now, "idle")
      BY <2>7 DEF Decline, Hangup
    <3>3. QED
      BY <3>1, <3>2, <1>t, TerminateRowStep
  <2>8. QED
    BY <2>1, <2>2, <2>3, <2>4, <2>5, <2>6, <2>7 DEF Handle
<1>5. QED
  BY <1>1, <1>2, <1>3, <1>4 DEF Next, Serve, Finishing

-----------------------------------------------------------------------------
\* A call that was closed is never written again: of all the witnesses of an end (a
\* hangup, a decline, a ring timeout, two webhooks, the sweep, a provider error) the first
\* one's instant and reason stand.
THEOREM Finality == Spec => ClosedIsFinal
<1>1. Inv0 /\ [Next]_vars =>
        [\A c \in Call : row[c].state \in TerminalStates => row'[c] = row[c]]_vars
  <2> SUFFICES ASSUME Inv0, [Next]_vars, NEW c \in Call, row[c].state \in TerminalStates
               PROVE  row'[c] = row[c]
    OBVIOUS
  <2>1. row \in [Call -> Row] /\ row[c].state \notin LiveStates \cup {"none"}
    BY DEF Inv0, TypeOK, TerminalStates, LiveStates
  <2>2. RowStep
    BY RowSteps
  <2>3. QED
    BY <2>1, <2>2 DEF RowStep, Opens, Answers, Ends, LiveStates
<1>2. QED
  BY <1>1, Typed, PTL DEF Spec, ClosedIsFinal

-----------------------------------------------------------------------------
(* Exclusion.                                                               *)

\* A row keeps its parties from the moment it is inserted.
LEMMA PartiesKept ==
    ASSUME Inv0, RowStep, NEW c \in Call, row[c].state # "none"
    PROVE  row'[c].state # "none" /\ row'[c].caller = row[c].caller
           /\ row'[c].callee = row[c].callee /\ row'[c].started = row[c].started
<1>1. row \in [Call -> Row] /\ row[c] \in Row
  BY DEF Inv0, TypeOK
<1>2. CASE row'[c] = row[c]
  BY <1>2
<1>3. CASE Answers(c)
  BY <1>1, <1>3 DEF Answers, Row
<1>4. CASE \E s \in TerminalStates : Ends(c, s)
  BY <1>1, <1>4 DEF Ends, Terminated, TerminalStates, Row
<1>5. QED
  BY <1>1, <1>2, <1>3, <1>4 DEF RowStep, Opens, Answers, Ends

\* Nobody but accept's check comes to stand before accept's UPDATE.
LEMMA UpdateSteps ==
    ASSUME Inv0, [Next]_vars, NEW p \in Worker, work'[p].pc = "update"
    PROVE  \/ work'[p] = work[p]
           \/ /\ UNCHANGED row /\ work'[p].call = work[p].call
              /\ work[p].seen.state = "ringing" /\ Rivals(work[p].call) = {}
<1>w. work \in [Proc -> Work] /\ work[p] \in Work /\ p \in Proc /\ Idle.pc = "idle"
  BY DEF Inv0, TypeOK, Proc, Idle
<1> DEFINE Elsewhere(q, w) == w.pc # "update" /\ Become(q, w)
<1>q. \A q \in Proc : \A w : Elsewhere(q, w) => work'[p] = work[p]
  BY <1>w DEF Become
<1>f. \A q \in Proc : Finish(q) => work'[p] = work[p]
  BY <1>w DEF Finish, Become
<1>t. \A q \in Proc : \A s, reason, from, at, elsewhere :
        elsewhere # "update" /\ Terminate(q, s, reason, from, at, elsewhere) => work'[p] = work[p]
  <2> SUFFICES ASSUME NEW q \in Proc, NEW s, NEW reason, NEW from, NEW at, NEW elsewhere,
                      elsewhere # "update", Terminate(q, s, reason, from, at, elsewhere)
               PROVE  work'[p] = work[p]
    OBVIOUS
  <2>1. work[q] \in Work
    BY <1>w
  <2>2. QED
    BY <1>w, <2>1 DEF Terminate, Become, Work
<1>1. CASE Tick \/ Media \/ UNCHANGED vars
  BY <1>1 DEF Tick, Media, Connect, Disconnect, RoomFinishes, callVars, vars
<1>2. CASE \E q \in Proc : Crash(q) \/ Announce(q) \/ Close(q)
  <2>1. PICK q \in Proc : Crash(q) \/ Announce(q) \/ Close(q)
    BY <1>2
  <2>2. QED
    BY <2>1, <1>f, <1>t DEF Crash, Announce, Close
<1>3. CASE SweepStep
  <2>1. Sweeper \in Proc
    BY DEF Proc
  <2>2. \A c, op, at : LookUp(Sweeper, c, op, at) => work'[p] = work[p]
    BY <1>w, <2>1 DEF LookUp, Become, Idle
  <2>3. \A c : SweepExpire(c) => work'[p] = work[p]
    BY <1>w, <2>1 DEF SweepExpire, Become, Idle
  <2>4. QED
    BY <1>3, <1>t, <2>1, <2>2, <2>3 DEF SweepStep, SweepStart, SweepExpireWrite, SweepList,
       SweepSelect, SweepEnd, SweepCap, SweepPoll, SweepSkip
<1>4. CASE \E q \in Worker : Request(q) \/ Handle(q)
  <2>1. PICK q \in Worker : Request(q) \/ Handle(q)
    BY <1>4
  <2>p. q \in Proc /\ work[q] \in Work
    BY <1>w DEF Proc
  <2>2. CASE Request(q)
    <3>1. CASE \E u, v \in User : BeginCreate(q, u, v)
      BY <1>q, <2>p, <3>1 DEF BeginCreate, Idle
    <3>2. CASE \E u \in User, c \in Call, op \in Asked : Resolve(q, u, c, op)
      BY <1>q, <2>p, <3>2 DEF Resolve, Idle
    <3>3. CASE \E u \in User, c \in Call : ReadActive(q, u, c)
      BY <1>q, <2>p, <3>3 DEF ReadActive, Idle
    <3>4. CASE \E h \in hooks : Webhook(q, h)
      BY <1>q, <2>p, <3>4 DEF Webhook, LookUp, Idle
    <3>5. QED
      BY <2>2, <3>1, <3>2, <3>3, <3>4 DEF Request
  <2>3. CASE Gate(q) \/ Ring(q) \/ Fail(q) \/ AcceptTell(q) \/ AcceptMintFails(q) \/ MintToken(q)
    <3>1. Finish(q) \/ Become(q, [work[q] EXCEPT !.pc = "insert"])
      BY <2>3 DEF Gate, Goto, Ring, Fail, AcceptTell, AcceptMintFails, MintToken
    <3>2. QED
      BY <1>f, <1>q, <2>p, <3>1 DEF Work
  <2>4. CASE \E c \in Call : Insert(q, c)
    <3>1. PICK c \in Call : Insert(q, c)
      BY <2>4
    <3> DEFINE new == [NoRow EXCEPT !.state = "ringing", !.caller = work[q].user,
                                    !.callee = work[q].peer, !.started = now]
    <3>2. Finish(q) \/ Become(q, [work[q] EXCEPT !.pc = "provision", !.call = c, !.seen = new])
      BY <3>1 DEF Insert
    <3>3. QED
      BY <1>f, <1>q, <2>p, <3>2 DEF Work
  <2>5. CASE ExpireOnRead(q)
    <3>1. AfterExpire(work[q].op) # "update"
      BY DEF AfterExpire
    <3>2. QED
      BY <1>w, <1>f, <1>t, <2>p, <2>5, <3>1 DEF ExpireOnRead, Goto, Become, Work
  <2>6. CASE AcceptUpdate(q)
    <3> DEFINE w == [work[q] EXCEPT !.pc = "mint", !.seen.state = "accepted",
                                    !.seen.answered = work[q].at]
    <3>1. Finish(q) \/ Become(q, w)
      BY <2>6 DEF AcceptUpdate
    <3>2. w.pc = "mint"
      BY <2>p DEF Work
    <3>3. QED
      BY <1>f, <1>q, <2>p, <3>1, <3>2
  <2>7. CASE Decline(q) \/ Hangup(q)
    BY <1>t, <2>p, <2>7 DEF Decline, Hangup
  <2>8. CASE AcceptCheck(q)
    <3>1. CASE Finish(q)
      BY <1>f, <2>p, <3>1
    <3>2. CASE work[q].seen.state = "ringing" /\ Rivals(work[q].call) = {}
      <4>1. work' = [work EXCEPT ![q] = [work[q] EXCEPT !.pc = "update", !.at = now]]
            /\ UNCHANGED row
        BY <2>8, <3>2 DEF AcceptCheck, Become
      <4>2. CASE q = p
        BY <1>w, <2>p, <3>2, <4>1, <4>2 DEF Work
      <4>3. CASE q # p
        BY <1>w, <2>p, <4>1, <4>3
      <4>4. QED
        BY <4>2, <4>3
    <3>3. QED
      BY <2>8, <3>1, <3>2 DEF AcceptCheck
  <2>9. QED
    BY <2>1, <2>2, <2>3, <2>4, <2>5, <2>6, <2>7, <2>8 DEF Handle
<1>5. QED
  BY <1>1, <1>2, <1>3, <1>4 DEF Next, Serve, Finishing

\* A call becomes cleared only by a check that saw no live call of its parties.
LEMMA NewlyCleared ==
    ASSUME Inv0, [Next]_vars, NEW c \in Call, Cleared(c)'
    PROVE  /\ Cleared(c) \/ (UNCHANGED row /\ Rivals(c) = {})
           /\ row[c].state # "none" /\ IsLive(row'[c])
<1>w. row \in [Call -> Row] /\ RowStep
  BY RowSteps DEF Inv0, TypeOK
<1>1. CASE row'[c].state = "accepted"
  <2>1. row[c].state = "accepted" \/ Answers(c)
    BY <1>1, <1>w DEF RowStep, Opens, Answers, Ends, Terminated, TerminalStates, NoRow, Row
  <2>2. QED
    BY <1>1, <2>1 DEF Cleared, Answered, Answers, IsLive, LiveStates
<1>2. CASE row'[c].state = "ringing" /\ \E p \in Worker : work'[p].pc = "update" /\ work'[p].call = c
  <2>1. PICK p \in Worker : work'[p].pc = "update" /\ work'[p].call = c
    BY <1>2
  <2>2. row[c].state \in {"none", "ringing"}
    BY <1>2, <1>w DEF RowStep, Opens, Answers, Ends, Terminated, TerminalStates, NoRow, Row
  <2>3. CASE work'[p] = work[p]
    <3>1. Holding(work[p]) /\ At(p, "update") /\ work[p].call = c
      BY <2>1, <2>3 DEF Inv0, InFlight, Proc, At
    <3>2. row[c].state = "ringing"
      BY <2>2, <3>1 DEF Holding, At
    <3>3. QED
      BY <1>2, <3>1, <3>2 DEF Cleared, IsLive, LiveStates
  <2>4. CASE UNCHANGED row /\ work'[p].call = work[p].call /\ Rivals(work[p].call) = {}
    BY <1>2, <2>1, <2>4 DEF IsLive, LiveStates
  <2>5. QED
    BY <2>1, <2>3, <2>4, UpdateSteps
<1>3. QED
  BY <1>1, <1>2 DEF Cleared, Answered, At

LEMMA ExclusionNext ==
    ASSUME Inv0, ClearedExcludes, [Next]_vars
    PROVE  ClearedExcludes'
<1>1. SUFFICES ASSUME NEW c \in Call, NEW d \in Call, Cleared(c)', Cleared(d)', c # d
               PROVE  Party(row'[c]) \cap Party(row'[d]) = {}
  BY DEF ClearedExcludes, Conflict
<1>2. /\ Cleared(c) \/ (UNCHANGED row /\ Rivals(c) = {})
      /\ Cleared(d) \/ (UNCHANGED row /\ Rivals(d) = {})
      /\ row[c].state # "none" /\ row[d].state # "none"
      /\ IsLive(row'[c]) /\ IsLive(row'[d])
  BY <1>1, NewlyCleared
<1>3. CASE Cleared(c) /\ Cleared(d)
  <2>1. Party(row[c]) \cap Party(row[d]) = {}
    BY <1>1, <1>3 DEF ClearedExcludes, Conflict
  <2>2. Party(row'[c]) = Party(row[c]) /\ Party(row'[d]) = Party(row[d])
    BY <1>2, RowSteps, PartiesKept DEF Party
  <2>3. QED
    BY <2>1, <2>2
<1>4. CASE UNCHANGED row /\ Rivals(c) = {}
  BY <1>1, <1>2, <1>4 DEF Rivals, LiveCallsOf, Party
<1>5. CASE UNCHANGED row /\ Rivals(d) = {}
  BY <1>1, <1>2, <1>5 DEF Rivals, LiveCallsOf, Party
<1>6. QED
  BY <1>2, <1>3, <1>4, <1>5

\* The inductive invariant: types, holdings, and that no two conflicting calls have passed
\* accept's check.
THEOREM Inductive == Spec => []IInv
<1>1. Init => ClearedExcludes
  <2>1. Init => \A c \in Call : row[c].state = "none"
    <3>1. NoRow.state = "none"
      BY DEF NoRow
    <3>2. QED
      BY <3>1 DEF Init
  <2>2. QED
    BY <2>1 DEF ClearedExcludes, Cleared, Answered
<1>2. Inv0 /\ ClearedExcludes /\ [Next]_vars => ClearedExcludes'
  BY ExclusionNext
<1>3. Inv0 /\ ClearedExcludes => IInv
  BY DEF Inv0, IInv
<1>4. QED
  BY <1>1, <1>2, <1>3, Typed, PTL DEF Spec

\* accept_call's check and its UPDATE are two statements, yet whatever interleaves between
\* them nobody is ever in two answered calls.
THEOREM Exclusion == Spec => []AtMostOneAnswered
<1>1. IInv => AtMostOneAnswered
  BY DEF IInv, ClearedExcludes, Cleared, AtMostOneAnswered
<1>2. QED
  BY <1>1, Inductive, PTL

-----------------------------------------------------------------------------
(* Refinement.                                                              *)

PhaseOf(state) == CASE state = "none" -> "unborn"
                    [] state = "accepted" -> "answered"
                    [] OTHER -> state

LEMMA PhaseIs ==
    /\ phase = [c \in Call |-> PhaseOf(row[c].state)]
    /\ parties = [c \in Call |-> Party(row[c]) \ {Nobody}]
    /\ phase' = [c \in Call |-> PhaseOf(row'[c].state)]
    /\ parties' = [c \in Call |-> Party(row'[c]) \ {Nobody}]
  BY DEF phase, parties, PhaseOf, Party

\* What the two mapped variables become when one row does.
LEMMA OnePhase ==
    ASSUME NEW c \in Call, \A d \in Call : d # c => row'[d] = row[d]
    PROVE  /\ phase' = [phase EXCEPT ![c] = PhaseOf(row'[c].state)]
           /\ parties' = [parties EXCEPT ![c] = Party(row'[c]) \ {Nobody}]
  BY PhaseIs

LEMMA LedgerNext ==
    ASSUME ConstantsAssumption, IInv, [Next]_vars
    PROVE  [Ledger!Next]_(Ledger!vars)
<1>i. Inv0 /\ ClearedExcludes /\ row \in [Call -> Row]
  BY DEF IInv, Inv0, TypeOK
<1>1. CASE UNCHANGED row
  <2>1. phase' = phase /\ parties' = parties
    BY <1>1, PhaseIs
  <2>2. QED
    BY <2>1 DEF Ledger!vars
<1>2. CASE \E c \in Call, u, v \in User : Opens(c, u, v)
  <2>1. PICK c \in Call, u \in User, v \in User : Opens(c, u, v)
    BY <1>2
  <2>2. /\ \A d \in Call : d # c => row'[d] = row[d]
        /\ row'[c].state = "ringing" /\ Party(row'[c]) = {u, v}
    BY <1>i, <2>1 DEF Opens, NoRow, Party
  <2>3. phase[c] = "unborn" /\ PhaseOf("ringing") = "ringing" /\ {u, v} \ {Nobody} = {u, v}
    BY <2>1, PhaseIs, ConstantsAssumption DEF Opens, PhaseOf
  <2>4. Ledger!Ring(c, u, v)
    BY <2>1, <2>2, <2>3, OnePhase DEF Opens, Ledger!Ring
  <2>5. QED
    BY <2>4 DEF Ledger!Next
<1>3. CASE \E c \in Call : Answers(c)
  <2>1. PICK c \in Call : Answers(c)
    BY <1>3
  <2>2. /\ \A d \in Call : d # c => row'[d] = row[d]
        /\ row'[c].state = "accepted" /\ Party(row'[c]) = Party(row[c])
        /\ row[c].state = "ringing" /\ Cleared(c)
    BY <1>i, <2>1 DEF Answers, Party, Cleared, Row
  <2>3. PhaseOf("ringing") = "ringing" /\ PhaseOf("accepted") = "answered"
    BY DEF PhaseOf
  <2>4. phase[c] = "ringing" /\ parties' = parties
    BY <2>2, <2>3, PhaseIs, OnePhase
  <2>5. \A d \in Call : phase[d] = "answered" => parties[c] \cap parties[d] = {}
    <3>1. SUFFICES ASSUME NEW d \in Call, phase[d] = "answered" PROVE parties[c] \cap parties[d] = {}
      OBVIOUS
    <3>2. row[d].state = "accepted" \/ row[d].state = "answered"
      BY <3>1, PhaseIs DEF PhaseOf
    <3>3. row[d].state = "accepted"
      BY <1>i, <3>2 DEF Row, CallState, LiveStates, TerminalStates
    <3>4. Cleared(d) /\ c # d
      BY <2>2, <3>3 DEF Cleared, Answered
    <3>5. Party(row[c]) \cap Party(row[d]) = {}
      BY <1>i, <2>2, <3>4 DEF ClearedExcludes, Conflict
    <3>6. QED
      BY <3>5, PhaseIs
  <2>6. phase' = [phase EXCEPT ![c] = "answered"]
    BY <2>2, <2>3, OnePhase
  <2>7. Ledger!Answer(c)
    BY <2>4, <2>5, <2>6 DEF Ledger!Answer
  <2>8. QED
    BY <2>7 DEF Ledger!Next
<1>4. CASE \E c \in Call, s \in TerminalStates : Ends(c, s)
  <2>1. PICK c \in Call, s \in TerminalStates : Ends(c, s)
    BY <1>4
  <2>2. /\ \A d \in Call : d # c => row'[d] = row[d]
        /\ row'[c].state = s /\ Party(row'[c]) = Party(row[c])
    BY <1>i, <2>1 DEF Ends, Terminated, Party, Row
  <2>3. PhaseOf(s) = s /\ s \in Ledger!Outcome
    BY DEF PhaseOf, TerminalStates, Ledger!Outcome
  <2>4. /\ row[c].state = "ringing" => phase[c] = "ringing"
        /\ row[c].state = "accepted" => phase[c] = "answered"
    BY PhaseIs DEF PhaseOf
  <2>5. \/ row[c].state = "ringing"
        \/ row[c].state = "accepted" /\ s \in {"ended", "failed"}
    BY <2>1 DEF Ends, LiveStates, TerminalStates
  <2>6. phase' = [phase EXCEPT ![c] = s] /\ parties' = parties
    BY <2>2, <2>3, PhaseIs, OnePhase
  <2>7. Ledger!End(c, s)
    BY <2>4, <2>5, <2>6 DEF Ledger!End
  <2>8. QED
    BY <2>3, <2>7 DEF Ledger!Next
<1>5. QED
  BY <1>i, <1>1, <1>2, <1>3, <1>4, RowSteps DEF RowStep

\* The lifecycle implements the abstract ledger: each call rings once, is answered at most
\* once and while neither party is in another answered call, and closes once, with an
\* outcome that fits whether it was answered.
THEOREM Implements == Spec => LedgerSpec
<1>1. Init => Ledger!Init
  <2> SUFFICES ASSUME Init PROVE Ledger!Init
    OBVIOUS
  <2>1. \A c \in Call : row[c] = NoRow
    BY DEF Init
  <2>2. NoRow.state = "none" /\ Party(NoRow) \ {Nobody} = {}
    BY DEF NoRow, Party
  <2>3. QED
    BY <2>1, <2>2, PhaseIs DEF PhaseOf, Ledger!Init
<1>2. IInv /\ [Next]_vars => [Ledger!Next]_(Ledger!vars)
  BY LedgerNext, ConstantsAssumption
<1>3. QED
  BY <1>1, <1>2, Inductive, PTL DEF Spec, LedgerSpec, Ledger!Spec

-----------------------------------------------------------------------------
(* How a call ends.                                                         *)

\* What a row's instants say.
TimelyRow(r) ==
    /\ IsLive(r) => r.reason = ""
    /\ r.state = "ringing" => r.answered = Never
    /\ r.state = "accepted" => r.answered # Never
    /\ r.state \in {"missed", "declined"} => r.answered = Never
    /\ r.state = "missed" => r.ended >= r.started + RingTimeout
    /\ r.reason = "reconciled" => Never < r.answered /\ r.answered + ConnectGrace <= r.ended
    /\ r.reason = "max_duration" => Never < r.answered /\ r.answered + MaxDuration <= r.ended

\* Answered at least age before at.
Aged(c, age, at) == row[c].answered # Never /\ row[c].answered + age <= at
RungOut(c) == row[c].started + RingTimeout <= now

\* What a process learned before it writes.
TimelyWork(p) ==
    /\ At(p, "expire") => IF p = Sweeper THEN RungOut(work[p].call)
                          ELSE work[p].seen.started = row[work[p].call].started
    /\ At(p, "update") => work[p].at # Never
    /\ At(p, "close") /\ work[p].op = "cap" => Aged(work[p].call, MaxDuration, work[p].at)
    /\ At(p, "close") /\ work[p].op = "reconcile" => Aged(work[p].call, ConnectGrace, work[p].at)

\* What a pass of the sweep has listed.
TimelySweep ==
    /\ sweep.phase = "expire" => \A c \in sweep.todo : RungOut(c)
    /\ sweep.phase = "cap" => \A c \in sweep.todo : Aged(c, MaxDuration, sweep.at)
    /\ sweep.phase = "poll" => \A c \in sweep.todo : Aged(c, ConnectGrace, sweep.at)
    /\ \A c \in sweep.accepted : row[c].answered # Never

Timely ==
    /\ \A c \in Call : TimelyRow(row[c])
    /\ \A p \in Proc : TimelyWork(p)
    /\ TimelySweep

-----------------------------------------------------------------------------
(* What a step can write into a row.                                        *)

LEMMA TimelyEnd ==
    ASSUME NEW p \in Proc, work[p].call \in Call, row \in [Call -> Row],
           NEW s \in TerminalStates, NEW reason, NEW at, NEW elsewhere,
           NEW from \in SUBSET LiveStates,
           row[work[p].call].state \in from =>
              TimelyRow(Terminated(row[work[p].call], s, reason, at)),
           Terminate(p, s, reason, from, at, elsewhere)
    PROVE  \A c \in Call : row'[c] = row[c] \/ TimelyRow(row'[c])
<1>1. CASE row[work[p].call].state \in from
  <2>1. row' = [row EXCEPT ![work[p].call] = Terminated(row[work[p].call], s, reason, at)]
    BY <1>1 DEF Terminate, LiveStates
  <2>2. QED
    BY <1>1, <2>1
<1>2. CASE row[work[p].call].state \notin from
  BY <1>2 DEF Terminate
<1>3. QED
  BY <1>1, <1>2

\* A live row that ends for a reason the sweep does not give.
LEMMA PlainEnd ==
    ASSUME NEW r \in Row, IsLive(r), TimelyRow(r), NEW s \in TerminalStates \ {"missed"},
           s = "declined" => r.state = "ringing", NEW at \in Time,
           NEW reason \in {"hangup", "declined", "remote_left", "room_finished", "provider_error"}
    PROVE  TimelyRow(Terminated(r, s, reason, at))
  BY DEF TimelyRow, Terminated, IsLive, LiveStates, TerminalStates, Row

\* A ring that has run out.
LEMMA MissedEnd ==
    ASSUME NEW r \in Row, r.state = "ringing", TimelyRow(r), NEW at \in Nat,
           r.started + RingTimeout <= at
    PROVE  TimelyRow(Terminated(r, "missed", "ring_timeout", at))
<1>1. RingTimeout \in Nat /\ r.started \in Int
  BY ConstantsAssumption DEF Row, Time, Never
<1>2. PICK q : q = Terminated(r, "missed", "ring_timeout", at)
  OBVIOUS
<1>3. /\ q.state = "missed" /\ q.reason = "ring_timeout" /\ q.ended = at
      /\ q.started = r.started /\ q.answered = r.answered
  BY <1>2 DEF Terminated, Row
<1>4. TimelyRow(q)
  BY <1>1, <1>3 DEF TimelyRow, IsLive, LiveStates
<1>5. QED
  BY <1>2, <1>4

\* An answered call old enough for the sweep.
LEMMA AgedEnd ==
    ASSUME NEW r \in Row, IsLive(r), NEW at \in Time, r.answered # Never,
           NEW reason \in {"max_duration", "reconciled"},
           r.answered + (IF reason = "max_duration" THEN MaxDuration ELSE ConnectGrace) <= at
    PROVE  TimelyRow(Terminated(r, "ended", reason, at))
<1>1. MaxDuration \in Nat /\ ConnectGrace \in Nat /\ r.answered \in Nat
  BY ConstantsAssumption DEF Row, Time
<1>2. PICK q : q = Terminated(r, "ended", reason, at)
  OBVIOUS
<1>3. q.state = "ended" /\ q.reason = reason /\ q.ended = at /\ q.answered = r.answered
  BY <1>2 DEF Terminated, Row
<1>4. TimelyRow(q)
  BY <1>1, <1>3 DEF TimelyRow, IsLive, LiveStates, Never
<1>5. QED
  BY <1>2, <1>4

LEMMA TimelyWrites ==
    ASSUME Inv0, Timely, [Next]_vars
    PROVE  \A c \in Call : row'[c] = row[c] \/ TimelyRow(row'[c])
<1>w. /\ \A p \in Proc : work[p] \in Work /\ Holding(work[p]) /\ TimelyWork(p)
      /\ row \in [Call -> Row] /\ \A c \in Call : row[c] \in Row /\ TimelyRow(row[c])
      /\ now \in Nat
  BY DEF Inv0, TypeOK, InFlight, Timely
<1>t. /\ {"missed", "declined", "ended", "failed"} = TerminalStates /\ {"ringing"} \subseteq LiveStates
      /\ now \in Time
  BY <1>w DEF TerminalStates, LiveStates, Time
<1>1. CASE Tick \/ Media \/ (\E p \in Proc : Crash(p)) \/ UNCHANGED vars
  BY <1>1 DEF Tick, Media, Crash, Connect, Disconnect, RoomFinishes, callVars, vars
<1>2. CASE \E p \in Proc : Close(p) \/ Announce(p)
  <2>1. PICK p \in Proc : Close(p) \/ Announce(p)
    BY <1>2
  <2>2. CASE Announce(p)
    BY <2>2 DEF Announce
  <2>3. CASE Close(p)
    <3>1. /\ work[p].call \in Call /\ work[p].at \in Time
          /\ work[p].op \in {"left", "finished", "cap", "reconcile"}
          /\ row[work[p].call] \in Row
      BY <2>3, <1>w DEF Close, At, Holding, Work
    <3>2. Terminate(p, "ended", ReasonOf(work[p].op), LiveStates, work[p].at, "idle")
      BY <2>3 DEF Close
    <3>3. ASSUME row[work[p].call].state \in LiveStates
          PROVE  TimelyRow(Terminated(row[work[p].call], "ended", ReasonOf(work[p].op), work[p].at))
      <4>1. IsLive(row[work[p].call])
        BY <3>3 DEF IsLive
      <4>2. CASE work[p].op \in {"left", "finished"}
        <5>1. ReasonOf(work[p].op) \in {"remote_left", "room_finished"}
          BY <4>2 DEF ReasonOf
        <5>2. QED
          BY <1>t, <1>w, <3>1, <4>1, <5>1, PlainEnd
      <4>3. CASE work[p].op = "cap"
        <5>1. ReasonOf(work[p].op) = "max_duration"
          BY <4>3 DEF ReasonOf
        <5>2. Aged(work[p].call, MaxDuration, work[p].at)
          BY <1>w, <2>3, <4>3 DEF Close, TimelyWork
        <5>3. QED
          BY <3>1, <4>1, <5>1, <5>2, AgedEnd DEF Aged
      <4>4. CASE work[p].op = "reconcile"
        <5>1. ReasonOf(work[p].op) = "reconciled"
          BY <4>4 DEF ReasonOf
        <5>2. Aged(work[p].call, ConnectGrace, work[p].at)
          BY <1>w, <2>3, <4>4 DEF Close, TimelyWork
        <5>3. QED
          BY <3>1, <4>1, <5>1, <5>2, AgedEnd DEF Aged
      <4>5. QED
        BY <3>1, <4>2, <4>3, <4>4
    <3>4. QED
      BY <1>t, <1>w, <3>1, <3>2, <3>3, TimelyEnd
  <2>4. QED
    BY <2>1, <2>2, <2>3
<1>3. CASE SweepStep
  <2>1. CASE SweepExpireWrite
    <3>1. Sweeper \in Proc /\ work[Sweeper].call \in Call
      BY <2>1, <1>w DEF Proc, SweepExpireWrite, At, Holding
    <3>2. Terminate(Sweeper, "missed", "ring_timeout", {"ringing"}, now, "idle")
      BY <2>1 DEF SweepExpireWrite
    <3>3. row[work[Sweeper].call].started + RingTimeout <= now
      BY <1>w, <2>1, <3>1 DEF SweepExpireWrite, TimelyWork, RungOut
    <3>4. row[work[Sweeper].call].state \in {"ringing"} =>
            TimelyRow(Terminated(row[work[Sweeper].call], "missed", "ring_timeout", now))
      BY <1>w, <3>1, <3>3, MissedEnd
    <3>5. QED
      BY <1>t, <1>w, <3>1, <3>2, <3>4, TimelyEnd
  <2>2. CASE ~SweepExpireWrite
    BY <1>3, <2>2 DEF SweepStep, SweepStart, SweepList, SweepSelect, SweepEnd, SweepExpire,
                      SweepCap, SweepPoll, SweepSkip
  <2>3. QED
    BY <2>1, <2>2
<1>4. CASE \E p \in Worker : Request(p) \/ Handle(p)
  <2>1. PICK p \in Worker : Request(p) \/ Handle(p)
    BY <1>4
  <2>p. p \in Proc /\ p # Sweeper
    BY ConstantsAssumption DEF Proc
  <2>2. CASE Request(p) \/ Gate(p) \/ Ring(p) \/ AcceptCheck(p) \/ AcceptTell(p)
             \/ AcceptMintFails(p) \/ MintToken(p)
    BY <2>2 DEF Request, BeginCreate, Resolve, ReadActive, Webhook, Gate, Ring, AcceptCheck,
                AcceptTell, AcceptMintFails, MintToken
  <2>3. CASE Fail(p)
    <3>1. work[p].call \in Call /\ row[work[p].call] \in Row
      BY <1>w, <2>p, <2>3 DEF Fail, At, Holding
    <3>2. CASE row[work[p].call].state \in LiveStates
      <4>1. row' = [row EXCEPT ![work[p].call] =
                      Terminated(row[work[p].call], "failed", "provider_error", now)]
        BY <2>3, <3>2 DEF Fail
      <4>2. TimelyRow(Terminated(row[work[p].call], "failed", "provider_error", now))
        BY <1>t, <1>w, <3>1, <3>2, PlainEnd DEF IsLive
      <4>3. QED
        BY <1>w, <3>1, <4>1, <4>2
    <3>3. CASE row[work[p].call].state \notin LiveStates
      BY <2>3, <3>3 DEF Fail
    <3>4. QED
      BY <3>2, <3>3
  <2>4. CASE \E c \in Call : Insert(p, c)
    <3>1. PICK c \in Call : Insert(p, c)
      BY <2>4
    <3>2. PICK new : new = [NoRow EXCEPT !.state = "ringing", !.caller = work[p].user,
                                         !.callee = work[p].peer, !.started = now]
      OBVIOUS
    <3>3. TimelyRow(new)
      BY <3>2 DEF NoRow, TimelyRow, IsLive, LiveStates
    <3>4. UNCHANGED row \/ row' = [row EXCEPT ![c] = new]
      BY <3>1, <3>2 DEF Insert
    <3>5. QED
      BY <1>w, <3>3, <3>4
  <2>5. CASE AcceptUpdate(p)
    <3>1. work[p].call \in Call /\ work[p].at # Never
      BY <1>w, <2>p, <2>5 DEF AcceptUpdate, At, Holding, TimelyWork
    <3>2. CASE row[work[p].call].state = "ringing"
      <4>1. PICK r \in Row : r = row[work[p].call]
        BY <1>w, <3>1
      <4>2. PICK new : new = [r EXCEPT !.state = "accepted", !.answered = work[p].at]
        OBVIOUS
      <4>3. TimelyRow(new)
        BY <1>w, <3>1, <3>2, <4>1, <4>2 DEF TimelyRow, IsLive, LiveStates, Row
      <4>4. row' = [row EXCEPT ![work[p].call] = new]
        BY <1>w, <2>5, <3>1, <3>2, <4>1, <4>2 DEF AcceptUpdate
      <4>5. QED
        BY <1>w, <3>1, <4>3, <4>4
    <3>3. CASE row[work[p].call].state # "ringing"
      BY <2>5, <3>3 DEF AcceptUpdate
    <3>4. QED
      BY <3>2, <3>3
  <2>6. CASE ExpireOnRead(p)
    <3>1. work[p].call \in Call /\ row[work[p].call] \in Row
      BY <1>w, <2>p, <2>6 DEF ExpireOnRead, At, Holding
    <3>2. CASE Overdue(work[p].seen)
      <4>1. Terminate(p, "missed", "ring_timeout", {"ringing"}, now, AfterExpire(work[p].op))
        BY <2>6, <3>2 DEF ExpireOnRead
      <4>2. row[work[p].call].started + RingTimeout <= now
        <5>1. work[p].seen.started = row[work[p].call].started
          BY <1>w, <2>p, <2>6 DEF ExpireOnRead, TimelyWork
        <5>2. row[work[p].call].started \in Int /\ RingTimeout \in Int
          BY <3>1, ConstantsAssumption DEF Row, Time, Never
        <5>3. QED
          BY <1>w, <3>2, <5>1, <5>2 DEF Overdue
      <4>3. row[work[p].call].state \in {"ringing"} =>
              TimelyRow(Terminated(row[work[p].call], "missed", "ring_timeout", now))
        BY <1>w, <3>1, <4>2, MissedEnd
      <4>4. QED
        BY <1>t, <1>w, <2>p, <3>1, <4>1, <4>3, TimelyEnd
    <3>3. CASE ~Overdue(work[p].seen)
      BY <2>6, <3>3 DEF ExpireOnRead
    <3>4. QED
      BY <3>2, <3>3
  <2>7. CASE Decline(p) \/ Hangup(p)
    <3>1. work[p].call \in Call /\ row[work[p].call] \in Row
      BY <1>w, <2>p, <2>7 DEF Decline, Hangup, At, Holding
    <3>2. CASE Decline(p)
      <4>1. Terminate(p, "declined", "declined", {"ringing"}, now, "idle")
        BY <3>2 DEF Decline
      <4>2. row[work[p].call].state \in {"ringing"} =>
              TimelyRow(Terminated(row[work[p].call], "declined", "declined", now))
        BY <1>t, <1>w, <3>1, PlainEnd DEF IsLive
      <4>3. QED
        BY <1>t, <1>w, <2>p, <3>1, <4>1, <4>2, TimelyEnd
    <3>3. CASE Hangup(p)
      <4>1. Terminate(p, "ended", "hangup", LiveStates, now, "idle")
        BY <3>3 DEF Hangup
      <4>2. row[work[p].call].state \in LiveStates =>
              TimelyRow(Terminated(row[work[p].call], "ended", "hangup", now))
        BY <1>t, <1>w, <3>1, PlainEnd DEF IsLive
      <4>3. QED
        BY <1>t, <1>w, <2>p, <3>1, <4>1, <4>2, TimelyEnd
    <3>4. QED
      BY <2>7, <3>2, <3>3
  <2>8. QED
    BY <2>1, <2>2, <2>3, <2>4, <2>5, <2>6, <2>7 DEF Handle
<1>5. QED
  BY <1>1, <1>2, <1>3, <1>4 DEF Next, Serve, Finishing

-----------------------------------------------------------------------------
(* What a step can give a process to hold.                                  *)

\* A process stays as it is, is not about to write, or has just read what it will write
\* from: an instance, a row the pass listed, or the clock.
Took(p) ==
    \/ work'[p] = work[p]
    \/ work'[p].pc \notin {"expire", "update", "close"}
    \/ /\ work'[p].pc = "expire" /\ p # Sweeper
       /\ UNCHANGED row /\ work'[p].seen.started = row[work'[p].call].started
    \/ /\ work'[p].pc = "expire" /\ p = Sweeper /\ UNCHANGED <<row, now>>
       /\ sweep.phase = "expire" /\ work'[p].call \in sweep.todo
    \/ work'[p].pc = "update" /\ work'[p].at = now
    \/ work'[p].pc = "close" /\ work'[p].op \in {"left", "finished"}
    \/ /\ work'[p].pc = "close" /\ UNCHANGED row
       /\ work'[p].call \in sweep.todo /\ work'[p].at = sweep.at
       /\ \/ work'[p].op = "cap" /\ sweep.phase = "cap"
          \/ work'[p].op = "reconcile" /\ sweep.phase = "poll"

LEMMA Takes ==
    ASSUME Inv0, [Next]_vars, NEW p \in Proc
    PROVE  Took(p)
<1>w. work \in [Proc -> Work] /\ work[p] \in Work /\ Idle.pc = "idle"
  BY DEF Inv0, TypeOK, Idle
<1>n. \A q \in Proc : q # p => \A w : Become(q, w) => Took(p)
  BY <1>w DEF Become, Took
<1>q. \A q \in Proc : \A w :
        Become(q, w) /\ w.pc \notin {"expire", "update", "close"} => Took(p)
  BY <1>w DEF Become, Took
<1>f. \A q \in Proc : Finish(q) => Took(p)
  BY <1>w, <1>q DEF Finish
<1>t. \A q \in Proc : \A s, reason, from, at, elsewhere :
        /\ elsewhere \notin {"expire", "update", "close"}
        /\ Terminate(q, s, reason, from, at, elsewhere)
        => Took(p)
  <2> SUFFICES ASSUME NEW q \in Proc, NEW s, NEW reason, NEW from, NEW at, NEW elsewhere,
                      elsewhere \notin {"expire", "update", "close"},
                      Terminate(q, s, reason, from, at, elsewhere)
               PROVE  Took(p)
    OBVIOUS
  <2>1. work[q] \in Work
    BY <1>w
  <2> DEFINE won == [work[q] EXCEPT !.pc = "announce",
                       !.seen = Terminated(work[q].seen, s, reason, at)]
             lost == IF elsewhere = "idle" THEN Idle
                     ELSE [work[q] EXCEPT !.pc = elsewhere, !.seen = row[work[q].call]]
  <2>2. Become(q, won) \/ Become(q, lost)
    BY DEF Terminate
  <2>3. won.pc = "announce" /\ lost.pc = elsewhere
    BY <1>w, <2>1 DEF Work
  <2> HIDE DEF won, lost
  <2>4. QED
    BY <1>q, <2>2, <2>3
<1>1. CASE Tick \/ Media \/ UNCHANGED vars
  BY <1>1 DEF Tick, Media, Connect, Disconnect, RoomFinishes, callVars, vars, Took
<1>2. CASE \E q \in Proc : Crash(q) \/ Announce(q) \/ Close(q)
  <2>1. PICK q \in Proc : Crash(q) \/ Announce(q) \/ Close(q)
    BY <1>2
  <2>2. QED
    BY <2>1, <1>f, <1>t DEF Crash, Announce, Close
<1>3. CASE SweepStep
  <2>1. Sweeper \in Proc
    BY DEF Proc
  <2>2. CASE SweepStart \/ SweepList \/ SweepSelect \/ SweepEnd \/ \E c \in Call : SweepSkip(c)
    BY <2>2 DEF SweepStart, SweepList, SweepSelect, SweepEnd, SweepSkip, Took
  <2>3. CASE SweepExpireWrite
    BY <1>t, <2>1, <2>3 DEF SweepExpireWrite
  <2>4. CASE \E c \in Call : SweepExpire(c)
    <3>1. PICK c \in Call : SweepExpire(c)
      BY <2>4
    <3>2. work'[Sweeper].pc = "expire" /\ work'[Sweeper].call = c
      BY <1>w, <2>1, <3>1 DEF SweepExpire, Become, Idle
    <3>3. UNCHANGED <<row, now>> /\ sweep.phase = "expire" /\ c \in sweep.todo
      BY <3>1 DEF SweepExpire, Sweeping
    <3>4. p # Sweeper => Took(p)
      BY <1>n, <2>1, <3>1 DEF SweepExpire
    <3>5. p = Sweeper => Took(p)
      BY <3>2, <3>3 DEF Took
    <3>6. QED
      BY <3>4, <3>5
  <2>5. ASSUME NEW c \in Call, NEW op \in {"cap", "reconcile"}, LookUp(Sweeper, c, op, sweep.at),
               UNCHANGED row, c \in sweep.todo,
               sweep.phase = IF op = "cap" THEN "cap" ELSE "poll"
        PROVE  Took(p)
    <3>1. CASE work' = work
      BY <3>1 DEF Took
    <3>2. CASE work' # work
      <4> DEFINE w == [Idle EXCEPT !.pc = "close", !.op = op, !.call = c,
                                   !.seen = row[c], !.at = sweep.at]
      <4>1. Become(Sweeper, w)
        BY <2>5, <3>2 DEF LookUp
      <4>2. w.pc = "close" /\ w.op = op /\ w.call = c /\ w.at = sweep.at
        BY DEF Idle
      <4> HIDE DEF w
      <4>3. work'[Sweeper] = w
        BY <1>w, <2>1, <4>1 DEF Become
      <4>4. p # Sweeper => Took(p)
        BY <1>n, <2>1, <4>1
      <4>5. p = Sweeper => Took(p)
        BY <2>5, <4>2, <4>3 DEF Took
      <4>6. QED
        BY <4>4, <4>5
    <3>3. QED
      BY <3>1, <3>2
  <2>6. CASE \E c \in Call : SweepCap(c)
    BY <2>5, <2>6 DEF SweepCap, Sweeping
  <2>7. CASE \E c \in Call : SweepPoll(c)
    <3>1. PICK c \in Call : SweepPoll(c)
      BY <2>7
    <3>2. CASE UNCHANGED work
      BY <3>2 DEF Took
    <3>3. CASE LookUp(Sweeper, c, "reconcile", sweep.at)
      BY <2>5, <3>1, <3>3 DEF SweepPoll, Sweeping
    <3>4. QED
      BY <3>1, <3>2, <3>3 DEF SweepPoll
  <2>8. QED
    BY <1>3, <2>2, <2>3, <2>4, <2>6, <2>7 DEF SweepStep
<1>4. CASE \E q \in Worker : Request(q) \/ Handle(q)
  <2>1. PICK q \in Worker : Request(q) \/ Handle(q)
    BY <1>4
  <2>p. q \in Proc /\ work[q] \in Work /\ q # Sweeper
    BY <1>w, ConstantsAssumption DEF Proc
  <2>2. CASE \E u, v \in User : BeginCreate(q, u, v)
    BY <1>q, <2>p, <2>2 DEF BeginCreate, Idle
  <2>3. ASSUME NEW c \in Call, NEW u, NEW op,
               Become(q, [Idle EXCEPT !.pc = "expire", !.op = op, !.user = u,
                                      !.call = c, !.seen = row[c]]),
               UNCHANGED row
        PROVE  Took(p)
    <3> DEFINE w == [Idle EXCEPT !.pc = "expire", !.op = op, !.user = u,
                                 !.call = c, !.seen = row[c]]
    <3>1. w.pc = "expire" /\ w.call = c /\ w.seen = row[c]
      BY DEF Idle
    <3>2. Become(q, w)
      BY <2>3
    <3> HIDE DEF w
    <3>3. work'[q] = w
      BY <1>w, <2>p, <3>2 DEF Become
    <3>4. p # q => Took(p)
      BY <1>n, <2>p, <3>2
    <3>5. p = q => Took(p)
      BY <2>3, <2>p, <3>1, <3>3 DEF Took
    <3>6. QED
      BY <3>4, <3>5
  <2>4. CASE \E u \in User, c \in Call, op \in Asked : Resolve(q, u, c, op)
    BY <2>3, <2>4 DEF Resolve
  <2>5. CASE \E u \in User, c \in Call : ReadActive(q, u, c)
    BY <2>3, <2>5 DEF ReadActive
  <2>6. CASE \E h \in hooks : Webhook(q, h)
    <3>1. PICK h \in hooks : Webhook(q, h)
      BY <2>6
    <3>2. h.op \in {"left", "finished"}
      BY <3>1 DEF Inv0, TypeOK, Hook
    <3>3. CASE UNCHANGED work
      BY <3>3 DEF Took
    <3>4. CASE Become(q, [Idle EXCEPT !.pc = "close", !.op = h.op, !.call = h.call,
                                      !.seen = row[h.call], !.at = h.ts])
      <4> DEFINE w == [Idle EXCEPT !.pc = "close", !.op = h.op, !.call = h.call,
                                   !.seen = row[h.call], !.at = h.ts]
      <4>1. w.pc = "close" /\ w.op = h.op /\ Become(q, w)
        BY <3>4 DEF Idle
      <4> HIDE DEF w
      <4>2. work'[q] = w
        BY <1>w, <2>p, <4>1 DEF Become
      <4>3. p # q => Took(p)
        BY <1>n, <2>p, <4>1
      <4>4. p = q => Took(p)
        BY <3>2, <4>1, <4>2 DEF Took
      <4>5. QED
        BY <4>3, <4>4
    <3>5. QED
      BY <3>1, <3>3, <3>4 DEF Webhook, LookUp
  <2>7. CASE Gate(q) \/ Ring(q) \/ Fail(q) \/ AcceptTell(q) \/ AcceptMintFails(q) \/ MintToken(q)
    <3>1. Finish(q) \/ Become(q, [work[q] EXCEPT !.pc = "insert"])
      BY <2>7 DEF Gate, Goto, Ring, Fail, AcceptTell, AcceptMintFails, MintToken
    <3>2. QED
      BY <1>f, <1>q, <2>p, <3>1 DEF Work
  <2>8. CASE \E c \in Call : Insert(q, c)
    <3>1. PICK c \in Call : Insert(q, c)
      BY <2>8
    <3> DEFINE new == [NoRow EXCEPT !.state = "ringing", !.caller = work[q].user,
                                    !.callee = work[q].peer, !.started = now]
    <3>2. Finish(q) \/ Become(q, [work[q] EXCEPT !.pc = "provision", !.call = c, !.seen = new])
      BY <3>1 DEF Insert
    <3>3. QED
      BY <1>f, <1>q, <2>p, <3>2 DEF Work
  <2>9. CASE ExpireOnRead(q)
    <3>1. AfterExpire(work[q].op) \notin {"expire", "update", "close"}
      BY DEF AfterExpire
    <3>2. CASE Overdue(work[q].seen)
      BY <1>t, <2>p, <2>9, <3>1, <3>2 DEF ExpireOnRead
    <3>3. CASE ~Overdue(work[q].seen)
      <4>1. Finish(q) \/ Become(q, [work[q] EXCEPT !.pc = AfterExpire(work[q].op)])
        BY <2>9, <3>3 DEF ExpireOnRead, Goto
      <4>2. [work[q] EXCEPT !.pc = AfterExpire(work[q].op)].pc = AfterExpire(work[q].op)
        BY <2>p DEF Work
      <4>3. QED
        BY <1>f, <1>q, <2>p, <3>1, <4>1, <4>2
    <3>4. QED
      BY <3>2, <3>3
  <2>10. CASE AcceptCheck(q)
    <3>1. CASE Finish(q)
      BY <1>f, <2>p, <3>1
    <3>2. CASE Become(q, [work[q] EXCEPT !.pc = "update", !.at = now])
      <4> DEFINE w == [work[q] EXCEPT !.pc = "update", !.at = now]
      <4>1. w.pc = "update" /\ w.at = now /\ Become(q, w)
        BY <2>p, <3>2 DEF Work
      <4> HIDE DEF w
      <4>2. work'[q] = w
        BY <1>w, <2>p, <4>1 DEF Become
      <4>3. p # q => Took(p)
        BY <1>n, <2>p, <4>1
      <4>4. p = q => Took(p)
        BY <4>1, <4>2 DEF Took
      <4>5. QED
        BY <4>3, <4>4
    <3>3. QED
      BY <2>10, <3>1, <3>2 DEF AcceptCheck
  <2>11. CASE AcceptUpdate(q)
    <3> DEFINE w == [work[q] EXCEPT !.pc = "mint", !.seen.state = "accepted",
                                    !.seen.answered = work[q].at]
    <3>1. Finish(q) \/ Become(q, w)
      BY <2>11 DEF AcceptUpdate
    <3>2. w.pc = "mint"
      BY <2>p DEF Work
    <3>3. QED
      BY <1>f, <1>q, <2>p, <3>1, <3>2
  <2>12. CASE Decline(q) \/ Hangup(q)
    BY <1>t, <2>p, <2>12 DEF Decline, Hangup
  <2>13. QED
    BY <2>1, <2>2, <2>4, <2>5, <2>6, <2>7, <2>8, <2>9, <2>10, <2>11, <2>12 DEF Handle, Request
<1>5. QED
  BY <1>1, <1>2, <1>3, <1>4 DEF Next, Serve, Finishing

-----------------------------------------------------------------------------
(* The invariant.                                                           *)

\* What was read of a row stays true of it: its start and its answer are written once.
LEMMA InstantsKept ==
    ASSUME Inv0, Timely, [Next]_vars, NEW c \in Call, row[c].state # "none"
    PROVE  /\ row'[c].started = row[c].started
           /\ row[c].answered # Never => row'[c].answered = row[c].answered
           /\ now' >= now /\ now' \in Nat /\ now \in Nat
<1>1. row \in [Call -> Row] /\ row[c] \in Row /\ TimelyRow(row[c]) /\ now \in Nat
  BY DEF Inv0, TypeOK, Timely
<1>2. RowStep
  BY RowSteps
<1>3. row'[c].started = row[c].started
  BY <1>2, PartiesKept
<1>4. row[c].answered # Never => row'[c].answered = row[c].answered
  <2>1. CASE row'[c] = row[c]
    BY <2>1
  <2>2. CASE Answers(c)
    BY <1>1, <2>2 DEF Answers, TimelyRow
  <2>3. CASE \E s \in TerminalStates : Ends(c, s)
    BY <1>1, <2>3 DEF Ends, Terminated, Row
  <2>4. QED
    BY <1>1, <1>2, <2>1, <2>2, <2>3 DEF RowStep, Opens, Answers, Ends
<1>5. now' = now \/ now' = now + 1
  BY DEF Next, Tick, Serve, Finishing, SweepStep, Media, Crash, Request, Handle, BeginCreate,
         Resolve, ReadActive, Webhook, Gate, Insert, Ring, Fail, ExpireOnRead, AcceptCheck,
         AcceptUpdate, AcceptTell, AcceptMintFails, Decline, Hangup, MintToken, Close, Announce,
         SweepStart, SweepExpireWrite, SweepList, SweepSelect, SweepEnd, SweepExpire, SweepCap,
         SweepPoll, SweepSkip, Connect, Disconnect, RoomFinishes, callVars, vars
<1>6. QED
  BY <1>1, <1>3, <1>4, <1>5

LEMMA AgedKept ==
    ASSUME Inv0, Timely, [Next]_vars, NEW c \in Call, row[c].state # "none"
    PROVE  /\ \A age, at : Aged(c, age, at) =>
                 row'[c].answered # Never /\ row'[c].answered + age <= at
           /\ RungOut(c) => row'[c].started + RingTimeout <= now'
<1>1. row[c].started \in Int /\ RingTimeout \in Int
  BY ConstantsAssumption DEF Inv0, TypeOK, Row, Time, Never
<1>2. QED
  BY <1>1, InstantsKept DEF Aged, RungOut

LEMMA TimelyWorkNext ==
    ASSUME Inv0, Timely, [Next]_vars, NEW p \in Proc
    PROVE  TimelyWork(p)'
<1>1. TimelyWork(p) /\ TimelySweep /\ Holding(work[p]) /\ Took(p) /\ now \in Nat /\ Sweeper \in Proc
  BY Takes DEF Timely, Inv0, TypeOK, InFlight, Proc
<1>2. work' \in [Proc -> Work] => work'[p] \in Work
  OBVIOUS
<1>3. CASE work'[p] = work[p]
  <2>1. At(p, "expire") \/ At(p, "update") \/ At(p, "close") =>
          work[p].call \in Call /\ row[work[p].call].state # "none"
    BY <1>1 DEF Holding, At
  <2>2. At(p, "expire") => IF p = Sweeper THEN RungOut(work[p].call)'
                           ELSE (work[p].seen.started = row[work[p].call].started)'
    BY <1>1, <1>3, <2>1, AgedKept, InstantsKept DEF TimelyWork, RungOut
  <2>3. At(p, "close") /\ work[p].op = "cap" => Aged(work[p].call, MaxDuration, work[p].at)'
    BY <1>1, <1>3, <2>1, AgedKept DEF TimelyWork, Aged
  <2>4. At(p, "close") /\ work[p].op = "reconcile" => Aged(work[p].call, ConnectGrace, work[p].at)'
    BY <1>1, <1>3, <2>1, AgedKept DEF TimelyWork, Aged
  <2>5. QED
    BY <1>1, <1>3, <2>2, <2>3, <2>4 DEF TimelyWork, At, RungOut, Aged
<1>4. CASE work'[p].pc \notin {"expire", "update", "close"}
  BY <1>4 DEF TimelyWork, At
<1>5. CASE /\ work'[p].pc = "expire" /\ p # Sweeper
           /\ UNCHANGED row /\ work'[p].seen.started = row[work'[p].call].started
  BY <1>5 DEF TimelyWork, At
<1>6. CASE /\ work'[p].pc = "expire" /\ UNCHANGED <<row, now>>
           /\ sweep.phase = "expire" /\ work'[p].call \in sweep.todo
           /\ p = Sweeper
  BY <1>1, <1>6 DEF TimelyWork, TimelySweep, At, RungOut
<1>7. CASE work'[p].pc = "update" /\ work'[p].at = now
  BY <1>1, <1>7 DEF TimelyWork, At, Never
<1>8. CASE work'[p].pc = "close" /\ work'[p].op \in {"left", "finished"}
  BY <1>8 DEF TimelyWork, At
<1>9. CASE /\ work'[p].pc = "close" /\ UNCHANGED row
           /\ work'[p].call \in sweep.todo /\ work'[p].at = sweep.at
           /\ \/ work'[p].op = "cap" /\ sweep.phase = "cap"
              \/ work'[p].op = "reconcile" /\ sweep.phase = "poll"
  BY <1>1, <1>9 DEF TimelyWork, TimelySweep, At, Aged
<1>10. QED
  BY <1>1, <1>3, <1>4, <1>5, <1>6, <1>7, <1>8, <1>9 DEF Took

\* What the pass has listed; each list is made from the rows of that moment.
LEMMA TimelySweepNext ==
    ASSUME Inv0, Timely, [Next]_vars
    PROVE  TimelySweep'
<1>1. /\ TimelySweep /\ now \in Nat /\ sweep \in Sweep
      /\ \A c \in Call : row[c] \in Row /\ TimelyRow(row[c])
      /\ \A c \in sweep.todo \cup sweep.accepted : c \in Call /\ row[c].state # "none"
  BY DEF Timely, Inv0, TypeOK, InFlight, Sweep
<1>2. /\ \A c \in sweep.todo : RungOut(c) => RungOut(c)'
      /\ \A c \in sweep.todo : \A age, at : Aged(c, age, at) => Aged(c, age, at)'
      /\ \A c \in sweep.accepted : row[c].answered # Never => row'[c].answered # Never
  BY <1>1, AgedKept, InstantsKept DEF RungOut, Aged
<1>3. ASSUME sweep'.phase = sweep.phase, sweep'.at = sweep.at,
             sweep'.todo \subseteq sweep.todo, sweep'.accepted = sweep.accepted
      PROVE  TimelySweep'
  BY <1>1, <1>2, <1>3 DEF TimelySweep
<1>4. ASSUME NEW c, Tackle(c) PROVE TimelySweep'
  BY <1>1, <1>3, <1>4 DEF Tackle, Sweep
<1>5. CASE UNCHANGED sweep
  BY <1>3, <1>5
<1>6. CASE sweep' = NoSweep
  BY <1>6 DEF NoSweep, TimelySweep
<1>7. CASE SweepStart
  <2>1. \A c \in Call : Overdue(row[c]) => RungOut(c)
    <3>1. \A c \in Call : row[c].started \in Int /\ RingTimeout \in Int
      BY <1>1, ConstantsAssumption DEF Row, Time, Never
    <3>2. QED
      BY <1>1, <3>1 DEF Overdue, RungOut
  <2>2. QED
    BY <1>7, <2>1 DEF SweepStart, TimelySweep, RungOut
<1>8. CASE SweepList
  <2>1. /\ sweep'.phase = "cap" /\ sweep'.at = sweep.at /\ row' = row
        /\ sweep'.accepted = {c \in Call : row[c].state = "accepted"}
        /\ sweep'.todo = {c \in sweep'.accepted : AnsweredFor(c, MaxDuration)}
    BY <1>1, <1>8 DEF SweepList, Sweep
  <2>2. \A c \in sweep'.accepted : row[c].answered # Never
    BY <1>1, <2>1 DEF TimelyRow
  <2>3. QED
    BY <2>1, <2>2 DEF TimelySweep, AnsweredFor, Aged
<1>9. CASE SweepSelect
  <2>1. /\ sweep'.phase = "poll" /\ sweep'.at = sweep.at /\ row' = row
        /\ sweep'.accepted = sweep.accepted
        /\ sweep'.todo = {c \in sweep.accepted : AnsweredFor(c, ConnectGrace)}
    BY <1>1, <1>9 DEF SweepSelect, Enter, Sweep
  <2>2. QED
    BY <1>1, <2>1 DEF TimelySweep, AnsweredFor, Aged
<1>10. CASE SweepStep
  BY <1>4, <1>5, <1>6, <1>7, <1>8, <1>9, <1>10
     DEF SweepStep, SweepExpireWrite, SweepEnd, SweepExpire, SweepCap, SweepPoll, SweepSkip
<1>11. CASE \E p \in Proc : Crash(p)
  BY <1>5, <1>6, <1>11 DEF Crash
<1>12. CASE Tick \/ Serve \/ Finishing \/ Media \/ UNCHANGED vars
  BY <1>5, <1>12 DEF Tick, Serve, Finishing, Media, Request, Handle, BeginCreate, Resolve, ReadActive,
     Webhook, Gate, Insert, Ring, Fail, ExpireOnRead, AcceptCheck, AcceptUpdate, AcceptTell,
     AcceptMintFails, Decline, Hangup, MintToken, Close, Announce, Connect, Disconnect,
     RoomFinishes, callVars, vars
<1>13. QED
  BY <1>10, <1>11, <1>12 DEF Next

\* What every read established is still true when it is written from.
THEOREM Timing == Spec => []Timely
<1>1. Init => Timely
  <2>1. NoRow.state = "none" /\ NoRow.reason = "" /\ Idle.pc = "idle"
    BY DEF NoRow, Idle
  <2>2. TimelyRow(NoRow)
    BY <2>1 DEF TimelyRow, IsLive, LiveStates
  <2>3. Init => \A p \in Proc : TimelyWork(p)
    BY <2>1 DEF Init, TimelyWork, At
  <2>4. Init => TimelySweep
    BY DEF Init, TimelySweep, NoSweep
  <2>5. QED
    BY <2>2, <2>3, <2>4 DEF Init, Timely
<1>2. Inv0 /\ Timely /\ [Next]_vars => Timely'
  <2> SUFFICES ASSUME Inv0, Timely, [Next]_vars PROVE Timely'
    OBVIOUS
  <2>1. \A c \in Call : TimelyRow(row'[c])
    BY TimelyWrites DEF Timely
  <2>2. QED
    BY <2>1, TimelyWorkNext, TimelySweepNext DEF Timely, TimelyRow, IsLive
<1>3. QED
  BY <1>1, <1>2, Typed, PTL DEF Spec

\* A missed or declined call was never answered, and a missed one's ring had run out:
\* reader, sweeper and accept race for the row, and whoever loses writes nothing.
THEOREM MissedIsUnanswered == Spec => []UnansweredMeansUnanswered
<1>1. Timely => UnansweredMeansUnanswered
  BY DEF Timely, TimelyRow, UnansweredMeansUnanswered
<1>2. QED
  BY <1>1, Timing, PTL

\* The sweep ends an answered call only when the grace (the cap) has passed since the
\* answer, although it selects from rows it read earlier in the pass.
THEOREM SweepIsPatient == Spec => []SweeperWaits
<1>1. Timely => SweeperWaits
  BY DEF Timely, TimelyRow, SweeperWaits
<1>2. QED
  BY <1>1, Timing, PTL

-----------------------------------------------------------------------------
(* The announcement of the end.                                             *)

Closed(c) == row[c].state \in TerminalStates
Owes(p, c) == At(p, "announce") /\ work[p].call = c
IsEnd(f) == f.signal = "ended"
Silent(c) == \A i \in DOMAIN told[c] : ~IsEnd(told[c][i])

OwedOnce == \A c \in Call, p, q \in Proc : Owes(p, c) /\ Owes(q, c) => p = q
OwedRightly ==
    \A c \in Call, p \in Proc :
        Owes(p, c) => Closed(c) /\ work[p].seen.state = row[c].state /\ Silent(c)
ToldOnce ==
    \A c \in Call : \A i, j \in DOMAIN told[c] : IsEnd(told[c][i]) /\ IsEnd(told[c][j]) => i = j
ToldRightly ==
    \A c \in Call : \A i \in DOMAIN told[c] :
        IsEnd(told[c][i]) => Closed(c) /\ told[c][i].state = row[c].state

Announcement == OwedOnce /\ OwedRightly /\ ToldOnce /\ ToldRightly

-----------------------------------------------------------------------------
(* Steps.                                                                   *)

Others(p) == \A q \in Proc : q # p => work'[q] = work[q]

\* A frame other than the end goes out, or none.
Murmur == UNCHANGED told \/ \E c \in Call, f \in Frame : ~IsEnd(f) /\ Tell(c, <<f>>)

\* One process moves: quietly, by closing a live call, or by announcing one.
Quiet(p) == Murmur /\ (work'[p] = work[p] \/ work'[p].pc # "announce")
Wins(p) ==
    /\ UNCHANGED told
    /\ \E c \in Call : /\ row[c].state \in LiveStates
                       /\ Owes(p, c)' /\ Closed(c)' /\ work'[p].seen.state = row'[c].state

Speaks(p) == Others(p) /\ (Quiet(p) \/ Wins(p) \/ Announce(p))

LEMMA TerminateSpeaks ==
    ASSUME Inv0, NEW p \in Proc, work[p].call \in Call,
           NEW s \in TerminalStates, NEW reason, NEW at, NEW elsewhere, elsewhere # "announce",
           NEW from \in SUBSET LiveStates, UNCHANGED told,
           Terminate(p, s, reason, from, at, elsewhere)
    PROVE  Speaks(p)
<1>1. work \in [Proc -> Work] /\ work[p] \in Work /\ row \in [Call -> Row] /\ row[work[p].call] \in Row
  BY DEF Inv0, TypeOK
<1>2. Others(p)
  BY <1>1 DEF Terminate, Become, Others
<1>3. CASE row[work[p].call].state \in from
  <2>1. /\ row' = [row EXCEPT ![work[p].call] = Terminated(row[work[p].call], s, reason, at)]
        /\ work' = [work EXCEPT ![p] = [work[p] EXCEPT !.pc = "announce",
                                          !.seen = Terminated(work[p].seen, s, reason, at)]]
    BY <1>3 DEF Terminate, Become, LiveStates
  <2>2. work[p].seen \in Row
    BY <1>1 DEF Work
  <2>3. row'[work[p].call].state = s
    BY <1>1, <2>1 DEF Terminated, Row
  <2>4. work'[p].pc = "announce" /\ work'[p].call = work[p].call /\ work'[p].seen.state = s
    BY <1>1, <2>1, <2>2 DEF Terminated, Work, Row
  <2>5. Wins(p)
    BY <1>3, <2>3, <2>4 DEF Wins, Owes, At, Closed
  <2>6. QED
    BY <1>2, <2>5 DEF Speaks
<1>4. CASE row[work[p].call].state \notin from
  <2>1. work'[p] = IF elsewhere = "idle" THEN Idle
                   ELSE [work[p] EXCEPT !.pc = elsewhere, !.seen = row[work[p].call]]
    BY <1>1, <1>4 DEF Terminate, Become
  <2>2. work'[p].pc # "announce"
    BY <1>1, <2>1 DEF Idle, Work
  <2>3. QED
    BY <1>2, <2>2 DEF Speaks, Quiet, Murmur
<1>5. QED
  BY <1>3, <1>4

LEMMA FinishSpeaks ==
    ASSUME Inv0, NEW p \in Proc, Murmur, Finish(p)
    PROVE  Speaks(p)
  BY DEF Inv0, TypeOK, Finish, Become, Idle, Speaks, Others, Quiet

LEMMA BecomeSpeaks ==
    ASSUME Inv0, NEW p \in Proc, NEW w, w.pc # "announce", Murmur, Become(p, w)
    PROVE  Speaks(p)
  BY DEF Inv0, TypeOK, Become, Speaks, Others, Quiet

LEMMA Steps ==
    ASSUME Inv0, [Next]_vars
    PROVE  \E p \in Proc : Speaks(p)
<1>w. /\ \A p \in Proc : work[p] \in Work /\ Holding(work[p])
      /\ work \in [Proc -> Work] /\ Sweeper \in Proc /\ now \in Nat
  BY DEF Inv0, TypeOK, InFlight, Proc
<1>t. /\ {"missed", "declined", "ended", "failed"} = TerminalStates /\ {"ringing"} \subseteq LiveStates
      /\ Idle.pc = "idle" /\ (UNCHANGED told => Murmur)
  BY DEF TerminalStates, LiveStates, Idle, Murmur
<1>n. UNCHANGED <<work, told>> => Speaks(Sweeper)
  BY DEF Speaks, Others, Quiet, Murmur
<1>1. CASE Tick \/ Media \/ UNCHANGED vars
  BY <1>1, <1>n, <1>w DEF Tick, Media, Connect, Disconnect, RoomFinishes, callVars, vars
<1>2. CASE \E p \in Proc : Crash(p) \/ Announce(p) \/ Close(p)
  <2>1. PICK p \in Proc : Crash(p) \/ Announce(p) \/ Close(p)
    BY <1>2
  <2>2. CASE Crash(p)
    BY <1>t, <2>2, FinishSpeaks DEF Crash
  <2>3. CASE Announce(p)
    BY <1>w, <2>3 DEF Announce, Finish, Become, Speaks, Others
  <2>4. CASE Close(p)
    <3>1. work[p].call \in Call
      BY <1>w, <2>4 DEF Close, At, Holding
    <3>2. QED
      BY <1>t, <2>4, <3>1, TerminateSpeaks DEF Close
  <2>5. QED
    BY <2>1, <2>2, <2>3, <2>4
<1>3. CASE SweepStep
  <2>1. CASE SweepExpireWrite
    <3>1. work[Sweeper].call \in Call
      BY <1>w, <2>1 DEF SweepExpireWrite, At, Holding
    <3>2. QED
      BY <1>t, <1>w, <2>1, <3>1, TerminateSpeaks DEF SweepExpireWrite
  <2>2. CASE SweepStart \/ SweepList \/ SweepSelect \/ SweepEnd \/ \E c \in Call : SweepSkip(c)
    BY <1>n, <1>w, <2>2 DEF SweepStart, SweepList, SweepSelect, SweepEnd, SweepSkip
  <2>3. CASE \E c \in Call : SweepExpire(c)
    <3>1. PICK c \in Call : SweepExpire(c)
      BY <2>3
    <3>2. [Idle EXCEPT !.pc = "expire", !.op = "expire", !.call = c, !.seen = row[c]].pc # "announce"
      BY DEF Idle
    <3>3. QED
      BY <1>t, <1>w, <3>1, <3>2, BecomeSpeaks DEF SweepExpire
  <2>4. ASSUME NEW c \in Call, NEW op, LookUp(Sweeper, c, op, sweep.at), UNCHANGED told
        PROVE  Speaks(Sweeper)
    <3>1. [Idle EXCEPT !.pc = "close", !.op = op, !.call = c, !.seen = row[c],
                       !.at = sweep.at].pc # "announce"
      BY DEF Idle
    <3>2. QED
      BY <1>n, <1>t, <1>w, <2>4, <3>1, BecomeSpeaks DEF LookUp
  <2>5. CASE \E c \in Call : SweepCap(c) \/ SweepPoll(c)
    BY <1>n, <1>w, <2>4, <2>5 DEF SweepCap, SweepPoll
  <2>6. QED
    BY <1>3, <2>1, <2>2, <2>3, <2>5 DEF SweepStep
<1>4. CASE \E p \in Worker : Request(p) \/ Handle(p)
  <2>1. PICK p \in Worker : Request(p) \/ Handle(p)
    BY <1>4
  <2>p. p \in Proc /\ work[p] \in Work
    BY <1>w DEF Proc
  <2>2. CASE Request(p)
    <3>1. UNCHANGED told
      BY <2>2 DEF Request, BeginCreate, Resolve, ReadActive, Webhook
    <3>2. CASE UNCHANGED work
      BY <1>n, <1>w, <3>1, <3>2
    <3>3. ASSUME NEW pc, pc # "announce", NEW op, NEW u, NEW v, NEW c, NEW seen, NEW at,
                 \/ Become(p, [Idle EXCEPT !.pc = pc, !.op = op, !.user = u, !.peer = v])
                 \/ Become(p, [Idle EXCEPT !.pc = pc, !.op = op, !.user = u, !.call = c, !.seen = seen])
                 \/ Become(p, [Idle EXCEPT !.pc = pc, !.op = op, !.call = c, !.seen = seen, !.at = at])
          PROVE  Speaks(p)
      <4>1. /\ [Idle EXCEPT !.pc = pc, !.op = op, !.user = u, !.peer = v].pc = pc
            /\ [Idle EXCEPT !.pc = pc, !.op = op, !.user = u, !.call = c, !.seen = seen].pc = pc
            /\ [Idle EXCEPT !.pc = pc, !.op = op, !.call = c, !.seen = seen, !.at = at].pc = pc
        BY DEF Idle
      <4>2. PICK w : Become(p, w) /\ w.pc = pc
        BY <3>3, <4>1
      <4>3. QED
        BY <1>t, <2>p, <3>1, <3>3, <4>2, BecomeSpeaks
    <3>4. CASE \E u, v \in User : BeginCreate(p, u, v)
      <4>1. PICK u \in User, v \in User :
              Become(p, [Idle EXCEPT !.pc = "gate", !.op = "create", !.user = u, !.peer = v])
        BY <3>4 DEF BeginCreate
      <4>2. Speaks(p)
        BY <3>3, <4>1
      <4>3. QED
        BY <2>p, <4>2
    <3>5. CASE \/ \E u \in User, c \in Call, op \in Asked : Resolve(p, u, c, op)
               \/ \E u \in User, c \in Call : ReadActive(p, u, c)
      <4>1. PICK u \in User, c \in Call, op \in Asked \cup {"active"} :
              Become(p, [Idle EXCEPT !.pc = "expire", !.op = op, !.user = u, !.call = c, !.seen = row[c]])
        BY <3>5 DEF Resolve, ReadActive
      <4>2. Speaks(p)
        BY <3>3, <4>1
      <4>3. QED
        BY <2>p, <4>2
    <3>6. CASE \E h \in hooks : Webhook(p, h)
      <4>1. PICK h \in hooks :
              \/ UNCHANGED work
              \/ Become(p, [Idle EXCEPT !.pc = "close", !.op = h.op, !.call = h.call,
                                       !.seen = row[h.call], !.at = h.ts])
        BY <3>6 DEF Webhook, LookUp
      <4>2. UNCHANGED work \/ Speaks(p)
        BY <3>3, <4>1
      <4>3. QED
        BY <2>p, <3>2, <4>2
    <3>7. QED
      BY <2>2, <3>4, <3>5, <3>6 DEF Request
  <2>3. CASE Gate(p) \/ Fail(p) \/ AcceptMintFails(p) \/ MintToken(p)
    <3>1. UNCHANGED told
      BY <2>3 DEF Gate, Fail, AcceptMintFails, MintToken
    <3>2. Finish(p) \/ Become(p, [work[p] EXCEPT !.pc = "insert"])
      BY <2>3 DEF Gate, Goto, Fail, AcceptMintFails, MintToken
    <3>3. [work[p] EXCEPT !.pc = "insert"].pc # "announce"
      BY <2>p DEF Work
    <3>4. QED
      BY <1>t, <2>p, <3>1, <3>2, <3>3, BecomeSpeaks, FinishSpeaks
  <2>4. CASE Ring(p) \/ AcceptTell(p)
    <3>1. work[p].call \in Call /\ work[p].seen \in Row
      BY <1>w, <2>p, <2>4 DEF Ring, AcceptTell, At, Holding, Work
    <3>2. PICK s \in {"incoming", "accepted"} : Tell(work[p].call, <<FrameOf(s, work[p].seen)>>)
      BY <2>4 DEF Ring, AcceptTell
    <3>3. FrameOf(s, work[p].seen) \in Frame /\ ~IsEnd(FrameOf(s, work[p].seen))
      BY <3>1, <3>2, FrameType DEF Signal, IsEnd, FrameOf
    <3>4. Murmur
      BY <3>1, <3>2, <3>3 DEF Murmur
    <3>5. QED
      BY <2>p, <2>4, <3>4, FinishSpeaks DEF Ring, AcceptTell
  <2>5. CASE \E c \in Call : Insert(p, c)
    <3>1. PICK c \in Call : Insert(p, c)
      BY <2>5
    <3> DEFINE new == [NoRow EXCEPT !.state = "ringing", !.caller = work[p].user,
                                    !.callee = work[p].peer, !.started = now]
               w == [work[p] EXCEPT !.pc = "provision", !.call = c, !.seen = new]
    <3>2. (Finish(p) \/ Become(p, w)) /\ UNCHANGED told
      BY <3>1 DEF Insert
    <3>3. w.pc # "announce"
      BY <2>p DEF Work
    <3> HIDE DEF w
    <3>4. QED
      BY <1>t, <2>p, <3>2, <3>3, BecomeSpeaks, FinishSpeaks
  <2>6. CASE ExpireOnRead(p)
    <3>1. AfterExpire(work[p].op) # "announce" /\ work[p].call \in Call
      BY <1>w, <2>p, <2>6 DEF AfterExpire, ExpireOnRead, At, Holding
    <3>2. CASE Overdue(work[p].seen)
      <4>1. Terminate(p, "missed", "ring_timeout", {"ringing"}, now, AfterExpire(work[p].op))
            /\ UNCHANGED told
        BY <2>6, <3>2 DEF ExpireOnRead
      <4>2. QED
        BY <1>t, <2>p, <3>1, <4>1, TerminateSpeaks
    <3>3. CASE ~Overdue(work[p].seen)
      <4>1. /\ Finish(p) \/ Become(p, [work[p] EXCEPT !.pc = AfterExpire(work[p].op)])
            /\ UNCHANGED told
        BY <2>6, <3>3 DEF ExpireOnRead, Goto
      <4>2. [work[p] EXCEPT !.pc = AfterExpire(work[p].op)].pc # "announce"
        BY <2>p, <3>1 DEF Work
      <4>3. QED
        BY <1>t, <2>p, <4>1, <4>2, BecomeSpeaks, FinishSpeaks
    <3>4. QED
      BY <3>2, <3>3
  <2>7. CASE AcceptCheck(p)
    <3>1. /\ Finish(p) \/ Become(p, [work[p] EXCEPT !.pc = "update", !.at = now])
          /\ UNCHANGED told
      BY <2>7 DEF AcceptCheck
    <3>2. [work[p] EXCEPT !.pc = "update", !.at = now].pc # "announce"
      BY <2>p DEF Work
    <3>3. QED
      BY <1>t, <2>p, <3>1, <3>2, BecomeSpeaks, FinishSpeaks
  <2>8. CASE AcceptUpdate(p)
    <3> DEFINE w == [work[p] EXCEPT !.pc = "mint", !.seen.state = "accepted",
                                    !.seen.answered = work[p].at]
    <3>1. (Finish(p) \/ Become(p, w)) /\ UNCHANGED told
      BY <2>8 DEF AcceptUpdate
    <3>2. w.pc # "announce"
      BY <2>p DEF Work
    <3> HIDE DEF w
    <3>3. QED
      BY <1>t, <2>p, <3>1, <3>2, BecomeSpeaks, FinishSpeaks
  <2>9. CASE Decline(p) \/ Hangup(p)
    <3>1. work[p].call \in Call
      BY <1>w, <2>p, <2>9 DEF Decline, Hangup, At, Holding
    <3>2. QED
      BY <1>t, <2>p, <2>9, <3>1, TerminateSpeaks DEF Decline, Hangup
  <2>10. QED
    BY <2>1, <2>2, <2>3, <2>4, <2>5, <2>6, <2>7, <2>8, <2>9 DEF Handle
<1>5. QED
  BY <1>1, <1>2, <1>3, <1>4 DEF Next, Serve, Finishing

-----------------------------------------------------------------------------
(* Frames.                                                                  *)

\* Frames that go out after none announced the end, themselves announcing it once.
LEMMA Appended ==
    ASSUME NEW t \in Seq(Frame), NEW u \in Seq(Frame)
    PROVE  \A i \in DOMAIN (t \o u) :
              \/ i \in DOMAIN t /\ (t \o u)[i] = t[i]
              \/ i - Len(t) \in DOMAIN u /\ (t \o u)[i] = u[i - Len(t)] /\ i \in Nat
  OBVIOUS

LEMMA MurmurKeeps ==
    ASSUME Inv0, Murmur, NEW c \in Call
    PROVE  \A i \in DOMAIN told'[c] :
              IsEnd(told'[c][i]) => i \in DOMAIN told[c] /\ told'[c][i] = told[c][i]
<1>1. told \in [Call -> Seq(Frame)]
  BY DEF Inv0, TypeOK
<1>2. CASE told'[c] = told[c]
  BY <1>2
<1>3. CASE \E f \in Frame : ~IsEnd(f) /\ told'[c] = told[c] \o <<f>>
  <2>1. PICK f \in Frame : ~IsEnd(f) /\ told'[c] = told[c] \o <<f>>
    BY <1>3
  <2>2. <<f>> \in Seq(Frame) /\ told[c] \in Seq(Frame)
    BY <1>1
  <2>3. \A i \in DOMAIN told'[c] :
           \/ i \in DOMAIN told[c] /\ told'[c][i] = told[c][i]
           \/ told'[c][i] = f
    BY <2>1, <2>2, Appended
  <2>4. QED
    BY <2>1, <2>3
<1>4. QED
  BY <1>1, <1>2, <1>3 DEF Murmur, Tell

LEMMA AnnounceTells ==
    ASSUME Inv0, NEW p \in Proc, Announce(p)
    PROVE  LET c == work[p].call IN
           /\ c \in Call
           /\ \A d \in Call : d # c => told'[d] = told[d]
           /\ \A i \in DOMAIN told'[c] :
                 IsEnd(told'[c][i]) =>
                    \/ i \in DOMAIN told[c] /\ told'[c][i] = told[c][i]
                    \/ told'[c][i].state = work[p].seen.state /\ i = Len(told'[c])
<1> DEFINE c == work[p].call
           seen == work[p].seen
           e == FrameOf("ended", seen)
           d == FrameOf("declined", seen)
<1>1. told \in [Call -> Seq(Frame)] /\ c \in Call /\ seen \in Row
  BY DEF Inv0, TypeOK, InFlight, Announce, At, Holding, Work
<1>2. /\ e \in Frame /\ d \in Frame /\ ~IsEnd(d) /\ e.state = seen.state
  BY <1>1, FrameType DEF Signal, IsEnd, FrameOf
<1>3. told' = [told EXCEPT ![c] = @ \o (IF seen.state = "declined" THEN <<d>> \o <<e>> ELSE <<e>>)]
  BY DEF Announce, Tell
<1>4. \A q \in Call : q # c => told'[q] = told[q]
  BY <1>1, <1>3
<1> HIDE DEF c, seen, e, d
<1>5. CASE seen.state = "declined"
  <2>1. told'[c] = told[c] \o <<d, e>>
    BY <1>1, <1>3, <1>5
  <2>2. <<d, e>> \in Seq(Frame) /\ told[c] \in Seq(Frame) /\ Len(told'[c]) = Len(told[c]) + 2
    BY <1>1, <1>2, <2>1
  <2>3. \A i \in DOMAIN told'[c] :
           \/ i \in DOMAIN told[c] /\ told'[c][i] = told[c][i]
           \/ told'[c][i] = d
           \/ told'[c][i] = e /\ i = Len(told'[c])
    BY <2>1, <2>2, Appended
  <2>4. QED
    BY <1>1, <1>2, <1>4, <2>3 DEF c, seen
<1>6. CASE seen.state # "declined"
  <2>1. told'[c] = told[c] \o <<e>>
    BY <1>1, <1>3, <1>6
  <2>2. <<e>> \in Seq(Frame) /\ told[c] \in Seq(Frame) /\ Len(told'[c]) = Len(told[c]) + 1
    BY <1>1, <1>2, <2>1
  <2>3. \A i \in DOMAIN told'[c] :
           \/ i \in DOMAIN told[c] /\ told'[c][i] = told[c][i]
           \/ told'[c][i] = e /\ i = Len(told'[c])
    BY <2>1, <2>2, Appended
  <2>4. QED
    BY <1>1, <1>2, <1>4, <2>3 DEF c, seen
<1>7. QED
  BY <1>5, <1>6

-----------------------------------------------------------------------------
(* The invariant.                                                           *)

\* A closed call stays as it is; an open one has told nobody of an end, and nobody owes it.
LEMMA ClosedStays ==
    ASSUME Inv0, [Next]_vars, NEW c \in Call, Closed(c)
    PROVE  row'[c] = row[c]
<1>1. row \in [Call -> Row] /\ row[c].state \notin LiveStates \cup {"none"}
  BY DEF Inv0, TypeOK, Closed, TerminalStates, LiveStates
<1>2. QED
  BY <1>1, RowSteps DEF RowStep, Opens, Answers, Ends, LiveStates

LEMMA AnnouncementNext ==
    ASSUME Inv0, Announcement, [Next]_vars
    PROVE  Announcement'
<1>1. PICK p \in Proc : Speaks(p)
  BY Steps
<1>w. \A c \in Call : ~Closed(c) => Silent(c) /\ \A q \in Proc : ~Owes(q, c)
  BY DEF Announcement, OwedRightly, ToldRightly, Silent
<1>o. \A q \in Proc, c \in Call : q # p => (Owes(q, c)' <=> Owes(q, c)) /\ work'[q] = work[q]
  BY <1>1 DEF Speaks, Others, Owes, At
<1>2. CASE Quiet(p)
  <2>1. \A q \in Proc, c \in Call : Owes(q, c)' => Owes(q, c) /\ work'[q] = work[q]
    BY <1>2, <1>o DEF Quiet, Owes, At
  <2>2. \A c \in Call : \A i \in DOMAIN told'[c] :
           IsEnd(told'[c][i]) => i \in DOMAIN told[c] /\ told'[c][i] = told[c][i]
    BY <1>2, MurmurKeeps DEF Quiet
  <2>3. OwedOnce'
    BY <2>1 DEF Announcement, OwedOnce
  <2>4. \A c \in Call : Closed(c) => row'[c] = row[c] /\ Closed(c)'
    BY ClosedStays DEF Closed
  <2>5. OwedRightly'
    BY <2>1, <2>2, <2>4 DEF Announcement, OwedRightly, Silent, IsEnd
  <2>6. ToldOnce' /\ ToldRightly'
    BY <2>2, <2>4 DEF Announcement, ToldOnce, ToldRightly, IsEnd
  <2>7. QED
    BY <2>3, <2>5, <2>6 DEF Announcement
<1>3. CASE Wins(p)
  <2>1. PICK c \in Call : /\ row[c].state \in LiveStates
                          /\ Owes(p, c)' /\ Closed(c)' /\ work'[p].seen.state = row'[c].state
    BY <1>3 DEF Wins
  <2>2. ~Closed(c) /\ UNCHANGED told
    BY <1>3, <2>1 DEF Closed, LiveStates, TerminalStates, Wins
  <2>3. \A d \in Call : Owes(p, d)' => d = c
    BY <2>1 DEF Owes
  <2>4. OwedOnce'
    BY <1>o, <1>w, <2>2, <2>3 DEF Announcement, OwedOnce
  <2>5. \A d \in Call : Closed(d) => row'[d] = row[d] /\ Closed(d)'
    BY ClosedStays DEF Closed
  <2>6. OwedRightly'
    <3>1. SUFFICES ASSUME NEW d \in Call, NEW q \in Proc, Owes(q, d)'
                   PROVE  Closed(d)' /\ work'[q].seen.state = row'[d].state /\ Silent(d)'
      BY DEF OwedRightly
    <3>2. CASE q = p
      BY <1>w, <2>1, <2>2, <2>3, <3>1, <3>2 DEF Silent, IsEnd
    <3>3. CASE q # p
      BY <1>o, <2>2, <2>5, <3>1, <3>3 DEF Announcement, OwedRightly, Silent, IsEnd
    <3>4. QED
      BY <3>2, <3>3
  <2>7. ToldOnce' /\ ToldRightly'
    BY <2>2, <2>5 DEF Announcement, ToldOnce, ToldRightly, IsEnd
  <2>8. QED
    BY <2>4, <2>6, <2>7 DEF Announcement
<1>4. CASE Announce(p)
  <2>1. PICK c \in Call : c = work[p].call
    BY <1>4, AnnounceTells
  <2>2. Owes(p, c) /\ Closed(c) /\ work[p].seen.state = row[c].state /\ Silent(c)
    BY <1>4, <2>1 DEF Announcement, OwedRightly, Owes, Announce
  <2>3. /\ \A d \in Call : d # c => told'[d] = told[d]
        /\ \A i \in DOMAIN told'[c] :
              IsEnd(told'[c][i]) => told'[c][i].state = row[c].state /\ i = Len(told'[c])
    BY <1>4, <2>1, <2>2, AnnounceTells DEF Silent
  <2>4. UNCHANGED row /\ work'[p].pc # "announce"
    BY <1>4 DEF Announce, Finish, Become, Idle, Inv0, TypeOK
  <2>5. \A q \in Proc, d \in Call : Owes(q, d)' => Owes(q, d) /\ q # p /\ d # c /\ work'[q] = work[q]
    BY <1>o, <2>2, <2>4 DEF Owes, At, Announcement, OwedOnce
  <2>6. OwedOnce'
    BY <2>5 DEF Announcement, OwedOnce
  <2>7. OwedRightly'
    BY <2>3, <2>4, <2>5 DEF Announcement, OwedRightly, Silent, Closed, IsEnd
  <2>8. ToldOnce'
    BY <2>3 DEF Announcement, ToldOnce, IsEnd
  <2>9. ToldRightly'
    BY <2>2, <2>3, <2>4 DEF Announcement, ToldRightly, Closed, IsEnd
  <2>10. QED
    BY <2>6, <2>7, <2>8, <2>9 DEF Announcement
<1>5. QED
  BY <1>1, <1>2, <1>3, <1>4 DEF Speaks

\* What a call owes its parties when it ends is told once, to each of them, by the process
\* that ended it (calls/services.py, _finish), through crashes and races of witnesses.
THEOREM Announcements == Spec => []Announcement
<1>1. Init => Announcement
  <2>1. NoRow.state = "none" /\ Idle.pc = "idle"
    BY DEF NoRow, Idle
  <2>2. QED
    BY <2>1 DEF Init, Announcement, OwedOnce, OwedRightly, ToldOnce, ToldRightly, Owes, At
<1>2. Inv0 /\ Announcement /\ [Next]_vars => Announcement'
  BY AnnouncementNext
<1>3. QED
  BY <1>1, <1>2, Typed, PTL DEF Spec

\* However many witnesses report the end of a call, the parties hear of it at most once,
\* and what they hear is the state its row has.
THEOREM EndsAreAnnouncedOnce == Spec => []EndAnnouncedOnce
<1>1. Announcement => EndAnnouncedOnce
  <2> SUFFICES ASSUME Announcement, NEW c \in Call
               PROVE  /\ Cardinality(Frames(c, "ended")) <= 1
                      /\ \A i \in Frames(c, "ended") : told[c][i].state = row[c].state
    BY DEF EndAnnouncedOnce
  <2>1. \A i, j \in Frames(c, "ended") : i = j
    BY DEF Announcement, ToldOnce, Frames, IsEnd
  <2>2. Frames(c, "ended") = {} \/ \E i : Frames(c, "ended") = {i}
    BY <2>1
  <2>3. Cardinality(Frames(c, "ended")) <= 1
    <3>1. CASE Frames(c, "ended") = {}
      <4>1. Cardinality(Frames(c, "ended")) = 0
        BY <3>1, FS_EmptySet
      <4>2. QED
        BY <4>1
    <3>2. CASE \E i : Frames(c, "ended") = {i}
      <4>1. Cardinality(Frames(c, "ended")) = 1
        BY <3>2, FS_Singleton
      <4>2. QED
        BY <4>1
    <3>3. QED
      BY <2>2, <3>1, <3>2
  <2>4. QED
    BY <2>3 DEF Announcement, ToldRightly, Frames, IsEnd
<1>2. QED
  BY <1>1, Announcements, PTL
=============================================================================
