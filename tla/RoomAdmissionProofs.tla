------------------------- MODULE RoomAdmissionProofs -------------------------
(***************************************************************************)
(* Proofs about RoomAdmission: no token without the room's yes, nothing    *)
(* before its answer, no credential on another's socket, and a denial that *)
(* only a request from before it can lift.                                 *)
(***************************************************************************)
EXTENDS RoomAdmission, TLAPS

\* A request is idle or a record.
LEMMA Shape ==
    ASSUME TypeOK, NEW r \in Req
    PROVE  /\ req[r] = NoRequest \/ req[r] \in Request
           /\ req[r].pc # "idle" => req[r] \in Request
<1>1. req[r] = NoRequest \/ req[r] \in Request
  BY DEF TypeOK
<1>2. NoRequest.pc = "idle"
  BY DEF NoRequest
<1> QED BY <1>1, <1>2

\* The answer about nobody gets worse.
Kept == /\ answer' \in [User -> {"never", "no", "yes"}]
        /\ \A u \in User : /\ answer[u] # "never" => answer'[u] # "never"
                           /\ answer[u] = "yes" => answer'[u] = "yes"

LEMMA AnsweredKeeps ==
    ASSUME TypeOK, NEW u \in User, NEW yes \in BOOLEAN, Answered(u, yes)
    PROVE  /\ Kept
           /\ answer'[u] # "never"
           /\ yes => answer'[u] = "yes"
BY DEF TypeOK, Answered, Kept

LEMMA IdleKnows == StepKnows(NoRequest)'
BY DEF StepKnows, NoRequest

LEMMA KnowsStill ==
    ASSUME NEW q \in Request, Kept, StepKnows(q)
    PROVE  StepKnows(q)'
<1>1. /\ q.who \in User
      /\ answer[q.who] # "never" => answer'[q.who] # "never"
      /\ answer[q.who] = "yes" => answer'[q.who] = "yes"
  BY DEF Request, Kept
<1> QED BY <1>1 DEF StepKnows

\* A step that moves one request to a step that knows what it must keeps all
\* requests right, when answers only get better.
LEMMA OneRequest ==
    ASSUME TypeOK, \A r \in Req : StepKnows(req[r]), NEW r \in Req,
           NEW q \in Request \cup {NoRequest},
           req' = [req EXCEPT ![r] = q], Kept, StepKnows(q)'
    PROVE  /\ req' \in [Req -> Request \cup {NoRequest}]
           /\ \A s \in Req : StepKnows(req[s])'
<1>1. req' \in [Req -> Request \cup {NoRequest}]
  BY DEF TypeOK
<1>2. ASSUME NEW s \in Req, s # r
      PROVE  StepKnows(req[s])'
  <2>1. req'[s] = req[s] /\ StepKnows(req[s])
    BY <1>2 DEF TypeOK
  <2>2. CASE req[s] = NoRequest
    BY <2>1, <2>2, IdleKnows
  <2>3. CASE req[s] \in Request
    <3>1. PICK old \in Request : old = req[s]
      BY <2>3
    <3>2. StepKnows(old)'
      BY <2>1, <3>1, KnowsStill
    <3> QED BY <2>1, <3>1, <3>2
  <2> QED BY <2>2, <2>3, Shape
<1>3. StepKnows(req[r])'
  BY DEF TypeOK
<1> QED BY <1>1, <1>2, <1>3

LEMMA SameRequests ==
    ASSUME TypeOK, \A r \in Req : StepKnows(req[r]), UNCHANGED req, Kept
    PROVE  \A s \in Req : StepKnows(req[s])'
<1>1. SUFFICES ASSUME NEW s \in Req PROVE StepKnows(req[s])'
  OBVIOUS
<1>2. req'[s] = req[s] /\ StepKnows(req[s])
  BY DEF TypeOK
<1>3. CASE req[s] = NoRequest
  BY <1>2, <1>3, IdleKnows
<1>4. CASE req[s] \in Request
  <2>1. PICK q \in Request : q = req[s]
    BY <1>4
  <2>2. StepKnows(q)'
    BY <1>2, <2>1, KnowsStill
  <2> QED BY <1>2, <2>1, <2>2
<1> QED BY <1>3, <1>4, Shape

\* A request that ends.
LEMMA EndedRequest ==
    ASSUME TypeOK, \A s \in Req : StepKnows(req[s]), NEW r \in Req, Done(r), Kept
    PROVE  /\ req' \in [Req -> Request \cup {NoRequest}]
           /\ \A s \in Req : StepKnows(req[s])'
<1> QED BY IdleKnows, OneRequest DEF Done

\* A request that goes on, with what it reads or decides on the way.
LEMMA MovedRequest ==
    ASSUME TypeOK, \A s \in Req : StepKnows(req[s]), NEW r \in Req, req[r].pc # "idle", Kept,
           NEW step \in Steps \ {"idle"}, NEW status \in Status \cup {NoRow}, NEW admit \in BOOLEAN,
           req' = [req EXCEPT ![r] = [req[r] EXCEPT !.pc = step, !.row = status, !.admit = admit]],
           step \in {"insert", "ask again", "park", "verdict"} => answer'[req[r].who] # "never",
           step \in {"promote", "mint"} => answer'[req[r].who] = "yes",
           step \in {"insert", "tell"} /\ admit => answer'[req[r].who] = "yes",
           step \in {"ask again", "promote", "verdict"} => status \in {"waiting", "left"}
    PROVE  /\ req' \in [Req -> Request \cup {NoRequest}]
           /\ \A s \in Req : StepKnows(req[s])'
<1>1. req[r] \in Request
  BY Shape
<1>2. PICK q : q = [req[r] EXCEPT !.pc = step, !.row = status, !.admit = admit]
  OBVIOUS
<1>3. /\ q \in Request
      /\ q.pc = step /\ q.row = status /\ q.admit = admit /\ q.who = req[r].who
  BY <1>1, <1>2 DEF Request
<1>4. StepKnows(q)'
  BY <1>3 DEF StepKnows
<1>5. req' = [req EXCEPT ![r] = q]
  BY <1>2
<1> QED BY <1>3, <1>4, <1>5, OneRequest

\* Goto and Read are such moves.
LEMMA Moves ==
    ASSUME TypeOK, NEW r \in Req, req[r].pc # "idle"
    PROVE  /\ req[r] \in Request
           /\ \A step \in Steps : Goto(r, step) =>
                req' = [req EXCEPT ![r] = [req[r] EXCEPT !.pc = step, !.row = req[r].row,
                                                         !.admit = req[r].admit]]
           /\ \A step \in Steps, status \in Status : Read(r, status, step) =>
                req' = [req EXCEPT ![r] = [req[r] EXCEPT !.pc = step, !.row = status,
                                                         !.admit = req[r].admit]]
<1>1. req[r] \in Request
  BY Shape
<1>2. ASSUME NEW step \in Steps, Goto(r, step)
      PROVE  req' = [req EXCEPT ![r] = [req[r] EXCEPT !.pc = step, !.row = req[r].row,
                                                      !.admit = req[r].admit]]
  <2>1. [req[r] EXCEPT !.pc = step] = [req[r] EXCEPT !.pc = step, !.row = req[r].row,
                                                      !.admit = req[r].admit]
    BY <1>1 DEF Request
  <2> QED BY <1>2, <2>1 DEF Goto
<1>3. ASSUME NEW step \in Steps, NEW status \in Status, Read(r, status, step)
      PROVE  req' = [req EXCEPT ![r] = [req[r] EXCEPT !.pc = step, !.row = status,
                                                      !.admit = req[r].admit]]
  <2>1. [req[r] EXCEPT !.pc = step, !.row = status]
          = [req[r] EXCEPT !.pc = step, !.row = status, !.admit = req[r].admit]
    BY <1>1 DEF Request
  <2> QED BY <1>3, <2>1 DEF Read
<1> QED BY <1>1, <1>2, <1>3

-----------------------------------------------------------------------------
(* The invariant is kept by every step, one lemma per group of actions.     *)

ReqOK == /\ req' \in [Req -> Request \cup {NoRequest}]
         /\ \A s \in Req : StepKnows(req[s])'

\* While a request is under way there is a room.
LEMMA Busy ==
    ASSUME IInv, NEW r \in Req, req[r].pc # "idle"
    PROVE  room # NoRoom /\ req[r] \in Request /\ req[r].who \in User /\ StepKnows(req[r])
BY Shape DEF IInv, Request

\* Nothing but the requests moves.
LEMMA OnlyRequests ==
    ASSUME IInv, ReqOK, room # NoRoom, UNCHANGED <<room, seat, sockets, wire, minted, shown, told, answer>>
    PROVE  IInv'
BY DEF IInv, ReqOK, TypeOK, TokenNeedsYes, CredentialStaysHome

LEMMA SameAnswer == ASSUME TypeOK, UNCHANGED answer PROVE Kept
BY DEF TypeOK, Kept

LEMMA CreateStep ==
    ASSUME IInv, NEW u \in User, NEW access \in Access, NEW lobby \in BOOLEAN,
           CreateRoom(u, access, lobby)
    PROVE  IInv'
<1> USE DEF IInv, TypeOK
<1>1. Kept /\ answer'[u] = "yes"
  BY AnsweredKeeps DEF CreateRoom
<1>2. ReqOK
  BY <1>1, SameRequests DEF CreateRoom, ReqOK
<1>3. room' \in Room /\ room' # NoRoom /\ room'.creator = u
  BY DEF CreateRoom, Room, NoRoom
<1>4. minted' \subseteq minted \cup {u} /\ told' \subseteq told \cup {u} /\ minted \subseteq minted'
  BY DEF CreateRoom
<1> QED BY <1>1, <1>2, <1>3, <1>4 DEF CreateRoom, ReqOK, Kept, Status, NoRow, TokenNeedsYes,
                                     CredentialStaysHome

LEMMA HostStep ==
    ASSUME IInv, DropLobby \/ \E u \in User : MarkLeft(u)
    PROVE  IInv'
<1> USE DEF IInv, TypeOK
<1>1. Kept
  BY SameAnswer DEF DropLobby, MarkLeft
<1>2. ReqOK
  BY <1>1, SameRequests DEF DropLobby, MarkLeft, ReqOK
<1>3. CASE DropLobby
  <2>1. room' \in Room /\ room' # NoRoom /\ room'.creator = room.creator
    BY <1>3 DEF DropLobby, Room, NoRoom
  <2> QED BY <1>2, <1>3, <2>1 DEF DropLobby, ReqOK, TokenNeedsYes, CredentialStaysHome
<1>4. ASSUME NEW u \in User, MarkLeft(u)
      PROVE  IInv'
  BY <1>2, <1>4 DEF MarkLeft, ReqOK, Status, NoRow, TokenNeedsYes, CredentialStaysHome
<1> QED BY <1>3, <1>4

LEMMA StartStep ==
    ASSUME IInv, NEW r \in Req, NEW u \in User,
           StartJoin(r, u) \/ \E host \in User, admit \in BOOLEAN : StartVerdict(r, host, u, admit)
    PROVE  IInv'
<1> USE DEF IInv
<1>1. Kept
  BY SameAnswer DEF StartJoin, StartVerdict
<1>2. room # NoRoom /\ room.lobby \in BOOLEAN
  BY DEF StartJoin, StartVerdict, TypeOK, Room
<1>3. CASE StartJoin(r, u)
  <2>1. PICK q : q = [pc |-> "find", who |-> u, lobby |-> room.lobby, row |-> NoRow, admit |-> FALSE]
    OBVIOUS
  <2>2. q \in Request /\ q.pc = "find"
    BY <1>2, <2>1 DEF Request, Steps
  <2>3. StepKnows(q)'
    BY <2>2 DEF StepKnows
  <2>4. ReqOK
    BY <1>1, <1>3, <2>1, <2>2, <2>3, OneRequest DEF StartJoin, ReqOK
  <2> QED BY <1>2, <1>3, <2>4, OnlyRequests DEF StartJoin
<1>4. ASSUME NEW host \in User, NEW admit \in BOOLEAN, StartVerdict(r, host, u, admit)
      PROVE  IInv'
  <2>1. PICK q : q = [pc |-> "verdict", who |-> u, lobby |-> room.lobby, row |-> "waiting", admit |-> admit]
    OBVIOUS
  <2>2. q \in Request /\ q.pc = "verdict" /\ q.who = u /\ q.row = "waiting"
    BY <1>2, <2>1 DEF Request, Steps, Status
  <2>3. answer'[u] # "never"
    BY <1>4 DEF StartVerdict, NoRow
  <2>4. StepKnows(q)'
    BY <2>2, <2>3 DEF StepKnows
  <2>5. ReqOK
    BY <1>1, <1>4, <2>1, <2>2, <2>4, OneRequest DEF StartVerdict, ReqOK
  <2> QED BY <1>2, <1>4, <2>5, OnlyRequests DEF StartVerdict
<1> QED BY <1>3, <1>4

\* A re-join follows the row it read.
LEMMA RejoinKeeps ==
    ASSUME IInv, NEW r \in Req, req[r].pc # "idle", seat[req[r].who] # NoRow,
           Rejoin(r, seat[req[r].who]), UNCHANGED answer
    PROVE  ReqOK
<1> USE DEF IInv
<1>1. Kept /\ req[r] \in Request /\ req[r].who \in User
  BY SameAnswer, Busy
<1>2. PICK status \in Status : status = seat[req[r].who]
  BY <1>1 DEF TypeOK
<1>3. req[r].admit \in BOOLEAN
  BY <1>1 DEF Request
<1>4. CASE status = "denied"
  BY <1>1, <1>2, <1>4, EndedRequest DEF Rejoin, ReqOK
<1>5. ASSUME NEW step \in {"promote", "mint", "ask again"}, Read(r, status, step),
             step \in {"promote", "mint"} => answer[req[r].who] = "yes",
             step \in {"promote", "ask again"} => status \in {"waiting", "left"}
      PROVE  ReqOK
  <2>3. step \in Steps \ {"idle"}
    BY <1>5 DEF Steps
  <2> HIDE DEF IInv
  <2>4. TypeOK /\ req[r].pc # "idle" /\ \A s \in Req : StepKnows(req[s])
    BY DEF IInv
  <2>1. req' = [req EXCEPT ![r] = [req[r] EXCEPT !.pc = step, !.row = status, !.admit = req[r].admit]]
    BY <1>5, <2>3, <2>4, Moves
  <2>2. answer'[req[r].who] # "never" /\ UNCHANGED answer
    BY <1>1, <1>2 DEF IInv
  <2> QED BY <1>1, <1>3, <1>5, <2>1, <2>2, <2>3, <2>4, MovedRequest DEF ReqOK
<1> QED BY <1>1, <1>2, <1>4, <1>5 DEF Rejoin

LEMMA FindStep ==
    ASSUME IInv, NEW r \in Req, FindRow(r)
    PROVE  IInv'
<1>1. /\ Kept /\ room # NoRoom /\ req[r] \in Request /\ TypeOK
      /\ req[r].pc # "idle" /\ \A s \in Req : StepKnows(req[s])
  BY SameAnswer, Busy DEF FindRow, IInv
<1>2. CASE seat[req[r].who] = NoRow
  <2>1. Goto(r, "ask")
    BY <1>2 DEF FindRow
  <2>2. req' = [req EXCEPT ![r] = [req[r] EXCEPT !.pc = "ask", !.row = req[r].row, !.admit = req[r].admit]]
    BY <1>1, <2>1, Moves DEF FindRow, Steps
  <2>3. ReqOK
    <3>1. "ask" \in Steps \ {"idle"} /\ req[r].row \in Status \cup {NoRow} /\ req[r].admit \in BOOLEAN
      BY <1>1 DEF Steps, Request
    <3> QED BY <1>1, <2>2, <3>1, MovedRequest DEF ReqOK
  <2> QED BY <1>1, <2>3, OnlyRequests DEF FindRow
<1>3. CASE seat[req[r].who] # NoRow
  <2>1. ReqOK
    BY <1>3, RejoinKeeps DEF FindRow
  <2> QED BY <1>1, <2>1, OnlyRequests DEF FindRow
<1> QED BY <1>2, <1>3

LEMMA AnswerStep ==
    ASSUME IInv, ReqOK, room # NoRoom, Kept,
           UNCHANGED <<room, seat, sockets, wire, minted, shown, told>>
    PROVE  IInv'
<1>1. TypeOK'
  BY DEF IInv, TypeOK, ReqOK, Kept
<1> QED BY <1>1 DEF IInv, TypeOK, ReqOK, Kept, TokenNeedsYes, CredentialStaysHome

LEMMA AskStep ==
    ASSUME IInv, NEW r \in Req, NEW isMember \in BOOLEAN, Ask(r, isMember) \/ AskAgain(r, isMember)
    PROVE  IInv'
<1>1. /\ room # NoRoom /\ TypeOK /\ req[r] \in Request /\ req[r].who \in User /\ StepKnows(req[r])
      /\ req[r].pc # "idle" /\ \A s \in Req : StepKnows(req[s])
      /\ req[r].admit \in BOOLEAN /\ req[r].row \in Status \cup {NoRow}
  BY Busy DEF Ask, AskAgain, IInv, Request
<1>2. AutoAdmit(r, isMember) \in BOOLEAN
  BY DEF AutoAdmit
<1>3. PICK yes \in BOOLEAN : yes = AutoAdmit(r, isMember)
  BY <1>2
<1>4. /\ Kept /\ answer'[req[r].who] # "never"
      /\ yes => answer'[req[r].who] = "yes"
  BY <1>1, <1>3, AnsweredKeeps DEF Ask, AskAgain
<1>5. ReqOK
  <2>1. CASE Ask(r, isMember)
    <3>1. PICK row \in Status \cup {NoRow} : row = req[r].row
      BY <1>1
    <3>2. [req[r] EXCEPT !.pc = "insert", !.admit = yes]
            = [req[r] EXCEPT !.pc = "insert", !.row = row, !.admit = yes]
      BY <1>1, <3>1 DEF Request
    <3>3. req' = [req EXCEPT ![r] = [req[r] EXCEPT !.pc = "insert", !.row = row, !.admit = yes]]
      <4>1. req' = [req EXCEPT ![r] = [req[r] EXCEPT !.pc = "insert", !.admit = AutoAdmit(r, isMember)]]
        BY <2>1, <1>1 DEF Ask, TypeOK
      <4> QED BY <1>3, <3>2, <4>1
    <3>4. PICK step \in Steps \ {"idle"} : step = "insert"
      BY DEF Steps
    <3>5. /\ req' = [req EXCEPT ![r] = [req[r] EXCEPT !.pc = step, !.row = row, !.admit = yes]]
          /\ step \in {"insert", "ask again", "park", "verdict"} => answer'[req[r].who] # "never"
          /\ step \in {"promote", "mint"} => answer'[req[r].who] = "yes"
          /\ step \in {"insert", "tell"} /\ yes => answer'[req[r].who] = "yes"
          /\ step \in {"ask again", "promote", "verdict"} => row \in {"waiting", "left"}
      BY <1>4, <3>3, <3>4
    <3> QED BY <1>1, <1>4, <3>5, MovedRequest DEF ReqOK
  <2>2. CASE AskAgain(r, isMember)
    <3>1. PICK step \in {"promote", "park"} : Goto(r, step) /\ (step = "promote" => yes)
      BY <1>3, <2>2 DEF AskAgain
    <3>3. step \in Steps \ {"idle"}
      BY <3>1 DEF Steps
    <3>2. req' = [req EXCEPT ![r] = [req[r] EXCEPT !.pc = step, !.row = req[r].row, !.admit = req[r].admit]]
      BY <1>1, <3>1, <3>3, Moves
    <3>4. req[r].row \in {"waiting", "left"}
      BY <1>1, <2>2 DEF StepKnows, AskAgain
    <3> QED BY <1>1, <1>4, <3>1, <3>2, <3>3, <3>4, MovedRequest DEF ReqOK
  <2> QED BY <2>1, <2>2
<1>6. UNCHANGED <<room, seat, sockets, wire, minted, shown, told>>
  BY DEF Ask, AskAgain
<1> QED
  <2>1. UNCHANGED <<room, seat, sockets, wire, minted, shown, told>> /\ room # NoRoom
    BY <1>1, <1>6
  <2> QED BY <1>4, <1>5, <2>1, AnswerStep

\* A row that follows the answer.
LEMMA RowStep ==
    ASSUME IInv, ReqOK, room # NoRoom, NEW u \in User, NEW status \in Status,
           seat' = [seat EXCEPT ![u] = status], Kept, answer'[u] # "never",
           status \in {"admitted", "left"} => answer'[u] = "yes",
           UNCHANGED <<room, sockets, wire, minted, shown, told>>
    PROVE  IInv'
<1>1. TypeOK'
  BY DEF IInv, TypeOK, ReqOK, Kept
<1>2. /\ seat'[u] = status /\ status # NoRow
      /\ \A v \in User \ {u} : seat'[v] = seat[v]
  BY DEF IInv, TypeOK, Status, NoRow
<1>3. \A v \in User : /\ seat'[v] # NoRow => answer'[v] # "never"
                      /\ seat'[v] \in {"admitted", "left"} => answer'[v] = "yes"
  BY <1>2 DEF IInv, Kept
<1>4. room # NoRoom => room.creator \in User
  BY DEF IInv, TypeOK, Room
<1>5. room # NoRoom => seat'[room.creator] # NoRow
  BY <1>2, <1>4 DEF IInv
<1> QED BY <1>1, <1>3, <1>5 DEF IInv, ReqOK, Kept, TokenNeedsYes, CredentialStaysHome, TypeOK

LEMMA InsertStep ==
    ASSUME IInv, NEW r \in Req, InsertRow(r)
    PROVE  IInv'
<1>1. /\ Kept /\ room # NoRoom /\ TypeOK /\ req[r] \in Request /\ req[r].who \in User
      /\ StepKnows(req[r]) /\ req[r].admit \in BOOLEAN /\ req[r].row \in Status \cup {NoRow}
  BY SameAnswer, Busy DEF InsertRow, IInv, Request
<1>0. req[r].pc # "idle" /\ \A s \in Req : StepKnows(req[s])
  BY DEF InsertRow, IInv
<1>2. CASE seat[req[r].who] # NoRow
  <2>1. ReqOK
    BY <1>2, RejoinKeeps DEF InsertRow
  <2> QED BY <1>1, <1>2, <2>1, OnlyRequests DEF InsertRow
<1>3. CASE seat[req[r].who] = NoRow
  <2>1. PICK status, step :
          /\ seat' = [seat EXCEPT ![req[r].who] = status] /\ Goto(r, step)
          /\ \/ req[r].admit /\ status = "admitted" /\ step = "mint"
             \/ status = "waiting" /\ step = "park"
    BY <1>3 DEF InsertRow
  <2>2. /\ answer'[req[r].who] # "never"
        /\ status = "admitted" => answer'[req[r].who] = "yes"
    BY <1>1, <2>1 DEF StepKnows, InsertRow
  <2>3. /\ status \in Status /\ status # "left" /\ step \in Steps \ {"idle"}
        /\ step \in {"mint", "park"} /\ (step = "mint" => status = "admitted")
    BY <2>1 DEF Status, Steps
  <2>4. req' = [req EXCEPT ![r] = [req[r] EXCEPT !.pc = step, !.row = req[r].row, !.admit = req[r].admit]]
    BY <1>1, <2>1, <2>3, Moves DEF InsertRow
  <2>5. ReqOK
    BY <1>0, <1>1, <2>2, <2>3, <2>4, MovedRequest DEF ReqOK
  <2> QED BY <1>1, <2>1, <2>2, <2>3, <2>5, RowStep DEF InsertRow
<1> QED BY <1>2, <1>3

LEMMA PromoteStep ==
    ASSUME IInv, NEW r \in Req, Promote(r)
    PROVE  IInv'
<1>1. /\ Kept /\ room # NoRoom /\ TypeOK /\ req[r] \in Request /\ req[r].who \in User
      /\ StepKnows(req[r]) /\ req[r].admit \in BOOLEAN /\ req[r].row \in Status \cup {NoRow}
  BY SameAnswer, Busy DEF Promote, IInv, Request
<1>0. req[r].pc # "idle" /\ \A s \in Req : StepKnows(req[s])
  BY DEF Promote, IInv
<1>2. answer'[req[r].who] = "yes"
  BY <1>1 DEF StepKnows, Promote
<1>3. req' = [req EXCEPT ![r] = [req[r] EXCEPT !.pc = "mint", !.row = req[r].row, !.admit = req[r].admit]]
  BY <1>1, Moves DEF Promote, Steps
<1>4. "mint" \in Steps \ {"idle"} /\ "admitted" \in Status
  BY DEF Steps, Status
<1>5. ReqOK
  BY <1>1, <1>2, <1>3, <1>4, <1>0, MovedRequest DEF ReqOK
<1> QED BY <1>1, <1>2, <1>4, <1>5, RowStep DEF Promote

LEMMA SaveStep ==
    ASSUME IInv, NEW r \in Req, SaveVerdict(r)
    PROVE  IInv'
<1>1. /\ room # NoRoom /\ TypeOK /\ req[r] \in Request /\ req[r].who \in User
      /\ StepKnows(req[r]) /\ req[r].admit \in BOOLEAN /\ req[r].row \in Status \cup {NoRow}
  BY Busy DEF SaveVerdict, IInv, Request
<1>0. req[r].pc # "idle" /\ \A s \in Req : StepKnows(req[s])
  BY DEF SaveVerdict, IInv
<1>2. /\ Kept /\ answer'[req[r].who] # "never"
      /\ req[r].admit => answer'[req[r].who] = "yes"
  BY <1>1, AnsweredKeeps, SameAnswer DEF SaveVerdict, StepKnows
<1>3. req' = [req EXCEPT ![r] = [req[r] EXCEPT !.pc = "tell", !.row = req[r].row, !.admit = req[r].admit]]
  BY <1>1, Moves DEF SaveVerdict, Steps
<1>4. "tell" \in Steps \ {"idle"}
  BY DEF Steps
<1>5. ReqOK
  BY <1>1, <1>2, <1>3, <1>4, <1>0, MovedRequest DEF ReqOK
<1>6. PICK status \in Status :
        /\ seat' = [seat EXCEPT ![req[r].who] = status]
        /\ \/ status = "admitted" /\ req[r].admit
           \/ status = "denied"
  BY DEF SaveVerdict, Status
<1> QED BY <1>1, <1>2, <1>5, <1>6, RowStep DEF SaveVerdict

LEMMA EndStep ==
    ASSUME IInv, NEW r \in Req, Mint(r) \/ Park(r) \/ TellVerdict(r) \/ Abort(r)
    PROVE  IInv'
<1>1. /\ Kept /\ room # NoRoom /\ TypeOK /\ req[r].who \in User /\ StepKnows(req[r])
      /\ req[r].admit \in BOOLEAN
  BY SameAnswer, Busy DEF Mint, Park, TellVerdict, Abort, IInv, Request
<1>2. ReqOK
  BY <1>1, EndedRequest DEF Mint, Park, TellVerdict, Abort, ReqOK, IInv
<1>3. CASE Mint(r)
  BY <1>1, <1>2, <1>3 DEF Mint, StepKnows, ReqOK, IInv, TypeOK, TokenNeedsYes, CredentialStaysHome
<1>4. CASE Park(r)
  BY <1>1, <1>2, <1>4 DEF Park, StepKnows, ReqOK, IInv, TypeOK, TokenNeedsYes, CredentialStaysHome
<1>5. CASE Abort(r)
  BY <1>1, <1>2, <1>5, OnlyRequests DEF Abort
<1>6. CASE TellVerdict(r) /\ ~req[r].admit
  BY <1>1, <1>2, <1>6, OnlyRequests DEF TellVerdict
<1>7. CASE TellVerdict(r) /\ req[r].admit
  <2>1. answer[req[r].who] = "yes" /\ minted' = minted \cup {req[r].who}
    BY <1>1, <1>7 DEF TellVerdict, StepKnows
  <2>2. wire' \subseteq Frame /\ \A f \in wire' : f.about \in minted'
    BY <1>1, <1>7, <2>1 DEF TellVerdict, NotifyAdmitted, Frame, IInv, TypeOK
  <2> QED BY <1>1, <1>2, <1>7, <2>1, <2>2 DEF TellVerdict, ReqOK, IInv, TypeOK, TokenNeedsYes,
                                             CredentialStaysHome
<1> QED BY <1>1, <1>3, <1>4, <1>5, <1>6, <1>7

LEMMA SocketStep ==
    ASSUME IInv, \/ \E u \in User : Subscribe(u) \/ Unsubscribe(u) \/ Look(u)
                 \/ \E f \in wire : Deliver(f)
    PROVE  IInv'
<1>1. Kept /\ UNCHANGED <<room, seat, req, minted, answer>>
  BY SameAnswer DEF Subscribe, Unsubscribe, Look, Deliver, IInv
<1>2. ReqOK
  BY <1>1, SameRequests DEF ReqOK, IInv, TypeOK
<1>3. ASSUME NEW u \in User, Belongs(u)
      PROVE  answer[u] # "never"
  BY <1>3 DEF Belongs, IInv
<1>4. ASSUME NEW u \in User, Subscribe(u) \/ Unsubscribe(u) \/ Look(u)
      PROVE  IInv'
  BY <1>1, <1>2, <1>3, <1>4 DEF Subscribe, Unsubscribe, Look, ReqOK, IInv, TypeOK, TokenNeedsYes,
                                CredentialStaysHome
<1>5. ASSUME NEW f \in wire, Deliver(f)
      PROVE  IInv'
  <2>1. f \in Frame /\ f.to \in User /\ f.about \in User /\ f.about \in minted
    BY DEF IInv, TypeOK, Frame
  <2>2. shown' \in [User -> SUBSET User] /\ \A u \in User : shown'[u] \subseteq {u} \cap minted
    BY <1>5, <2>1 DEF Deliver, Redacted, IInv, TypeOK, CredentialStaysHome
  <2> QED BY <1>1, <1>2, <1>5, <2>2 DEF Deliver, ReqOK, IInv, TypeOK, TokenNeedsYes,
                                        CredentialStaysHome
<1> QED BY <1>4, <1>5

-----------------------------------------------------------------------------
(* The theorems.                                                            *)

LEMMA InitIInv == Init => IInv
<1> SUFFICES ASSUME Init PROVE IInv
  OBVIOUS
<1>1. \A r \in Req : StepKnows(req[r]) /\ req[r].pc = "idle"
  BY DEF Init, StepKnows, NoRequest
<1> QED BY <1>1 DEF Init, IInv, TypeOK, NoRow, TokenNeedsYes, CredentialStaysHome

LEMMA StepIInv == IInv /\ [Next]_vars => IInv'
<1> SUFFICES ASSUME IInv, [Next]_vars PROVE IInv'
  OBVIOUS
<1>1. CASE UNCHANGED vars
  <2>1. Kept /\ TypeOK
    BY <1>1, SameAnswer DEF vars, IInv
  <2>2. ReqOK
    BY <1>1, <2>1, SameRequests DEF vars, ReqOK, IInv, TypeOK
  <2> QED BY <1>1, <2>2 DEF vars, ReqOK, IInv, TypeOK, TokenNeedsYes, CredentialStaysHome
<1>2. ASSUME NEW r \in Req, Join(r) \/ Verdict(r) \/ Abort(r)
      PROVE  IInv'
  BY <1>2, StartStep, FindStep, AskStep, InsertStep, PromoteStep, SaveStep, EndStep
     DEF Join, Verdict
<1> QED BY <1>1, <1>2, CreateStep, HostStep, SocketStep DEF Next

\* The inductive invariant holds of every behaviour: what requests and frames
\* in flight carry never runs ahead of the room's answers.
THEOREM AdmissionInductive == Spec => []IInv
BY InitIInv, StepIInv, PTL DEF Spec

\* No token without the room's yes, whatever requests race.
THEOREM TokensNeedYes == Spec => []TokenNeedsYes
<1>1. IInv => TokenNeedsYes
  BY DEF IInv
<1> QED BY <1>1, AdmissionInductive, PTL

\* A row, a socket and a look at the room come after an answer: a membership
\* lookup that failed leaves nothing behind.
THEOREM NothingBefore == Spec => []NothingBeforeAnswer
<1>1. IInv => NothingBeforeAnswer
  BY DEF IInv, NothingBeforeAnswer
<1> QED BY <1>1, AdmissionInductive, PTL

\* Only a request that read the row before the denial lifts it.
THEOREM DenialStays == Spec => DenialOutlastsJoins
<1>1. IInv /\ [Next]_vars =>
        [\A u \in User : seat[u] = "denied" /\ ~StaleWriter(u) => seat'[u] = "denied"]_vars
  <2> SUFFICES ASSUME IInv, Next, NEW u \in User, seat[u] = "denied", ~StaleWriter(u)
               PROVE  seat'[u] = "denied"
    BY DEF StaleWriter
  <2>1. TypeOK /\ seat[u] # NoRow
    BY DEF IInv, NoRow
  <2>2. ASSUME NEW r \in Req, req[r].pc \in {"promote", "verdict"}, req[r].who = u
        PROVE  FALSE
    BY <2>2, Busy DEF StepKnows, StaleWriter
  <2>3. ASSUME NEW r \in Req, Promote(r) \/ SaveVerdict(r)
        PROVE  seat'[u] = "denied"
    BY <2>1, <2>2, <2>3 DEF Promote, SaveVerdict, TypeOK
  <2>4. ASSUME NEW r \in Req, InsertRow(r)
        PROVE  seat'[u] = "denied"
    BY <2>1, <2>4 DEF InsertRow, TypeOK
  <2>5. ASSUME NEW r \in Req, Join(r) \/ Verdict(r) \/ Abort(r)
        PROVE  seat'[u] = "denied"
    BY <2>3, <2>4, <2>5 DEF Join, Verdict, StartJoin, FindRow, Ask, AskAgain, Mint, Park,
                            StartVerdict, TellVerdict, Abort
  <2>6. ASSUME NEW c \in User, NEW access \in Access, NEW lobby \in BOOLEAN, CreateRoom(c, access, lobby)
        PROVE  seat'[u] = "denied"
    BY <2>6 DEF CreateRoom, IInv, TypeOK, NoRow
  <2> QED BY <2>1, <2>5, <2>6 DEF Next, DropLobby, MarkLeft, Subscribe, Unsubscribe, Look, Deliver, TypeOK
<1> QED BY <1>1, AdmissionInductive, PTL DEF Spec, DenialOutlastsJoins
=============================================================================
