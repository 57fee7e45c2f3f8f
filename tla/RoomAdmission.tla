---------------------------- MODULE RoomAdmission ----------------------------
(***************************************************************************)
(* One room's lobby: services.py's create, join and host verdicts, the     *)
(* views that call them and the lobby socket of consumers.py.  A request   *)
(* is a process: each query, the membership lookup and each save is a step *)
(* of its own, so that what it read may be stale when it writes.  answer   *)
(* is the history the properties speak of: what the room has decided.      *)
(***************************************************************************)
EXTENDS FiniteSets

CONSTANTS
    User,   \* accounts that hold the join code
    Req     \* HTTP requests that run at the same time

ASSUME ReqAssumption == User # {} /\ Req # {}

VARIABLES
    room,     \* the Room row, or NoRoom
    seat,     \* per user, the status of the RoomParticipant row
    req,      \* where each request is, with what it has read
    sockets,  \* who watches the lobby
    wire,     \* the lobby.admitted frames on their way to a socket, which may lose them
    minted,   \* whose media tokens have been handed out in a response
    shown,    \* per user, whose tokens their lobby sockets have shown them
    told,     \* who was shown the room's scope or its participants
    answer    \* history: the best answer the room has reached about a user

vars == <<room, seat, req, sockets, wire, minted, shown, told, answer>>

Access == {"public", "scope_trusted", "restricted"}
Status == {"waiting", "admitted", "denied", "left"}
NoRow == "none"
NoRoom == [none |-> TRUE]
Room == [creator: User, access: Access, lobby: BOOLEAN]

\* A join is asked before its row exists ("ask") or about a waiting row ("ask again");
\* lobby and row are the room's admit_required and the seat as the request read them.
Steps == {"idle", "find", "ask", "insert", "ask again", "promote", "mint", "park",
          "verdict", "tell"}
NoRequest == [pc |-> "idle"]
Request == [pc: Steps \ {"idle"}, who: User, lobby: BOOLEAN,
            row: Status \cup {NoRow}, admit: BOOLEAN]
Frame == [about: User, to: User]

Init ==
    /\ room = NoRoom
    /\ seat = [u \in User |-> NoRow]
    /\ req = [r \in Req |-> NoRequest]
    /\ sockets = {} /\ wire = {} /\ told = {}
    /\ minted = {}
    /\ shown = [u \in User |-> {}]
    /\ answer = [u \in User |-> "never"]

-----------------------------------------------------------------------------
(* Helpers.                                                                 *)

Goto(r, step) == req' = [req EXCEPT ![r].pc = step]
Read(r, status, step) == req' = [req EXCEPT ![r].pc = step, ![r].row = status]
Done(r) == req' = [req EXCEPT ![r] = NoRequest]

\* The two membership tests: the socket's _is_member, the views' _is_participant.
Belongs(u) == room # NoRoom /\ (room.creator = u \/ seat[u] # NoRow)

Answered(u, yes) ==
    answer' = [answer EXCEPT ![u] = IF yes \/ @ = "yes" THEN "yes" ELSE "no"]

\* notify_lobby: one copy for each socket of the moment, on its own way.  The
\* frames of an arrival and of a denial carry no token and are left out.
NotifyAdmitted(about) == wire' = wire \cup {[about |-> about, to |-> u] : u \in sockets}

-----------------------------------------------------------------------------
(* Creating the room: the row, the provider's room and the host's seat in   *)
(* one transaction; then the host's token, which the provider may refuse.   *)

CreateRoom(u, access, lobby) ==
    /\ room = NoRoom
    /\ room' = [creator |-> u, access |-> access, lobby |-> lobby]
    /\ seat' = [seat EXCEPT ![u] = "admitted"]
    /\ Answered(u, TRUE)
    /\ \/ minted' = minted \cup {u} /\ told' = told \cup {u}
       \/ UNCHANGED <<minted, told>>
    /\ UNCHANGED <<req, sockets, wire, shown>>

\* The host's product drops the lobby, or records a departure.
DropLobby ==
    /\ room # NoRoom
    /\ room' = [room EXCEPT !.lobby = FALSE]
    /\ UNCHANGED <<seat, req, sockets, wire, minted, shown, told, answer>>

MarkLeft(u) ==
    /\ seat[u] = "admitted"
    /\ seat' = [seat EXCEPT ![u] = "left"]
    /\ UNCHANGED <<room, req, sockets, wire, minted, shown, told, answer>>

-----------------------------------------------------------------------------
(* Joining.                                                                 *)

\* RoomJoinView: the room as it is read here decides what follows.
StartJoin(r, u) ==
    /\ req[r].pc = "idle"
    /\ room # NoRoom
    /\ req' = [req EXCEPT ![r] = [pc |-> "find", who |-> u, lobby |-> room.lobby,
                                  row |-> NoRow, admit |-> FALSE]]
    /\ UNCHANGED <<room, seat, sockets, wire, minted, shown, told, answer>>

\* Mutant of Rejoin: who was denied is readmitted like who left.
RejoinForgiving(r, status) ==
    \/ status \in {"denied", "left"} /\ Read(r, status, "promote")
    \/ status = "admitted" /\ Read(r, status, "mint")
    \/ status = "waiting" /\ Read(r, status, "ask again")

\* _rejoin: a denial answers 403, an admission is honoured, a wait is asked again.
Rejoin(r, status) ==
    \/ status = "denied" /\ Done(r)
    \/ status = "left" /\ Read(r, status, "promote")
    \/ status = "admitted" /\ Read(r, status, "mint")
    \/ status = "waiting" /\ Read(r, status, "ask again")

\* Mutant of FindRow: the row is written ahead of the verdict.
FindRowFirst(r) ==
    /\ req[r].pc = "find"
    /\ IF seat[req[r].who] = NoRow
         THEN /\ seat' = [seat EXCEPT ![req[r].who] = "waiting"]
              /\ Read(r, "waiting", "ask again")
         ELSE Rejoin(r, seat[req[r].who]) /\ UNCHANGED seat
    /\ UNCHANGED <<room, sockets, wire, minted, shown, told, answer>>

FindRow(r) ==
    /\ req[r].pc = "find"
    /\ IF seat[req[r].who] = NoRow THEN Goto(r, "ask") ELSE Rejoin(r, seat[req[r].who])
    /\ UNCHANGED <<room, seat, sockets, wire, minted, shown, told, answer>>

\* _should_auto_admit, of the room as the request read it and what the
\* SCOPE_PROVIDER says of the user just then.
AutoAdmit(r, isMember) ==
    \/ room.creator = req[r].who
    \/ room.access = "public"
    \/ room.access = "scope_trusted" /\ isMember
    \/ ~req[r].lobby

\* A first join: the decision comes before the row.
Ask(r, isMember) ==
    /\ req[r].pc = "ask"
    /\ req' = [req EXCEPT ![r].pc = "insert", ![r].admit = AutoAdmit(r, isMember)]
    /\ Answered(req[r].who, AutoAdmit(r, isMember))
    /\ UNCHANGED <<room, seat, sockets, wire, minted, shown, told>>

\* Mutant of InsertRow: the loser of the race follows its own verdict, not the row.
InsertRowOwn(r) ==
    /\ req[r].pc = "insert"
    /\ seat' = [seat EXCEPT ![req[r].who] =
                  IF @ # NoRow THEN @ ELSE IF req[r].admit THEN "admitted" ELSE "waiting"]
    /\ IF seat[req[r].who] = NoRow /\ ~req[r].admit THEN Goto(r, "park") ELSE Goto(r, "mint")
    /\ UNCHANGED <<room, sockets, wire, minted, shown, told, answer>>

\* get_or_create: of two first joins the row that won decides.
InsertRow(r) ==
    /\ req[r].pc = "insert"
    /\ IF seat[req[r].who] # NoRow
         THEN Rejoin(r, seat[req[r].who]) /\ UNCHANGED seat
         ELSE /\ seat' = [seat EXCEPT ![req[r].who] = IF req[r].admit THEN "admitted" ELSE "waiting"]
              /\ Goto(r, IF req[r].admit THEN "mint" ELSE "park")
    /\ UNCHANGED <<room, sockets, wire, minted, shown, told, answer>>

\* Still waiting: the answer may have changed since.
AskAgain(r, isMember) ==
    /\ req[r].pc = "ask again"
    /\ Goto(r, IF AutoAdmit(r, isMember) THEN "promote" ELSE "park")
    /\ Answered(req[r].who, AutoAdmit(r, isMember))
    /\ UNCHANGED <<room, seat, sockets, wire, minted, shown, told>>

\* save(update_fields=["status"]): whatever the row says by now.
Promote(r) ==
    /\ req[r].pc = "promote"
    /\ seat' = [seat EXCEPT ![req[r].who] = "admitted"]
    /\ Goto(r, "mint")
    /\ UNCHANGED <<room, sockets, wire, minted, shown, told, answer>>

Mint(r) ==
    /\ req[r].pc = "mint"
    /\ minted' = minted \cup {req[r].who}
    /\ told' = told \cup {req[r].who}
    /\ Done(r)
    /\ UNCHANGED <<room, seat, sockets, wire, shown, answer>>

\* _wait: the caller gets the room without a token.
Park(r) ==
    /\ req[r].pc = "park"
    /\ told' = told \cup {req[r].who}
    /\ Done(r)
    /\ UNCHANGED <<room, seat, sockets, wire, minted, shown, answer>>

-----------------------------------------------------------------------------
(* The host's verdicts.                                                     *)

\* The lobby views admit the creator alone; _waiting finds the row they name.
StartVerdict(r, host, guest, admit) ==
    /\ req[r].pc = "idle"
    /\ room # NoRoom /\ room.creator = host
    /\ seat[guest] = "waiting"
    /\ req' = [req EXCEPT ![r] = [pc |-> "verdict", who |-> guest, lobby |-> room.lobby,
                                  row |-> "waiting", admit |-> admit]]
    /\ UNCHANGED <<room, seat, sockets, wire, minted, shown, told, answer>>

\* Mutant of SaveVerdict: the verb of the route is written, not the status.
SaveVerdictVerb(r) ==
    /\ req[r].pc = "verdict"
    /\ seat' = [seat EXCEPT ![req[r].who] = IF req[r].admit THEN "admit" ELSE "deny"]
    /\ IF req[r].admit THEN Answered(req[r].who, TRUE) ELSE UNCHANGED answer
    /\ Goto(r, "tell")
    /\ UNCHANGED <<room, sockets, wire, minted, shown, told>>

SaveVerdict(r) ==
    /\ req[r].pc = "verdict"
    /\ seat' = [seat EXCEPT ![req[r].who] = IF req[r].admit THEN "admitted" ELSE "denied"]
    /\ IF req[r].admit THEN Answered(req[r].who, TRUE) ELSE UNCHANGED answer
    /\ Goto(r, "tell")
    /\ UNCHANGED <<room, sockets, wire, minted, shown, told>>

\* lobby.admitted carries the guest's token, and so does the host's response.
TellVerdict(r) ==
    /\ req[r].pc = "tell"
    /\ IF req[r].admit
         THEN NotifyAdmitted(req[r].who) /\ minted' = minted \cup {req[r].who}
         ELSE UNCHANGED <<wire, minted>>
    /\ Done(r)
    /\ UNCHANGED <<room, seat, sockets, shown, told, answer>>

\* A lookup that answers 503, a provider that refuses, a process that dies.
Abort(r) ==
    /\ req[r].pc # "idle"
    /\ Done(r)
    /\ UNCHANGED <<room, seat, sockets, wire, minted, shown, told, answer>>

-----------------------------------------------------------------------------
(* The lobby socket and the reads.                                          *)

Subscribe(u) ==
    /\ u \notin sockets
    /\ Belongs(u)
    /\ sockets' = sockets \cup {u}
    /\ UNCHANGED <<room, seat, req, wire, minted, shown, told, answer>>

\* What was on its way to a socket that closes is lost.
Unsubscribe(u) ==
    /\ u \in sockets
    /\ sockets' = sockets \ {u}
    /\ wire' = {f \in wire : f.to # u}
    /\ UNCHANGED <<room, seat, req, minted, shown, told, answer>>

\* realtime_signal takes the token out of every copy but the addressee's.
Redacted(f) == f.to # f.about

Deliver(f) ==
    /\ wire' = wire \ {f}
    /\ shown' = [shown EXCEPT ![f.to] = IF Redacted(f) THEN @ ELSE @ \cup {f.about}]
    /\ UNCHANGED <<room, seat, req, sockets, minted, told, answer>>

\* The room's page hides its scope, and the participants their names, from strangers.
Look(u) ==
    /\ Belongs(u)
    /\ told' = told \cup {u}
    /\ UNCHANGED <<room, seat, req, sockets, wire, minted, shown, answer>>

-----------------------------------------------------------------------------
Join(r) ==
    \/ \E u \in User : StartJoin(r, u)
    \/ \E isMember \in BOOLEAN : Ask(r, isMember) \/ AskAgain(r, isMember)
    \/ FindRow(r) \/ InsertRow(r) \/ Promote(r)
    \/ Mint(r) \/ Park(r)

Verdict(r) ==
    \/ \E host, guest \in User, admit \in BOOLEAN : StartVerdict(r, host, guest, admit)
    \/ SaveVerdict(r)
    \/ TellVerdict(r)

Next ==
    \/ \E u \in User, access \in Access, lobby \in BOOLEAN : CreateRoom(u, access, lobby)
    \/ DropLobby
    \/ \E u \in User : MarkLeft(u)
    \/ \E r \in Req : Join(r) \/ Verdict(r) \/ Abort(r)
    \/ \E u \in User : Subscribe(u) \/ Unsubscribe(u) \/ Look(u)
    \/ \E f \in wire : Deliver(f)

Spec == Init /\ [][Next]_vars

-----------------------------------------------------------------------------
(* Properties.                                                              *)

\* Types of the rows, the requests and the frames.
TypeOK ==
    /\ room \in Room \cup {NoRoom}
    /\ seat \in [User -> Status \cup {NoRow}]
    /\ sockets \subseteq User /\ told \subseteq User
    /\ req \in [Req -> Request \cup {NoRequest}]
    /\ wire \subseteq Frame
    /\ minted \subseteq User
    /\ shown \in [User -> SUBSET User]
    /\ answer \in [User -> {"never", "no", "yes"}]

\* A token for a user is handed out only when the room said yes to that user:
\* by its access level, its scope, its dropped lobby or its host.  Two first
\* joins, a re-join and two host tabs may race.
TokenNeedsYes == \A u \in minted : answer[u] = "yes"

\* Nothing before an answer (services.py:185-189): a row, a lobby socket or a
\* look at the room belongs to a user about whom a decision was completed,
\* however many membership lookups failed before.
NothingBeforeAnswer ==
    \A u \in User : (u \in sockets \cup told \/ seat[u] # NoRow) => answer[u] # "never"

\* A part of the invariant: the redaction of a frame looks at nothing but the frame, so a
\* lobby socket shows its owner's token alone, and only one minted (consumers.py:104-114).
CredentialStaysHome == \A u \in User : shown[u] \subseteq {u} \cap minted

\* What a step of a request has behind it.
StepKnows(q) ==
    /\ q.pc \in {"insert", "ask again", "park", "verdict"} => answer[q.who] # "never"
    /\ q.pc \in {"promote", "mint"} => answer[q.who] = "yes"
    /\ q.pc = "insert" /\ q.admit => answer[q.who] = "yes"
    /\ q.pc = "tell" /\ q.admit => answer[q.who] = "yes"
    /\ q.pc \in {"ask again", "promote", "verdict"} => q.row \in {"waiting", "left"}

\* The inductive invariant the proofs use: rows, requests and frames in flight
\* never run ahead of the room's answer.
IInv ==
    /\ TypeOK
    /\ room # NoRoom => seat[room.creator] # NoRow
    /\ room = NoRoom => /\ \A r \in Req : req[r].pc = "idle"
                        /\ \A u \in User : seat[u] = NoRow
    /\ \A u \in User :
          /\ seat[u] # NoRow => answer[u] # "never"
          /\ seat[u] \in {"admitted", "left"} => answer[u] = "yes"
          /\ u \in sockets \cup told => answer[u] # "never"
    /\ \A r \in Req : StepKnows(req[r])
    /\ \A f \in wire : f.about \in minted
    /\ TokenNeedsYes
    /\ CredentialStaysHome

\* A request that read this row before the denial and has yet to write it.
StaleWriter(u) ==
    \E r \in Req : /\ req[r].pc \in {"ask again", "promote", "verdict"}
                  /\ req[r].who = u
                  /\ req[r].row # "denied"

\* A denial is lifted by no request that began after it ("DENIED is sticky for
\* this room", services.py:219): only by one that read the row before.
DenialOutlastsJoins ==
    [][\A u \in User : seat[u] = "denied" /\ ~StaleWriter(u) => seat'[u] = "denied"]_vars
=============================================================================
