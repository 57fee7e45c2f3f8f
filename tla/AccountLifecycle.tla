-------------------------- MODULE AccountLifecycle --------------------------
(***************************************************************************)
(* What becomes of a person's rooms, admissions, calls and metered stays    *)
(* when the account is merged away (actions.py) or erased (erasure.py).     *)
(* Events are delivered at least once and in any order, a handler may die,  *)
(* and webhooks about a stay arrive when they like.  The merge reads before *)
(* it writes, in one transaction; the in-process erasure is three writes.   *)
(* Nothing stops a person from opening rooms meanwhile: a request only      *)
(* needs the user row, which goes after its event was handled.              *)
(***************************************************************************)
EXTENDS FiniteSets

CONSTANTS
    User,      \* accounts, as other services know them
    Room,      \* rooms that may be created
    Stay,      \* connections to media rooms, each a span if its webhook arrives
    Person,    \* whose token the connection was made with
    SignsInto, \* bound: the accounts a guest may turn out to have, <<guest, account>>
    Visits,    \* bound: who knocks at a room
    Rings,     \* bound: who calls whom, <<caller, callee>>
    Forgets,   \* bound: who may ask to be erased
    Worker,    \* action handlers that run at the same time
    Nobody     \* no user: a room that does not exist, a span never written

ASSUME AccountsAssumption ==
    /\ Person \in [Stay -> User]
    /\ SignsInto \subseteq User \X User
    /\ Rings \subseteq User \X User
    /\ \A p, q \in SignsInto : p[1] # q[2]     \* who is signed into is no guest
    /\ Nobody \notin User

VARIABLES
    accounts,  \* user rows that this service has
    leaving,   \* accounts whose merge or erasure was published
    host,      \* per room, created_by, or Nobody
    seat,      \* per room and user, the RoomParticipant row
    name,      \* per stay, the user_id of its span, or Nobody
    calls,     \* the Call rows, <<caller, callee>>
    sent,      \* events published: user.merged and gdpr.erasure.requested
    acked,     \* events a handler returned from
    job        \* per worker, the event it handles and what it has read

\* History, which no guard reads: the rooms a guest opened or knocked at when a worker had
\* begun its merge's reads, or had handled it, <<guest, room>>.
VARIABLE late

vars == <<accounts, leaving, host, seat, name, calls, sent, acked, job, late>>

Rows == <<host, seat, name, calls>>
Status == {"none", "admitted", "denied"}

\* pseudonymize_user: one keyed digest per person, that names nobody else.
Pseudonym(u) == <<"erased", u>>
ASSUME DigestAssumption == \A u \in User : Pseudonym(u) \notin User \cup {Nobody}
Names == User \cup {Pseudonym(u) : u \in User} \cup {Nobody}

Merged == [kind: {"merged"}, from: User, into: User]
Erasure == [kind: {"erase"}, who: User]

\* The merge's reads: the guest's admissions first; then whether it hosts, and of the
\* survivor, which a guest's requests do not touch, its row and the rooms it sits in.
LookJob == [pc: {"look"}, event: Merged, admissions: SUBSET Room]
MergeJob == [pc: {"merge"}, event: Merged, admissions: SUBSET Room, owns: BOOLEAN,
             ready: BOOLEAN, taken: SUBSET Room]
EraseJob == [pc: {"rooms", "seats", "spans"}, event: Erasure]
NoJob == [pc |-> "idle"]

Init ==
    /\ accounts \in SUBSET User
    /\ leaving = {} /\ sent = {} /\ acked = {}
    /\ host = [r \in Room |-> Nobody]
    /\ seat = [r \in Room |-> [u \in User |-> "none"]]
    /\ name = [s \in Stay |-> Nobody]
    /\ calls = {} /\ late = {}
    /\ job = [w \in Worker |-> NoJob]

-----------------------------------------------------------------------------
(* The world around: accounts, rooms, the media server.                     *)

\* The user row of an account lands here, late or soon.
Project(u) ==
    /\ u \notin accounts \cup leaving
    /\ accounts' = accounts \cup {u}
    /\ UNCHANGED <<leaving, Rows, sent, acked, job, late>>

\* A merge of u has begun its reads, in a worker that is still at it or that returned.
MergeHasRead(u) ==
    \/ \E w \in Worker : job[w].pc \in {"look", "merge"} /\ job[w].event.from = u
    \/ \E e \in acked \cap Merged : e.from = u

Remember(u, r) == late' = IF MergeHasRead(u) THEN late \cup {<<u, r>>} ELSE late

\* Any request with a user row may open a room, that of a guest who signed in too.
CreateRoom(u, r) ==
    /\ u \in accounts
    /\ host[r] = Nobody
    /\ host' = [host EXCEPT ![r] = u]
    /\ seat' = [seat EXCEPT ![r][u] = "admitted"]
    /\ Remember(u, r)
    /\ UNCHANGED <<accounts, leaving, name, calls, sent, acked, job>>

\* The lobby's outcome: a row, admitted or denied; the room's host is admitted.
Knock(u, r, status) ==
    /\ u \in accounts \cap Visits
    /\ host[r] # Nobody /\ (host[r] = u => status = "admitted")
    /\ seat[r][u] = "none"
    /\ seat' = [seat EXCEPT ![r][u] = status]
    /\ Remember(u, r)
    /\ UNCHANGED <<accounts, leaving, host, name, calls, sent, acked, job>>

\* One party rings another; both are foreign keys.
PlaceCall(c) ==
    /\ c[1] \in accounts /\ c[2] \in accounts
    /\ calls' = calls \cup {c}
    /\ UNCHANGED <<accounts, leaving, host, seat, name, sent, acked, job, late>>

\* Mutant of Webhook: update_or_create in place of get_or_create.
WebhookUpdates(s) ==
    /\ name' = [name EXCEPT ![s] = Person[s]]
    /\ UNCHANGED <<accounts, leaving, host, seat, calls, sent, acked, job, late>>

\* open_span: the row is written under the identity the token was minted for;
\* an existing row is left as it is.
Webhook(s) ==
    /\ name[s] = Nobody
    /\ name' = [name EXCEPT ![s] = Person[s]]
    /\ UNCHANGED <<accounts, leaving, host, seat, calls, sent, acked, job, late>>

\* A guest turns out to have an account.
SignIn(guest, account) ==
    /\ guest \in accounts \ leaving /\ account \notin leaving
    /\ leaving' = leaving \cup {guest}
    /\ sent' = sent \cup {[kind |-> "merged", from |-> guest, into |-> account]}
    /\ UNCHANGED <<accounts, Rows, acked, job, late>>

RequestErasure(u) ==
    /\ u \in (accounts \cap Forgets) \ leaving
    /\ leaving' = leaving \cup {u}
    /\ sent' = sent \cup {[kind |-> "erase", who |-> u]}
    /\ UNCHANGED <<accounts, Rows, acked, job, late>>

\* The user row goes once its event was handled, and takes by CASCADE what still
\* points at it: rooms with their admissions, admissions, and calls as either party.
Cascade(u) ==
    /\ host' = [r \in Room |-> IF host[r] = u THEN Nobody ELSE host[r]]
    /\ seat' = [r \in Room |-> [v \in User |->
                  IF v = u \/ host[r] = u THEN "none" ELSE seat[r][v]]]
    /\ calls' = {c \in calls : u \notin {c[1], c[2]}}

DeleteAccount(u) ==
    /\ u \in accounts
    /\ \E e \in acked : \/ e \in Merged /\ e.from = u
                        \/ e \in Erasure /\ e.who = u
    /\ accounts' = accounts \ {u}
    /\ Cascade(u)
    /\ UNCHANGED <<leaving, name, sent, acked, job, late>>

-----------------------------------------------------------------------------
(* user.merged.                                                             *)

SeatsOf(u) == {r \in Room : seat[r][u] # "none"}
RoomsOf(u) == {r \in Room : host[r] = u}

MergeLook(w, e) ==
    /\ job[w] = NoJob
    /\ e \in sent \cap Merged
    /\ job' = [job EXCEPT ![w] = [pc |-> "look", event |-> e, admissions |-> SeatsOf(e.from)]]
    /\ UNCHANGED <<accounts, leaving, Rows, sent, acked, late>>

MergeRead(w) ==
    /\ job[w].pc = "look"
    /\ LET e == job[w].event IN
         job' = [job EXCEPT ![w] =
                   [pc |-> "merge", event |-> e, admissions |-> job[w].admissions,
                    owns |-> RoomsOf(e.from) # {}, ready |-> e.into \in accounts,
                    taken |-> SeatsOf(e.into)]]
    /\ UNCHANGED <<accounts, leaving, Rows, sent, acked, late>>

Finish(w) == job' = [job EXCEPT ![w] = NoJob]
Ack(w) == acked' = acked \cup {job[w].event} /\ Finish(w)

\* The exact-id filter: a span that was erased carries the id no more.
Rekey(from, into) == name' = [s \in Stay |-> IF name[s] = from THEN into ELSE name[s]]

\* Mutant of NothingToMove: the early return looks at the guest's rooms only.
NoRoomToMove(j) == ~j.owns

NothingToMove(j) == j.admissions = {} /\ ~j.owns

\* Every write of the transaction goes through: the rows listed are there, no
\* seat collides with one taken since, and the survivor's row is there to point at.
Fits(j) ==
    /\ j.event.into \in accounts
    /\ \A r \in j.admissions \ j.taken :
          seat[r][j.event.from] # "none" /\ seat[r][j.event.into] = "none"

\* Mutant of MergeSeats: every admission is re-pointed, duplicates too.
MergeSeatsAll(j) ==
    /\ \A r \in j.admissions : seat[r][j.event.into] = "none"
    /\ seat' = [r \in Room |->
         IF r \in j.admissions
           THEN [seat[r] EXCEPT ![j.event.into] = seat[r][j.event.from], ![j.event.from] = "none"]
           ELSE seat[r]]

\* Mutant of MergeSeats: where both have a row the guest's stays.
MergeSeatsGuest(j) ==
    seat' = [r \in Room |->
      IF r \in j.admissions
        THEN [seat[r] EXCEPT ![j.event.into] = seat[r][j.event.from], ![j.event.from] = "none"]
        ELSE seat[r]]

\* Mutant of MergeSeats: the guest's admissions are dropped, to be knocked for again.
MergeSeatsDropped(j) ==
    seat' = [r \in Room |->
      IF r \in j.admissions THEN [seat[r] EXCEPT ![j.event.from] = "none"] ELSE seat[r]]

\* Where both accounts have a row the survivor's own stays.
MergeSeats(j) ==
    seat' = [r \in Room |->
      IF r \notin j.admissions THEN seat[r]
      ELSE IF r \in j.taken THEN [seat[r] EXCEPT ![j.event.from] = "none"]
      ELSE [seat[r] EXCEPT ![j.event.into] = seat[r][j.event.from], ![j.event.from] = "none"]]

MergeMeter(w) ==
    /\ job[w].pc = "merge" /\ NothingToMove(job[w])
    /\ Rekey(job[w].event.from, job[w].event.into)
    /\ Ack(w)
    /\ UNCHANGED <<accounts, leaving, host, seat, calls, sent, late>>

\* Mutant of MergeAll: the rooms are not re-hosted.
MergeAllSeats(w) ==
    /\ job[w].pc = "merge" /\ ~NothingToMove(job[w])
    /\ job[w].ready /\ Fits(job[w])
    /\ Rekey(job[w].event.from, job[w].event.into)
    /\ MergeSeats(job[w])
    /\ Ack(w)
    /\ UNCHANGED <<accounts, leaving, host, calls, sent, late>>

MergeAll(w) ==
    /\ job[w].pc = "merge" /\ ~NothingToMove(job[w])
    /\ job[w].ready /\ Fits(job[w])
    /\ Rekey(job[w].event.from, job[w].event.into)
    /\ MergeSeats(job[w])
    /\ host' = [r \in Room |-> IF host[r] = job[w].event.from THEN job[w].event.into ELSE host[r]]
    /\ Ack(w)
    /\ UNCHANGED <<accounts, leaving, calls, sent, late>>

\* Mutant of MergeNotReady: success is returned, and the meter's update stands.
MergeNotReadyAcks(w) ==
    /\ job[w].pc = "merge" /\ ~NothingToMove(job[w]) /\ ~job[w].ready
    /\ Rekey(job[w].event.from, job[w].event.into)
    /\ Ack(w)
    /\ UNCHANGED <<accounts, leaving, host, seat, calls, sent, late>>

\* MergeTargetNotReady: raised inside the transaction, so that nothing moved;
\* the outbox delivers the event again.
MergeNotReady(w) ==
    /\ job[w].pc = "merge" /\ ~NothingToMove(job[w]) /\ ~job[w].ready
    /\ Finish(w)
    /\ UNCHANGED <<accounts, leaving, Rows, sent, acked, late>>

\* A constraint or a vanished row rolls the transaction back.
MergeFails(w) ==
    /\ job[w].pc = "merge" /\ ~NothingToMove(job[w])
    /\ job[w].ready /\ ~Fits(job[w])
    /\ Finish(w)
    /\ UNCHANGED <<accounts, leaving, Rows, sent, acked, late>>

-----------------------------------------------------------------------------
(* gdpr.erasure.requested, user.deleted and the in-process provider.        *)

StartErase(w, e) ==
    /\ job[w] = NoJob
    /\ e \in sent \cap Erasure
    /\ job' = [job EXCEPT ![w] = [pc |-> "rooms", event |-> e]]
    /\ UNCHANGED <<accounts, leaving, Rows, sent, acked, late>>

\* Rooms the subject hosted, with every admission to them.
EraseRooms(w) ==
    /\ job[w].pc = "rooms"
    /\ LET u == job[w].event.who IN
         /\ host' = [r \in Room |-> IF host[r] = u THEN Nobody ELSE host[r]]
         /\ seat' = [r \in Room |-> IF host[r] = u THEN [v \in User |-> "none"] ELSE seat[r]]
    /\ job' = [job EXCEPT ![w].pc = "seats"]
    /\ UNCHANGED <<accounts, leaving, name, calls, sent, acked, late>>

EraseSeats(w) ==
    /\ job[w].pc = "seats"
    /\ seat' = [r \in Room |-> [seat[r] EXCEPT ![job[w].event.who] = "none"]]
    /\ job' = [job EXCEPT ![w].pc = "spans"]
    /\ UNCHANGED <<accounts, leaving, host, name, calls, sent, acked, late>>

\* Mutant of EraseSpans: a span that was erased before is digested once more.
EraseSpansAgain(w) ==
    /\ job[w].pc = "spans"
    /\ LET u == job[w].event.who IN
         name' = [s \in Stay |-> IF name[s] \in {u, Pseudonym(u)} THEN Pseudonym(name[s]) ELSE name[s]]
    /\ Ack(w)
    /\ UNCHANGED <<accounts, leaving, host, seat, calls, sent, late>>

\* The meter keeps its rows and loses the person.
EraseSpans(w) ==
    /\ job[w].pc = "spans"
    /\ Rekey(job[w].event.who, Pseudonym(job[w].event.who))
    /\ Ack(w)
    /\ UNCHANGED <<accounts, leaving, host, seat, calls, sent, late>>

HandlerDies(w) ==
    /\ job[w] # NoJob
    /\ Finish(w)
    /\ UNCHANGED <<accounts, leaving, Rows, sent, acked, late>>

-----------------------------------------------------------------------------
Handle(w) ==
    \/ MergeRead(w) \/ MergeMeter(w) \/ MergeAll(w) \/ MergeNotReady(w) \/ MergeFails(w)
    \/ EraseRooms(w) \/ EraseSeats(w) \/ EraseSpans(w)

\* An event is delivered until a handler returns from it, and sometimes again.
Deliver(w, e) == MergeLook(w, e) \/ StartErase(w, e)

World ==
    \/ \E u \in User : Project(u) \/ RequestErasure(u) \/ DeleteAccount(u)
    \/ \E u \in User, r \in Room : CreateRoom(u, r)
    \/ \E u \in User, r \in Room, status \in {"admitted", "denied"} : Knock(u, r, status)
    \/ \E s \in Stay : Webhook(s)
    \/ \E c \in Rings : PlaceCall(c)
    \/ \E p \in SignsInto : SignIn(p[1], p[2])

Next ==
    \/ World
    \/ \E w \in Worker, e \in sent : Deliver(w, e)
    \/ \E w \in Worker : Handle(w) \/ HandlerDies(w)

\* The outbox delivers what is owed, by some worker; a worker may die at a
\* delivery, but does not die at every delivery of an event for ever.
Owed(p) == [kind |-> "merged", from |-> p[1], into |-> p[2]]
Works(w, e) == job[w] # NoJob /\ job[w].event = e

Fairness ==
    /\ WF_vars(\E w \in Worker : Handle(w))
    /\ \A p \in SignsInto :
          /\ SF_vars(Owed(p) \notin acked /\ \E w \in Worker : MergeLook(w, Owed(p)))
          /\ SF_vars(\E w \in Worker : Works(w, Owed(p)) /\ MergeRead(w))
          /\ SF_vars(\E w \in Worker : Works(w, Owed(p)) /\ (MergeMeter(w) \/ MergeAll(w)))

Spec == Init /\ [][Next]_vars /\ Fairness

-----------------------------------------------------------------------------
(* Properties.                                                              *)

\* Types of the rows, the events and the handlers' reads.
TypeOK ==
    /\ accounts \subseteq User /\ leaving \subseteq User
    /\ host \in [Room -> User \cup {Nobody}]
    /\ seat \in [Room -> [User -> Status]]
    /\ name \in [Stay -> Names]
    /\ calls \subseteq Rings /\ late \subseteq User \X Room
    /\ sent \subseteq Merged \cup Erasure /\ acked \subseteq sent
    /\ job \in [Worker -> LookJob \cup MergeJob \cup EraseJob \cup {NoJob}]

HasRow(u, r) == host[r] = u \/ seat[r][u] # "none"
Erased(u) == \E e \in sent \cap Erasure : e.who = u

\* "a visitor who opened a call before signing in" keeps it (actions.py:113-119): what a
\* handled merge leaves under the guest's id, for the guest's deletion to take along, was
\* written after the merge had begun its reads, whatever was redelivered, retried or raced.
HandledMergeMissesNothing ==
    \A e \in acked \cap Merged, r \in Room : HasRow(e.from, r) => <<e.from, r>> \in late

\* MergeTargetNotReady "completes once the survivor's user projection lands"
\* (actions.py:18-22): a merge is handled, or its survivor leaves or never lands.
MergeCompletes ==
    \A p \in SignsInto : Owed(p) \in sent ~>
        (Owed(p) \in acked \/ p[2] \notin accounts \ leaving)

\* A room goes only with the erasure, or the erased account, of its host, or was opened by
\* a guest when its merge had been read: signing in costs nobody a room.
RoomsOutliveTheGuest ==
    [][\A r \in Room : host[r] # Nobody /\ host'[r] = Nobody =>
          Erased(host[r]) \/ <<host[r], r>> \in late]_vars

\* "nobody is ejected by the drop" (actions.py:129-131): an admission that goes while its
\* room stays was an erased person's, or the survivor of its merge has one there (or was
\* erased since), or it is of a guest whose merge had been read when it was written.
AdmissionsOutliveTheGuest ==
    [][\A r \in Room, u \in User :
          seat[r][u] # "none" /\ seat'[r][u] = "none" /\ host'[r] # Nobody =>
             \/ Erased(u) \/ <<u, r>> \in late
             \/ \E e \in sent \cap Merged :
                   e.from = u /\ (seat'[r][e.into] # "none" \/ Erased(e.into))]_vars

\* The meter moves with the rooms or not at all: a step that gives a person's spans to
\* another account leaves that person nothing but what was written after the merge's reads.
MetersMoveWithRooms ==
    [][\A u \in User : (\E s \in Stay : name[s] = u /\ name'[s] \in User \ {u}) =>
          \A r \in Room : HasRow(u, r)' => <<u, r>> \in late']_vars

\* "theirs stays" (actions.py:213-216): no merge changes an admission the
\* survivor has; only an erasure, or a room's end, takes one away.
OwnAdmissionStays ==
    [][\A r \in Room, u \in User \ leaving :
          seat[r][u] # "none" /\ host'[r] # Nobody => seat'[r][u] = seat[r][u]]_vars

\* "stays erased" (actions.py:152-153): a span that lost its person is never
\* given one again, by a merge, a late webhook or a second erasure.
ErasedSpanStaysErased ==
    [][\A s \in Stay, u \in User : name[s] = Pseudonym(u) => name'[s] = Pseudonym(u)]_vars

\* What a merge read of the guest still covers what there is, but for what came later; and
\* where the survivor sat when it was read it still sits, or was erased.
LookCovers(j) ==
    \A r \in Room : seat[r][j.event.from] # "none" =>
        r \in j.admissions \/ <<j.event.from, r>> \in late

ReadsCover(j) ==
    /\ LookCovers(j)
    /\ \A r \in Room : host[r] = j.event.from => j.owns \/ <<j.event.from, r>> \in late
    /\ \A r \in j.taken :
          \/ seat[r][j.event.into] # "none" \/ Erased(j.event.into)
          \/ seat[r][j.event.from] = "none" \/ <<j.event.from, r>> \in late

\* What the proofs add: a room that is gone seats nobody, events are about accounts that
\* were signed in or erased, handlers work on events that were sent, and what a merge read
\* still covers what there is.
IInv ==
    /\ TypeOK
    /\ \A r \in Room : host[r] = Nobody => \A u \in User : seat[r][u] = "none"
    /\ \A e \in sent \cap Merged : e.from \in leaving /\ <<e.from, e.into>> \in SignsInto
    /\ \A e \in sent \cap Erasure : e.who \in leaving
    /\ \A w \in Worker : job[w] # NoJob => job[w].event \in sent
    /\ \A w \in Worker : /\ job[w].pc = "look" => LookCovers(job[w])
                         /\ job[w].pc = "merge" => ReadsCover(job[w])
    /\ HandledMergeMissesNothing
=============================================================================
