------------------------------ MODULE LiveNames ------------------------------
(***************************************************************************)
(* A renamed person's name reaches the calls they are sitting in             *)
(* (actions.handle_profile_changed, live_rooms.py, providers/livekit.py).    *)
(* Profiles and the media server are external; deliveries of profile.changed *)
(* are at least once and in any order.                                       *)
(***************************************************************************)
EXTENDS Naturals, FiniteSets, SequencesExt

CONSTANTS
    Char,       \* characters
    Person,     \* user ids, as sequences of characters
    Room,       \* provider room refs, those of calls among them
    Call,
    Conn,       \* connections: identities minted for one person in one room
    OwnerOf, RoomOf, Suffix,
    Separator,  \* "_"
    Handler,    \* the workers that consume profile.changed
    MaxName,    \* bound: the names a person goes through
    MaxGrant    \* bound: tokens minted for one identity

ASSUME NamesAssumption ==
    /\ OwnerOf \in [Conn -> Person] /\ RoomOf \in [Conn -> Room] /\ Call \subseteq Room
    /\ MaxName \in Nat /\ MaxGrant \in Nat
    /\ Person \subseteq Seq(Char) /\ Suffix \in [Conn -> Seq(Char)] /\ Separator \in Char
    /\ \A p \in Person : \A n \in DOMAIN p : p[n] # Separator

VARIABLES
    profile,   \* the display name that stapel-profiles has
    published, \* the events it emitted: any of them may come, and come again
    seated,    \* <<person, room>>: an admitted row not left, or a live call
    token,     \* the last grant of an identity
    media,     \* the media server's connections
    push       \* the handlers

vars == <<profile, published, seated, token, media, push>>

Version == 0..MaxName
Name == Person \X Version      \* two people may not have one name here
NoGrant == [grant |-> 0]
Grant == [grant: 1..MaxGrant, name: Name]
NoConn == [name |-> <<>>]
Idle == [pc |-> "idle"]

\* _mine: the identity is the user id, the separator and a suffix.
Identity(c) == OwnerOf[c] \o <<Separator>> \o Suffix[c]

\* Mutant of Mine: the separator is not part of the prefix.
MineBarePrefix(c, p) == IsPrefix(p, Identity(c))

Mine(c, p) == Identity(c) = p \/ IsPrefix(p \o <<Separator>>, Identity(c))

Connected(c) == media[c] # NoConn
Working(h) == push[h].pc # "idle"

-----------------------------------------------------------------------------
Init ==
    /\ profile = [p \in Person |-> 0]
    /\ published = {}
    /\ seated = {}
    /\ token = [c \in Conn |-> NoGrant]
    /\ media = [c \in Conn |-> NoConn]
    /\ push = [h \in Handler |-> Idle]

\* Bookkeeping for ReachesEveryTile: connections a handler need not reach.
Forgive(c) ==
    push' = [h \in Handler |-> IF Working(h) THEN [push[h] EXCEPT !.owed = @ \ {c}] ELSE push[h]]

\* stapel-profiles commits a name and emits profile.changed.
ProfileChanged(p) ==
    /\ profile[p] < MaxName
    /\ profile' = [profile EXCEPT ![p] = @ + 1]
    /\ published' = published \cup {<<p, profile[p] + 1>>}
    /\ UNCHANGED <<seated, token, media, push>>

\* A join, an answered call, a reload: a seat, and a token that carries the name
\* of that moment (mint_join_token, mint_call_token).
Mint(c) ==
    /\ token[c].grant < MaxGrant
    /\ seated' = seated \cup {<<OwnerOf[c], RoomOf[c]>>}
    /\ token' = [token EXCEPT ![c] = [grant |-> @.grant + 1,
                                      name |-> <<OwnerOf[c], profile[OwnerOf[c]]>>]]
    /\ UNCHANGED <<profile, published, media, push>>

\* The person leaves the room, or the call ends.
Unseat(p, r) ==
    /\ <<p, r>> \in seated
    /\ seated' = seated \ {<<p, r>>}
    /\ UNCHANGED <<profile, published, token, media, push>>

\* The media server admits a token and evicts the identity's old connection.
\* The token's metadata (avatar, scope_key) is told apart by its grant.
Connect(c) ==
    /\ token[c] # NoGrant
    /\ media' = [media EXCEPT ![c] = [name |-> token[c].name, metadata |-> token[c].grant]]
    /\ media' # media
    /\ Forgive(c)
    /\ UNCHANGED <<profile, published, seated, token>>

Disconnect(c) ==
    /\ Connected(c)
    /\ media' = [media EXCEPT ![c] = NoConn]
    /\ Forgive(c)
    /\ UNCHANGED <<profile, published, seated, token>>

-----------------------------------------------------------------------------
(* handle_profile_changed, one step per call it makes.                      *)

\* Mutant of LiveRooms: the calls are not asked.
LiveRoomsNoCalls(p) == {r \in Room \ Call : <<p, r>> \in seated}

\* DefaultLiveRoomsProvider: the refs of the rooms and calls the person is in.
LiveRooms(p) == {r \in Room : <<p, r>> \in seated}

Requests(p) == {h \in Handler : Working(h) /\ push[h].name[1] = p}

\* An event arrives, for the first time or again; somebody in no live room is no
\* work.  (Two events of one person at a time owe each other nothing.)
Deliver(h, p, version) ==
    /\ ~Working(h) /\ <<p, version>> \in published /\ LiveRooms(p) # {}
    /\ LET there == {c \in Conn : Connected(c) /\ OwnerOf[c] = p /\ <<p, RoomOf[c]>> \in seated}
           alone == Requests(p) = {}
       IN push' = [g \in Handler |->
             IF g = h THEN [pc |-> "room", name |-> <<p, version>>, rooms |-> LiveRooms(p), room |-> {},
                            listed |-> {}, owed |-> IF alone THEN there ELSE {}]
             ELSE IF g \in Requests(p) THEN [push[g] EXCEPT !.owed = {}] ELSE push[g]]
    /\ UNCHANGED <<profile, published, seated, token, media>>

\* ListParticipants of the next room, names and metadata as they are now; a room
\* that nobody is in is not there.
ListRoom(h, r) ==
    /\ push[h].pc = "room" /\ r \in push[h].rooms
    /\ push' = [push EXCEPT ![h].pc = "update", ![h].room = {r}, ![h].rooms = @ \ {r},
                  ![h].listed = {<<c, media[c]>> : c \in
                      {d \in Conn : Connected(d) /\ RoomOf[d] = r /\ Mine(d, push[h].name[1])}}]
    /\ UNCHANGED <<profile, published, seated, token, media>>

\* A connection that had the name when it was listed is skipped.
Skip(h, x) ==
    /\ push[h].pc = "update" /\ x \in push[h].listed /\ x[2].name = push[h].name
    /\ push' = [push EXCEPT ![h].listed = @ \ {x}]
    /\ UNCHANGED <<profile, published, seated, token, media>>

\* Mutant of Updated: the update carries no metadata.
UpdatedNameOnly(conn, name, listed) == [conn EXCEPT !.name = name, !.metadata = 0]

\* UpdateParticipant overwrites both fields, the metadata with what was listed.
Updated(conn, name, listed) == [conn EXCEPT !.name = name, !.metadata = listed.metadata]

\* One update; who has hung up is not there any more, which is no failure.
Update(h, x) ==
    /\ push[h].pc = "update" /\ x \in push[h].listed /\ x[2].name # push[h].name
    /\ media' = IF Connected(x[1]) THEN [media EXCEPT ![x[1]] = Updated(@, push[h].name, x[2])] ELSE media
    /\ push' = [push EXCEPT ![h].listed = @ \ {x}]
    /\ UNCHANGED <<profile, published, seated, token>>

\* Mutant of NextRoom: the first room that fails ends the event.
NextRoomStopsAt(h, failed) ==
    push' = [push EXCEPT ![h].pc = "room", ![h].room = {}, ![h].listed = {},
                         ![h].rooms = IF failed = {} THEN @ ELSE {},
                         ![h].owed = {c \in @ : RoomOf[c] \notin failed}]

\* The loop goes on, past a room that failed too.
NextRoom(h, failed) ==
    push' = [push EXCEPT ![h].pc = "room", ![h].room = {}, ![h].listed = {},
                         ![h].owed = {c \in @ : RoomOf[c] \notin failed}]

RoomDone(h) ==
    /\ push[h].pc = "update" /\ push[h].listed = {}
    /\ NextRoom(h, {})
    /\ UNCHANGED <<profile, published, seated, token, media>>

\* The list or an update fails, or times out after it was done: the rest of the
\* room is left as it is, the exception is logged.
RoomFails(h) ==
    /\ push[h].pc = "update"
    /\ NextRoom(h, push[h].room)
    /\ media' \in {media} \cup {[media EXCEPT ![x[1]] = Updated(@, push[h].name, x[2])] :
                                   x \in {y \in push[h].listed : Connected(y[1]) /\ y[2].name # push[h].name}}
    /\ UNCHANGED <<profile, published, seated, token>>

\* The event is acknowledged.
Finish(h) ==
    /\ push[h].pc = "room" /\ push[h].rooms = {}
    /\ push' = [push EXCEPT ![h] = Idle]
    /\ UNCHANGED <<profile, published, seated, token, media>>

\* The worker dies; the event is delivered again some time.
Dies(h) ==
    /\ Working(h)
    /\ push' = [push EXCEPT ![h] = Idle]
    /\ UNCHANGED <<profile, published, seated, token, media>>

-----------------------------------------------------------------------------
Handle(h) ==
    \/ \E p \in Person, version \in Version : Deliver(h, p, version)
    \/ \E r \in Room : ListRoom(h, r)
    \/ Working(h) /\ \E x \in push[h].listed : Skip(h, x) \/ Update(h, x)
    \/ RoomDone(h) \/ RoomFails(h) \/ Finish(h) \/ Dies(h)

Next ==
    \/ \E p \in Person : ProfileChanged(p) \/ \E r \in Room : Unseat(p, r)
    \/ \E c \in Conn : Mint(c) \/ Connect(c) \/ Disconnect(c)
    \/ \E h \in Handler : Handle(h)

Spec == Init /\ [][Next]_vars

-----------------------------------------------------------------------------
(* Properties.                                                              *)

\* Types.
TypeOK ==
    /\ profile \in [Person -> Version] /\ published \subseteq Name
    /\ seated \subseteq Person \X Room
    /\ token \in [Conn -> Grant \cup {NoGrant}]
    /\ \A c \in Conn : Connected(c) => media[c].name \in Name /\ media[c].metadata \in 1..MaxGrant
    /\ \A h \in Handler : Working(h) => /\ push[h].name \in published
                                        /\ push[h].rooms \subseteq Room /\ push[h].owed \subseteq Conn

\* "one user id can never match another's" (livekit.py:331-333): a tile shows a
\* name that its own person has, or had.
TilesShowTheirOwn ==
    \A c \in Conn : Connected(c) =>
        media[c].name[1] = OwnerOf[c] /\ media[c].name[2] <= profile[OwnerOf[c]]

\* "Carry a renamed person's new name into the calls they are sitting in": when
\* an event has been handled, every connection that was there all along, on
\* every device, in every room and call, shows the name; "one unreachable room
\* must not strand the others" (actions.py:97-99).
ReachesEveryTile ==
    \A h \in Handler : (push[h].pc = "room" /\ push[h].rooms = {}) =>
        \A c \in push[h].owed : media[c].name = push[h].name

\* "metadata is passed through untouched" (livekit.py:338): a rename leaves the
\* avatar and the scope_key of a connection as it found them, unless the
\* connection was replaced since it was listed.
OnlyTheNameIsPushed ==
    [][\A h \in Handler, c \in Conn :
         Working(h) /\ c \in push[h].owed /\ media'[c] # NoConn /\ ~Connect(c)
            => media'[c].metadata = media[c].metadata]_media
=============================================================================
