--------------------------- MODULE LiveNamesProofs ---------------------------
(***************************************************************************)
(* Proofs about LiveNames: a rename reaches every tile it owes, changes no  *)
(* other field, and shows on nobody else's tile, for any user ids that hold *)
(* no separator, any devices, rooms, names and handlers.                    *)
(***************************************************************************)
EXTENDS LiveNames, TLAPS

-----------------------------------------------------------------------------
(* Whose connection it is.                                                  *)

\* Of two sequences without a separator, one with a separator after it begins the other
\* with a separator after it only if they are equal.
LEMMA OwnerIsPrefix ==
    ASSUME NEW own \in Seq(Char), NEW p \in Seq(Char), NEW mark \in Seq(Char), NEW sep \in Char,
           \A n \in 1..Len(own) : own[n] # sep, \A n \in 1..Len(p) : p[n] # sep
    PROVE  /\ IsPrefix(p \o <<sep>>, own \o <<sep>> \o mark) <=> own = p
           /\ own \o <<sep>> \o mark # p
<1>1. PICK bar \in Seq(Char) : bar = <<sep>> /\ Len(bar) = 1 /\ bar[1] = sep
  <2>1. <<sep>> \in Seq(Char) /\ Len(<<sep>>) = 1 /\ <<sep>>[1] = sep
    OBVIOUS
  <2> QED BY <2>1
<1>2. PICK pre \in Seq(Char) : pre = p \o bar
  <2>1. p \o bar \in Seq(Char)
    OBVIOUS
  <2> QED BY <2>1
<1>3. PICK id \in Seq(Char) : id = (own \o bar) \o mark
  <2>1. (own \o bar) \o mark \in Seq(Char)
    OBVIOUS
  <2> QED BY <2>1
<1>4. /\ Len(pre) = Len(p) + 1 /\ Len(id) = Len(own) + 1 + Len(mark)
      /\ Len(own) \in Nat /\ Len(p) \in Nat /\ Len(mark) \in Nat
  BY <1>1, <1>2, <1>3
<1>5. (\A n \in 1..Len(p) : pre[n] = p[n]) /\ pre[Len(p) + 1] = sep
  BY <1>1, <1>2
<1>6. (\A n \in 1..Len(own) : id[n] = own[n]) /\ id[Len(own) + 1] = sep
  BY <1>1, <1>3
<1>7. ASSUME Len(pre) <= Len(id), NEW n \in 1..Len(pre)
      PROVE  SubSeq(pre, 1, Len(pre))[n] = pre[n] /\ SubSeq(id, 1, Len(pre))[n] = id[n]
  BY <1>7
<1>8. ASSUME IsPrefix(pre, id)
      PROVE  own = p
  <2>1. \A n \in 1..Len(pre) : pre[n] = id[n]
    BY <1>7, <1>8 DEF IsPrefix
  <2>2. CASE Len(p) < Len(own)
    <3>1. Len(p) + 1 \in 1..Len(own) /\ Len(p) + 1 \in 1..Len(pre)
      BY <1>4, <2>2
    <3> QED BY <1>5, <1>6, <2>1, <3>1
  <2>3. CASE Len(own) < Len(p)
    <3>1. Len(own) + 1 \in 1..Len(p) /\ Len(own) + 1 \in 1..Len(pre)
      BY <1>4, <2>3
    <3> QED BY <1>5, <1>6, <2>1, <3>1
  <2>4. CASE Len(own) = Len(p)
    <3>1. \A n \in 1..Len(own) : own[n] = p[n]
      BY <1>4, <1>5, <1>6, <2>1, <2>4
    <3> QED BY <2>4, <3>1
  <2> QED BY <1>4, <2>2, <2>3, <2>4
<1>9. ASSUME own = p
      PROVE  IsPrefix(pre, id)
  <2>1. Len(pre) <= Len(id)
    BY <1>4, <1>9
  <2>2. SubSeq(pre, 1, Len(pre)) \in Seq(Char) /\ SubSeq(id, 1, Len(pre)) \in Seq(Char)
    BY <2>1
  <2>3. Len(SubSeq(pre, 1, Len(pre))) = Len(pre) /\ Len(SubSeq(id, 1, Len(pre))) = Len(pre)
    BY <1>4, <2>1
  <2>4. ASSUME NEW n \in 1..Len(pre)
        PROVE  pre[n] = id[n]
    <3>1. n \in 1..Len(p) \/ n = Len(p) + 1
      BY <1>4
    <3> QED BY <1>5, <1>6, <1>9, <3>1
  <2>5. SubSeq(pre, 1, Len(pre)) = SubSeq(id, 1, Len(pre))
    BY <1>7, <2>1, <2>2, <2>3, <2>4
  <2> QED BY <2>1, <2>5 DEF IsPrefix
<1>10. id # p
  <2>1. Len(own) + 1 \in 1..Len(id)
    BY <1>4
  <2> QED BY <1>6, <2>1
<1> QED BY <1>1, <1>2, <1>3, <1>8, <1>9, <1>10

\* _mine finds a person's own connections and nobody else's.
LEMMA MineIsOwn ==
    ASSUME NEW c \in Conn, NEW p \in Person
    PROVE  Mine(c, p) <=> OwnerOf[c] = p
<1>1. PICK own \in Person : own = OwnerOf[c]
  BY NamesAssumption
<1>2. PICK mark \in Seq(Char) : mark = Suffix[c]
  BY NamesAssumption
<1>3. own \in Seq(Char) /\ p \in Seq(Char) /\ Separator \in Char
  BY NamesAssumption
<1>4. DOMAIN own = 1..Len(own) /\ DOMAIN p = 1..Len(p)
  BY <1>3
<1>5. (\A n \in 1..Len(own) : own[n] # Separator) /\ (\A n \in 1..Len(p) : p[n] # Separator)
  BY <1>4, NamesAssumption
<1>6. /\ IsPrefix(p \o <<Separator>>, own \o <<Separator>> \o mark) <=> own = p
      /\ own \o <<Separator>> \o mark # p
  BY <1>3, <1>5, OwnerIsPrefix
<1> QED BY <1>1, <1>2, <1>6 DEF Mine, Identity

-----------------------------------------------------------------------------
(* The invariant.                                                           *)

Tile == [name: Name, metadata: 1..MaxGrant]
Job == [pc: {"room", "update"}, name: Name, rooms: SUBSET Room, room: SUBSET Room,
        listed: SUBSET (Conn \X Tile), owed: SUBSET Conn]

\* A name that p has, or had.
HadBy(p, n) == n \in Name /\ n[1] = p /\ n[2] <= profile[p]

Shapes ==
    /\ profile \in [Person -> Version]
    /\ published \subseteq Name
    /\ seated \subseteq Person \X Room
    /\ token \in [Conn -> Grant \cup {NoGrant}]
    /\ media \in [Conn -> Tile \cup {NoConn}]
    /\ push \in [Handler -> Job \cup {Idle}]

Names ==
    /\ \A n \in published : HadBy(n[1], n)
    /\ \A c \in Conn : token[c] # NoGrant => HadBy(OwnerOf[c], token[c].name)
    /\ \A c \in Conn : Connected(c) => HadBy(OwnerOf[c], media[c].name)

\* What the job j owes the connection c: it has the name, or is yet to be listed, or is
\* listed; and it is listed as it is.
Owes(j, c) ==
    /\ OwnerOf[c] = j.name[1] /\ Connected(c)
    /\ \/ media[c].name = j.name
       \/ RoomOf[c] \in j.rooms
       \/ j.pc = "update" /\ \E x \in j.listed : x[1] = c
    /\ \A x \in j.listed : x[1] = c =>
          /\ x[2].metadata = media[c].metadata
          /\ x[2].name = media[c].name \/ media[c].name = j.name

JobTrue(j) ==
    /\ j.name \in published
    /\ \A x \in j.listed : OwnerOf[x[1]] = j.name[1] /\ RoomOf[x[1]] \in j.room
    /\ \A c \in j.owed : Owes(j, c)

\* Two events of one person in flight owe nothing: the older may be the last to write.
Alone ==
    \A g, h \in Handler :
        g # h /\ Working(g) /\ Working(h) /\ push[g].name[1] = push[h].name[1] => push[h].owed = {}

Inv ==
    /\ Shapes /\ Names /\ Alone
    /\ \A h \in Handler : Working(h) => JobTrue(push[h])

LEMMA JobShape == (\A j \in Job : j # Idle /\ j.pc # "idle") /\ Idle.pc = "idle"
BY DEF Job, Idle

LEMMA TileShape == (\A t \in Tile : t # NoConn) /\ (\A g \in Grant : g # NoGrant)
<1>1. ASSUME NEW t \in Tile
      PROVE  t # NoConn
  BY DEF Tile, NoConn
<1>2. ASSUME NEW g \in Grant
      PROVE  g # NoGrant
  BY DEF Grant, NoGrant
<1> QED BY <1>1, <1>2

\* A job keeps what it owes when other connections change.
LEMMA JobCarries ==
    ASSUME Inv, NEW j \in Job, JobTrue(j), published \subseteq published',
           \A c \in j.owed : media'[c] = media[c]
    PROVE  JobTrue(j)'
<1>1. ASSUME NEW c \in j.owed
      PROVE  Owes(j, c)'
  BY DEF JobTrue, Owes, Connected
<1> QED BY <1>1 DEF JobTrue

\* One that is owed less keeps what it still owes.
LEMMA LessOwed ==
    ASSUME NEW j \in Job, NEW C, JobTrue(j), NEW k, k = [j EXCEPT !.owed = @ \ C]
    PROVE  k \in Job /\ JobTrue(k) /\ k.owed = j.owed \ C /\ k.name = j.name
<1>1. /\ k \in Job /\ k.owed = j.owed \ C /\ k.name = j.name /\ k.pc = j.pc
      /\ k.rooms = j.rooms /\ k.room = j.room /\ k.listed = j.listed
  BY DEF Job
<1> QED BY <1>1 DEF JobTrue, Owes

-----------------------------------------------------------------------------
(* The steps.                                                               *)

\* A name somebody had stays one.
LEMMA HadStays ==
    ASSUME Shapes, profile' \in [Person -> Version],
           \A p \in Person : profile[p] <= profile'[p]
    PROVE  \A p \in Person, n \in Name : HadBy(p, n) => HadBy(p, n)'
<1> SUFFICES ASSUME NEW p \in Person, NEW n \in Name, HadBy(p, n)
             PROVE  HadBy(p, n)'
  OBVIOUS
<1>1. n[2] \in Nat /\ profile[p] \in Nat /\ profile'[p] \in Nat
  BY NamesAssumption DEF Shapes, Name, Version
<1> QED BY <1>1 DEF HadBy

\* The names shown and promised, when profiles, events and tokens are left alone.
LEMMA NamesCarry ==
    ASSUME Inv, UNCHANGED <<profile, published, token>>,
           media' \in [Conn -> Tile \cup {NoConn}],
           \A c \in Conn : media'[c] # NoConn /\ media'[c] # media[c] =>
                              HadBy(OwnerOf[c], media'[c].name)
    PROVE  Names'
<1>1. \A p, n : HadBy(p, n) => HadBy(p, n)'
  BY DEF HadBy
<1> QED BY <1>1 DEF Inv, Names, Connected

\* The jobs after h turned to the job k, the others left alone.
LEMMA Turns ==
    ASSUME Inv, NEW h \in Handler, NEW k \in Job, push' = [push EXCEPT ![h] = k],
           Working(h), k.name = push[h].name, k.owed \subseteq push[h].owed,
           published \subseteq published', JobTrue(k)',
           \A g \in Handler \ {h} : Working(g) => \A c \in push[g].owed : media'[c] = media[c]
    PROVE  /\ push' \in [Handler -> Job \cup {Idle}]
           /\ Alone'
           /\ \A g \in Handler : Working(g)' => JobTrue(push[g])'
<1>1. push' \in [Handler -> Job \cup {Idle}] /\ push'[h] = k
  BY DEF Inv, Shapes
<1>2. \A g \in Handler \ {h} : push'[g] = push[g]
  BY DEF Inv, Shapes
<1>3. Working(h)' /\ \A g \in Handler \ {h} : Working(g)' <=> Working(g)
  BY <1>1, <1>2, JobShape DEF Working
<1>4. Alone'
  <2> SUFFICES ASSUME NEW a \in Handler, NEW b \in Handler, a # b, Working(a)', Working(b)',
                      push'[a].name[1] = push'[b].name[1]
               PROVE  push'[b].owed = {}
    BY DEF Alone
  <2>1. Working(a) /\ Working(b) /\ push[a].name[1] = push[b].name[1]
    BY <1>1, <1>2, <1>3
  <2>2. push[b].owed = {}
    BY <2>1 DEF Inv, Alone
  <2>3. CASE b = h
    BY <1>1, <2>2, <2>3
  <2>4. CASE b # h
    BY <1>2, <2>2, <2>4
  <2> QED BY <2>3, <2>4
<1>5. ASSUME NEW g \in Handler, Working(g)'
      PROVE  JobTrue(push[g])'
  <2>1. CASE g = h
    BY <1>1, <2>1 DEF JobTrue, Owes
  <2>2. CASE g # h
    <3>1. PICK j \in Job : j = push[g] /\ JobTrue(j)
      BY <1>3, <1>5, <2>2, JobShape DEF Inv, Shapes, Working
    <3>2. \A c \in j.owed : media'[c] = media[c]
      BY <1>3, <1>5, <2>2, <3>1
    <3>3. JobTrue(j)'
      BY <3>1, <3>2, JobCarries
    <3>4. push'[g] = j
      BY <1>2, <2>2, <3>1
    <3> QED BY <3>3, <3>4 DEF JobTrue, Owes
  <2> QED BY <2>1, <2>2
<1> QED BY <1>1, <1>4, <1>5

LEMMA ProfileStep ==
    ASSUME Inv, NEW p \in Person, ProfileChanged(p)
    PROVE  Inv'
<1>1. PICK v \in Nat : v = profile[p] /\ v < MaxName
  BY NamesAssumption DEF Inv, Shapes, ProfileChanged, Version
<1>2. profile' = [profile EXCEPT ![p] = v + 1] /\ published' = published \cup {<<p, v + 1>>}
  BY <1>1 DEF ProfileChanged
<1>3. v + 1 \in Version
  BY <1>1, NamesAssumption DEF Version
<1>4. profile' \in [Person -> Version] /\ \A q \in Person : profile[q] <= profile'[q]
  BY <1>1, <1>2, <1>3, NamesAssumption DEF Inv, Shapes, Version
<1>5. UNCHANGED <<seated, token, media, push>>
  BY DEF ProfileChanged
<1>6. PICK new \in Name : new = <<p, v + 1>> /\ new[1] = p /\ new[2] = v + 1
  <2>1. <<p, v + 1>> \in Name /\ <<p, v + 1>>[1] = p /\ <<p, v + 1>>[2] = v + 1
    BY <1>3 DEF Name
  <2> QED BY <2>1
<1>7. HadBy(new[1], new)'
  BY <1>2, <1>6 DEF HadBy, Inv, Shapes
<1>8. Shapes'
  BY <1>2, <1>4, <1>5, <1>6 DEF Inv, Shapes
<1>9. \A q \in Person, n \in Name : HadBy(q, n) => HadBy(q, n)'
  BY <1>4, HadStays DEF Inv
<1>10. Names'
  <2>1. ASSUME NEW n \in published'
        PROVE  HadBy(n[1], n)'
    <3>1. CASE n = new
      BY <1>7, <3>1
    <3>2. CASE n \in published
      <4>1. HadBy(n[1], n) /\ n \in Name /\ n[1] \in Person
        BY <3>2 DEF Inv, Names, Shapes, Name
      <4> QED BY <1>9, <4>1
    <3> QED BY <1>2, <1>6, <2>1, <3>1, <3>2
  <2>2. ASSUME NEW c \in Conn, token[c] # NoGrant
        PROVE  HadBy(OwnerOf[c], token[c].name)'
    <3>1. OwnerOf[c] \in Person /\ HadBy(OwnerOf[c], token[c].name)
      BY <2>2, NamesAssumption DEF Inv, Names
    <3>2. token[c].name \in Name
      BY <3>1 DEF HadBy
    <3>3. PICK n \in Name : n = token[c].name /\ n = token'[c].name
      BY <1>5, <3>2
    <3>4. HadBy(OwnerOf[c], n)'
      BY <1>9, <3>1, <3>3
    <3> QED BY <3>3, <3>4 DEF HadBy
  <2>3. ASSUME NEW c \in Conn, media[c] # NoConn
        PROVE  HadBy(OwnerOf[c], media[c].name)'
    <3>1. OwnerOf[c] \in Person /\ HadBy(OwnerOf[c], media[c].name)
      BY <2>3, NamesAssumption DEF Inv, Names, Connected
    <3>2. media[c].name \in Name
      BY <3>1 DEF HadBy
    <3>3. PICK n \in Name : n = media[c].name /\ n = media'[c].name
      BY <1>5, <3>2
    <3>4. HadBy(OwnerOf[c], n)'
      BY <1>9, <3>1, <3>3
    <3> QED BY <3>3, <3>4 DEF HadBy
  <2> QED BY <1>5, <2>1, <2>2, <2>3 DEF Names, Connected
<1>11. Alone' /\ \A h \in Handler : Working(h)' => JobTrue(push[h])'
  BY <1>2, <1>5 DEF Inv, Alone, Working, JobTrue, Owes, Connected
<1> QED BY <1>8, <1>10, <1>11 DEF Inv

LEMMA MintStep ==
    ASSUME Inv, NEW c \in Conn, Mint(c)
    PROVE  Inv'
<1>1. PICK p \in Person : p = OwnerOf[c]
  BY NamesAssumption
<1>2. PICK n \in Name : n = <<p, profile[p]>> /\ n[1] = p /\ n[2] = profile[p]
  <2>1. PICK v \in Version : v = profile[p]
    BY DEF Inv, Shapes
  <2>2. <<p, v>> \in Name /\ <<p, v>>[1] = p /\ <<p, v>>[2] = v
    BY DEF Name
  <2> QED BY <2>1, <2>2
<1>3. token[c].grant \in Nat
  <2>1. token[c] \in Grant \/ token[c] = NoGrant
    BY DEF Inv, Shapes
  <2> QED BY <2>1, NamesAssumption DEF Grant, NoGrant
<1>4. PICK t \in Grant : t = [grant |-> token[c].grant + 1, name |-> n] /\ t.name = n
  <2>1. token[c].grant + 1 \in 1..MaxGrant
    BY <1>3, NamesAssumption DEF Mint
  <2>2. [grant |-> token[c].grant + 1, name |-> n] \in Grant
    BY <2>1 DEF Grant
  <2>3. [grant |-> token[c].grant + 1, name |-> n].name = n
    OBVIOUS
  <2> QED BY <2>2, <2>3
<1>5. token' = [token EXCEPT ![c] = t]
  BY <1>1, <1>2, <1>4 DEF Mint
<1>6. /\ UNCHANGED <<profile, published, media, push>>
      /\ seated' = seated \cup {<<p, RoomOf[c]>>}
  BY <1>1 DEF Mint
<1>7. Shapes'
  <2>1. <<p, RoomOf[c]>> \in Person \X Room
    BY NamesAssumption
  <2> QED BY <1>5, <1>6, <2>1 DEF Inv, Shapes
<1>8. HadBy(p, n)'
  <2>1. profile[p] \in Nat
    BY NamesAssumption DEF Inv, Shapes, Version
  <2> QED BY <1>2, <1>6, <2>1 DEF HadBy
<1>9. Names'
  <2>1. \A q, m : HadBy(q, m) => HadBy(q, m)'
    BY <1>6 DEF HadBy
  <2>2. ASSUME NEW d \in Conn, token'[d] # NoGrant
        PROVE  HadBy(OwnerOf[d], token[d].name)'
    <3>1. CASE d = c
      <4>1. token'[d].name = n /\ OwnerOf[d] = p
        BY <1>1, <1>4, <1>5, <3>1 DEF Inv, Shapes
      <4> QED BY <1>8, <4>1 DEF HadBy
    <3>2. CASE d # c
      <4>1. token'[d] = token[d]
        BY <1>5, <3>2 DEF Inv, Shapes
      <4> QED BY <2>1, <2>2, <4>1 DEF Inv, Names, HadBy
    <3> QED BY <3>1, <3>2
  <2> QED BY <1>6, <2>1, <2>2 DEF Inv, Names, Connected
<1>10. Alone' /\ \A h \in Handler : Working(h)' => JobTrue(push[h])'
  BY <1>6 DEF Inv, Alone, Working, JobTrue, Owes, Connected
<1> QED BY <1>7, <1>9, <1>10 DEF Inv

LEMMA UnseatStep ==
    ASSUME Inv, NEW p \in Person, NEW r \in Room, Unseat(p, r)
    PROVE  Inv'
<1>1. UNCHANGED <<profile, published, token, media, push>> /\ seated' \subseteq seated
  BY DEF Unseat
<1> QED BY <1>1 DEF Inv, Shapes, Names, HadBy, Alone, Working, JobTrue, Owes, Connected

\* A connection comes or goes: no handler need reach it.
LEMMA ForgiveStep ==
    ASSUME Inv, NEW c \in Conn, Forgive(c), UNCHANGED <<profile, published, seated, token>>,
           NEW t \in Tile \cup {NoConn}, media' = [media EXCEPT ![c] = t],
           t # NoConn => HadBy(OwnerOf[c], t.name)
    PROVE  Inv'
<1>1. media' \in [Conn -> Tile \cup {NoConn}] /\ \A d \in Conn \ {c} : media'[d] = media[d]
  BY DEF Inv, Shapes
<1>2. media'[c] = t
  BY DEF Inv, Shapes
<1>3. Names'
  BY <1>1, <1>2, NamesCarry
<1>4. ASSUME NEW h \in Handler, Working(h)
      PROVE  /\ push'[h] \in Job /\ JobTrue(push[h])'
             /\ push'[h].owed \subseteq push[h].owed /\ push'[h].name = push[h].name
  <2>1. PICK j \in Job : j = push[h] /\ JobTrue(j)
    BY <1>4, JobShape DEF Inv, Shapes, Working
  <2>2. PICK k : k = [j EXCEPT !.owed = @ \ {c}]
    OBVIOUS
  <2>3. push'[h] = k
    BY <1>4, <2>1, <2>2 DEF Forgive
  <2>4. k \in Job /\ JobTrue(k) /\ k.owed = j.owed \ {c} /\ k.name = j.name
    BY <2>1, <2>2, LessOwed
  <2>5. k.owed \subseteq Conn \ {c}
    BY <2>4 DEF Job
  <2>6. JobTrue(k)'
    BY <1>1, <2>4, <2>5, JobCarries
  <2> QED BY <2>1, <2>3, <2>4, <2>6 DEF JobTrue, Owes
<1>5. ASSUME NEW h \in Handler, ~Working(h)
      PROVE  push'[h] = Idle
  BY <1>5, JobShape DEF Forgive, Inv, Shapes, Working
<1>6. push' \in [Handler -> Job \cup {Idle}]
  <2>1. push' = [h \in Handler |-> push'[h]]
    BY DEF Forgive
  <2> QED BY <1>4, <1>5, <2>1
<1>7. Alone' /\ \A h \in Handler : Working(h)' => JobTrue(push[h])'
  <2>1. \A h \in Handler : Working(h)' <=> Working(h)
    BY <1>4, <1>5, JobShape DEF Working
  <2>2. Alone'
    <3> SUFFICES ASSUME NEW a \in Handler, NEW b \in Handler, a # b, Working(a)', Working(b)',
                        push'[a].name[1] = push'[b].name[1]
                 PROVE  push'[b].owed = {}
      BY DEF Alone
    <3>1. push[b].owed = {}
      BY <1>4, <2>1 DEF Inv, Alone
    <3> QED BY <1>4, <2>1, <3>1
  <2> QED BY <1>4, <2>1, <2>2
<1>8. Shapes'
  BY <1>1, <1>6 DEF Inv, Shapes
<1> QED BY <1>3, <1>7, <1>8 DEF Inv

LEMMA ConnectStep ==
    ASSUME Inv, NEW c \in Conn, Connect(c)
    PROVE  Inv'
<1>1. PICK g \in Grant : g = token[c]
  BY DEF Connect, Inv, Shapes
<1>2. HadBy(OwnerOf[c], g.name)
  BY <1>1, TileShape DEF Inv, Names
<1>3. PICK t \in Tile : t = [name |-> g.name, metadata |-> g.grant] /\ t.name = g.name
  <2>1. [name |-> g.name, metadata |-> g.grant] \in Tile
    BY DEF Grant, Tile
  <2> QED BY <2>1
<1>4. media' = [media EXCEPT ![c] = t]
  BY <1>1, <1>3 DEF Connect
<1> QED BY <1>2, <1>3, <1>4, ForgiveStep DEF Connect

LEMMA DisconnectStep ==
    ASSUME Inv, NEW c \in Conn, Disconnect(c)
    PROVE  Inv'
BY ForgiveStep DEF Disconnect

LEMMA DeliverStep ==
    ASSUME Inv, NEW h \in Handler, NEW p \in Person, NEW v \in Version, Deliver(h, p, v)
    PROVE  Inv'
<1>0. UNCHANGED <<profile, published, seated, token, media>>
  BY DEF Deliver
<1>1. PICK n \in Name : n = <<p, v>> /\ n[1] = p /\ n \in published
  <2>1. <<p, v>> \in Name /\ <<p, v>>[1] = p
    BY DEF Name
  <2> QED BY <2>1 DEF Deliver
<1>2. PICK owed : owed = IF Requests(p) = {}
                         THEN {c \in Conn : Connected(c) /\ OwnerOf[c] = p /\ <<p, RoomOf[c]>> \in seated}
                         ELSE {}
  OBVIOUS
<1>3. PICK k : k = [pc |-> "room", name |-> n, rooms |-> LiveRooms(p), room |-> {},
                    listed |-> {}, owed |-> owed]
  OBVIOUS
<1>4. /\ k \in Job /\ k.name = n /\ k.owed = owed /\ k.rooms = LiveRooms(p) /\ k.listed = {}
  BY <1>2, <1>3 DEF Job, LiveRooms
<1>5. push' = [g \in Handler |-> IF g = h THEN k
                                 ELSE IF g \in Requests(p) THEN [push[g] EXCEPT !.owed = {}]
                                 ELSE push[g]]
  BY <1>1, <1>2, <1>3 DEF Deliver
<1>6. ASSUME NEW c \in owed
      PROVE  Owes(k, c)
  <2>1. /\ c \in Conn /\ Connected(c) /\ OwnerOf[c] = p /\ RoomOf[c] \in LiveRooms(p)
    BY <1>2, NamesAssumption DEF LiveRooms
  <2> QED BY <1>1, <1>4, <2>1 DEF Owes
<1>7. JobTrue(k)
  BY <1>1, <1>4, <1>6 DEF JobTrue
<1>8. ~Working(h) /\ push'[h] = k
  BY <1>5 DEF Deliver
<1>9. ASSUME NEW g \in Handler, g # h, Working(g)
      PROVE  /\ push'[g] \in Job /\ JobTrue(push'[g]) /\ push'[g].name = push[g].name
             /\ push'[g].owed = IF push[g].name[1] = p THEN {} ELSE push[g].owed
  <2>1. PICK j \in Job : j = push[g] /\ JobTrue(j)
    BY <1>9, JobShape DEF Inv, Shapes, Working
  <2>2. CASE j.name[1] = p
    <3>1. PICK i : i = [j EXCEPT !.owed = {}]
      OBVIOUS
    <3>2. push'[g] = i
      BY <1>5, <1>9, <2>1, <2>2, <3>1 DEF Requests
    <3>3. /\ i \in Job /\ i.name = j.name /\ i.owed = {} /\ i.listed = j.listed /\ i.room = j.room
      BY <3>1 DEF Job
    <3>4. JobTrue(i)
      BY <2>1, <3>3 DEF JobTrue
    <3> QED BY <2>1, <2>2, <3>2, <3>3, <3>4
  <2>3. CASE j.name[1] # p
    <3>1. push'[g] = j
      BY <1>5, <1>9, <2>1, <2>3 DEF Requests
    <3> QED BY <2>1, <2>3, <3>1
  <2> QED BY <2>2, <2>3
<1>10. ASSUME NEW g \in Handler, g # h, ~Working(g)
       PROVE  push'[g] = Idle
  BY <1>5, <1>10, JobShape DEF Requests, Inv, Shapes, Working
<1>11. push' \in [Handler -> Job \cup {Idle}]
  <2>1. push' = [g \in Handler |-> push'[g]]
    BY <1>5
  <2> QED BY <1>4, <1>8, <1>9, <1>10, <2>1
<1>12. \A g \in Handler : Working(g)' <=> (g = h \/ Working(g))
  BY <1>4, <1>8, <1>9, <1>10, JobShape DEF Working
<1>13. Alone'
  <2> SUFFICES ASSUME NEW a \in Handler, NEW b \in Handler, a # b, Working(a)', Working(b)',
                      push'[a].name[1] = push'[b].name[1]
               PROVE  push'[b].owed = {}
    BY DEF Alone
  <2>1. CASE b = h
    <3>1. Working(a) /\ push[a].name[1] = p
      BY <1>1, <1>4, <1>8, <1>9, <1>12, <2>1
    <3>2. a \in Requests(p)
      BY <3>1 DEF Requests
    <3> QED BY <1>2, <1>4, <1>8, <2>1, <3>2
  <2>2. CASE b # h /\ a = h
    BY <1>1, <1>4, <1>8, <1>9, <1>12, <2>2
  <2>3. CASE b # h /\ a # h
    <3>1. push[b].owed = {}
      BY <1>9, <1>12, <2>3 DEF Inv, Alone
    <3> QED BY <1>9, <1>12, <2>3, <3>1
  <2> QED BY <2>1, <2>2, <2>3
<1>14. \A g \in Handler : Working(g)' => JobTrue(push[g])'
  BY <1>0, <1>7, <1>8, <1>9, <1>12 DEF JobTrue, Owes, Connected
<1>15. Shapes' /\ Names'
  BY <1>0, <1>11 DEF Inv, Shapes, Names, HadBy, Connected
<1> QED BY <1>13, <1>14, <1>15 DEF Inv

\* What a handler is at, as a constant of its step.
LEMMA AtWork ==
    ASSUME Inv, NEW h \in Handler, Working(h)
    PROVE  \E j \in Job : j = push[h] /\ JobTrue(j)
BY JobShape DEF Inv, Shapes, Working

\* A handler writes to no connection that another one owes.
LEMMA OthersOwe ==
    ASSUME Inv, NEW h \in Handler, Working(h), NEW x \in push[h].listed,
           NEW g \in Handler \ {h}, Working(g), NEW c \in push[g].owed
    PROVE  c # x[1]
<1>1. OwnerOf[x[1]] = push[h].name[1]
  BY DEF Inv, JobTrue
<1>2. OwnerOf[c] = push[g].name[1]
  BY DEF Inv, JobTrue, Owes
<1>3. push[h].name[1] # push[g].name[1]
  BY DEF Inv, Alone
<1> QED BY <1>1, <1>2, <1>3

\* A step of h that turns it to k and writes no connection.
LEMMA QuietStep ==
    ASSUME Inv, NEW h \in Handler, Working(h), NEW k \in Job, push' = [push EXCEPT ![h] = k],
           UNCHANGED <<profile, published, seated, token, media>>,
           k.name = push[h].name, k.owed \subseteq push[h].owed, JobTrue(k)
    PROVE  Inv'
<1>1. JobTrue(k)'
  BY DEF JobTrue, Owes, Connected
<1>2. /\ push' \in [Handler -> Job \cup {Idle}] /\ Alone'
      /\ \A g \in Handler : Working(g)' => JobTrue(push[g])'
  BY <1>1, Turns
<1>3. Shapes' /\ Names'
  BY <1>2 DEF Inv, Shapes, Names, HadBy, Connected
<1> QED BY <1>2, <1>3 DEF Inv

LEMMA ListRoomStep ==
    ASSUME Inv, NEW h \in Handler, NEW r \in Room, ListRoom(h, r)
    PROVE  Inv'
<1>0. push[h].pc = "room" /\ Working(h)
  BY DEF ListRoom, Working
<1>1. PICK j \in Job : j = push[h] /\ JobTrue(j)
  BY <1>0, AtWork
<1>2. PICK p \in Person : p = j.name[1]
  BY DEF Job, Name
<1>3. PICK listed : listed = {<<c, media[c]>> : c \in
                                {d \in Conn : Connected(d) /\ RoomOf[d] = r /\ Mine(d, p)}}
  OBVIOUS
<1>4. PICK k : k = [j EXCEPT !.pc = "update", !.room = {r}, !.rooms = @ \ {r}, !.listed = listed]
  OBVIOUS
<1>5. push' = [push EXCEPT ![h] = k]
  BY <1>1, <1>2, <1>3, <1>4 DEF ListRoom
<1>6. ASSUME NEW x \in listed
      PROVE  x \in Conn \X Tile /\ OwnerOf[x[1]] = p /\ RoomOf[x[1]] = r /\ x[2] = media[x[1]]
  <2>1. PICK c \in Conn : Connected(c) /\ RoomOf[c] = r /\ Mine(c, p) /\ x = <<c, media[c]>>
    BY <1>3
  <2>2. media[c] \in Tile
    BY <2>1 DEF Inv, Shapes, Connected
  <2>3. OwnerOf[c] = p
    BY <2>1, MineIsOwn
  <2> QED BY <2>1, <2>2, <2>3
<1>7. listed \subseteq Conn \X Tile
  BY <1>6
<1>8. /\ k \in Job /\ k.pc = "update" /\ k.name = j.name /\ k.owed = j.owed /\ k.room = {r}
      /\ k.rooms = j.rooms \ {r} /\ k.listed = listed
  BY <1>4, <1>7 DEF Job
<1>9. ASSUME NEW c \in k.owed
      PROVE  Owes(k, c)
  <2>1. c \in Conn /\ Owes(j, c)
    BY <1>1, <1>8 DEF JobTrue, Job
  <2>2. OwnerOf[c] = p /\ Connected(c) /\ (media[c].name = j.name \/ RoomOf[c] \in j.rooms)
    BY <1>0, <1>1, <1>2, <2>1 DEF Owes
  <2>3. RoomOf[c] = r => \E x \in listed : x[1] = c
    <3>1. ASSUME RoomOf[c] = r
          PROVE  \E x \in listed : x[1] = c
      <4>1. <<c, media[c]>> \in listed /\ <<c, media[c]>>[1] = c
        BY <1>3, <2>1, <2>2, <3>1, MineIsOwn
      <4> QED BY <4>1
    <3> QED BY <3>1
  <2>4. media[c].name = j.name \/ RoomOf[c] \in k.rooms \/ \E x \in listed : x[1] = c
    BY <1>8, <2>2, <2>3
  <2>5. \A x \in listed : x[1] = c => x[2] = media[c]
    BY <1>6
  <2> QED BY <1>2, <1>8, <2>2, <2>4, <2>5 DEF Owes
<1>10. JobTrue(k)
  BY <1>1, <1>2, <1>6, <1>8, <1>9 DEF JobTrue
<1> QED BY <1>0, <1>1, <1>5, <1>8, <1>10, QuietStep DEF ListRoom

\* One of the listed less: it was done with.
LEMMA Listed ==
    ASSUME NEW j \in Job, NEW x \in j.listed, NEW k, k = [j EXCEPT !.listed = @ \ {x}]
    PROVE  /\ k \in Job /\ k.pc = j.pc /\ k.name = j.name /\ k.rooms = j.rooms /\ k.room = j.room
           /\ k.owed = j.owed /\ k.listed = j.listed \ {x}
BY DEF Job

LEMMA SkipStep ==
    ASSUME Inv, NEW h \in Handler, NEW x \in push[h].listed, Skip(h, x)
    PROVE  Inv'
<1>0. push[h].pc = "update" /\ x[2].name = push[h].name /\ Working(h)
  BY DEF Skip, Working
<1>1. PICK j \in Job : j = push[h] /\ JobTrue(j)
  BY <1>0, AtWork
<1>2. PICK k : k = [j EXCEPT !.listed = @ \ {x}]
  OBVIOUS
<1>3. push' = [push EXCEPT ![h] = k]
  BY <1>1, <1>2 DEF Skip
<1>4. /\ k \in Job /\ k.pc = j.pc /\ k.name = j.name /\ k.rooms = j.rooms /\ k.room = j.room
      /\ k.owed = j.owed /\ k.listed = j.listed \ {x}
  BY <1>1, <1>2, Listed
<1>5. ASSUME NEW c \in k.owed
      PROVE  Owes(k, c)
  <2>1. Owes(j, c)
    BY <1>1, <1>4 DEF JobTrue
  <2>2. x[1] = c => media[c].name = j.name
    BY <1>0, <1>1, <2>1 DEF Owes
  <2> QED BY <1>4, <2>1, <2>2 DEF Owes
<1>6. JobTrue(k)
  BY <1>1, <1>4, <1>5 DEF JobTrue
<1> QED BY <1>0, <1>1, <1>3, <1>4, <1>6, QuietStep DEF Skip

\* A write of the name of h to the connection of x, by h.
LEMMA WrittenTile ==
    ASSUME Inv, NEW h \in Handler, Working(h), NEW x \in push[h].listed, Connected(x[1])
    PROVE  /\ x[1] \in Conn
           /\ Updated(media[x[1]], push[h].name, x[2]) \in Tile
           /\ Updated(media[x[1]], push[h].name, x[2]).name = push[h].name
           /\ Updated(media[x[1]], push[h].name, x[2]).metadata = x[2].metadata
           /\ HadBy(OwnerOf[x[1]], push[h].name)
<1>1. PICK j \in Job : j = push[h] /\ JobTrue(j)
  BY AtWork
<1>2. x \in Conn \X Tile
  BY <1>1 DEF Job
<1>3. PICK t \in Tile : t = media[x[1]]
  BY <1>2 DEF Inv, Shapes, Connected
<1>4. j.name \in Name /\ x[2].metadata \in 1..MaxGrant
  BY <1>2 DEF Job, Tile
<1>5. PICK u : u = [t EXCEPT !.name = j.name, !.metadata = x[2].metadata]
  OBVIOUS
<1>6. u \in Tile /\ u.name = j.name /\ u.metadata = x[2].metadata
  BY <1>4, <1>5 DEF Tile
<1>7. u = Updated(media[x[1]], push[h].name, x[2])
  BY <1>1, <1>3, <1>5 DEF Updated
<1>8. HadBy(OwnerOf[x[1]], push[h].name)
  BY <1>1 DEF Inv, Names, JobTrue
<1> QED BY <1>1, <1>2, <1>6, <1>7, <1>8

LEMMA UpdateStep ==
    ASSUME Inv, NEW h \in Handler, NEW x \in push[h].listed, Update(h, x)
    PROVE  Inv'
<1>0. push[h].pc = "update" /\ Working(h)
  BY DEF Update, Working
<1>1. PICK j \in Job : j = push[h] /\ JobTrue(j)
  BY <1>0, AtWork
<1>2. PICK k : k = [j EXCEPT !.listed = @ \ {x}]
  OBVIOUS
<1>3. push' = [push EXCEPT ![h] = k] /\ UNCHANGED <<profile, published, seated, token>>
  BY <1>1, <1>2 DEF Update
<1>4. /\ k \in Job /\ k.pc = j.pc /\ k.name = j.name /\ k.rooms = j.rooms /\ k.room = j.room
      /\ k.owed = j.owed /\ k.listed = j.listed \ {x}
  BY <1>1, <1>2, Listed
<1>5. CASE ~Connected(x[1])
  <2>1. media' = media
    BY <1>5 DEF Update
  <2>2. ASSUME NEW c \in k.owed
        PROVE  Owes(k, c)
    <3>1. Owes(j, c)
      BY <1>1, <1>4 DEF JobTrue
    <3>2. c # x[1]
      BY <1>5, <3>1 DEF Owes
    <3> QED BY <1>4, <3>1, <3>2 DEF Owes
  <2>3. JobTrue(k)
    BY <1>1, <1>4, <2>2 DEF JobTrue
  <2> QED BY <1>0, <1>1, <1>3, <1>4, <2>1, <2>3, QuietStep
<1>6. CASE Connected(x[1])
  <2>1. PICK t \in Tile : /\ t = Updated(media[x[1]], push[h].name, x[2])
                          /\ t.name = j.name /\ t.metadata = x[2].metadata
                          /\ HadBy(OwnerOf[x[1]], t.name) /\ x[1] \in Conn
    BY <1>0, <1>1, <1>6, WrittenTile
  <2>2. media' = [media EXCEPT ![x[1]] = t]
    BY <1>6, <2>1 DEF Update, Updated
  <2>3. /\ media' \in [Conn -> Tile \cup {NoConn}] /\ media'[x[1]] = t
        /\ \A c \in Conn : c # x[1] => media'[c] = media[c]
    BY <2>1, <2>2 DEF Inv, Shapes
  <2>4. ASSUME NEW c \in k.owed
        PROVE  Owes(k, c)'
    <3>1. c \in Conn /\ Owes(j, c)
      BY <1>1, <1>4 DEF JobTrue, Job
    <3>2. CASE c = x[1]
      <4>1. media'[c] = t /\ Connected(c)'
        BY <2>3, <3>2, TileShape DEF Connected
      <4>2. \A y \in k.listed : y[1] = c => y[2].metadata = x[2].metadata
        BY <1>1, <1>4, <3>1, <3>2 DEF Owes
      <4> QED BY <1>4, <2>1, <3>1, <4>1, <4>2 DEF Owes
    <3>3. CASE c # x[1]
      BY <1>4, <2>3, <3>1, <3>3 DEF Owes, Connected
    <3> QED BY <3>2, <3>3
  <2>5. JobTrue(k)'
    BY <1>1, <1>3, <1>4, <2>4 DEF JobTrue
  <2>6. \A g \in Handler \ {h} : Working(g) => \A c \in push[g].owed : media'[c] = media[c]
    <3>1. ASSUME NEW g \in Handler \ {h}, Working(g), NEW c \in push[g].owed
          PROVE  media'[c] = media[c]
      <4>1. c \in Conn
        BY <3>1, AtWork DEF Job
      <4> QED BY <1>0, <2>3, <3>1, <4>1, OthersOwe
    <3> QED BY <3>1
  <2>7. /\ push' \in [Handler -> Job \cup {Idle}] /\ Alone'
        /\ \A g \in Handler : Working(g)' => JobTrue(push[g])'
    BY <1>0, <1>1, <1>3, <1>4, <2>5, <2>6, Turns
  <2>8. Names'
    BY <1>3, <2>1, <2>3, NamesCarry
  <2>9. Shapes'
    BY <1>3, <2>3, <2>7 DEF Inv, Shapes
  <2> QED BY <2>7, <2>8, <2>9 DEF Inv
<1> QED BY <1>5, <1>6

\* The room is over, and whoever of it was still owed, if it failed, is not any more.
LEMMA RoomOverStep ==
    ASSUME Inv, NEW h \in Handler, RoomDone(h) \/ RoomFails(h)
    PROVE  Inv'
<1>0. push[h].pc = "update" /\ Working(h) /\ UNCHANGED <<profile, published, seated, token>>
  BY DEF RoomDone, RoomFails, Working
<1>1. PICK j \in Job : j = push[h] /\ JobTrue(j)
  BY <1>0, AtWork
<1>2. PICK failed \in SUBSET Room :
        /\ NextRoom(h, failed)
        /\ \/ failed = {} /\ j.listed = {} /\ media' = media
           \/ failed = j.room /\ RoomFails(h)
  BY <1>1 DEF RoomDone, RoomFails, Job
<1>3. PICK k : k = [j EXCEPT !.pc = "room", !.room = {}, !.listed = {},
                             !.owed = {c \in @ : RoomOf[c] \notin failed}]
  OBVIOUS
<1>4. push' = [push EXCEPT ![h] = k]
  BY <1>1, <1>2, <1>3 DEF NextRoom
<1>5. /\ k \in Job /\ k.name = j.name /\ k.rooms = j.rooms /\ k.listed = {}
      /\ k.owed = {c \in j.owed : RoomOf[c] \notin failed}
  BY <1>3 DEF Job
<1>6. PICK touched \in SUBSET Conn :
        /\ media' \in [Conn -> Tile \cup {NoConn}]
        /\ \A c \in touched : /\ \E x \in j.listed : x[1] = c
                              /\ failed = j.room /\ Connected(c)' /\ HadBy(OwnerOf[c], media'[c].name)
        /\ \A c \in Conn \ touched : media'[c] = media[c]
  <2>1. CASE media' = media
    <3>1. media' \in [Conn -> Tile \cup {NoConn}] /\ \A c \in Conn \ {} : media'[c] = media[c]
      BY <2>1 DEF Inv, Shapes
    <3>2. \A c \in {} : /\ \E x \in j.listed : x[1] = c
                        /\ failed = j.room /\ Connected(c)' /\ HadBy(OwnerOf[c], media'[c].name)
      OBVIOUS
    <3>3. {} \in SUBSET Conn
      OBVIOUS
    <3> QED BY <3>1, <3>2, <3>3
  <2>2. ASSUME NEW x \in j.listed, Connected(x[1]), failed = j.room,
               media' = [media EXCEPT ![x[1]] = Updated(@, j.name, x[2])]
        PROVE  \E touched \in SUBSET Conn :
                  /\ media' \in [Conn -> Tile \cup {NoConn}]
                  /\ \A c \in touched : /\ \E y \in j.listed : y[1] = c
                                        /\ failed = j.room /\ Connected(c)'
                                        /\ HadBy(OwnerOf[c], media'[c].name)
                  /\ \A c \in Conn \ touched : media'[c] = media[c]
    <3>1. PICK t \in Tile : /\ t = Updated(media[x[1]], j.name, x[2])
                            /\ HadBy(OwnerOf[x[1]], t.name) /\ x[1] \in Conn
      BY <1>0, <1>1, <2>2, WrittenTile
    <3>2. media' = [media EXCEPT ![x[1]] = t]
      BY <2>2, <3>1 DEF Updated
    <3>3. /\ media' \in [Conn -> Tile \cup {NoConn}] /\ media'[x[1]] = t
          /\ \A c \in Conn \ {x[1]} : media'[c] = media[c]
      BY <3>1, <3>2 DEF Inv, Shapes
    <3>4. Connected(x[1])'
      BY <3>3, TileShape DEF Connected
    <3>5. {x[1]} \in SUBSET Conn
      BY <3>1
    <3>6. \A c \in {x[1]} : /\ \E y \in j.listed : y[1] = c
                            /\ failed = j.room /\ Connected(c)' /\ HadBy(OwnerOf[c], media'[c].name)
      BY <2>2, <3>1, <3>3, <3>4
    <3> QED BY <3>3, <3>5, <3>6
  <2>3. ASSUME RoomFails(h), failed = j.room, media' # media
        PROVE  \E x \in j.listed : Connected(x[1]) /\ media' = [media EXCEPT ![x[1]] = Updated(@, j.name, x[2])]
    BY <1>1, <2>3 DEF RoomFails
  <2> QED BY <1>2, <2>1, <2>2, <2>3
<1>7. ASSUME NEW c \in k.owed
      PROVE  Owes(k, c)'
  <2>1. c \in Conn /\ Owes(j, c) /\ RoomOf[c] \notin failed
    BY <1>1, <1>5 DEF JobTrue, Job
  <2>2. c \notin touched
    BY <1>1, <1>6, <2>1 DEF JobTrue
  <2>3. media'[c] = media[c]
    BY <1>6, <2>1, <2>2
  <2>4. media[c].name = j.name \/ RoomOf[c] \in j.rooms
    <3>1. CASE failed = {} /\ j.listed = {}
      BY <2>1, <3>1 DEF Owes
    <3>2. CASE failed = j.room
      BY <1>1, <2>1, <3>2 DEF Owes, JobTrue
    <3> QED BY <1>2, <3>1, <3>2
  <2> QED BY <1>5, <2>1, <2>3, <2>4 DEF Owes, Connected
<1>8. JobTrue(k)'
  BY <1>0, <1>1, <1>5, <1>7 DEF JobTrue
<1>9. \A g \in Handler \ {h} : Working(g) => \A c \in push[g].owed : media'[c] = media[c]
  <2>1. ASSUME NEW g \in Handler \ {h}, Working(g), NEW c \in push[g].owed
        PROVE  media'[c] = media[c]
    <3>1. c \in Conn
      BY <2>1, AtWork DEF Job
    <3>2. c \notin touched
      BY <1>0, <1>1, <1>6, <2>1, OthersOwe
    <3> QED BY <1>6, <3>1, <3>2
  <2> QED BY <2>1
<1>10. k.owed \subseteq push[h].owed /\ k.name = push[h].name
  BY <1>1, <1>5
<1>11. /\ push' \in [Handler -> Job \cup {Idle}] /\ Alone'
       /\ \A g \in Handler : Working(g)' => JobTrue(push[g])'
  BY <1>0, <1>4, <1>5, <1>8, <1>9, <1>10, Turns
<1>12. Names'
  BY <1>0, <1>6, NamesCarry
<1>13. Shapes'
  BY <1>0, <1>6, <1>11 DEF Inv, Shapes
<1> QED BY <1>11, <1>12, <1>13 DEF Inv

LEMMA IdleStep ==
    ASSUME Inv, NEW h \in Handler, Finish(h) \/ Dies(h)
    PROVE  Inv'
<1>1. push' = [push EXCEPT ![h] = Idle] /\ UNCHANGED <<profile, published, seated, token, media>>
  BY DEF Finish, Dies
<1>2. push' \in [Handler -> Job \cup {Idle}] /\ push'[h] = Idle
      /\ \A g \in Handler \ {h} : push'[g] = push[g]
  BY <1>1 DEF Inv, Shapes
<1>3. \A g \in Handler : Working(g)' => g # h /\ Working(g) /\ push'[g] = push[g]
  BY <1>2, JobShape DEF Working
<1>4. Alone' /\ \A g \in Handler : Working(g)' => JobTrue(push[g])'
  BY <1>1, <1>3 DEF Inv, Alone, JobTrue, Owes, Connected
<1>5. Shapes' /\ Names'
  BY <1>1, <1>2 DEF Inv, Shapes, Names, HadBy, Connected
<1> QED BY <1>4, <1>5 DEF Inv

-----------------------------------------------------------------------------
(* The theorems.                                                            *)

LEMMA InitInv == Init => Inv
<1> SUFFICES ASSUME Init PROVE Inv
  OBVIOUS
<1>1. 0 \in Version
  BY NamesAssumption DEF Version
<1>2. Shapes
  BY <1>1 DEF Init, Shapes
<1>3. \A h \in Handler : ~Working(h)
  BY JobShape DEF Init, Working
<1>4. Names
  BY DEF Init, Names, Connected
<1> QED BY <1>2, <1>3, <1>4 DEF Inv, Alone

LEMMA NextInv == Inv /\ [Next]_vars => Inv'
<1> SUFFICES ASSUME Inv, [Next]_vars PROVE Inv'
  OBVIOUS
<1>1. CASE UNCHANGED vars
  BY <1>1 DEF vars, Inv, Shapes, Names, HadBy, Alone, Working, JobTrue, Owes, Connected
<1>2. ASSUME NEW p \in Person, ProfileChanged(p) \/ \E r \in Room : Unseat(p, r)
      PROVE  Inv'
  BY <1>2, ProfileStep, UnseatStep
<1>3. ASSUME NEW c \in Conn, Mint(c) \/ Connect(c) \/ Disconnect(c)
      PROVE  Inv'
  BY <1>3, MintStep, ConnectStep, DisconnectStep
<1>4. ASSUME NEW h \in Handler, Handle(h)
      PROVE  Inv'
  BY <1>4, DeliverStep, ListRoomStep, SkipStep, UpdateStep, RoomOverStep, IdleStep DEF Handle
<1> QED BY <1>1, <1>2, <1>3, <1>4 DEF Next

\* "one user id can never match another's" (livekit.py:331-333), for any user ids that
\* hold no separator: a tile shows a name that its own person has, or had.
THEOREM OwnNames == Spec => []TilesShowTheirOwn
<1>1. Inv => TilesShowTheirOwn
  BY DEF Inv, Names, HadBy, TilesShowTheirOwn
<1> QED BY <1>1, InitInv, NextInv, PTL DEF Spec

\* When profile.changed has been handled (actions.handle_profile_changed) every tile that
\* was there all along shows the name, whatever connections, rooms and handlers did meanwhile.
THEOREM RenameReaches == Spec => []ReachesEveryTile
<1>1. Inv => ReachesEveryTile
  <2> SUFFICES ASSUME Inv, NEW h \in Handler, push[h].pc = "room", push[h].rooms = {},
                      NEW c \in push[h].owed
               PROVE  media[c].name = push[h].name
    BY DEF ReachesEveryTile
  <2>1. Working(h)
    BY DEF Working
  <2> QED BY <2>1 DEF Inv, JobTrue, Owes
<1> QED BY <1>1, InitInv, NextInv, PTL DEF Spec

\* "metadata is passed through untouched" (livekit.py:338): what is written back was
\* listed, and is still so, on every connection that was not replaced since.
THEOREM MetadataStays == Spec => OnlyTheNameIsPushed
<1> DEFINE Kept == \A h \in Handler, c \in Conn :
                     Working(h) /\ c \in push[h].owed /\ media'[c] # NoConn /\ ~Connect(c)
                        => media'[c].metadata = media[c].metadata
<1>1. Inv /\ [Next]_vars => [Kept]_media
  <2> SUFFICES ASSUME Inv, [Next]_vars, NEW h \in Handler, NEW c \in Conn, Working(h),
                      c \in push[h].owed, media'[c] # NoConn, ~Connect(c), media'[c] # media[c]
               PROVE  media'[c].metadata = media[c].metadata
    OBVIOUS
  <2>0. PICK g \in Handler : \E y \in push[g].listed :
          /\ Working(g) /\ Connected(y[1])
          /\ media' = [media EXCEPT ![y[1]] = Updated(@, push[g].name, y[2])]
    <3>1. ASSUME NEW d \in Conn, Connect(d) \/ Disconnect(d)
          PROVE  FALSE
      BY <3>1 DEF Connect, Disconnect, Inv, Shapes
    <3>2. \E g \in Handler : RoomFails(g) \/ \E x \in push[g].listed : Update(g, x)
      BY <3>1 DEF Next, ProfileChanged, Unseat, Mint, Handle, Deliver, ListRoom, Skip, RoomDone,
                  Finish, Dies, vars
    <3>3. PICK g \in Handler : RoomFails(g) \/ \E x \in push[g].listed : Update(g, x)
      BY <3>2
    <3>4. Working(g)
      BY <3>3 DEF RoomFails, Update, Working
    <3> QED BY <3>3, <3>4 DEF RoomFails, Update
  <2>1. PICK x \in push[g].listed :
          /\ Working(g) /\ Connected(x[1])
          /\ media' = [media EXCEPT ![x[1]] = Updated(@, push[g].name, x[2])]
    BY <2>0
  <2>2. x[1] = c
    BY <2>1 DEF Inv, Shapes
  <2>3. g = h
    BY <2>1, <2>2, OthersOwe
  <2>4. media'[c] = Updated(media[c], push[h].name, x[2])
    BY <2>1, <2>2, <2>3 DEF Inv, Shapes
  <2>5. media'[c].metadata = x[2].metadata
    BY <2>1, <2>2, <2>3, <2>4, WrittenTile
  <2>6. x[2].metadata = media[c].metadata
    BY <2>1, <2>2, <2>3 DEF Inv, JobTrue, Owes
  <2> QED BY <2>5, <2>6
<1> QED BY <1>1, InitInv, NextInv, PTL DEF Spec, OnlyTheNameIsPushed
=============================================================================
