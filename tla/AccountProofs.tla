---------------------------- MODULE AccountProofs ----------------------------
(***************************************************************************)
(* Theorems of AccountLifecycle, for any users, rooms, stays and workers.    *)
(* A merge decides on what it read.  What it read of its guest can only      *)
(* shrink, but for what the guest itself writes after the reads: nobody is   *)
(* merged into a guest, and no handler gives it a room or a seat.            *)
(***************************************************************************)
EXTENDS AccountLifecycle, TLAPS

\* What kind of job a worker has.
LEMMA Jobs ==
    ASSUME TypeOK, NEW w \in Worker
    PROVE  /\ job[w].pc = "look" => job[w] \in LookJob /\ job[w] # NoJob
           /\ job[w].pc = "merge" => job[w] \in MergeJob /\ job[w] # NoJob
           /\ job[w].pc \in {"rooms", "seats", "spans"} => job[w] \in EraseJob /\ job[w] # NoJob
           /\ job[w] = NoJob \/ job[w].event \in Merged \cup Erasure
<1>1. job[w] \in LookJob \cup MergeJob \cup EraseJob \cup {NoJob} /\ NoJob.pc = "idle"
  BY DEF TypeOK, NoJob
<1>2. /\ job[w] \in LookJob => job[w].pc = "look" /\ job[w].event \in Merged
      /\ job[w] \in MergeJob => job[w].pc = "merge" /\ job[w].event \in Merged
  BY DEF LookJob, MergeJob
<1>3. job[w] \in EraseJob => job[w].pc \in {"rooms", "seats", "spans"} /\ job[w].event \in Erasure
  BY DEF EraseJob
<1>4. QED
  BY <1>1, <1>2, <1>3

LEMMA Kinds ==
    /\ Merged \cap Erasure = {}
    /\ \A e \in Merged : e.from \in User /\ e.into \in User
    /\ \A e \in Erasure : e.who \in User
<1>1. \A e \in Merged : e.kind = "merged" /\ e.from \in User /\ e.into \in User
  BY DEF Merged
<1>2. \A e \in Erasure : e.kind = "erase" /\ e.who \in User
  BY DEF Erasure
<1>3. QED
  BY <1>1, <1>2

-----------------------------------------------------------------------------
(* Types.                                                                   *)

LEMMA WorldTypes ==
    ASSUME TypeOK, World
    PROVE  TypeOK'
<1>1. CASE \E u \in User : Project(u)
  BY <1>1 DEF TypeOK, Project, Rows
<1>2. CASE \E u \in User : RequestErasure(u)
  <2>1. PICK u \in User : RequestErasure(u)
    BY <1>2
  <2>2. [kind |-> "erase", who |-> u] \in Erasure
    BY DEF Erasure
  <2>3. QED
    BY <2>1, <2>2 DEF TypeOK, RequestErasure, Rows
<1>3. CASE \E u \in User : DeleteAccount(u)
  BY <1>3 DEF TypeOK, DeleteAccount, Cascade, Status
<1>4. CASE \E u \in User, r \in Room : CreateRoom(u, r)
  <2>1. PICK u \in User, r \in Room : CreateRoom(u, r)
    BY <1>4
  <2>2. late' \subseteq User \X Room
    BY <2>1 DEF TypeOK, CreateRoom, Remember
  <2>3. QED
    BY <2>1, <2>2 DEF TypeOK, CreateRoom, Status
<1>5. CASE \E u \in User, r \in Room, status \in {"admitted", "denied"} : Knock(u, r, status)
  <2>1. PICK u \in User, r \in Room, status \in {"admitted", "denied"} : Knock(u, r, status)
    BY <1>5
  <2>2. late' \subseteq User \X Room
    BY <2>1 DEF TypeOK, Knock, Remember
  <2>3. QED
    BY <2>1, <2>2 DEF TypeOK, Knock, Status
<1>9. CASE \E c \in Rings : PlaceCall(c)
  BY <1>9 DEF TypeOK, PlaceCall
<1>6. CASE \E s \in Stay : Webhook(s)
  BY <1>6, AccountsAssumption DEF TypeOK, Webhook, Names
<1>7. CASE \E p \in SignsInto : SignIn(p[1], p[2])
  <2>1. PICK p \in SignsInto : SignIn(p[1], p[2])
    BY <1>7
  <2>2. p[1] \in User /\ p[2] \in User
    BY AccountsAssumption
  <2>3. [kind |-> "merged", from |-> p[1], into |-> p[2]] \in Merged
    BY <2>2 DEF Merged
  <2>4. QED
    BY <2>1, <2>2, <2>3 DEF TypeOK, SignIn, Rows
<1>8. QED
  BY <1>1, <1>2, <1>3, <1>4, <1>5, <1>6, <1>7, <1>9 DEF World

LEMMA JobType ==
    ASSUME TypeOK, NEW w \in Worker, NEW j \in LookJob \cup MergeJob \cup EraseJob \cup {NoJob},
           job' = [job EXCEPT ![w] = j]
    PROVE  job' \in [Worker -> LookJob \cup MergeJob \cup EraseJob \cup {NoJob}]
  BY DEF TypeOK

LEMMA RekeyType ==
    ASSUME TypeOK, NEW from, NEW into \in Names, Rekey(from, into)
    PROVE  name' \in [Stay -> Names]
  BY DEF TypeOK, Rekey

LEMMA DeliverTypes ==
    ASSUME TypeOK, NEW w \in Worker, NEW e \in sent, Deliver(w, e)
    PROVE  TypeOK'
<1>1. CASE MergeLook(w, e)
  <2>1. [pc |-> "look", event |-> e, admissions |-> SeatsOf(e.from)] \in LookJob
    BY <1>1 DEF LookJob, MergeLook, SeatsOf
  <2>2. QED
    BY <1>1, <2>1, JobType DEF TypeOK, MergeLook, Rows
<1>2. CASE StartErase(w, e)
  <2>1. [pc |-> "rooms", event |-> e] \in EraseJob
    BY <1>2 DEF EraseJob, StartErase
  <2>2. QED
    BY <1>2, <2>1, JobType DEF TypeOK, StartErase, Rows
<1>3. QED
  BY <1>1, <1>2 DEF Deliver

LEMMA MergeSeatsType ==
    ASSUME TypeOK, NEW j \in MergeJob, MergeSeats(j)
    PROVE  seat' \in [Room -> [User -> Status]]
<1>1. j.event.from \in User /\ j.event.into \in User
  BY Kinds DEF MergeJob
<1>2. \A r \in Room : seat[r] \in [User -> Status] /\ "none" \in Status
  BY DEF TypeOK, Status
<1>3. QED
  BY <1>1, <1>2 DEF MergeSeats

LEMMA HandleTypes ==
    ASSUME TypeOK, \A v \in Worker : job[v] # NoJob => job[v].event \in sent,
           NEW w \in Worker, Handle(w) \/ HandlerDies(w)
    PROVE  TypeOK'
<1>f. Finish(w) => job' \in [Worker -> LookJob \cup MergeJob \cup EraseJob \cup {NoJob}]
  BY JobType DEF Finish
<1>a. Ack(w) /\ job[w] # NoJob => acked' \subseteq sent
  BY DEF Ack, TypeOK
<1>0. CASE MergeRead(w)
  <2>1. PICK e : e = job[w].event
    OBVIOUS
  <2>2. PICK j : j = [pc |-> "merge", event |-> e, admissions |-> job[w].admissions,
                      owns |-> RoomsOf(e.from) # {}, ready |-> e.into \in accounts,
                      taken |-> SeatsOf(e.into)]
    OBVIOUS
  <2>3. (RoomsOf(e.from) # {}) \in BOOLEAN /\ (e.into \in accounts) \in BOOLEAN
    OBVIOUS
  <2>4. job[w] \in LookJob
    BY <1>0, Jobs DEF MergeRead
  <2>5. j \in MergeJob
    BY <2>1, <2>2, <2>3, <2>4 DEF LookJob, MergeJob, SeatsOf
  <2>6. job' = [job EXCEPT ![w] = j]
    BY <1>0, <2>1, <2>2 DEF MergeRead
  <2>7. QED
    BY <1>0, <2>5, <2>6, JobType DEF TypeOK, MergeRead, Rows
<1>1. CASE MergeMeter(w) \/ MergeAll(w)
  <2>1. job[w] \in MergeJob /\ job[w] # NoJob /\ Ack(w)
    BY <1>1, Jobs DEF MergeMeter, MergeAll
  <2>2. job[w].event.from \in User /\ job[w].event.into \in User
    BY <2>1, Kinds DEF MergeJob
  <2>3. name' \in [Stay -> Names]
    BY <1>1, <2>2, RekeyType DEF MergeMeter, MergeAll, Names
  <2>4. seat' \in [Room -> [User -> Status]] /\ host' \in [Room -> User \cup {Nobody}]
    BY <1>1, <2>1, <2>2, MergeSeatsType DEF MergeMeter, MergeAll, TypeOK
  <2>5. QED
    BY <1>1, <1>a, <1>f, <2>1, <2>3, <2>4 DEF MergeMeter, MergeAll, TypeOK, Ack
<1>2. CASE MergeNotReady(w) \/ MergeFails(w) \/ HandlerDies(w)
  BY <1>2, <1>f DEF MergeNotReady, MergeFails, HandlerDies, TypeOK, Rows
<1>3. CASE EraseRooms(w)
  <2>1. job[w] \in EraseJob
    BY <1>3, Jobs DEF EraseRooms
  <2>2. [job[w] EXCEPT !.pc = "seats"] \in EraseJob
    BY <2>1 DEF EraseJob
  <2>3. job' = [job EXCEPT ![w] = [job[w] EXCEPT !.pc = "seats"]]
    BY <1>3 DEF EraseRooms
  <2>4. QED
    BY <1>3, <2>2, <2>3, JobType DEF EraseRooms, TypeOK, Status
<1>4. CASE EraseSeats(w)
  <2>1. job[w] \in EraseJob
    BY <1>4, Jobs DEF EraseSeats
  <2>2. [job[w] EXCEPT !.pc = "spans"] \in EraseJob
    BY <2>1 DEF EraseJob
  <2>3. job' = [job EXCEPT ![w] = [job[w] EXCEPT !.pc = "spans"]]
    BY <1>4 DEF EraseSeats
  <2>4. QED
    BY <1>4, <2>2, <2>3, JobType DEF EraseSeats, TypeOK, Status
<1>5. CASE EraseSpans(w)
  <2>1. job[w] \in EraseJob /\ job[w] # NoJob /\ Ack(w)
    BY <1>5, Jobs DEF EraseSpans
  <2>2. Pseudonym(job[w].event.who) \in Names
    <3>1. job[w].event.who \in User
      BY <2>1, Kinds DEF EraseJob
    <3>2. QED
      BY <3>1 DEF Names
  <2>3. name' \in [Stay -> Names]
    BY <1>5, <2>2, RekeyType DEF EraseSpans
  <2>4. QED
    BY <1>5, <1>a, <1>f, <2>1, <2>3 DEF EraseSpans, TypeOK, Ack
<1>6. QED
  BY <1>0, <1>1, <1>2, <1>3, <1>4, <1>5 DEF Handle

LEMMA Types ==
    ASSUME IInv, [Next]_vars
    PROVE  TypeOK'
<1>1. CASE UNCHANGED vars
  BY <1>1 DEF vars, IInv, TypeOK
<1>2. CASE Next
  BY <1>2, WorldTypes, DeliverTypes, HandleTypes DEF IInv, Next
<1>3. QED
  BY <1>1, <1>2

-----------------------------------------------------------------------------
(* The invariant.                                                           *)

\* Who writes admissions and hosts for a guest: nobody but itself, and then the row is late
\* if its merge had been read.
LEMMA GuestRows ==
    ASSUME IInv, [Next]_vars, NEW e \in sent \cap Merged
    PROVE  \A r \in Room :
              /\ seat'[r][e.from] # "none" =>
                    seat[r][e.from] # "none" \/ (MergeHasRead(e.from) => <<e.from, r>> \in late')
              /\ host'[r] = e.from =>
                    host[r] = e.from \/ (MergeHasRead(e.from) => <<e.from, r>> \in late')
<1>1. PICK g \in User : g = e.from
  BY Kinds
<1>2. /\ TypeOK /\ g \in User /\ g # Nobody
      /\ \A p \in SignsInto : p[2] # g
      /\ seat \in [Room -> [User -> Status]] /\ host \in [Room -> User \cup {Nobody}]
  <2>1. TypeOK /\ <<e.from, e.into>> \in SignsInto
    BY <1>1 DEF IInv
  <2>2. <<e.from, e.into>>[1] = g
    BY <1>1
  <2>3. QED
    BY <1>1, <2>1, <2>2, AccountsAssumption DEF TypeOK
<1> SUFFICES \A r \in Room :
               /\ seat'[r][g] # "none" =>
                     seat[r][g] # "none" \/ (MergeHasRead(g) => <<g, r>> \in late')
               /\ host'[r] = g => host[r] = g \/ (MergeHasRead(g) => <<g, r>> \in late')
  BY <1>1
<1>4. CASE World
  <2>1. CASE \E u \in User : DeleteAccount(u)
    BY <1>2, <2>1 DEF DeleteAccount, Cascade
  <2>2. CASE \E u \in User, r \in Room : CreateRoom(u, r)
    <3>1. PICK u \in User, q \in Room : CreateRoom(u, q)
      BY <2>2
    <3>2. CASE u # g
      BY <1>2, <3>1, <3>2 DEF CreateRoom
    <3>3. CASE u = g
      BY <1>2, <3>1, <3>3 DEF CreateRoom, Remember
    <3>4. QED
      BY <3>2, <3>3
  <2>3. CASE \E u \in User, r \in Room, status \in {"admitted", "denied"} : Knock(u, r, status)
    <3>1. PICK u \in User, q \in Room, status \in {"admitted", "denied"} : Knock(u, q, status)
      BY <2>3
    <3>2. CASE u # g
      BY <1>2, <3>1, <3>2 DEF Knock
    <3>3. CASE u = g
      BY <1>2, <3>1, <3>3 DEF Knock, Remember
    <3>4. QED
      BY <3>2, <3>3
  <2>4. CASE UNCHANGED <<seat, host>>
    BY <2>4
  <2>5. QED
    BY <1>4, <2>1, <2>2, <2>3, <2>4 DEF World, Project, RequestErasure, Webhook, SignIn, PlaceCall, Rows
<1>5. CASE \E w \in Worker, f \in sent : Deliver(w, f)
  BY <1>5 DEF Deliver, MergeLook, StartErase, Rows
<1>6. CASE \E w \in Worker : Handle(w) \/ HandlerDies(w)
  <2>1. PICK w \in Worker : Handle(w) \/ HandlerDies(w)
    BY <1>6
  <2>2. CASE MergeAll(w)
    <3>1. job[w] \in MergeJob /\ job[w].event \in sent \cap Merged
      BY <1>2, <2>2, Jobs DEF MergeAll, IInv, MergeJob
    <3>2. PICK into \in User, from \in User : into = job[w].event.into /\ from = job[w].event.from
      BY <3>1, Kinds
    <3>3. <<from, into>> \in SignsInto
      BY <3>1, <3>2 DEF IInv
    <3>4. into # g
      BY <1>2, <3>3
    <3>5. \A r \in Room : /\ host'[r] = g => host[r] = g
                          /\ seat'[r][g] = seat[r][g] \/ seat'[r][g] = "none"
      BY <1>2, <2>2, <3>2, <3>4 DEF MergeAll, MergeSeats
    <3>6. QED
      BY <3>5
  <2>3. CASE EraseRooms(w) \/ EraseSeats(w)
    BY <1>2, <2>3 DEF EraseRooms, EraseSeats
  <2>4. CASE UNCHANGED <<seat, host>>
    BY <2>4
  <2>5. QED
    BY <2>1, <2>2, <2>3, <2>4 DEF Handle, MergeRead, MergeMeter, MergeNotReady, MergeFails, EraseSpans,
                                 HandlerDies, Rows
<1>7. CASE UNCHANGED vars
  BY <1>7 DEF vars
<1>8. QED
  BY <1>4, <1>5, <1>6, <1>7 DEF Next

\* A merge that goes through leaves its guest nothing but what came after its reads.
LEMMA MergeEmpties ==
    ASSUME IInv, NEW w \in Worker, MergeMeter(w) \/ MergeAll(w)
    PROVE  \A r \in Room :
              /\ host'[r] = job[w].event.from => <<job[w].event.from, r>> \in late'
              /\ seat'[r][job[w].event.from] # "none" => <<job[w].event.from, r>> \in late'
<1>1. /\ job[w] \in MergeJob /\ job[w].event \in sent \cap Merged /\ TypeOK
      /\ ReadsCover(job[w]) /\ late' = late
  BY Jobs DEF MergeMeter, MergeAll, IInv, MergeJob
<1>2. PICK into \in User, from \in User : into = job[w].event.into /\ from = job[w].event.from
  BY <1>1, Kinds
<1>3. into # from
  <2>1. <<from, into>> \in SignsInto
    BY <1>1, <1>2 DEF IInv
  <2>2. QED
    BY <2>1, AccountsAssumption
<1>4. CASE MergeMeter(w)
  BY <1>1, <1>2, <1>4 DEF MergeMeter, NothingToMove, ReadsCover, LookCovers
<1>5. CASE MergeAll(w)
  <2>1. \A r \in Room : host'[r] # from
    BY <1>1, <1>2, <1>3, <1>5 DEF MergeAll, TypeOK
  <2>2. \A r \in Room : seat[r] \in [User -> Status]
    BY <1>1 DEF TypeOK
  <2>3. \A r \in Room : seat'[r][from] # "none" => <<from, r>> \in late
    <3>1. SUFFICES ASSUME NEW r \in Room, seat'[r][from] # "none" PROVE <<from, r>> \in late
      OBVIOUS
    <3>2. CASE r \in job[w].admissions
      BY <1>2, <1>3, <1>5, <2>2, <3>1, <3>2 DEF MergeAll, MergeSeats
    <3>3. CASE r \notin job[w].admissions
      <4>1. seat'[r] = seat[r]
        BY <1>5, <3>3 DEF MergeAll, MergeSeats
      <4>2. QED
        BY <1>1, <1>2, <3>1, <3>3, <4>1 DEF ReadsCover, LookCovers
    <3>4. QED
      BY <3>2, <3>3
  <2>4. QED
    BY <1>1, <1>2, <2>1, <2>3
<1>6. QED
  BY <1>4, <1>5

\* The survivor keeps its seat but for its own erasure and the room's end.
LEMMA SurvivorSits ==
    ASSUME IInv, [Next]_vars, NEW e \in sent \cap Merged, NEW r \in Room, seat[r][e.into] # "none"
    PROVE  \/ seat'[r][e.into] # "none" \/ Erased(e.into)
           \/ \A u \in User : seat'[r][u] = "none"
<1>1. PICK a \in User : a = e.into
  BY Kinds
<1>2. /\ TypeOK /\ acked \subseteq sent
      /\ \A f \in sent \cap Merged : f.from # a
      /\ seat \in [Room -> [User -> Status]] /\ host \in [Room -> User \cup {Nobody}]
  <2>1. TypeOK /\ <<e.from, e.into>> \in SignsInto
    BY DEF IInv
  <2>2. ASSUME NEW f \in sent \cap Merged PROVE f.from # a
    <3>1. PICK p \in SignsInto : p = <<f.from, f.into>>
      BY DEF IInv
    <3>2. PICK q \in SignsInto : q = <<e.from, a>>
      BY <1>1, <2>1
    <3>3. p[1] = f.from /\ q[2] = a
      BY <3>1, <3>2
    <3>4. QED
      BY <3>3, AccountsAssumption
  <2>3. QED
    BY <2>1, <2>2 DEF IInv, TypeOK
<1>3. SUFFICES \/ seat'[r][a] # "none" \/ Erased(a)
               \/ \A u \in User : seat'[r][u] = "none"
  BY <1>1
<1>4. seat[r][a] # "none"
  BY <1>1
<1>5. CASE \E u \in User : DeleteAccount(u)
  <2>1. PICK u \in User : DeleteAccount(u)
    BY <1>5
  <2>2. CASE u = a
    <3>1. PICK f \in acked : (f \in Merged /\ f.from = u) \/ (f \in Erasure /\ f.who = u)
      BY <2>1 DEF DeleteAccount
    <3>2. f \in Erasure /\ f.who = a
      BY <1>2, <2>2, <3>1
    <3>3. QED
      BY <1>2, <3>1, <3>2 DEF Erased
  <2>3. CASE u # a
    BY <1>2, <1>4, <2>1, <2>3 DEF DeleteAccount, Cascade
  <2>4. QED
    BY <2>2, <2>3
<1>6. CASE \E w \in Worker : MergeAll(w)
  <2>1. PICK w \in Worker : MergeAll(w)
    BY <1>6
  <2>2. job[w] \in MergeJob /\ job[w].event \in sent \cap Merged
    BY <1>2, <2>1, Jobs DEF MergeAll, MergeJob, IInv
  <2>3. PICK into \in User, from \in User : into = job[w].event.into /\ from = job[w].event.from
    BY <2>2, Kinds
  <2>4. from # a
    BY <1>2, <2>2, <2>3
  <2>5. seat'[r][a] # "none"
    BY <1>2, <1>4, <2>1, <2>3, <2>4 DEF MergeAll, MergeSeats, Fits
  <2>6. QED
    BY <2>5
<1>7. CASE \E w \in Worker : EraseRooms(w)
  BY <1>2, <1>4, <1>7 DEF EraseRooms
<1>8. CASE \E w \in Worker : EraseSeats(w)
  <2>1. PICK w \in Worker : EraseSeats(w)
    BY <1>8
  <2>2. job[w].event \in sent \cap Erasure
    BY <1>2, <2>1, Jobs DEF EraseSeats, EraseJob, IInv
  <2>3. CASE job[w].event.who = a
    BY <2>2, <2>3 DEF Erased
  <2>4. CASE job[w].event.who # a
    BY <1>2, <1>4, <2>1, <2>4 DEF EraseSeats
  <2>5. QED
    BY <2>3, <2>4
<1>9. CASE \E v \in User, q \in Room : CreateRoom(v, q)
  BY <1>2, <1>4, <1>9 DEF CreateRoom
<1>10. CASE \E v \in User, q \in Room, status \in {"admitted", "denied"} : Knock(v, q, status)
  BY <1>2, <1>4, <1>10 DEF Knock
<1>11. CASE UNCHANGED seat
  BY <1>4, <1>11
<1>12. QED
  BY <1>5, <1>6, <1>7, <1>8, <1>9, <1>10, <1>11 DEF Next, World, Project, RequestErasure, Webhook,
     SignIn, PlaceCall, Deliver, MergeLook, StartErase, Handle, MergeRead, MergeMeter, MergeNotReady,
     MergeFails, EraseSpans, HandlerDies, vars, Rows

\* What is sent, and who leaves, only grows; a job changes in its own worker's steps.
LEMMA Grows ==
    ASSUME IInv, [Next]_vars
    PROVE  /\ sent \subseteq sent' /\ leaving \subseteq leaving'
           /\ \A e \in sent' \ sent :
                 \/ e \in Merged /\ e.from \in leaving' /\ <<e.from, e.into>> \in SignsInto
                 \/ e \in Erasure /\ e.who \in leaving'
<1>1. CASE \E p \in SignsInto : SignIn(p[1], p[2])
  <2>1. PICK p \in SignsInto : SignIn(p[1], p[2])
    BY <1>1
  <2>2. p = <<p[1], p[2]>> /\ p[1] \in User /\ p[2] \in User
    BY AccountsAssumption
  <2>3. PICK e : e = [kind |-> "merged", from |-> p[1], into |-> p[2]]
    OBVIOUS
  <2>4. e \in Merged /\ e.from = p[1] /\ e.into = p[2]
    BY <2>2, <2>3 DEF Merged
  <2>5. sent' = sent \cup {e} /\ leaving' = leaving \cup {p[1]}
    BY <2>1, <2>3 DEF SignIn
  <2>6. QED
    BY <2>2, <2>4, <2>5
<1>2. CASE \E u \in User : RequestErasure(u)
  <2>1. PICK u \in User : RequestErasure(u)
    BY <1>2
  <2>2. PICK e : e = [kind |-> "erase", who |-> u]
    OBVIOUS
  <2>3. e \in Erasure /\ e.who = u
    BY <2>2 DEF Erasure
  <2>4. sent' = sent \cup {e} /\ leaving' = leaving \cup {u}
    BY <2>1, <2>2 DEF RequestErasure
  <2>5. QED
    BY <2>3, <2>4
<1>3. CASE UNCHANGED <<sent, leaving>>
  BY <1>3
<1>4. QED
  BY <1>1, <1>2, <1>3 DEF Next, World, Project, DeleteAccount, CreateRoom, Knock, Webhook, PlaceCall,
     Deliver, MergeLook, StartErase, Handle, MergeRead, MergeMeter, MergeAll, MergeNotReady, MergeFails, EraseRooms,
     EraseSeats, EraseSpans, HandlerDies, vars, Rows

\* What came late stays late.
LEMMA LateGrows ==
    ASSUME [Next]_vars
    PROVE  late \subseteq late'
<1>1. CASE \E u \in User, r \in Room : CreateRoom(u, r)
  BY <1>1 DEF CreateRoom, Remember
<1>2. CASE \E u \in User, r \in Room, status \in {"admitted", "denied"} : Knock(u, r, status)
  BY <1>2 DEF Knock, Remember
<1>3. CASE UNCHANGED late
  BY <1>3
<1>4. QED
  BY <1>1, <1>2, <1>3 DEF Next, World, Project, RequestErasure, DeleteAccount, Webhook, PlaceCall,
     SignIn, Deliver, MergeLook, StartErase, Handle, MergeRead, MergeMeter, MergeAll, MergeNotReady, MergeFails,
     EraseRooms, EraseSeats, EraseSpans, HandlerDies, vars

\* A job stays, ends, goes on with its event, begins a merge's reads, or ends them.
LEMMA JobSteps ==
    ASSUME IInv, [Next]_vars, NEW w \in Worker
    PROVE  \/ job'[w] = job[w] \/ job'[w] = NoJob
           \/ /\ job[w] # NoJob /\ job'[w].event = job[w].event
              /\ job'[w].pc \notin {"look", "merge"}
           \/ /\ job'[w].event \in sent /\ UNCHANGED <<seat, host>>
              /\ job'[w].pc # "merge"
              /\ job'[w].pc = "look" => job'[w].admissions = SeatsOf(job'[w].event.from)
           \/ /\ job[w].pc = "look" /\ job'[w].pc = "merge" /\ UNCHANGED <<seat, host, late>>
              /\ job'[w].event = job[w].event /\ job'[w].admissions = job[w].admissions
              /\ job'[w].owns = (RoomsOf(job'[w].event.from) # {})
              /\ job'[w].taken = SeatsOf(job'[w].event.into)
<1>1. TypeOK /\ job \in [Worker -> LookJob \cup MergeJob \cup EraseJob \cup {NoJob}]
  BY DEF IInv, TypeOK
<1>2. CASE UNCHANGED job
  BY <1>2
<1>3. CASE \E v \in Worker : Finish(v)
  BY <1>1, <1>3 DEF Finish
<1>4. CASE \E v \in Worker, e \in sent : MergeLook(v, e)
  <2>1. PICK v \in Worker, e \in sent : MergeLook(v, e)
    BY <1>4
  <2>2. CASE v = w
    BY <1>1, <2>1, <2>2 DEF MergeLook, Rows
  <2>3. CASE v # w
    BY <1>1, <2>1, <2>3 DEF MergeLook
  <2>4. QED
    BY <2>2, <2>3
<1>5. CASE \E v \in Worker, e \in sent : StartErase(v, e)
  <2>1. PICK v \in Worker, e \in sent : StartErase(v, e)
    BY <1>5
  <2>2. CASE v = w
    BY <1>1, <2>1, <2>2 DEF StartErase, Rows
  <2>3. CASE v # w
    BY <1>1, <2>1, <2>3 DEF StartErase
  <2>4. QED
    BY <2>2, <2>3
<1>6. CASE \E v \in Worker : EraseRooms(v) \/ EraseSeats(v)
  <2>1. PICK v \in Worker : EraseRooms(v) \/ EraseSeats(v)
    BY <1>6
  <2>2. job[v] \in EraseJob /\ job[v] # NoJob
    BY <1>1, <2>1, Jobs DEF EraseRooms, EraseSeats
  <2>3. PICK pc \in {"seats", "spans"} : job' = [job EXCEPT ![v] = [job[v] EXCEPT !.pc = pc]]
    BY <2>1 DEF EraseRooms, EraseSeats
  <2>4. [job[v] EXCEPT !.pc = pc].event = job[v].event /\ [job[v] EXCEPT !.pc = pc].pc = pc
    BY <2>2 DEF EraseJob
  <2>5. QED
    BY <1>1, <2>2, <2>3, <2>4
<1>7. CASE \E v \in Worker : MergeRead(v)
  <2>1. PICK v \in Worker : MergeRead(v)
    BY <1>7
  <2>2. CASE v = w
    BY <1>1, <2>1, <2>2 DEF MergeRead, Rows
  <2>3. CASE v # w
    BY <1>1, <2>1, <2>3 DEF MergeRead
  <2>4. QED
    BY <2>2, <2>3
<1>8. QED
  BY <1>2, <1>3, <1>4, <1>5, <1>6, <1>7 DEF Next, World, Project, RequestErasure, DeleteAccount,
     CreateRoom, Knock, Webhook, PlaceCall, SignIn, Deliver, Handle, MergeMeter, MergeAll, MergeNotReady,
     MergeFails, EraseSpans, Ack, HandlerDies, vars

\* What a merge saw of its guest's admissions goes on covering them.
LEMMA MergeLooks ==
    ASSUME IInv, [Next]_vars, NEW w \in Worker, job'[w].pc \in {"look", "merge"}
    PROVE  LookCovers(job[w])'
<1>1. job'[w] # NoJob
  BY DEF NoJob
<1>2. CASE job'[w].event = job[w].event /\ job'[w].admissions = job[w].admissions
           /\ job[w].pc \in {"look", "merge"}
  <2>1. job[w].event \in sent \cap Merged
    BY <1>2, Jobs DEF IInv, LookJob, MergeJob
  <2>2. PICK e \in sent \cap Merged : e = job[w].event
    BY <2>1
  <2>3. MergeHasRead(e.from)
    BY <1>2, <2>2 DEF MergeHasRead
  <2>4. LookCovers(job[w])
    BY <1>2 DEF IInv, ReadsCover
  <2>5. \A r \in Room : seat'[r][e.from] # "none" => seat[r][e.from] # "none" \/ <<e.from, r>> \in late'
    BY <2>2, <2>3, GuestRows
  <2>6. late \subseteq late'
    BY LateGrows
  <2>7. QED
    BY <1>2, <2>2, <2>4, <2>5, <2>6 DEF LookCovers
<1>3. CASE UNCHANGED <<seat, host>> /\ job'[w].admissions = SeatsOf(job'[w].event.from)
  BY <1>3 DEF SeatsOf, LookCovers
<1>4. job'[w] = job[w] => job[w].pc \in {"look", "merge"}
  OBVIOUS
<1>5. QED
  BY <1>1, <1>2, <1>3, <1>4, JobSteps

\* What a merge read goes on covering what there is.
LEMMA MergeReads ==
    ASSUME IInv, [Next]_vars, NEW w \in Worker, job'[w].pc = "merge"
    PROVE  ReadsCover(job[w])'
<1>1. job'[w] # NoJob
  BY DEF NoJob
<1>2. LookCovers(job[w])'
  BY MergeLooks
<1>3. CASE job'[w] = job[w]
  <2>1. job[w] \in MergeJob /\ job[w].event \in sent \cap Merged /\ job[w].pc = "merge"
    BY <1>1, <1>3, Jobs DEF IInv, MergeJob
  <2>2. PICK e \in sent \cap Merged : e = job[w].event
    BY <2>1
  <2>3. MergeHasRead(e.from)
    BY <2>1, <2>2 DEF MergeHasRead
  <2>4. ReadsCover(job[w])
    BY <2>1 DEF IInv
  <2>5. PICK into \in User, from \in User : into = e.into /\ from = e.from
    BY <2>2, Kinds
  <2>6. late \subseteq late' /\ (Erased(into) => Erased(into)')
    BY LateGrows, Grows DEF Erased
  <2>7. \A r \in Room :
          /\ seat'[r][from] # "none" => seat[r][from] # "none" \/ <<from, r>> \in late'
          /\ host'[r] = from => host[r] = from \/ <<from, r>> \in late'
    BY <2>2, <2>3, <2>5, GuestRows
  <2>8. \A r \in Room : seat[r][into] # "none" =>
          \/ seat'[r][into] # "none" \/ Erased(into)
          \/ \A u \in User : seat'[r][u] = "none"
    BY <2>2, <2>5, SurvivorSits
  <2>9. \A r \in Room : host'[r] = from => job[w].owns \/ <<from, r>> \in late'
    BY <2>2, <2>4, <2>5, <2>6, <2>7 DEF ReadsCover
  <2>10. \A r \in job[w].taken :
          \/ seat'[r][into] # "none" \/ Erased(into)'
          \/ seat'[r][from] = "none" \/ <<from, r>> \in late'
    <3>1. SUFFICES ASSUME NEW r \in job[w].taken
                   PROVE  \/ seat'[r][into] # "none" \/ Erased(into)'
                          \/ seat'[r][from] = "none" \/ <<from, r>> \in late'
      OBVIOUS
    <3>2. r \in Room
      BY <2>1 DEF MergeJob
    <3>3. \/ seat[r][into] # "none" \/ Erased(into)
          \/ seat[r][from] = "none" \/ <<from, r>> \in late
      BY <2>2, <2>4, <2>5, <3>1 DEF ReadsCover
    <3>4. QED
      BY <2>5, <2>6, <2>7, <2>8, <3>2, <3>3
  <2>11. QED
    BY <1>2, <1>3, <2>2, <2>5, <2>9, <2>10 DEF ReadsCover, Erased
<1>4. CASE /\ UNCHANGED <<seat, host>>
           /\ job'[w].owns = (RoomsOf(job'[w].event.from) # {})
           /\ job'[w].taken = SeatsOf(job'[w].event.into)
  BY <1>2, <1>4 DEF SeatsOf, RoomsOf, ReadsCover
<1>5. QED
  BY <1>1, <1>3, <1>4, JobSteps

LEMMA Acked ==
    ASSUME IInv, [Next]_vars, NEW e \in acked' \cap Merged
    PROVE  \A r \in Room : /\ host'[r] = e.from => <<e.from, r>> \in late'
                           /\ seat'[r][e.from] # "none" => <<e.from, r>> \in late'
<1>1. TypeOK /\ acked \subseteq sent
  BY DEF IInv, TypeOK
<1>2. CASE e \in acked
  <2>1. \A r \in Room : HasRow(e.from, r) => <<e.from, r>> \in late
    BY <1>2 DEF IInv, HandledMergeMissesNothing
  <2>2. e \in sent \cap Merged /\ MergeHasRead(e.from)
    BY <1>1, <1>2 DEF MergeHasRead
  <2>3. QED
    BY <2>1, <2>2, GuestRows, LateGrows DEF HasRow
<1>3. CASE \E w \in Worker : (MergeMeter(w) \/ MergeAll(w)) /\ e = job[w].event
  BY <1>3, MergeEmpties
<1>4. CASE \E w \in Worker : EraseSpans(w) /\ e = job[w].event
  <2>1. PICK w \in Worker : EraseSpans(w) /\ e = job[w].event
    BY <1>4
  <2>2. e \in Erasure
    BY <1>1, <2>1, Jobs DEF EraseSpans, EraseJob
  <2>3. QED
    BY <2>2, Kinds
<1>5. QED
  BY <1>2, <1>3, <1>4 DEF Next, World, Project, RequestErasure, DeleteAccount, CreateRoom, Knock,
     Webhook, PlaceCall, SignIn, Deliver, MergeLook, StartErase, Handle, MergeRead, MergeMeter, MergeAll,
     MergeNotReady, MergeFails, EraseRooms, EraseSeats, EraseSpans, Ack, HandlerDies, vars

\* A room that does not exist seats nobody.
LEMMA Roomless ==
    ASSUME IInv, [Next]_vars
    PROVE  \A r \in Room : host'[r] = Nobody => \A u \in User : seat'[r][u] = "none"
<1> SUFFICES ASSUME NEW r \in Room, host'[r] = Nobody, NEW u \in User
             PROVE  seat'[r][u] = "none"
  OBVIOUS
<1>1. /\ TypeOK /\ host \in [Room -> User \cup {Nobody}] /\ seat \in [Room -> [User -> Status]]
      /\ host[r] = Nobody => seat[r][u] = "none"
  BY DEF IInv, TypeOK
<1>2. CASE \E v \in User : DeleteAccount(v)
  BY <1>1, <1>2 DEF DeleteAccount, Cascade
<1>3. CASE \E w \in Worker : MergeAll(w)
  <2>1. PICK w \in Worker : MergeAll(w)
    BY <1>3
  <2>2. job[w] \in MergeJob
    BY <1>1, <2>1, Jobs DEF MergeAll
  <2>3. PICK into \in User, from \in User : into = job[w].event.into /\ from = job[w].event.from
    BY <2>2, Kinds DEF MergeJob
  <2>4. host[r] = Nobody /\ \A v \in User : seat[r][v] = "none"
    BY <1>1, <2>1, <2>3, AccountsAssumption DEF MergeAll, IInv
  <2>5. QED
    BY <1>1, <2>1, <2>3, <2>4 DEF MergeAll, MergeSeats
<1>4. CASE \E w \in Worker : EraseRooms(w) \/ EraseSeats(w)
  BY <1>1, <1>4, AccountsAssumption DEF EraseRooms, EraseSeats
<1>5. CASE \E v \in User, q \in Room : CreateRoom(v, q)
  BY <1>1, <1>5, AccountsAssumption DEF CreateRoom
<1>6. CASE \E v \in User, q \in Room, status \in {"admitted", "denied"} : Knock(v, q, status)
  BY <1>1, <1>6 DEF Knock
<1>7. CASE UNCHANGED <<seat, host>>
  BY <1>1, <1>7
<1>8. QED
  BY <1>2, <1>3, <1>4, <1>5, <1>6, <1>7 DEF Next, World, Project, RequestErasure, Webhook, SignIn,
     PlaceCall, Deliver, MergeLook, StartErase, Handle, MergeRead, MergeMeter, MergeNotReady, MergeFails, EraseSpans,
     HandlerDies, vars, Rows

\* The inductive invariant: what a merge read of its guest still covers what there is.
THEOREM AccountsInductive == Spec => []IInv
<1>1. Init => IInv
  <2> SUFFICES ASSUME Init PROVE IInv
    OBVIOUS
  <2>1. NoJob.pc = "idle" /\ "none" \in Status
    BY DEF NoJob, Status
  <2>2. TypeOK
    BY <2>1 DEF Init, TypeOK, Names
  <2>3. QED
    BY <2>1, <2>2 DEF Init, IInv, HandledMergeMissesNothing
<1>2. IInv /\ [Next]_vars => IInv'
  <2> SUFFICES ASSUME IInv, [Next]_vars PROVE IInv'
    OBVIOUS
  <2>1. TypeOK'
    BY Types
  <2>2. \A e \in sent' \cap Merged : e.from \in leaving' /\ <<e.from, e.into>> \in SignsInto
    BY Grows, Kinds DEF IInv
  <2>3. \A e \in sent' \cap Erasure : e.who \in leaving'
    BY Grows, Kinds DEF IInv
  <2>4. \A w \in Worker : job'[w] # NoJob => job'[w].event \in sent'
    <3>1. SUFFICES ASSUME NEW w \in Worker, job'[w] # NoJob PROVE job'[w].event \in sent'
      OBVIOUS
    <3>2. sent \subseteq sent' /\ (job[w] # NoJob => job[w].event \in sent)
      BY Grows DEF IInv
    <3>3. job[w].pc = "look" => job[w] # NoJob
      BY DEF NoJob
    <3>4. QED
      BY <3>1, <3>2, <3>3, JobSteps
  <2>5. \A w \in Worker : /\ (job[w].pc = "look" => LookCovers(job[w]))'
                         /\ (job[w].pc = "merge" => ReadsCover(job[w]))'
    BY MergeLooks, MergeReads
  <2>6. HandledMergeMissesNothing'
    BY Acked DEF HandledMergeMissesNothing, HasRow
  <2>7. (\A r \in Room : host[r] = Nobody => \A u \in User : seat[r][u] = "none")'
    BY Roomless
  <2>8. QED
    BY <2>1, <2>2, <2>3, <2>4, <2>5, <2>6, <2>7 DEF IInv
<1>3. QED
  BY <1>1, <1>2, PTL DEF Spec

-----------------------------------------------------------------------------
(* What follows.                                                            *)

\* What a handled merge leaves under the guest's id was written after the merge's reads,
\* whatever was redelivered, retried or raced.
THEOREM MergesMissNothing == Spec => []HandledMergeMissesNothing
<1>1. IInv => HandledMergeMissesNothing
  BY DEF IInv
<1>2. QED
  BY <1>1, AccountsInductive, PTL

\* Which steps re-key spans, and under which name.
LEMMA Renames ==
    ASSUME IInv, [Next]_vars, NEW s \in Stay, name'[s] # name[s]
    PROVE  \/ name[s] = Nobody
           \/ \E w \in Worker : /\ MergeMeter(w) \/ MergeAll(w)
                                /\ name[s] = job[w].event.from
           \/ \E w \in Worker : /\ EraseSpans(w) /\ name[s] = job[w].event.who
                                /\ name'[s] = Pseudonym(name[s])
<1>1. name \in [Stay -> Names]
  BY DEF IInv, TypeOK
<1>2. CASE \E t \in Stay : Webhook(t)
  BY <1>1, <1>2 DEF Webhook
<1>3. CASE \E w \in Worker : MergeMeter(w) \/ MergeAll(w)
  BY <1>3 DEF MergeMeter, MergeAll, Rekey
<1>4. CASE \E w \in Worker : EraseSpans(w)
  BY <1>4 DEF EraseSpans, Rekey
<1>5. QED
  BY <1>2, <1>3, <1>4 DEF Next, World, Project, RequestErasure, DeleteAccount, CreateRoom, Knock,
     PlaceCall, SignIn, Deliver, MergeLook, StartErase, Handle, MergeRead, MergeNotReady, MergeFails, EraseRooms,
     EraseSeats, HandlerDies, vars, Rows

\* A span that lost its person is never given one again, by a merge, a late webhook or a
\* second erasure.
THEOREM ErasureStands == Spec => ErasedSpanStaysErased
<1>1. IInv /\ [Next]_vars =>
        [\A s \in Stay, u \in User : name[s] = Pseudonym(u) => name'[s] = Pseudonym(u)]_vars
  <2> SUFFICES ASSUME IInv, [Next]_vars, NEW s \in Stay, NEW u \in User, name[s] = Pseudonym(u),
                      name'[s] # name[s]
               PROVE  FALSE
    OBVIOUS
  <2>1. name[s] \notin User /\ name[s] # Nobody
    BY DigestAssumption
  <2>2. \A w \in Worker : (MergeMeter(w) \/ MergeAll(w)) => job[w].event.from \in User
    BY Jobs, Kinds DEF IInv, MergeMeter, MergeAll, MergeJob
  <2>3. \A w \in Worker : EraseSpans(w) => job[w].event.who \in User
    BY Jobs, Kinds DEF IInv, EraseSpans, EraseJob
  <2>4. QED
    BY <2>1, <2>2, <2>3, Renames
<1>2. QED
  BY <1>1, AccountsInductive, PTL DEF Spec, ErasedSpanStaysErased

\* The meter moves with the rooms or not at all: a step that gives a person's spans to
\* another account leaves that person nothing but what came after the merge's reads.
THEOREM MetersFollowRooms == Spec => MetersMoveWithRooms
<1>1. IInv /\ [Next]_vars =>
        [\A u \in User : (\E s \in Stay : name[s] = u /\ name'[s] \in User \ {u}) =>
            \A r \in Room : HasRow(u, r)' => <<u, r>> \in late']_vars
  <2> SUFFICES ASSUME IInv, [Next]_vars, NEW u \in User, NEW s \in Stay,
                      name[s] = u, name'[s] \in User \ {u}
               PROVE  \A r \in Room : HasRow(u, r)' => <<u, r>> \in late'
    OBVIOUS
  <2>1. u # Nobody /\ Pseudonym(u) \notin User
    BY AccountsAssumption, DigestAssumption
  <2>2. PICK w \in Worker : (MergeMeter(w) \/ MergeAll(w)) /\ u = job[w].event.from
    BY <2>1, Renames
  <2>3. QED
    BY <2>2, MergeEmpties DEF HasRow
<1>2. QED
  BY <1>1, AccountsInductive, PTL DEF Spec, MetersMoveWithRooms

\* A room goes only with the erasure, or the erased account, of its host, or was opened by
\* a guest when its merge had been read.
THEOREM RoomsOutlive == Spec => RoomsOutliveTheGuest
<1>1. IInv /\ [Next]_vars =>
        [\A r \in Room : host[r] # Nobody /\ host'[r] = Nobody =>
            Erased(host[r]) \/ <<host[r], r>> \in late]_vars
  <2> SUFFICES ASSUME IInv, [Next]_vars, NEW r \in Room, host[r] # Nobody, host'[r] = Nobody
               PROVE  Erased(host[r]) \/ <<host[r], r>> \in late
    OBVIOUS
  <2>1. TypeOK /\ host \in [Room -> User \cup {Nobody}] /\ acked \subseteq sent
    BY DEF IInv, TypeOK
  <2>2. CASE \E u \in User : DeleteAccount(u)
    <3>1. PICK u \in User : DeleteAccount(u)
      BY <2>2
    <3>2. host[r] = u
      BY <2>1, <3>1 DEF DeleteAccount, Cascade
    <3>3. PICK e \in acked : (e \in Merged /\ e.from = u) \/ (e \in Erasure /\ e.who = u)
      BY <3>1 DEF DeleteAccount
    <3>4. e \in Merged /\ e.from = u => <<u, r>> \in late
      BY <3>2, <3>3 DEF IInv, HandledMergeMissesNothing, HasRow
    <3>5. QED
      BY <2>1, <3>2, <3>3, <3>4 DEF Erased
  <2>3. CASE \E w \in Worker : EraseRooms(w)
    <3>1. PICK w \in Worker : EraseRooms(w)
      BY <2>3
    <3>2. host[r] = job[w].event.who
      BY <2>1, <3>1 DEF EraseRooms
    <3>3. job[w].event \in sent \cap Erasure
      BY <2>1, <3>1, Jobs DEF EraseRooms, EraseJob, IInv
    <3>4. QED
      BY <3>2, <3>3 DEF Erased
  <2>4. CASE \E w \in Worker : MergeAll(w)
    <3>1. PICK w \in Worker : MergeAll(w)
      BY <2>4
    <3>2. job[w].event.into \in User
      BY <2>1, <3>1, Jobs, Kinds DEF MergeAll, MergeJob
    <3>3. host'[r] = host[r] \/ host'[r] = job[w].event.into
      BY <3>1 DEF MergeAll
    <3>4. QED
      BY <3>2, <3>3, AccountsAssumption
  <2>5. CASE \E u \in User, q \in Room : CreateRoom(u, q)
    BY <2>1, <2>5, AccountsAssumption DEF CreateRoom
  <2>6. CASE UNCHANGED host
    BY <2>6
  <2>7. QED
    BY <2>2, <2>3, <2>4, <2>5, <2>6 DEF Next, World, Project, RequestErasure, Knock, Webhook, SignIn,
       PlaceCall, Deliver, MergeLook, StartErase, Handle, MergeRead, MergeMeter, MergeNotReady, MergeFails, EraseSeats,
       EraseSpans, HandlerDies, vars, Rows
<1>2. QED
  BY <1>1, AccountsInductive, PTL DEF Spec, RoomsOutliveTheGuest

\* An admission that goes while its room stays was an erased person's, or the survivor of
\* its merge sits there, or it came after the merge's reads.
THEOREM AdmissionsOutlive == Spec => AdmissionsOutliveTheGuest
<1>1. IInv /\ [Next]_vars =>
        [\A r \in Room, u \in User :
            seat[r][u] # "none" /\ seat'[r][u] = "none" /\ host'[r] # Nobody =>
               \/ Erased(u) \/ <<u, r>> \in late
               \/ \E e \in sent \cap Merged :
                     e.from = u /\ (seat'[r][e.into] # "none" \/ Erased(e.into))]_vars
  <2> SUFFICES ASSUME IInv, [Next]_vars, NEW r \in Room, NEW u \in User,
                      seat[r][u] # "none", seat'[r][u] = "none", host'[r] # Nobody
               PROVE  \/ Erased(u) \/ <<u, r>> \in late
                      \/ \E e \in sent \cap Merged :
                            e.from = u /\ (seat'[r][e.into] # "none" \/ Erased(e.into))
    OBVIOUS
  <2>1. /\ TypeOK /\ host \in [Room -> User \cup {Nobody}] /\ seat \in [Room -> [User -> Status]]
        /\ acked \subseteq sent
    BY DEF IInv, TypeOK
  <2>2. CASE \E v \in User : DeleteAccount(v)
    <3>1. PICK v \in User : DeleteAccount(v)
      BY <2>2
    <3>2. v = u
      BY <2>1, <3>1 DEF DeleteAccount, Cascade
    <3>3. PICK e \in acked : (e \in Merged /\ e.from = u) \/ (e \in Erasure /\ e.who = u)
      BY <3>1, <3>2 DEF DeleteAccount
    <3>4. e \in Merged /\ e.from = u => <<u, r>> \in late
      BY <3>3 DEF IInv, HandledMergeMissesNothing, HasRow
    <3>5. QED
      BY <2>1, <3>3, <3>4 DEF Erased
  <2>3. CASE \E w \in Worker : MergeAll(w)
    <3>1. PICK w \in Worker : MergeAll(w)
      BY <2>3
    <3>2. job[w] \in MergeJob /\ job[w].event \in sent \cap Merged /\ ReadsCover(job[w])
      BY <2>1, <3>1, Jobs DEF MergeAll, MergeJob, IInv
    <3>3. PICK into \in User, from \in User : into = job[w].event.into /\ from = job[w].event.from
      BY <3>2, Kinds
    <3>4. into # from
      <4>1. <<from, into>> \in SignsInto
        BY <3>2, <3>3 DEF IInv
      <4>2. QED
        BY <4>1, AccountsAssumption
    <3>5. r \in job[w].admissions /\ from = u
      <4>1. r \in job[w].admissions
        BY <3>1 DEF MergeAll, MergeSeats
      <4>2. CASE r \in job[w].taken
        BY <2>1, <3>1, <3>3, <4>1, <4>2 DEF MergeAll, MergeSeats
      <4>3. CASE r \notin job[w].taken
        <5>1. seat[r][from] # "none"
          BY <3>1, <3>3, <4>1, <4>3 DEF MergeAll, Fits
        <5>2. seat'[r] = [seat[r] EXCEPT ![into] = seat[r][from], ![from] = "none"]
          BY <3>1, <3>3, <4>1, <4>3 DEF MergeAll, MergeSeats
        <5>3. QED
          BY <2>1, <4>1, <5>1, <5>2
      <4>4. QED
        BY <4>2, <4>3
    <3>6. CASE r \in job[w].taken
      <4>1. seat'[r][into] = seat[r][into]
        BY <2>1, <3>1, <3>3, <3>4, <3>5, <3>6 DEF MergeAll, MergeSeats
      <4>2. seat[r][into] # "none" \/ Erased(into) \/ <<u, r>> \in late
        BY <3>2, <3>3, <3>5, <3>6 DEF ReadsCover
      <4>3. QED
        BY <3>2, <3>3, <3>5, <4>1, <4>2
    <3>7. CASE r \notin job[w].taken
      <4>1. seat'[r][into] = seat[r][u]
        BY <2>1, <3>1, <3>3, <3>4, <3>5, <3>7 DEF MergeAll, MergeSeats
      <4>2. QED
        BY <3>2, <3>3, <3>5, <4>1
    <3>8. QED
      BY <3>6, <3>7
  <2>4. CASE \E w \in Worker : EraseRooms(w) \/ EraseSeats(w)
    <3>1. PICK w \in Worker : EraseRooms(w) \/ EraseSeats(w)
      BY <2>4
    <3>2. job[w].event \in sent \cap Erasure
      BY <2>1, <3>1, Jobs DEF EraseRooms, EraseSeats, EraseJob, IInv
    <3>3. job[w].event.who = u
      BY <2>1, <3>1 DEF EraseRooms, EraseSeats
    <3>4. QED
      BY <3>2, <3>3 DEF Erased
  <2>5. CASE \E v \in User, q \in Room : CreateRoom(v, q)
    BY <2>1, <2>5 DEF CreateRoom
  <2>6. CASE \E v \in User, q \in Room, status \in {"admitted", "denied"} : Knock(v, q, status)
    BY <2>1, <2>6 DEF Knock
  <2>7. CASE UNCHANGED seat
    BY <2>7
  <2>8. QED
    BY <2>2, <2>3, <2>4, <2>5, <2>6, <2>7 DEF Next, World, Project, RequestErasure, Webhook, SignIn,
       PlaceCall, Deliver, MergeLook, StartErase, Handle, MergeRead, MergeMeter, MergeNotReady, MergeFails,
       EraseSpans, HandlerDies, vars, Rows
<1>2. QED
  BY <1>1, AccountsInductive, PTL DEF Spec, AdmissionsOutliveTheGuest

\* No merge changes an admission the survivor has.
THEOREM SurvivorsKeep == Spec => OwnAdmissionStays
<1>1. IInv /\ [Next]_vars =>
        [\A r \in Room, u \in User \ leaving :
            seat[r][u] # "none" /\ host'[r] # Nobody => seat'[r][u] = seat[r][u]]_vars
  <2> SUFFICES ASSUME IInv, [Next]_vars, NEW r \in Room, NEW u \in User \ leaving,
                      seat[r][u] # "none", host'[r] # Nobody
               PROVE  seat'[r][u] = seat[r][u]
    OBVIOUS
  <2>1. /\ TypeOK /\ host \in [Room -> User \cup {Nobody}] /\ seat \in [Room -> [User -> Status]]
        /\ acked \subseteq sent
        /\ \A e \in sent \cap Merged : e.from # u
        /\ \A e \in sent \cap Erasure : e.who # u
    BY DEF IInv, TypeOK
  <2>2. CASE \E v \in User : DeleteAccount(v)
    <3>1. PICK v \in User : DeleteAccount(v)
      BY <2>2
    <3>2. v # u /\ host[r] # v
      BY <2>1, <3>1, AccountsAssumption DEF DeleteAccount, Cascade
    <3>3. QED
      BY <2>1, <3>1, <3>2 DEF DeleteAccount, Cascade
  <2>3. CASE \E w \in Worker : MergeAll(w)
    <3>1. PICK w \in Worker : MergeAll(w)
      BY <2>3
    <3>2. job[w] \in MergeJob /\ job[w].event.from # u
      BY <2>1, <3>1, Jobs DEF MergeAll, MergeJob, IInv
    <3>3. PICK into \in User, from \in User : into = job[w].event.into /\ from = job[w].event.from
      BY <3>2, Kinds DEF MergeJob
    <3>4. CASE r \in job[w].admissions /\ r \notin job[w].taken /\ into = u
      BY <3>1, <3>3, <3>4 DEF MergeAll, Fits
    <3>5. CASE ~(r \in job[w].admissions /\ r \notin job[w].taken /\ into = u)
      BY <2>1, <3>1, <3>2, <3>3, <3>5 DEF MergeAll, MergeSeats
    <3>6. QED
      BY <3>4, <3>5
  <2>4. CASE \E w \in Worker : EraseRooms(w) \/ EraseSeats(w)
    <3>1. PICK w \in Worker : EraseRooms(w) \/ EraseSeats(w)
      BY <2>4
    <3>2. job[w].event.who # u
      BY <2>1, <3>1, Jobs DEF EraseRooms, EraseSeats, EraseJob, IInv
    <3>3. QED
      BY <2>1, <3>1, <3>2, AccountsAssumption DEF EraseRooms, EraseSeats
  <2>5. CASE \E v \in User, q \in Room : CreateRoom(v, q)
    <3>1. PICK v \in User, q \in Room : CreateRoom(v, q)
      BY <2>5
    <3>2. q # r
      BY <3>1 DEF CreateRoom, IInv
    <3>3. QED
      BY <2>1, <3>1, <3>2 DEF CreateRoom
  <2>6. CASE \E v \in User, q \in Room, status \in {"admitted", "denied"} : Knock(v, q, status)
    BY <2>1, <2>6 DEF Knock
  <2>7. CASE UNCHANGED seat
    BY <2>7
  <2>8. QED
    BY <2>2, <2>3, <2>4, <2>5, <2>6, <2>7 DEF Next, World, Project, RequestErasure, Webhook, SignIn,
       PlaceCall, Deliver, MergeLook, StartErase, Handle, MergeRead, MergeMeter, MergeNotReady, MergeFails, EraseSpans,
       HandlerDies, vars, Rows
<1>2. QED
  BY <1>1, AccountsInductive, PTL DEF Spec, OwnAdmissionStays
=============================================================================
