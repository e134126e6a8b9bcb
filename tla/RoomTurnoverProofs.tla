-------------------------- MODULE RoomTurnoverProofs --------------------------
(***************************************************************************)
(* The properties of RoomTurnover for any number of bookings and workers.  *)
(* They rest on what a request that is still up to date knows of the row:  *)
(* what it is about to save is a valid next step of it.                    *)
(***************************************************************************)
EXTENDS RoomTurnover, TLAPS

\* A request that saves a whole row without the form keeps the promise of a
\* ready room, whether it is up to date or not.
RequestIsSound(q) ==
  q # Idle => /\ q.saves = "cleaning" => q.row.status = "CLEANING_IN_PROGRESS"
              /\ q.saves = "heal" /\ q.row.status = "READY_FOR_GUEST" => ~q.row.maintenance

\* What a request that is up to date knows of the room and of the stay.
RequestIsCurrent(q) ==
  q # Idle /\ q.fresh =>
    /\ q.saves = "status" => q.to \in CanTransition[room.status]
    /\ q.saves = "cleaning" => /\ q.row.status = "CLEANING_IN_PROGRESS"
                               /\ "CLEANING_IN_PROGRESS" \in CanTransition[room.status]
    /\ q.saves = "heal" => q.row.status = room.status
    /\ q.saves = "nothing" => q.seen = room.status
    /\ q.saves = "clear" /\ q.dirties => "CHECKOUT_DIRTY" \in CanTransition[room.status]
    /\ q.saves = "check_in" => /\ q.seen = room.status
                               /\ q.stage = stay[q.booking]
                               /\ q.stage # "elsewhere"
                               /\ q.stage = "due" => q.seen = "READY_FOR_GUEST"
                               /\ \/ q.seen = "OCCUPIED"
                                  \/ "OCCUPIED" \in CanTransition[q.seen]

RequestsAreSound == ~edited => \A w \in Workers : RequestIsSound(desk[w])

RequestsAreCurrent == \A w \in Workers : RequestIsCurrent(desk[w])

IInv ==
  /\ TypeOK
  /\ RequestsAreSound /\ RequestsAreCurrent
  /\ ReadyRoomsNeedNoMaintenance /\ AuditTrailNamesTheStatus

-----------------------------------------------------------------------------
(* The parts of steps *)

\* The request of another worker stays a request when the row is written, and
\* is out of date from then on.
LEMMA OutdatedRequests ==
  ASSUME TypeOK, NEW v \in Workers
  PROVE  /\ Outdated(v) \in Requests \cup {Idle}
         /\ RequestIsSound(desk[v]) => RequestIsSound(Outdated(v))
         /\ Outdated(v) # Idle => ~Outdated(v).fresh
<1>1. CASE desk[v] = Idle
  BY <1>1, IdleAssumption DEF Outdated, RequestIsSound
<1>2. CASE desk[v] # Idle
  <2>1. desk[v] \in Requests
    BY <1>2 DEF TypeOK
  <2>2. Outdated(v) = [desk[v] EXCEPT !.fresh = FALSE]
    BY <1>2 DEF Outdated
  <2>3. Outdated(v) \in Requests
    BY <2>1, <2>2 DEF Requests
  <2>4. /\ ~Outdated(v).fresh
        /\ Outdated(v).saves = desk[v].saves
        /\ desk[v].saves \in {"cleaning", "heal"} => Outdated(v).row = desk[v].row
    BY <2>1, <2>2 DEF Requests
  <2> QED BY <1>2, <2>1, <2>3, <2>4, IdleAssumption DEF RequestIsSound, Requests
<1> QED BY <1>1, <1>2

\* A step that makes every request out of date, or ends it, keeps the requests
\* sound and current.
LEMMA WritesKeepRequests ==
  ASSUME IInv, edited' => edited',
         ~edited' => ~edited,
         desk' \in [Workers -> Requests \cup {Idle}],
         \A v \in Workers : desk'[v] \in {Idle, Outdated(v)}
  PROVE  RequestsAreSound' /\ RequestsAreCurrent'
<1>1. RequestsAreSound'
  <2> SUFFICES ASSUME ~edited', NEW v \in Workers PROVE RequestIsSound(desk'[v])
    BY DEF RequestsAreSound, RequestIsSound
  <2>1. RequestIsSound(desk[v])
    BY DEF IInv, RequestsAreSound
  <2>2. RequestIsSound(Outdated(v)) /\ RequestIsSound(Idle)
    BY <2>1, OutdatedRequests DEF IInv, RequestIsSound
  <2> QED BY <2>2
<1>2. RequestsAreCurrent'
  <2> SUFFICES ASSUME NEW v \in Workers PROVE RequestIsCurrent(desk[v])'
    BY DEF RequestsAreCurrent
  <2>1. desk'[v] # Idle => ~desk'[v].fresh
    BY OutdatedRequests DEF IInv
  <2> QED BY <2>1 DEF RequestIsCurrent
<1> QED BY <1>1, <1>2

\* A step that only replaces one request keeps the others as they are.
LEMMA ReadsKeepRequests ==
  ASSUME IInv, NEW w \in Workers, NEW q \in Requests \cup {Idle}, Begins(w, q) \/ GoesOn(w, q),
         RequestIsSound(q), RequestIsCurrent(q)
  PROVE  IInv'
<1>1. desk' = [desk EXCEPT ![w] = q] /\ UNCHANGED <<room, stay, guests, audit, healed, edited>>
  BY DEF Begins, GoesOn
<1>2. TypeOK'
  BY <1>1 DEF IInv, TypeOK
<1>3. RequestsAreSound'
  BY <1>1 DEF IInv, TypeOK, RequestsAreSound, RequestIsSound
<1>4. RequestsAreCurrent'
  BY <1>1 DEF IInv, TypeOK, RequestsAreCurrent, RequestIsCurrent
<1>5. (ReadyRoomsNeedNoMaintenance /\ AuditTrailNamesTheStatus)'
  BY <1>1 DEF IInv, ReadyRoomsNeedNoMaintenance, AuditTrailNamesTheStatus
<1> QED BY <1>2, <1>3, <1>4, <1>5 DEF IInv

\* Every request a handler begins is sound and up to date.
LEMMA AsksForKeepsIInv ==
  ASSUME IInv, NEW w \in Workers, NEW to \in Statuses, NEW c \in Capabilities, AsksFor(w, to, c)
  PROVE  IInv'
<1>1. to \in CanTransition[room.status]
  BY DEF AsksFor, CanChangeRoomStatus
<1>2. CASE to = "CLEANING_IN_PROGRESS"
  <2> DEFINE q == [saves |-> "cleaning", row |-> [room EXCEPT !.status = to], fresh |-> TRUE]
  <2>1. Begins(w, q)
    BY <1>2 DEF AsksFor
  <2>2. q \in Requests
    BY DEF IInv, TypeOK, Requests, RoomRows
  <2>3. RequestIsSound(q) /\ RequestIsCurrent(q)
    BY <1>1, <1>2 DEF IInv, TypeOK, RoomRows, RequestIsSound, RequestIsCurrent
  <2> QED BY <2>1, <2>2, <2>3, ReadsKeepRequests
<1>3. CASE to # "CLEANING_IN_PROGRESS"
  <2> DEFINE q == [saves |-> "status", to |-> to, occupied |-> room.occupied, fresh |-> TRUE]
  <2>1. Begins(w, q)
    BY <1>3 DEF AsksFor
  <2>2. q \in Requests
    BY DEF IInv, TypeOK, Requests, RoomRows
  <2>3. RequestIsSound(q) /\ RequestIsCurrent(q)
    BY <1>1 DEF RequestIsSound, RequestIsCurrent
  <2> QED BY <2>1, <2>2, <2>3, ReadsKeepRequests
<1> QED BY <1>2, <1>3

LEMMA CheckInReadsKeepsIInv ==
  ASSUME IInv, NEW w \in Workers, NEW b \in Bookings, NEW c \in Capabilities, CheckInReads(w, b, c)
  PROVE  IInv'
<1> DEFINE q == [saves |-> "check_in", booking |-> b, stage |-> stay[b],
                 seen |-> room.status, fresh |-> TRUE]
<1>1. Begins(w, q)
  BY DEF CheckInReads
<1>2. q \in Requests
  BY DEF IInv, TypeOK, Requests, RoomRows
<1>3. RequestIsSound(q) /\ RequestIsCurrent(q)
  BY DEF CheckInReads, CanChangeRoomStatus, RequestIsSound, RequestIsCurrent
<1> QED BY <1>1, <1>2, <1>3, ReadsKeepRequests

LEMMA FormReadsKeepsIInv ==
  ASSUME IInv, NEW w \in Workers, FormReads(w)
  PROVE  IInv'
<1>1. PICK new \in RoomRows : Begins(w, [saves |-> "form", row |-> new, fresh |-> TRUE])
  BY DEF FormReads, IInv, TypeOK, RoomRows
<1>2. [saves |-> "form", row |-> new, fresh |-> TRUE] \in Requests
  BY DEF Requests
<1>3. /\ RequestIsSound([saves |-> "form", row |-> new, fresh |-> TRUE])
      /\ RequestIsCurrent([saves |-> "form", row |-> new, fresh |-> TRUE])
  BY DEF RequestIsSound, RequestIsCurrent
<1> QED BY <1>1, <1>2, <1>3, ReadsKeepRequests

\* A row that healing reads is as sound as the room is.
LEMMA HealingKeepsIInv ==
  ASSUME IInv, NEW w \in Workers, NEW occupied \in BOOLEAN, NEW records \in SUBSET Bookings,
         Begins(w, [saves |-> "heal", row |-> [room EXCEPT !.occupied = occupied],
                    records |-> records, fresh |-> TRUE])
  PROVE  IInv'
<1> DEFINE row == [room EXCEPT !.occupied = occupied]
           q == [saves |-> "heal", row |-> row, records |-> records, fresh |-> TRUE]
<1>1. row \in RoomRows /\ row.status = room.status /\ row.maintenance = room.maintenance
  BY DEF IInv, TypeOK, RoomRows
<1>2. q \in Requests
  BY <1>1 DEF Requests
<1>3. RequestIsCurrent(q)
  BY <1>1 DEF RequestIsCurrent
<1>4. CASE edited
  <2>1. TypeOK' /\ RequestsAreSound'
    BY <1>2, <1>4 DEF Begins, IInv, TypeOK, RequestsAreSound
  <2>2. RequestsAreCurrent'
    BY <1>2, <1>3 DEF Begins, IInv, TypeOK, RequestsAreCurrent, RequestIsCurrent
  <2> QED BY <2>1, <2>2 DEF Begins, IInv, ReadyRoomsNeedNoMaintenance, AuditTrailNamesTheStatus
<1>5. CASE ~edited
  <2>1. RequestIsSound(q)
    BY <1>1, <1>5 DEF IInv, ReadyRoomsNeedNoMaintenance, RequestIsSound
  <2> QED BY <1>2, <1>3, <2>1, ReadsKeepRequests
<1> QED BY <1>4, <1>5

LEMMA HealReadsKeepIInv ==
  ASSUME IInv, NEW w \in Workers,
         HealRoomReads(w) \/ \E b \in Bookings : HealGuestReads(w, b)
  PROVE  IInv'
<1>1. CASE HealRoomReads(w)
  <2> DEFINE q(o) == [saves |-> "heal", row |-> [room EXCEPT !.occupied = o], records |-> {}, fresh |-> TRUE]
  <2> DEFINE other == ~room.occupied
  <2>1. other \in BOOLEAN
    OBVIOUS
  <2>2. Begins(w, q(other))
    BY <1>1 DEF HealRoomReads
  <2>3. ASSUME NEW o \in BOOLEAN, Begins(w, q(o)) PROVE IInv'
    <3>1. {} \in SUBSET Bookings
      OBVIOUS
    <3> QED BY <2>3, <3>1, HealingKeepsIInv
  <2> HIDE DEF other, q
  <2> QED BY <2>1, <2>2, <2>3
<1>2. ASSUME NEW b \in Bookings, HealGuestReads(w, b) PROVE IInv'
  BY <1>2, HealingKeepsIInv DEF HealGuestReads
<1> QED BY <1>1, <1>2

\* A bulk check-out knows the status it has read, as long as it is up to date.
LEMMA BulkKeepsIInv ==
  ASSUME IInv, NEW w \in Workers, BulkReads(w) \/ DeletesGuests(w) \/ LooksForBookings(w)
  PROVE  IInv'
<1>1. CASE BulkReads(w)
  <2> DEFINE q == [saves |-> "nothing", seen |-> room.status, occupied |-> room.occupied, fresh |-> TRUE]
  <2>1. q \in Requests
    BY DEF IInv, TypeOK, Requests, RoomRows
  <2>2. RequestIsSound(q) /\ RequestIsCurrent(q)
    BY DEF RequestIsSound, RequestIsCurrent
  <2> QED BY <1>1, <2>1, <2>2, ReadsKeepRequests DEF BulkReads
<1>2. ASSUME NEW gone \in SUBSET Bookings, NEW permitted \in BOOLEAN,
             GoesOn(w, [saves |-> "clear", gone |-> gone, fresh |-> desk[w].fresh,
                        dirties |-> permitted /\ CanBecomeDirty(desk[w].seen)])
      PROVE  IInv'
  <2> DEFINE q == [saves |-> "clear", gone |-> gone, fresh |-> desk[w].fresh,
                   dirties |-> permitted /\ CanBecomeDirty(desk[w].seen)]
  <2>1. desk[w] \in Requests /\ desk[w].saves = "nothing" /\ desk[w] # Idle
    BY <1>2 DEF GoesOn, IInv, TypeOK
  <2>2. desk[w].fresh \in BOOLEAN
    BY <2>1 DEF Requests
  <2>3. q \in Requests
    BY <2>2 DEF Requests, CanBecomeDirty
  <2>4. desk[w].fresh => desk[w].seen = room.status
    BY <2>1 DEF IInv, RequestsAreCurrent, RequestIsCurrent
  <2>5. RequestIsSound(q) /\ RequestIsCurrent(q)
    BY <2>4 DEF RequestIsSound, RequestIsCurrent, CanBecomeDirty
  <2> QED BY <1>2, <2>3, <2>5, ReadsKeepRequests
<1>3. CASE DeletesGuests(w)
  BY <1>2, <1>3 DEF DeletesGuests, IInv, TypeOK
<1>4. CASE LooksForBookings(w)
  <2>1. CASE GoesOn(w, Idle)
    BY <2>1, ReadsKeepRequests DEF RequestIsSound, RequestIsCurrent
  <2>2. CASE GoesOn(w, [saves |-> "clear", gone |-> {}, fresh |-> desk[w].fresh,
                        dirties |-> CanBecomeDirty(desk[w].seen)])
    <3>1. CanBecomeDirty(desk[w].seen) = (TRUE /\ CanBecomeDirty(desk[w].seen))
      BY DEF CanBecomeDirty
    <3> QED BY <1>2, <2>2, <3>1
  <2> QED BY <1>4, <2>1, <2>2 DEF LooksForBookings
<1> QED BY <1>1, <1>3, <1>4

\* The answer to a request: typing, and what becomes of the others.
LEMMA AnswersTyped ==
  ASSUME TypeOK, NEW w \in Workers, desk[w] # Idle, Answers(w)
  PROVE  /\ desk[w] \in Requests
         /\ desk' \in [Workers -> Requests \cup {Idle}]
         /\ \A v \in Workers : desk'[v] \in {Idle, Outdated(v)}
         /\ ~SavesOutdated => desk[w].fresh
<1>1. desk[w] \in Requests
  BY DEF TypeOK
<1>2. desk'[w] = Idle
  BY DEF Answers
<1> QED BY <1>1, <1>2, OutdatedRequests DEF Answers, TypeOK, SavesOutdated

LEMMA SetRoomStatusKeepsIInv ==
  ASSUME IInv, NEW w \in Workers, SetRoomStatus(w)
  PROVE  IInv'
<1> USE DEF IInv
<1>1. /\ desk[w] \in Requests
      /\ desk' \in [Workers -> Requests \cup {Idle}]
      /\ \A v \in Workers : desk'[v] \in {Idle, Outdated(v)}
  BY AnswersTyped DEF SetRoomStatus
<1>2. desk[w].saves = "status" /\ desk[w].to \in Statuses /\ desk[w].occupied \in BOOLEAN
  BY <1>1 DEF SetRoomStatus, Requests
<1>3. /\ room' = SavedWith(desk[w].to, desk[w].occupied)
      /\ audit' = desk[w].to
      /\ UNCHANGED <<stay, guests, healed, edited>>
  BY DEF SetRoomStatus
<1>4. /\ room' \in RoomRows
      /\ room'.status = desk[w].to
      /\ room'.status = "READY_FOR_GUEST" => ~room'.maintenance
  BY <1>2, <1>3 DEF TypeOK, RoomRows, Statuses, SavedWith
<1>5. TypeOK'
  BY <1>1, <1>2, <1>3, <1>4 DEF TypeOK
<1>6. RequestsAreSound' /\ RequestsAreCurrent'
  BY <1>1, <1>3, WritesKeepRequests
<1>7. ReadyRoomsNeedNoMaintenance' /\ AuditTrailNamesTheStatus'
  BY <1>3, <1>4 DEF ReadyRoomsNeedNoMaintenance, AuditTrailNamesTheStatus
<1> QED BY <1>5, <1>6, <1>7

LEMMA SaveRowKeepsIInv ==
  ASSUME IInv, NEW w \in Workers, SaveRow(w)
  PROVE  IInv'
<1> USE DEF IInv
<1>1. /\ desk[w] \in Requests
      /\ desk' \in [Workers -> Requests \cup {Idle}]
      /\ \A v \in Workers : desk'[v] \in {Idle, Outdated(v)}
  BY AnswersTyped DEF SaveRow
<1>2. /\ room' = desk[w].row
      /\ audit' = IF desk[w].saves = "cleaning" THEN desk[w].row.status ELSE audit
      /\ edited' = (edited \/ desk[w].saves = "form")
      /\ UNCHANGED <<stay, guests, healed>>
  BY DEF SaveRow
<1>3. desk[w].saves \in {"cleaning", "form"} /\ desk[w].row \in RoomRows
  BY <1>1 DEF SaveRow, Requests
<1>4. TypeOK'
  BY <1>1, <1>2, <1>3 DEF TypeOK, RoomRows
<1>5. RequestsAreSound' /\ RequestsAreCurrent'
  BY <1>1, <1>2, WritesKeepRequests DEF TypeOK
<1>6. ~edited' => ~edited /\ desk[w].saves = "cleaning" /\ RequestIsSound(desk[w])
  BY <1>2, <1>3 DEF TypeOK, RequestsAreSound
<1>7. ReadyRoomsNeedNoMaintenance' /\ AuditTrailNamesTheStatus'
  BY <1>2, <1>6 DEF SaveRow, RequestIsSound, ReadyRoomsNeedNoMaintenance, AuditTrailNamesTheStatus
<1> QED BY <1>4, <1>5, <1>7

LEMMA HealSavesKeepsIInv ==
  ASSUME IInv, NEW w \in Workers, HealSaves(w)
  PROVE  IInv'
<1> USE DEF IInv
<1>1. /\ desk[w] \in Requests
      /\ desk' \in [Workers -> Requests \cup {Idle}]
      /\ \A v \in Workers : desk'[v] \in {Idle, Outdated(v)}
  BY AnswersTyped DEF HealSaves
<1>2. /\ room' = desk[w].row
      /\ guests' = guests \cup desk[w].records
      /\ healed' = (healed \/ ~desk[w].fresh)
      /\ UNCHANGED <<stay, audit, edited>>
  BY DEF HealSaves
<1>3. desk[w].saves = "heal" /\ desk[w].row \in RoomRows /\ desk[w].records \subseteq Bookings
      /\ desk[w].fresh \in BOOLEAN
  BY <1>1 DEF HealSaves, Requests
<1>4. TypeOK'
  BY <1>1, <1>2, <1>3 DEF TypeOK
<1>5. RequestsAreSound' /\ RequestsAreCurrent'
  BY <1>1, <1>2, WritesKeepRequests
<1>6. ReadyRoomsNeedNoMaintenance'
  BY <1>2, <1>3 DEF HealSaves, RequestsAreSound, RequestIsSound, ReadyRoomsNeedNoMaintenance
<1>7. ~healed' => ~healed /\ desk[w].row.status = room.status
  BY <1>2, <1>3 DEF HealSaves, TypeOK, RequestsAreCurrent, RequestIsCurrent
<1>8. AuditTrailNamesTheStatus'
  BY <1>2, <1>7 DEF AuditTrailNamesTheStatus
<1> QED BY <1>4, <1>5, <1>6, <1>8

LEMMA ClearRoomKeepsIInv ==
  ASSUME IInv, NEW w \in Workers, ClearRoom(w)
  PROVE  IInv'
<1> USE DEF IInv
<1>1. /\ desk[w] \in Requests
      /\ desk' \in [Workers -> Requests \cup {Idle}]
      /\ \A v \in Workers : desk'[v] \in {Idle, Outdated(v)}
  BY AnswersTyped DEF ClearRoom
<1>2. /\ room' = [room EXCEPT !.occupied = FALSE,
                              !.status = IF desk[w].dirties THEN "CHECKOUT_DIRTY" ELSE @]
      /\ audit' = IF desk[w].dirties THEN "CHECKOUT_DIRTY" ELSE audit
      /\ guests' = guests \ desk[w].gone
      /\ UNCHANGED <<stay, healed, edited>>
  BY DEF ClearRoom
<1>3. /\ room' \in RoomRows
      /\ room'.maintenance = room.maintenance
      /\ room'.status = IF desk[w].dirties THEN "CHECKOUT_DIRTY" ELSE room.status
  BY <1>2 DEF TypeOK, RoomRows, Statuses
<1>4. TypeOK'
  BY <1>1, <1>2, <1>3 DEF TypeOK, Statuses
<1>5. RequestsAreSound' /\ RequestsAreCurrent'
  BY <1>1, <1>2, WritesKeepRequests
<1>6. ReadyRoomsNeedNoMaintenance' /\ AuditTrailNamesTheStatus'
  BY <1>2, <1>3 DEF ReadyRoomsNeedNoMaintenance, AuditTrailNamesTheStatus
<1> QED BY <1>4, <1>5, <1>6

LEMMA CheckInSavesKeepsIInv ==
  ASSUME IInv, NEW w \in Workers, CheckInSaves(w)
  PROVE  IInv'
<1> USE DEF IInv
<1>1. /\ desk[w] \in Requests
      /\ desk' \in [Workers -> Requests \cup {Idle}]
      /\ \A v \in Workers : desk'[v] \in {Idle, Outdated(v)}
  BY AnswersTyped DEF CheckInSaves
<1> DEFINE occupied == desk[w].seen = "OCCUPIED"
<1>2. /\ desk[w].saves = "check_in"
      /\ stay' = [stay EXCEPT ![desk[w].booking] = IF desk[w].stage = "left" THEN "left" ELSE "in_house"]
      /\ guests' = guests \cup {desk[w].booking}
      /\ room' = [room EXCEPT !.occupied = TRUE, !.status = IF occupied THEN @ ELSE "OCCUPIED"]
      /\ audit' = IF occupied THEN audit ELSE "OCCUPIED"
      /\ UNCHANGED <<healed, edited>>
  BY DEF CheckInSaves
<1>3. desk[w].booking \in Bookings
  BY <1>1, <1>2 DEF Requests
<1>4. /\ room' \in RoomRows
      /\ room'.maintenance = room.maintenance
      /\ room'.status = IF occupied THEN room.status ELSE "OCCUPIED"
  BY <1>2 DEF TypeOK, RoomRows, Statuses
<1>5. TypeOK'
  BY <1>1, <1>2, <1>3, <1>4 DEF TypeOK, Statuses, Stages
<1>6. RequestsAreSound' /\ RequestsAreCurrent'
  BY <1>1, <1>2, WritesKeepRequests
<1>7. ReadyRoomsNeedNoMaintenance' /\ AuditTrailNamesTheStatus'
  BY <1>2, <1>4 DEF ReadyRoomsNeedNoMaintenance, AuditTrailNamesTheStatus
<1> QED BY <1>5, <1>6, <1>7

\* A locked transaction: the status it writes is one the row accepts.
LEMMA BecomesKeepsIInv ==
  ASSUME IInv, NEW to \in Statuses, NEW occupied \in BOOLEAN, Becomes(to, occupied),
         to \in {"CHECKOUT_DIRTY", "OCCUPIED"},
         stay' \in [Bookings -> Stages], guests' \subseteq Bookings
  PROVE  IInv'
<1> USE DEF IInv
<1>1. /\ room' \in RoomRows
      /\ room'.status = to
      /\ room'.maintenance = room.maintenance
  BY DEF Becomes, TypeOK, RoomRows
<1>2. desk' \in [Workers -> Requests \cup {Idle}] /\ \A v \in Workers : desk'[v] \in {Idle, Outdated(v)}
  BY OutdatedRequests DEF Becomes
<1>3. TypeOK'
  BY <1>1, <1>2 DEF Becomes, TypeOK
<1>4. RequestsAreSound' /\ RequestsAreCurrent'
  BY <1>2, WritesKeepRequests DEF Becomes
<1>5. (ReadyRoomsNeedNoMaintenance /\ AuditTrailNamesTheStatus)'
  BY <1>1 DEF Becomes, ReadyRoomsNeedNoMaintenance, AuditTrailNamesTheStatus
<1> QED BY <1>3, <1>4, <1>5

LEMMA HealGuestsKeepsIInv ==
  ASSUME IInv, NEW b \in Bookings, HealGuests(b)
  PROVE  IInv'
BY DEF IInv, HealGuests, TypeOK, RequestsAreSound, RequestsAreCurrent, RequestIsSound, RequestIsCurrent,
   ReadyRoomsNeedNoMaintenance, AuditTrailNamesTheStatus

LEMMA LockedKeepIInv ==
  ASSUME IInv,
         \E b \in Bookings : CheckOut(b) \/ MoveOut(b) \/ MoveIn(b)
  PROVE  IInv'
<1>2. ASSUME NEW b \in Bookings, CheckOut(b) PROVE IInv'
  <2>1. stay' \in [Bookings -> Stages] /\ guests' \subseteq Bookings
    BY <1>2 DEF CheckOut, IInv, TypeOK, Stages
  <2> QED BY <1>2, <2>1, BecomesKeepsIInv DEF CheckOut, Statuses
<1>3. ASSUME NEW b \in Bookings, MoveOut(b) PROVE IInv'
  <2>1. stay' \in [Bookings -> Stages] /\ guests' \subseteq Bookings
    BY <1>3 DEF MoveOut, IInv, TypeOK, Stages
  <2> QED BY <1>3, <2>1, BecomesKeepsIInv DEF MoveOut, Statuses
<1>4. ASSUME NEW b \in Bookings, MoveIn(b) PROVE IInv'
  <2>1. stay' \in [Bookings -> Stages] /\ guests' \subseteq Bookings
    BY <1>4 DEF MoveIn, IInv, TypeOK, Stages
  <2> QED BY <1>4, <2>1, BecomesKeepsIInv DEF MoveIn, Statuses
<1> QED BY <1>2, <1>3, <1>4

\* Every step of a handler that only reads asks for a status.
LEMMA ReadsAsk ==
  ASSUME NEW w \in Workers, NEW c \in Capabilities,
         \/ StartCleaning(w, c) \/ MarkCleaned(w, c) \/ InspectRoom(w, c)
         \/ MarkMaintenance(w, c) \/ CompleteMaintenance(w, c) \/ UpdateStatus(w, c)
  PROVE  \E to \in Statuses : AsksFor(w, to, c)
BY DEF StartCleaning, MarkCleaned, InspectRoom, MarkMaintenance, CompleteMaintenance, UpdateStatus, Statuses

\* Steps that only read leave the room and the stays as they are.
LEMMA ReadsWriteNothing ==
  ASSUME NEW w \in Workers,
         \/ \E c \in Capabilities :
              \/ StartCleaning(w, c) \/ MarkCleaned(w, c) \/ InspectRoom(w, c)
              \/ MarkMaintenance(w, c) \/ CompleteMaintenance(w, c) \/ UpdateStatus(w, c)
              \/ \E b \in Bookings : CheckInReads(w, b, c)
         \/ FormReads(w) \/ HealRoomReads(w) \/ BulkReads(w)
         \/ \E b \in Bookings : HealGuestReads(w, b)
         \/ DeletesGuests(w) \/ LooksForBookings(w)
  PROVE  room' = room /\ stay' = stay
<1>1. ASSUME NEW c \in Capabilities,
             \/ StartCleaning(w, c) \/ MarkCleaned(w, c) \/ InspectRoom(w, c)
             \/ MarkMaintenance(w, c) \/ CompleteMaintenance(w, c) \/ UpdateStatus(w, c)
      PROVE  room' = room /\ stay' = stay
  BY <1>1, ReadsAsk DEF AsksFor, Begins
<1>2. CASE \E c \in Capabilities, b \in Bookings : CheckInReads(w, b, c)
  BY <1>2 DEF CheckInReads, Begins
<1>3. CASE \/ FormReads(w) \/ HealRoomReads(w) \/ BulkReads(w)
           \/ \E b \in Bookings : HealGuestReads(w, b)
  BY <1>3 DEF FormReads, HealRoomReads, HealGuestReads, BulkReads, Begins
<1>4. CASE DeletesGuests(w) \/ LooksForBookings(w)
  BY <1>4 DEF DeletesGuests, LooksForBookings, GoesOn
<1> QED BY <1>1, <1>2, <1>3, <1>4

\* A request that ends without overwriting anything saves what it knows.
LEMMA SavesWhatItKnows ==
  ASSUME IInv, NEW w \in Workers, desk[w] # Idle, Answers(w), ~SavesOutdated
  PROVE  desk[w] \in Requests /\ desk[w].fresh /\ RequestIsCurrent(desk[w])
BY AnswersTyped DEF IInv, RequestsAreCurrent

\* A step that neither overwrites anything nor is the form changes the status
\* along the state machine.
LEMMA StepFollows ==
  ASSUME IInv, Next, ~SavesOutdated, ~SavesForm, room'.status # room.status
  PROVE  room'.status \in CanTransition[room.status]
<1> USE DEF IInv
<1>1. ASSUME NEW w \in Workers, SetRoomStatus(w) PROVE room'.status \in CanTransition[room.status]
  <2>1. desk[w] \in Requests /\ desk[w].fresh /\ RequestIsCurrent(desk[w])
    BY <1>1, SavesWhatItKnows DEF SetRoomStatus
  <2>2. desk[w].saves = "status" /\ desk[w].to \in Statuses /\ desk[w].to \in CanTransition[room.status]
    BY <1>1, <2>1 DEF SetRoomStatus, Requests, RequestIsCurrent
  <2>3. room'.status = desk[w].to
    BY <1>1, <2>2 DEF SetRoomStatus, TypeOK, RoomRows, Statuses, SavedWith
  <2> QED BY <2>2, <2>3
<1>2. ASSUME NEW w \in Workers, SaveRow(w) PROVE room'.status \in CanTransition[room.status]
  <2>1. desk[w].fresh /\ RequestIsCurrent(desk[w])
    BY <1>2, SavesWhatItKnows DEF SaveRow
  <2>2. desk[w].saves = "cleaning"
    BY <1>2 DEF SaveRow, Answers, SavesForm, TypeOK
  <2> QED BY <1>2, <2>1, <2>2 DEF SaveRow, RequestIsCurrent
<1>3. ASSUME NEW w \in Workers, HealSaves(w) PROVE FALSE
  <2>1. desk[w].fresh /\ RequestIsCurrent(desk[w])
    BY <1>3, SavesWhatItKnows DEF HealSaves
  <2> QED BY <1>3, <2>1 DEF HealSaves, RequestIsCurrent
<1>4. ASSUME NEW w \in Workers, CheckInSaves(w) PROVE room'.status \in CanTransition[room.status]
  <2>1. desk[w].fresh /\ RequestIsCurrent(desk[w])
    BY <1>4, SavesWhatItKnows DEF CheckInSaves
  <2>2. /\ desk[w].seen = room.status
        /\ desk[w].seen = "OCCUPIED" \/ "OCCUPIED" \in CanTransition[room.status]
    BY <1>4, <2>1 DEF CheckInSaves, RequestIsCurrent
  <2>3. room'.status = IF desk[w].seen = "OCCUPIED" THEN room.status ELSE "OCCUPIED"
    BY <1>4 DEF CheckInSaves, TypeOK, RoomRows
  <2> QED BY <2>2, <2>3
<1>5. ASSUME NEW w \in Workers, ClearRoom(w) PROVE room'.status \in CanTransition[room.status]
  <2>1. desk[w].fresh /\ RequestIsCurrent(desk[w])
    BY <1>5, SavesWhatItKnows DEF ClearRoom
  <2>2. room'.status = IF desk[w].dirties THEN "CHECKOUT_DIRTY" ELSE room.status
    BY <1>5 DEF ClearRoom, TypeOK, RoomRows
  <2> QED BY <1>5, <2>1, <2>2 DEF ClearRoom, RequestIsCurrent
<1>6. ASSUME NEW b \in Bookings, CheckOut(b) \/ MoveOut(b) \/ MoveIn(b)
      PROVE  room'.status \in CanTransition[room.status]
  <2>1. CASE CheckOut(b) \/ MoveOut(b)
    BY <2>1 DEF CheckOut, MoveOut, Becomes, Accepts, TypeOK, RoomRows
  <2>2. CASE MoveIn(b)
    BY <2>2 DEF MoveIn, Becomes, TypeOK, RoomRows, CanTransition
  <2> QED BY <1>6, <2>1, <2>2
<1>7. ASSUME NEW b \in Bookings, HealGuests(b) PROVE FALSE
  BY <1>7 DEF HealGuests
<1> QED BY <1>1, <1>2, <1>3, <1>4, <1>5, <1>6, <1>7, ReadsWriteNothing DEF Next

\* A booking comes into the room by a move, which looks at the room, or by a
\* check-in, which has seen it ready.
LEMMA StepArrives ==
  ASSUME IInv, Next, NEW b \in Bookings, ~edited, ~SavesOutdated,
         stay[b] # "in_house", stay'[b] = "in_house"
  PROVE  ~room'.maintenance
<1> USE DEF IInv
<1>1. ASSUME NEW w \in Workers, CheckInSaves(w) PROVE ~room'.maintenance
  <2>1. desk[w] \in Requests /\ desk[w].fresh /\ RequestIsCurrent(desk[w])
    BY <1>1, SavesWhatItKnows DEF CheckInSaves
  <2>2. /\ desk[w] # Idle /\ desk[w].saves = "check_in"
        /\ stay' = [stay EXCEPT ![desk[w].booking] = IF desk[w].stage = "left" THEN "left" ELSE "in_house"]
        /\ room'.maintenance = room.maintenance
    BY <1>1 DEF CheckInSaves, TypeOK, RoomRows
  <2>3. desk[w].booking \in Bookings
    BY <2>1, <2>2 DEF Requests
  <2>4. b = desk[w].booking /\ desk[w].stage # "left"
    BY <2>2, <2>3 DEF TypeOK
  <2>5. desk[w].stage = stay[b] /\ desk[w].stage # "elsewhere"
        /\ (desk[w].stage = "due" => room.status = "READY_FOR_GUEST")
    BY <2>1, <2>2, <2>4 DEF RequestIsCurrent
  <2>6. stay[b] = "due"
    BY <2>4, <2>5 DEF TypeOK, Stages
  <2> QED BY <2>2, <2>5, <2>6 DEF ReadyRoomsNeedNoMaintenance
<1>2. ASSUME NEW c \in Bookings, MoveIn(c) PROVE ~room'.maintenance
  BY <1>2 DEF MoveIn, Becomes, TypeOK, RoomRows
<1>3. ASSUME NEW c \in Bookings, CheckOut(c) \/ MoveOut(c) \/ HealGuests(c) PROVE FALSE
  BY <1>3 DEF CheckOut, MoveOut, HealGuests, TypeOK
<1>4. ASSUME NEW w \in Workers, SetRoomStatus(w) \/ SaveRow(w) \/ HealSaves(w) \/ ClearRoom(w) PROVE FALSE
  BY <1>4 DEF SetRoomStatus, SaveRow, HealSaves, ClearRoom
<1> QED BY <1>1, <1>2, <1>3, <1>4, ReadsWriteNothing DEF Next

-----------------------------------------------------------------------------
(* The theorems *)

LEMMA InitIInv == Init => IInv
<1> SUFFICES ASSUME Init PROVE IInv
  OBVIOUS
<1>1. TypeOK
  <2>1. stay \in [Bookings -> Stages]
    BY DEF Init, Stages
  <2>2. room \in RoomRows /\ audit \in Statuses
    BY DEF Init, RoomRows, Statuses
  <2> QED BY <2>1, <2>2 DEF Init, TypeOK
<1>2. \A w \in Workers : desk[w] = Idle
  BY DEF Init
<1>3. RequestsAreSound /\ RequestsAreCurrent
  BY <1>2 DEF RequestsAreSound, RequestsAreCurrent, RequestIsSound, RequestIsCurrent
<1>4. ReadyRoomsNeedNoMaintenance /\ AuditTrailNamesTheStatus
  BY DEF Init, ReadyRoomsNeedNoMaintenance, AuditTrailNamesTheStatus
<1> QED BY <1>1, <1>3, <1>4 DEF IInv

LEMMA NextIInv == IInv /\ [Next]_vars => IInv'
<1> SUFFICES ASSUME IInv, [Next]_vars PROVE IInv'
  OBVIOUS
<1>1. CASE UNCHANGED vars
  BY <1>1 DEF vars, IInv, TypeOK, RequestsAreSound, RequestsAreCurrent, RequestIsSound, RequestIsCurrent,
     ReadyRoomsNeedNoMaintenance, AuditTrailNamesTheStatus
<1>2. ASSUME NEW w \in Workers, NEW c \in Capabilities,
             \/ StartCleaning(w, c) \/ MarkCleaned(w, c) \/ InspectRoom(w, c)
             \/ MarkMaintenance(w, c) \/ CompleteMaintenance(w, c) \/ UpdateStatus(w, c)
      PROVE  IInv'
  BY <1>2, ReadsAsk, AsksForKeepsIInv
<1>3. ASSUME NEW w \in Workers, NEW c \in Capabilities, NEW b \in Bookings, CheckInReads(w, b, c)
      PROVE  IInv'
  BY <1>3, CheckInReadsKeepsIInv
<1>4. ASSUME NEW w \in Workers,
             \/ FormReads(w) \/ HealRoomReads(w) \/ BulkReads(w)
             \/ \E b \in Bookings : HealGuestReads(w, b)
             \/ DeletesGuests(w) \/ LooksForBookings(w)
      PROVE  IInv'
  BY <1>4, FormReadsKeepsIInv, HealReadsKeepIInv, BulkKeepsIInv
<1>5. ASSUME NEW w \in Workers,
             SetRoomStatus(w) \/ SaveRow(w) \/ HealSaves(w) \/ CheckInSaves(w) \/ ClearRoom(w)
      PROVE  IInv'
  BY <1>5, SetRoomStatusKeepsIInv, SaveRowKeepsIInv, HealSavesKeepsIInv, CheckInSavesKeepsIInv,
     ClearRoomKeepsIInv
<1>6. ASSUME NEW b \in Bookings, CheckOut(b) \/ MoveOut(b) \/ MoveIn(b) \/ HealGuests(b) PROVE IInv'
  BY <1>6, LockedKeepIInv, HealGuestsKeepsIInv
<1> QED BY <1>1, <1>2, <1>3, <1>4, <1>5, <1>6 DEF Next

\* Every reachable state satisfies the inductive invariant.
THEOREM TurnoverInvariant == Spec => []IInv
BY InitIInv, NextIInv, PTL DEF Spec

\* The variables always have their types, for any bookings and workers.
THEOREM TypeCorrect == Spec => []TypeOK
BY TurnoverInvariant, PTL DEF IInv

\* However many requests save rows that are out of date, a room with a
\* maintenance flag is never ready for guests unless the form made it so.
THEOREM ReadyRoomsAreSafe == Spec => []ReadyRoomsNeedNoMaintenance
BY TurnoverInvariant, PTL DEF IInv

\* However requests race, the audit trail ends with the status of the room,
\* unless healing has saved a row that was out of date or the form wrote it.
THEOREM AuditTrailIsComplete == Spec => []AuditTrailNamesTheStatus
BY TurnoverInvariant, PTL DEF IInv

\* Whatever was saved before, a guest comes into a room with a maintenance flag
\* only by a check-in that overwrites what it has not read.
THEOREM GuestsAreSafe == Spec => GuestsComeIntoSoundRooms
<1> DEFINE Arrives(b) ==
      ~edited /\ stay[b] # "in_house" /\ stay'[b] = "in_house" /\ ~SavesOutdated => ~room'.maintenance
<1>1. IInv /\ [Next]_vars => [\A b \in Bookings : Arrives(b)]_vars
  BY StepArrives DEF vars
<1> QED BY <1>1, TurnoverInvariant, PTL DEF Spec, GuestsComeIntoSoundRooms

\* A step that takes the status past the state machine overwrites what it has
\* not read, or is the form.
THEOREM StatusesFollow == Spec => StatusFollowsTheStateMachine
<1>1. IInv /\ [Next]_vars
        => [room'.status # room.status /\ ~SavesOutdated /\ ~SavesForm
              => room'.status \in CanTransition[room.status]]_vars
  BY StepFollows DEF vars
<1> QED BY <1>1, TurnoverInvariant, PTL DEF Spec, StatusFollowsTheStateMachine

=============================================================================
