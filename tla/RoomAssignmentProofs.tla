------------------------ MODULE RoomAssignmentProofs ------------------------
(***************************************************************************)
(* Room assignment is safe for any numbers of bookings, rooms and workers, *)
(* and any dates, as long as nobody checks in; with check-in, as long as   *)
(* none of them saves a booking that was written since it was read.        *)
(*                                                                         *)
(* What a transaction checked is still true when it saves: the row of its  *)
(* booking and of its room are locked, a booking comes into a room only    *)
(* through a transaction that has locked the room, and the one row that is *)
(* saved from a stale copy, of a cancelled booking, blocks nothing.        *)
(***************************************************************************)
EXTENDS RoomCheckIn, TLAPS

-----------------------------------------------------------------------------
(* The inductive invariant *)

HoldsBooking(t) ==
  \/ t.op = "assign" /\ t.at \in {"room", "conflicts", "saves"}
  \/ t.op = "move" /\ t.at \in {"from", "room", "checks", "saves"}
  \/ t.op = "check_out" /\ t.at \in {"room", "saves"}

HoldsRoom(t) ==
  \/ t.op = "assign" /\ t.at \in {"conflicts", "saves"}
  \/ t.op = "move" /\ t.at \in {"checks", "saves"}
  \/ t.op = "check_out" /\ t.at = "saves"

HoldsFrom(t) == t.op = "move" /\ t.at \in {"room", "checks", "saves"}

LocksHeld ==
  \A w \in Workers :
    /\ HoldsBooking(txn[w]) => lock[txn[w].booking] = w
    /\ HoldsRoom(txn[w]) => lock[txn[w].room] = w
    /\ HoldsFrom(txn[w]) => lock[txn[w].from] = w

\* What an assignment and a move both found, and rely on.
ReadyAndFree(b, r) == room[r].room_status = "READY_FOR_GUEST" /\ Conflicting(b, r) = {}

Saving(t) == t.op \in {"assign", "move"} /\ t.at = "saves"

ChecksHold ==
  \A w \in Workers : Saving(txn[w]) => ReadyAndFree(txn[w].booking, txn[w].room)

IInv == TypeOK /\ LocksHeld /\ ChecksHold /\ NoDoubleBooking

-----------------------------------------------------------------------------
(* Types *)

\* The rows and transactions that the actions build are well formed.
LEMMA IdleType == Idle \in Txn
  <1>1. (CHOOSE b \in Bookings : TRUE) \in Bookings /\ (CHOOSE r \in Rooms : TRUE) \in Rooms
    BY RoomsAssumption
  <1>2. Confirmed \in RoomBooking
    BY DEF Confirmed, RoomBooking
  <1> QED
    BY <1>1, <1>2 DEF Idle, Txn

\* Locking a row is well typed.
LEMMA LockType ==
  ASSUME TypeOK, NEW w \in Workers, NEW x \in Bookings \cup Rooms, Locks(w, x)
  PROVE  lock' \in [Bookings \cup Rooms -> Workers \cup {NoWorker}]
  BY DEF TypeOK, Locks

\* A transaction that ends leaves nothing behind.
LEMMA EndType ==
  ASSUME TypeOK, NEW w \in Workers, Ends(w)
  PROVE  /\ txn' \in [Workers -> Txn]
         /\ lock' \in [Bookings \cup Rooms -> Workers \cup {NoWorker}]
  BY IdleType DEF TypeOK, Ends

\* A worker goes on to the next point of its transaction.
LEMMA GoesOnType ==
  ASSUME TypeOK, NEW w \in Workers,
         NEW at \in {"booking", "from", "room", "conflicts", "checks", "saves"},
         txn' = [txn EXCEPT ![w].at = at]
  PROVE  txn' \in [Workers -> Txn]
  <1>1. txn[w] \in Txn
    BY DEF TypeOK
  <1>2. [txn[w] EXCEPT !.at = at] \in Txn
    BY <1>1 DEF Txn
  <1> QED
    BY <1>2 DEF TypeOK


\* A step that begins a request keeps the tables well typed.
LEMMA BeginsTyped ==
  ASSUME TypeOK, NEW w \in Workers, RequestBegins(w)
  PROVE  TypeOK'
  <1>1. ASSUME NEW b \in Bookings, NEW r \in Rooms, AssignBegins(w, b, r) \/ MoveBegins(w, b, r)
        PROVE  TypeOK'
    <2>1. \A op \in {"assign", "move"} :
            [Idle EXCEPT !.op = op, !.at = "booking", !.booking = b, !.room = r] \in Txn
      BY IdleType DEF Txn
    <2> QED
      BY <1>1, <2>1 DEF AssignBegins, MoveBegins, Begins, TypeOK
  <1>2. ASSUME NEW b \in Bookings, CheckOutReads(w, b)
        PROVE  TypeOK'
    <2>1. booking[b].assigned_room \in Rooms
      BY <1>2 DEF CheckOutReads, TypeOK, RoomBooking
    <2>2. [Idle EXCEPT !.op = "check_out", !.at = "booking", !.booking = b,
                       !.room = booking[b].assigned_room] \in Txn
      BY <2>1, IdleType DEF Txn
    <2> QED
      BY <1>2, <2>2 DEF CheckOutReads, Begins, TypeOK
  <1>3. ASSUME NEW b \in Bookings, StaffCancelReads(w, b)
        PROVE  TypeOK'
    <2>1. booking[b] \in RoomBooking /\ Idle.room \in Rooms
      BY IdleType DEF TypeOK, Txn
    <2>2. [Idle EXCEPT !.op = "cancel", !.at = "saves", !.booking = b, !.room = Idle.room,
                       !.read = booking[b], !.seen = FALSE] \in Txn
      BY <2>1, IdleType DEF Txn
    <2> QED
      BY <1>3, <2>2 DEF StaffCancelReads, BeginsWith, TypeOK
  <1>4. ASSUME NEW r \in Rooms, HousekeepingReads(w, r)
        PROVE  TypeOK'
    <2> DEFINE b == Idle.booking
               inhouse == /\ room[r].is_occupied
                          /\ \E c \in Bookings : booking[c].assigned_room = r /\ InHouse(booking[c])
    <2>1. b \in Bookings
      BY IdleType DEF Txn
    <2>2. booking[b] \in RoomBooking /\ inhouse \in BOOLEAN
      BY <2>1 DEF TypeOK
    <2>3. [Idle EXCEPT !.op = "clean", !.at = "saves", !.booking = b, !.room = r,
                       !.read = booking[b], !.seen = inhouse] \in Txn
      <3> HIDE DEF b, inhouse
      <3> QED
        BY <2>1, <2>2, IdleType DEF Txn
    <2> QED
      BY <1>4, <2>3 DEF HousekeepingReads, BeginsWith, TypeOK
  <1> QED
    BY <1>1, <1>2, <1>3, <1>4 DEF RequestBegins

\* So does a step of an assignment.
LEMMA AssignsTyped ==
  ASSUME TypeOK, NEW w \in Workers, Assigns(w)
  PROVE  TypeOK'
  <1>t. txn[w] \in Txn /\ txn[w].booking \in Bookings /\ txn[w].room \in Rooms
    BY DEF TypeOK, Txn
  <1>1. CASE AssignLocksBooking(w)
    <2>1. lock' \in [Bookings \cup Rooms -> Workers \cup {NoWorker}]
      BY <1>t, <1>1, LockType DEF AssignLocksBooking
    <2>2. txn' \in [Workers -> Txn]
      BY <1>1, GoesOnType DEF AssignLocksBooking
    <2> QED
      BY <1>1, <2>1, <2>2 DEF AssignLocksBooking, Locks, TypeOK
  <1>2. CASE AssignLocksRoom(w)
    <2>1. lock' \in [Bookings \cup Rooms -> Workers \cup {NoWorker}]
      BY <1>t, <1>2, LockType DEF AssignLocksRoom
    <2>2. Conflicting(txn[w].booking, txn[w].room) \in SUBSET Bookings
      BY DEF Conflicting
    <2>3. \A C \in SUBSET Bookings : [txn[w] EXCEPT !.at = "conflicts", !.rest = C] \in Txn
      BY <1>t DEF Txn
    <2>4. txn' = [txn EXCEPT ![w] = [txn[w] EXCEPT !.at = "conflicts",
                                       !.rest = Conflicting(txn[w].booking, txn[w].room)]]
      BY <1>2 DEF AssignLocksRoom, TypeOK
    <2>5. txn' \in [Workers -> Txn]
      BY <2>2, <2>3, <2>4 DEF TypeOK
    <2> QED
      BY <1>2, <2>1, <2>5 DEF AssignLocksRoom, Locks, TypeOK
  <1>3. CASE AssignLocksConflict(w)
    <2>1. PICK c \in txn[w].rest :
            /\ lock' = IF c \in Conflicting(txn[w].booking, txn[w].room)
                         THEN [lock EXCEPT ![c] = w] ELSE lock
            /\ txn' = [txn EXCEPT ![w].rest = @ \ {c}]
      BY <1>3 DEF AssignLocksConflict
    <2>2. c \in Bookings /\ txn[w].rest \in SUBSET Bookings
      BY <1>t DEF Txn
    <2>3. [txn[w] EXCEPT !.rest = txn[w].rest \ {c}] \in Txn
      BY <1>t, <2>2 DEF Txn
    <2>4. txn' = [txn EXCEPT ![w] = [txn[w] EXCEPT !.rest = txn[w].rest \ {c}]]
      BY <2>1 DEF TypeOK
    <2>5. txn' \in [Workers -> Txn]
      BY <2>3, <2>4 DEF TypeOK
    <2>6. lock' \in [Bookings \cup Rooms -> Workers \cup {NoWorker}]
      BY <2>1, <2>2 DEF TypeOK
    <2> QED
      BY <1>3, <2>5, <2>6 DEF AssignLocksConflict, TypeOK
  <1>4. CASE AssignChecks(w)
    BY <1>4, GoesOnType DEF AssignChecks, TypeOK
  <1>5. CASE AssignSaves(w)
    <2>1. booking[txn[w].booking] \in RoomBooking
      BY <1>t DEF TypeOK
    <2>2. [booking[txn[w].booking] EXCEPT !.assigned_room = txn[w].room] \in RoomBooking
      BY <1>t, <2>1 DEF RoomBooking
    <2>3. booking' \in [Bookings -> RoomBooking]
      BY <1>5, <1>t, <2>2 DEF AssignSaves, TypeOK
    <2> QED
      BY <1>5, <2>3, EndType DEF AssignSaves, TypeOK
  <1> QED
    BY <1>1, <1>2, <1>3, <1>4, <1>5 DEF Assigns

\* So does a step of a move.
LEMMA MovesTyped ==
  ASSUME TypeOK, NEW w \in Workers, Moves(w)
  PROVE  TypeOK'
  <1>t. /\ txn[w] \in Txn /\ txn[w].booking \in Bookings
        /\ txn[w].room \in Rooms /\ txn[w].from \in Rooms
    BY DEF TypeOK, Txn
  <1>1. CASE MoveLocksBooking(w)
    <2>1. lock' \in [Bookings \cup Rooms -> Workers \cup {NoWorker}]
      BY <1>t, <1>1, LockType DEF MoveLocksBooking
    <2>2. booking[txn[w].booking].assigned_room \in Rooms
      BY <1>1, <1>t DEF MoveLocksBooking, TypeOK, RoomBooking
    <2>3. [txn[w] EXCEPT !.at = "from", !.from = booking[txn[w].booking].assigned_room] \in Txn
      BY <1>t, <2>2 DEF Txn
    <2>4. txn' = [txn EXCEPT ![w] = [txn[w] EXCEPT !.at = "from",
                                       !.from = booking[txn[w].booking].assigned_room]]
      BY <1>1 DEF MoveLocksBooking, TypeOK
    <2>5. txn' \in [Workers -> Txn]
      BY <2>3, <2>4 DEF TypeOK
    <2> QED
      BY <1>1, <2>1, <2>5 DEF MoveLocksBooking, Locks, TypeOK
  <1>2. CASE MoveLocksFrom(w)
    <2>1. lock' \in [Bookings \cup Rooms -> Workers \cup {NoWorker}]
      BY <1>t, <1>2, LockType DEF MoveLocksFrom
    <2>2. txn' \in [Workers -> Txn]
      BY <1>2, GoesOnType DEF MoveLocksFrom
    <2> QED
      BY <1>2, <2>1, <2>2 DEF MoveLocksFrom, Locks, TypeOK
  <1>3. CASE MoveLocksTo(w)
    <2>1. lock' \in [Bookings \cup Rooms -> Workers \cup {NoWorker}]
      BY <1>t, <1>3, LockType DEF MoveLocksTo
    <2>2. txn' \in [Workers -> Txn]
      BY <1>3, GoesOnType DEF MoveLocksTo
    <2> QED
      BY <1>3, <2>1, <2>2 DEF MoveLocksTo, Locks, TypeOK
  <1>4. CASE MoveChecks(w)
    <2>1. txn' \in [Workers -> Txn] \/ ~(txn' = [txn EXCEPT ![w].at = "saves"])
      <3>1. [txn[w] EXCEPT !.at = "saves"] \in Txn
        BY <1>t DEF Txn
      <3> QED
        BY <3>1 DEF TypeOK
    <2> QED
      BY <1>4, <2>1 DEF MoveChecks, TypeOK
  <1>5. CASE MoveSaves(w)
    <2>1. [booking[txn[w].booking] EXCEPT !.assigned_room = txn[w].room] \in RoomBooking
      BY <1>t DEF RoomBooking, TypeOK
    <2>2. booking' \in [Bookings -> RoomBooking]
      BY <1>5, <1>t, <2>1 DEF MoveSaves, TypeOK
    <2>3. Left \in Room /\ Occupied \in Room
      BY DEF Left, Occupied, Room
    <2>4. room' \in [Rooms -> Room]
      BY <1>5, <1>t, <2>3 DEF MoveSaves, TypeOK
    <2> QED
      BY <1>5, <2>2, <2>4, EndType DEF MoveSaves, TypeOK
  <1> QED
    BY <1>1, <1>2, <1>3, <1>4, <1>5 DEF Moves

\* So do a check-out, a cancellation, a cleaning and a rollback.
LEMMA OthersTyped ==
  ASSUME TypeOK, NEW w \in Workers,
         RollsBack(w) \/ ChecksOut(w) \/ StaffCancelSaves(w) \/ HousekeepingSaves(w)
  PROVE  TypeOK'
  <1>t. /\ txn[w] \in Txn /\ txn[w].booking \in Bookings /\ txn[w].room \in Rooms
        /\ txn[w].read \in RoomBooking /\ txn[w].seen \in BOOLEAN
    BY DEF TypeOK, Txn
  <1>1. CASE RollsBack(w)
    BY <1>1, EndType DEF RollsBack, TypeOK
  <1>2. CASE CheckOutLocksBooking(w)
    <2>1. lock' \in [Bookings \cup Rooms -> Workers \cup {NoWorker}]
      BY <1>t, <1>2, LockType DEF CheckOutLocksBooking
    <2>2. txn' \in [Workers -> Txn]
      BY <1>2, GoesOnType DEF CheckOutLocksBooking
    <2> QED
      BY <1>2, <2>1, <2>2 DEF CheckOutLocksBooking, Locks, TypeOK
  <1>3. CASE CheckOutLocksRoom(w)
    <2>1. lock' \in [Bookings \cup Rooms -> Workers \cup {NoWorker}]
      BY <1>t, <1>3, LockType DEF CheckOutLocksRoom
    <2>2. [txn[w] EXCEPT !.at = "saves"] \in Txn
      BY <1>t DEF Txn
    <2>3. txn' \in [Workers -> Txn]
      BY <1>3, <2>2 DEF CheckOutLocksRoom, TypeOK
    <2> QED
      BY <1>3, <2>1, <2>3 DEF CheckOutLocksRoom, Locks, TypeOK
  <1>4. CASE CheckOutSaves(w)
    <2>1. booking[txn[w].booking] \in RoomBooking
      BY <1>t DEF TypeOK
    <2>2. [booking[txn[w].booking] EXCEPT !.checked_out_at = TRUE, !.status = "COMPLETED"]
            \in RoomBooking
      BY <2>1 DEF RoomBooking
    <2>3. booking' = [booking EXCEPT ![txn[w].booking] =
            [booking[txn[w].booking] EXCEPT !.checked_out_at = TRUE, !.status = "COMPLETED"]]
      BY <1>4, <1>t DEF CheckOutSaves, TypeOK
    <2>4. booking' \in [Bookings -> RoomBooking]
      BY <1>t, <2>2, <2>3 DEF TypeOK
    <2>5. Left \in Room
      BY DEF Left, Room
    <2>6. room' \in [Rooms -> Room] /\ guest' \in [Bookings -> Rooms \cup {NoRoom}]
      BY <1>4, <1>t, <2>5 DEF CheckOutSaves, TypeOK
    <2> QED
      BY <1>4, <2>4, <2>6, EndType DEF CheckOutSaves, TypeOK
  <1>5. CASE StaffCancelSaves(w)
    <2>1. [txn[w].read EXCEPT !.status = "CANCELLED"] \in RoomBooking
      BY <1>t DEF RoomBooking
    <2>2. booking' \in [Bookings -> RoomBooking]
      BY <1>5, <1>t, <2>1 DEF StaffCancelSaves, TypeOK
    <2> QED
      BY <1>5, <2>2, EndType DEF StaffCancelSaves, TypeOK
  <1>6. CASE HousekeepingSaves(w)
    <2>1. [room_status |-> "READY_FOR_GUEST", is_occupied |-> txn[w].seen] \in Room
      BY <1>t DEF Room
    <2>2. room' \in [Rooms -> Room]
      BY <1>6, <1>t, <2>1 DEF HousekeepingSaves, TypeOK
    <2> QED
      BY <1>6, <2>2, EndType DEF HousekeepingSaves, TypeOK
  <1> QED
    BY <1>1, <1>2, <1>3, <1>4, <1>5, <1>6 DEF ChecksOut

\* What worker w does.
Step(w) ==
  \/ RequestBegins(w) \/ RollsBack(w)
  \/ Assigns(w) \/ Moves(w) \/ ChecksOut(w)
  \/ StaffCancelSaves(w) \/ HousekeepingSaves(w)

\* The initial state has its types.
LEMMA InitTyped == Init => TypeOK
  <1> SUFFICES ASSUME Init
               PROVE  TypeOK
    OBVIOUS
  <1>1. Confirmed \in RoomBooking /\ \A r \in Rooms : Arrived(r) \in RoomBooking
    BY DEF Confirmed, Arrived, RoomBooking
  <1>2. booking \in [Bookings -> RoomBooking]
    BY <1>1 DEF Init
  <1>3. Ready \in Room /\ Occupied \in Room
    BY DEF Ready, Occupied, Room
  <1>4. room \in [Rooms -> Room]
    BY <1>3 DEF Init
  <1>5. guest \in [Bookings -> Rooms \cup {NoRoom}]
    BY <1>2 DEF Init, RoomBooking
  <1> QED
    BY <1>2, <1>4, <1>5, IdleType DEF Init, TypeOK

\* Every step, or none, keeps the types.
LEMMA NextTyped ==
  ASSUME TypeOK, [Next]_vars
  PROVE  TypeOK'
  <1>1. ASSUME NEW w \in Workers, Step(w)
        PROVE  TypeOK'
    BY <1>1, BeginsTyped, AssignsTyped, MovesTyped, OthersTyped DEF Step
  <1>2. ASSUME NEW b \in Bookings, UnassignsRoom(b)
        PROVE  TypeOK'
    <2>1. [booking[b] EXCEPT !.assigned_room = NoRoom] \in RoomBooking
      BY DEF RoomBooking, TypeOK
    <2>2. booking' \in [Bookings -> RoomBooking]
      BY <1>2, <2>1 DEF UnassignsRoom, TypeOK
    <2> QED
      BY <1>2, <2>2 DEF UnassignsRoom, TypeOK
  <1>3. CASE UNCHANGED vars
    BY <1>3 DEF vars, TypeOK
  <1> QED
    BY <1>1, <1>2, <1>3 DEF Next, Step

\* TypeOK, for any bookings, rooms and workers: no transaction holds a room or
\* a booking that does not exist, whatever it read before its locks.
THEOREM RoomTypes == Spec => []TypeOK
  BY InitTyped, NextTyped, PTL DEF Spec

-----------------------------------------------------------------------------
(* What a step of one worker leaves to the others *)

\* Conflicts, in terms of the rooms that are kept.
LEMMA ConflictingIsKept ==
  ASSUME TypeOK, NEW b \in Bookings, NEW r \in Rooms
  PROVE  Conflicting(b, r) = {c \in Bookings \ {b} : KeptRoom(c) = r /\ Overlaps(b, c)}
  BY RoomsAssumption DEF Conflicting, KeptRoom

\* The other transactions and their locks stay.
LEMMA OthersStay ==
  ASSUME TypeOK, NEW w \in Workers, Step(w), NEW v \in Workers \ {w}
  PROVE  /\ txn'[v] = txn[v]
         /\ \A x \in Bookings \cup Rooms : lock[x] = v => lock'[x] = v
  <1>a. v # NoWorker /\ txn[w].booking \in Bookings /\ txn[w].room \in Rooms /\ txn[w].from \in Rooms
        /\ txn[w].rest \in SUBSET Bookings
    BY RoomsAssumption DEF TypeOK, Txn
  <1>1. CASE RequestBegins(w)
    BY <1>1 DEF RequestBegins, AssignBegins, MoveBegins, CheckOutReads, StaffCancelReads,
                HousekeepingReads, Begins, BeginsWith, TypeOK
  <1>2. CASE RollsBack(w) \/ AssignSaves(w) \/ MoveSaves(w) \/ CheckOutSaves(w)
             \/ StaffCancelSaves(w) \/ HousekeepingSaves(w)
    BY <1>2 DEF RollsBack, AssignSaves, MoveSaves, CheckOutSaves, StaffCancelSaves,
                HousekeepingSaves, Ends, TypeOK
  <1>3. CASE AssignChecks(w) \/ MoveChecks(w)
    BY <1>3 DEF AssignChecks, MoveChecks, TypeOK
  <1>4. CASE AssignLocksBooking(w) \/ AssignLocksRoom(w) \/ MoveLocksBooking(w) \/ MoveLocksFrom(w)
             \/ MoveLocksTo(w) \/ CheckOutLocksBooking(w) \/ CheckOutLocksRoom(w)
    BY <1>4, <1>a DEF AssignLocksBooking, AssignLocksRoom, MoveLocksBooking, MoveLocksFrom,
                MoveLocksTo, CheckOutLocksBooking, CheckOutLocksRoom, Locks, TypeOK
  <1>5. CASE AssignLocksConflict(w)
    BY <1>5, <1>a DEF AssignLocksConflict, TypeOK
  <1> QED
    BY <1>1, <1>2, <1>3, <1>4, <1>5 DEF Step, Assigns, Moves, ChecksOut

\* Of the steps of a worker, only those that save write the tables.
Reads == UNCHANGED <<booking, room, guest>>

\* A step writes rows only when a transaction saves.
LEMMA StepKinds ==
  ASSUME NEW w \in Workers, Step(w)
  PROVE  \/ Reads
         \/ AssignSaves(w) \/ MoveSaves(w) \/ CheckOutSaves(w)
         \/ StaffCancelSaves(w) \/ HousekeepingSaves(w)
  BY DEF Step, Reads, RequestBegins, AssignBegins, MoveBegins, CheckOutReads, StaffCancelReads,
         HousekeepingReads, Begins, BeginsWith, RollsBack, Assigns, Moves, ChecksOut,
         AssignLocksBooking, AssignLocksRoom, AssignLocksConflict, AssignChecks,
         MoveLocksBooking, MoveLocksFrom, MoveLocksTo, MoveChecks,
         CheckOutLocksBooking, CheckOutLocksRoom, Locks

\* A row is written by the transaction that has locked it, or when nobody has.
LEMMA WritesWhatIsLocked ==
  ASSUME TypeOK, LocksHeld, NEW w \in Workers, Step(w)
  PROVE  /\ \A b \in Bookings : booking'[b] # booking[b] => lock[b] \in {w, NoWorker}
         /\ \A r \in Rooms : room'[r] # room[r] => lock[r] \in {w, NoWorker}
  <1>a. txn[w].booking \in Bookings /\ txn[w].room \in Rooms /\ txn[w].from \in Rooms
    BY DEF TypeOK, Txn
  <1>1. CASE Reads
    BY <1>1 DEF Reads
  <1>2. CASE AssignSaves(w)
    <2>1. lock[txn[w].booking] = w
      BY <1>2 DEF AssignSaves, LocksHeld, HoldsBooking
    <2> QED
      BY <1>2, <1>a, <2>1 DEF AssignSaves, TypeOK
  <1>3. CASE MoveSaves(w)
    <2>1. lock[txn[w].booking] = w /\ lock[txn[w].room] = w /\ lock[txn[w].from] = w
      BY <1>3 DEF MoveSaves, LocksHeld, HoldsBooking, HoldsRoom, HoldsFrom
    <2> QED
      BY <1>3, <1>a, <2>1 DEF MoveSaves, TypeOK
  <1>4. CASE CheckOutSaves(w)
    <2>1. lock[txn[w].booking] = w /\ lock[txn[w].room] = w
      BY <1>4 DEF CheckOutSaves, LocksHeld, HoldsBooking, HoldsRoom
    <2> QED
      BY <1>4, <1>a, <2>1 DEF CheckOutSaves, TypeOK
  <1>5. CASE StaffCancelSaves(w) \/ HousekeepingSaves(w)
    BY <1>5, <1>a DEF StaffCancelSaves, HousekeepingSaves, Unlocked, TypeOK
  <1> QED
    BY <1>1, <1>2, <1>3, <1>4, <1>5, StepKinds

\* A booking comes into a room only through a transaction that checked it.
LEMMA EntersByChecks ==
  ASSUME TypeOK, NEW w \in Workers, Step(w), NEW c \in Bookings, NEW r \in Rooms,
         KeptRoom(c)' = r, KeptRoom(c) # r
  PROVE  Saving(txn[w]) /\ c = txn[w].booking /\ r = txn[w].room
  <1>a. /\ txn[w].booking \in Bookings /\ txn[w].room \in Rooms
        /\ booking[c] \in RoomBooking /\ txn[w].read \in RoomBooking
    BY DEF TypeOK, Txn
  <1>n. r # NoRoom
    BY RoomsAssumption
  <1>1. CASE Reads \/ HousekeepingSaves(w)
    BY <1>1 DEF Reads, HousekeepingSaves, KeptRoom
  <1>2. CASE AssignSaves(w) \/ MoveSaves(w)
    <2>1. booking' = [booking EXCEPT ![txn[w].booking].assigned_room = txn[w].room]
          /\ Saving(txn[w])
      BY <1>2 DEF AssignSaves, MoveSaves, Saving
    <2>2. CASE c # txn[w].booking
      <3>1. booking'[c] = booking[c]
        BY <2>1, <2>2, <1>a DEF TypeOK
      <3> QED
        BY <3>1 DEF KeptRoom
    <2>3. CASE c = txn[w].booking
      <3>1. booking'[c] = [booking[c] EXCEPT !.assigned_room = txn[w].room]
        BY <2>1, <2>3, <1>a DEF TypeOK
      <3>2. booking'[c].assigned_room = txn[w].room
        BY <3>1, <1>a DEF RoomBooking
      <3> QED
        BY <2>1, <2>3, <3>2, <1>n DEF KeptRoom
    <2> QED
      BY <2>2, <2>3
  <1>3. CASE CheckOutSaves(w) \/ StaffCancelSaves(w)
    <2>1. booking'[c] = booking[c] \/ booking'[c].status \in {"CANCELLED", "COMPLETED"}
      BY <1>3, <1>a DEF CheckOutSaves, StaffCancelSaves, TypeOK, RoomBooking
    <2> QED
      BY <2>1, <1>n DEF KeptRoom, Blocking
  <1> QED
    BY <1>1, <1>2, <1>3, StepKinds

-----------------------------------------------------------------------------
(* The locks that each transaction counts on are its own *)

\* The locks of the other transactions are still theirs.
LEMMA OthersLocks ==
  ASSUME TypeOK, LocksHeld, NEW w \in Workers, Step(w), NEW v \in Workers \ {w}
  PROVE  /\ HoldsBooking(txn'[v]) => lock'[txn'[v].booking] = v
         /\ HoldsRoom(txn'[v]) => lock'[txn'[v].room] = v
         /\ HoldsFrom(txn'[v]) => lock'[txn'[v].from] = v
  <1>1. txn[v].booking \in Bookings /\ txn[v].room \in Rooms /\ txn[v].from \in Rooms
    BY DEF TypeOK, Txn
  <1>2. txn'[v] = txn[v] /\ \A x \in Bookings \cup Rooms : lock[x] = v => lock'[x] = v
    BY OthersStay
  <1>3. /\ HoldsBooking(txn[v]) => lock[txn[v].booking] = v
        /\ HoldsRoom(txn[v]) => lock[txn[v].room] = v
        /\ HoldsFrom(txn[v]) => lock[txn[v].from] = v
    BY DEF LocksHeld
  <1> QED
    BY <1>1, <1>2, <1>3

\* A transaction locks what it goes on to count on.
LEMMA OwnLocks ==
  ASSUME TypeOK, LocksHeld, NEW w \in Workers, Step(w)
  PROVE  /\ HoldsBooking(txn'[w]) => lock'[txn'[w].booking] = w
         /\ HoldsRoom(txn'[w]) => lock'[txn'[w].room] = w
         /\ HoldsFrom(txn'[w]) => lock'[txn'[w].from] = w
  <1> DEFINE t == txn[w]
             u == txn'[w]
  <1>t. t \in Txn /\ t.booking \in Bookings /\ t.room \in Rooms /\ t.from \in Rooms
    BY DEF TypeOK, Txn
  <1>h. /\ HoldsBooking(t) => lock[t.booking] = w
        /\ HoldsRoom(t) => lock[t.room] = w
        /\ HoldsFrom(t) => lock[t.from] = w
    BY DEF LocksHeld
  <1>i. Idle.op = "idle" /\ Idle \in Txn
    BY IdleType DEF Idle
  <1>1. CASE RequestBegins(w)
    <2>1. ASSUME NEW op \in {"assign", "move", "check_out"}, NEW b, NEW r,
                 Begins(w, op, "booking", b, r)
          PROVE  u.at = "booking" /\ u.op = op
      BY <2>1, <1>i DEF Begins, TypeOK, Txn
    <2>2. ASSUME NEW op \in {"cancel", "clean"}, NEW b, NEW r, NEW seen,
                 BeginsWith(w, op, "saves", b, r, seen)
          PROVE  u.at = "saves" /\ u.op = op
      BY <2>2, <1>i DEF BeginsWith, TypeOK, Txn
    <2>3. \/ u.at = "booking" /\ u.op \in {"assign", "move", "check_out"}
          \/ u.at = "saves" /\ u.op \in {"cancel", "clean"}
      BY <1>1, <2>1, <2>2 DEF RequestBegins, AssignBegins, MoveBegins, CheckOutReads,
                              StaffCancelReads, HousekeepingReads
    <2> QED
      BY <2>3 DEF HoldsBooking, HoldsRoom, HoldsFrom
  <1>2. CASE RollsBack(w) \/ AssignSaves(w) \/ MoveSaves(w) \/ CheckOutSaves(w)
             \/ StaffCancelSaves(w) \/ HousekeepingSaves(w)
    <2>1. u = Idle
      BY <1>2 DEF RollsBack, AssignSaves, MoveSaves, CheckOutSaves, StaffCancelSaves,
                  HousekeepingSaves, Ends, TypeOK
    <2> QED
      BY <2>1, <1>i DEF HoldsBooking, HoldsRoom, HoldsFrom
  <1>3. CASE AssignLocksBooking(w)
    <2>1. t.op = "assign" /\ u = [t EXCEPT !.at = "room"] /\ lock' = [lock EXCEPT ![t.booking] = w]
      BY <1>3 DEF AssignLocksBooking, Locks, TypeOK
    <2>2. u.op = "assign" /\ u.at = "room" /\ u.booking = t.booking
      BY <2>1, <1>t DEF Txn
    <2> QED
      BY <2>1, <2>2, <1>t DEF HoldsBooking, HoldsRoom, HoldsFrom, TypeOK
  <1>4. CASE AssignLocksRoom(w)
    <2>1. /\ t.op = "assign" /\ t.at = "room" /\ lock' = [lock EXCEPT ![t.room] = w]
          /\ u = [t EXCEPT !.at = "conflicts", !.rest = Conflicting(t.booking, t.room)]
      BY <1>4 DEF AssignLocksRoom, Locks, TypeOK
    <2>2. u.op = "assign" /\ u.at = "conflicts" /\ u.booking = t.booking /\ u.room = t.room
      BY <2>1, <1>t DEF Txn
    <2>3. lock[t.booking] = w
      BY <2>1, <1>h DEF HoldsBooking
    <2> QED
      BY <2>1, <2>2, <2>3, <1>t DEF HoldsFrom, TypeOK
  <1>5. CASE AssignLocksConflict(w)
    <2>1. PICK c \in t.rest :
            /\ lock' = IF c \in Conflicting(t.booking, t.room) THEN [lock EXCEPT ![c] = w] ELSE lock
            /\ txn' = [txn EXCEPT ![w].rest = @ \ {c}]
      BY <1>5 DEF AssignLocksConflict
    <2>2. t.op = "assign" /\ t.at = "conflicts" /\ c \in Bookings
      BY <1>5, <1>t DEF AssignLocksConflict, Txn
    <2>3. u = [t EXCEPT !.rest = t.rest \ {c}]
      BY <2>1 DEF TypeOK
    <2>4. u.op = "assign" /\ u.at = "conflicts" /\ u.booking = t.booking /\ u.room = t.room
      BY <2>2, <2>3, <1>t DEF Txn
    <2>5. lock[t.booking] = w /\ lock[t.room] = w
      BY <2>2, <1>h DEF HoldsBooking, HoldsRoom
    <2>6. lock'[t.booking] = w /\ lock'[t.room] = w
      BY <2>1, <2>2, <2>5, <1>t DEF TypeOK
    <2> QED
      BY <2>4, <2>6 DEF HoldsFrom
  <1>6. CASE AssignChecks(w) \/ MoveChecks(w)
    <2>0. txn' = [txn EXCEPT ![w].at = "saves"] /\ lock' = lock
      BY <1>6 DEF AssignChecks, MoveChecks
    <2>1. /\ u = [t EXCEPT !.at = "saves"] /\ lock' = lock
          /\ \/ t.op = "assign" /\ t.at = "conflicts"
             \/ t.op = "move" /\ t.at = "checks"
      BY <1>6, <2>0 DEF AssignChecks, MoveChecks, TypeOK
    <2>2. u.op = t.op /\ u.at = "saves" /\ u.booking = t.booking /\ u.room = t.room /\ u.from = t.from
      BY <2>1, <1>t DEF Txn
    <2> QED
      BY <2>1, <2>2, <1>h DEF HoldsBooking, HoldsRoom, HoldsFrom
  <1>7. CASE MoveLocksBooking(w)
    <2>1. /\ t.op = "move" /\ lock' = [lock EXCEPT ![t.booking] = w]
          /\ u = [t EXCEPT !.at = "from", !.from = booking[t.booking].assigned_room]
      BY <1>7 DEF MoveLocksBooking, Locks, TypeOK
    <2>2. u.op = "move" /\ u.at = "from" /\ u.booking = t.booking
      BY <2>1, <1>t DEF Txn
    <2>3. lock'[t.booking] = w
      BY <2>1, <1>t DEF TypeOK
    <2> QED
      BY <2>2, <2>3 DEF HoldsRoom, HoldsFrom
  <1>8. CASE MoveLocksFrom(w)
    <2>1. /\ t.op = "move" /\ t.at = "from" /\ lock' = [lock EXCEPT ![t.from] = w]
          /\ u = [t EXCEPT !.at = "room"]
      BY <1>8 DEF MoveLocksFrom, Locks, TypeOK
    <2>2. u.op = "move" /\ u.at = "room" /\ u.booking = t.booking /\ u.from = t.from
      BY <2>1, <1>t DEF Txn
    <2>3. lock[t.booking] = w
      BY <2>1, <1>h DEF HoldsBooking
    <2> QED
      BY <2>1, <2>2, <2>3, <1>t DEF HoldsRoom, TypeOK
  <1>9. CASE MoveLocksTo(w)
    <2>1. /\ t.op = "move" /\ t.at = "room" /\ lock' = [lock EXCEPT ![t.room] = w]
          /\ u = [t EXCEPT !.at = "checks"]
      BY <1>9 DEF MoveLocksTo, Locks, TypeOK
    <2>2. /\ u.op = "move" /\ u.at = "checks" /\ u.booking = t.booking
          /\ u.room = t.room /\ u.from = t.from
      BY <2>1, <1>t DEF Txn
    <2>3. lock[t.booking] = w /\ lock[t.from] = w
      BY <2>1, <1>h DEF HoldsBooking, HoldsFrom
    <2> QED
      BY <2>1, <2>2, <2>3, <1>t DEF TypeOK
  <1>10. CASE CheckOutLocksBooking(w)
    <2>1. t.op = "check_out" /\ u = [t EXCEPT !.at = "room"] /\ lock' = [lock EXCEPT ![t.booking] = w]
      BY <1>10 DEF CheckOutLocksBooking, Locks, TypeOK
    <2>2. u.op = "check_out" /\ u.at = "room" /\ u.booking = t.booking
      BY <2>1, <1>t DEF Txn
    <2> QED
      BY <2>1, <2>2, <1>t DEF HoldsBooking, HoldsRoom, HoldsFrom, TypeOK
  <1>11. CASE CheckOutLocksRoom(w)
    <2>1. /\ t.op = "check_out" /\ t.at = "room" /\ lock' = [lock EXCEPT ![t.room] = w]
          /\ u = [t EXCEPT !.at = "saves"]
      BY <1>11 DEF CheckOutLocksRoom, Locks, TypeOK
    <2>2. u.op = "check_out" /\ u.at = "saves" /\ u.booking = t.booking /\ u.room = t.room
      BY <2>1, <1>t DEF Txn
    <2>3. lock[t.booking] = w
      BY <2>1, <1>h DEF HoldsBooking
    <2> QED
      BY <2>1, <2>2, <2>3, <1>t DEF HoldsFrom, TypeOK
  <1> QED
    BY <1>1, <1>2, <1>3, <1>4, <1>5, <1>6, <1>7, <1>8, <1>9, <1>10, <1>11
       DEF Step, Assigns, Moves, ChecksOut

\* Every transaction keeps the locks its stage needs.
LEMMA LocksStayHeld ==
  ASSUME TypeOK, LocksHeld, NEW w \in Workers, Step(w)
  PROVE  LocksHeld'
  BY OwnLocks, OthersLocks DEF LocksHeld

-----------------------------------------------------------------------------
(* What was checked is still true when it is saved *)

\* What one worker does leaves what another has checked.
LEMMA OthersChecksHold ==
  ASSUME IInv, NEW w \in Workers, Step(w), NEW v \in Workers \ {w}, Saving(txn'[v]),
         NEW b \in Bookings, NEW r \in Rooms, b = txn'[v].booking, r = txn'[v].room
  PROVE  ReadyAndFree(b, r)'
  <1>1. txn'[v] = txn[v] /\ b = txn[v].booking /\ r = txn[v].room
    BY OthersStay DEF IInv
  <1>2. lock[r] = v /\ v # w /\ v # NoWorker
    BY <1>1, RoomsAssumption DEF IInv, LocksHeld, Saving, HoldsRoom
  <1>3. ReadyAndFree(b, r)
    BY <1>1 DEF IInv, ChecksHold
  <1>4. room'[r] = room[r]
    BY <1>1, <1>2, WritesWhatIsLocked DEF IInv
  <1>5. TypeOK'
    BY NextTyped DEF IInv, Next, Step
  <1>6. ASSUME NEW c \in Bookings, KeptRoom(c)' = r, KeptRoom(c) # r
        PROVE  FALSE
    <2>1. Saving(txn[w]) /\ r = txn[w].room
      BY <1>1, <1>6, EntersByChecks DEF IInv
    <2>2. lock[r] = w
      BY <2>1 DEF IInv, LocksHeld, Saving, HoldsRoom
    <2> QED
      BY <1>2, <2>2
  <1>7. Conflicting(b, r) = {c \in Bookings \ {b} : KeptRoom(c) = r /\ Overlaps(b, c)}
    BY <1>1, ConflictingIsKept DEF IInv
  <1>8. Conflicting(b, r)' = {c \in Bookings \ {b} : KeptRoom(c)' = r /\ Overlaps(b, c)}
    BY <1>1, <1>5, RoomsAssumption DEF Conflicting, KeptRoom, Overlaps
  <1>9. Conflicting(b, r)' = {}
    BY <1>3, <1>6, <1>7, <1>8 DEF ReadyAndFree
  <1> QED
    BY <1>3, <1>4, <1>9 DEF ReadyAndFree

\* A worker saves only after it has checked.
LEMMA OwnChecksHold ==
  ASSUME IInv, NEW w \in Workers, Step(w), Saving(txn'[w]),
         NEW b \in Bookings, NEW r \in Rooms, b = txn'[w].booking, r = txn'[w].room
  PROVE  ReadyAndFree(b, r)'
  <1> DEFINE t == txn[w]
             u == txn'[w]
  <1>t. t \in Txn /\ TypeOK
    BY DEF IInv, TypeOK
  <1>i. Idle.op = "idle" /\ Idle \in Txn
    BY IdleType DEF Idle
  <1>1. AssignChecks(w) \/ MoveChecks(w)
    <2>1. CASE RequestBegins(w)
      <3>1. ASSUME NEW op \in {"assign", "move", "check_out"}, NEW k, NEW x,
                   Begins(w, op, "booking", k, x)
            PROVE  ~Saving(u)
        BY <3>1, <1>i, <1>t DEF Begins, TypeOK, Txn, Saving
      <3>2. ASSUME NEW op \in {"cancel", "clean"}, NEW k, NEW x, NEW seen,
                   BeginsWith(w, op, "saves", k, x, seen)
            PROVE  ~Saving(u)
        BY <3>2, <1>i, <1>t DEF BeginsWith, TypeOK, Txn, Saving
      <3> QED
        BY <2>1, <3>1, <3>2 DEF RequestBegins, AssignBegins, MoveBegins, CheckOutReads,
                                StaffCancelReads, HousekeepingReads
    <2>2. CASE RollsBack(w) \/ AssignSaves(w) \/ MoveSaves(w) \/ CheckOutSaves(w)
               \/ StaffCancelSaves(w) \/ HousekeepingSaves(w)
      <3>1. u = Idle
        BY <2>2, <1>t DEF RollsBack, AssignSaves, MoveSaves, CheckOutSaves, StaffCancelSaves,
                    HousekeepingSaves, Ends, TypeOK
      <3> QED
        BY <3>1, <1>i DEF Saving
    <2>3. CASE AssignLocksBooking(w) \/ MoveLocksFrom(w) \/ MoveLocksTo(w)
               \/ CheckOutLocksBooking(w)
      <3>1. PICK at \in {"room", "checks"} : txn' = [txn EXCEPT ![w].at = at]
        BY <2>3 DEF AssignLocksBooking, MoveLocksFrom, MoveLocksTo, CheckOutLocksBooking
      <3>2. u = [t EXCEPT !.at = at]
        BY <3>1, <1>t DEF TypeOK
      <3>3. u.at = at
        BY <3>2, <1>t DEF Txn
      <3> QED
        BY <3>3 DEF Saving
    <2>4. CASE AssignLocksRoom(w)
      <3>1. u = [t EXCEPT !.at = "conflicts", !.rest = Conflicting(t.booking, t.room)]
        BY <2>4, <1>t DEF AssignLocksRoom, TypeOK
      <3>2. u.at = "conflicts"
        BY <3>1, <1>t DEF Txn
      <3> QED
        BY <3>2 DEF Saving
    <2>5. CASE AssignLocksConflict(w)
      <3>1. PICK c \in t.rest : txn' = [txn EXCEPT ![w].rest = @ \ {c}]
        BY <2>5 DEF AssignLocksConflict
      <3>2. u = [t EXCEPT !.rest = t.rest \ {c}]
        BY <3>1, <1>t DEF TypeOK
      <3>3. u.at = "conflicts"
        BY <2>5, <3>2, <1>t DEF AssignLocksConflict, Txn
      <3> QED
        BY <3>3 DEF Saving
    <2>6. CASE MoveLocksBooking(w)
      <3>1. u = [t EXCEPT !.at = "from", !.from = booking[t.booking].assigned_room]
        BY <2>6, <1>t DEF MoveLocksBooking, TypeOK
      <3>2. u.at = "from"
        BY <3>1, <1>t DEF Txn
      <3> QED
        BY <3>2 DEF Saving
    <2>7. CASE CheckOutLocksRoom(w)
      <3>1. t.op = "check_out" /\ txn' = [txn EXCEPT ![w].at = "saves"]
        BY <2>7 DEF CheckOutLocksRoom
      <3>2. u = [t EXCEPT !.at = "saves"]
        BY <3>1, <1>t DEF TypeOK
      <3>3. u.op = "check_out"
        BY <3>1, <3>2, <1>t DEF Txn
      <3> QED
        BY <3>3 DEF Saving
    <2> QED
      BY <2>1, <2>2, <2>3, <2>4, <2>5, <2>6, <2>7 DEF Step, Assigns, Moves, ChecksOut
  <1>2. txn' = [txn EXCEPT ![w].at = "saves"] /\ UNCHANGED <<booking, room>>
    BY <1>1 DEF AssignChecks, MoveChecks
  <1>3. u = [t EXCEPT !.at = "saves"]
    BY <1>2, <1>t DEF TypeOK
  <1>4. b = t.booking /\ r = t.room
    BY <1>3, <1>t DEF Txn
  <1>5. ReadyAndFree(b, r)
    BY <1>1, <1>4 DEF AssignChecks, MoveChecks, CanBeAssigned, CanMoveTo, ReadyAndFree
  <1> QED
    BY <1>2, <1>5 DEF ReadyAndFree, Conflicting, Overlaps, Blocking, InHouse

-----------------------------------------------------------------------------
(* No room is kept for two stays that overlap *)

\* Room by room or pair by pair, the property is the same.
LEMMA NoDoubleBookingIsPairwise ==
  ASSUME TypeOK
  PROVE  NoDoubleBooking
           <=> \A b \in Bookings, c \in Bookings :
                 b # c /\ KeptRoom(b) = KeptRoom(c) /\ KeptRoom(b) \in Rooms => ~Overlaps(b, c)
  <1>1. \A b \in Bookings : KeptRoom(b) \in Rooms \cup {NoRoom}
    BY DEF KeptRoom, TypeOK, RoomBooking
  <1>2. \A b \in Bookings, r \in Rooms :
          Conflicting(b, r) = {c \in Bookings \ {b} : KeptRoom(c) = r /\ Overlaps(b, c)}
    BY ConflictingIsKept
  <1> QED
    BY <1>1, <1>2, RoomsAssumption DEF NoDoubleBooking

\* Overlap is mutual.
LEMMA OverlapIsMutual ==
  ASSUME NEW b \in Bookings, NEW c \in Bookings
  PROVE  Overlaps(b, c) <=> Overlaps(c, b)
  BY RoomsAssumption DEF Overlaps

\* The room of whoever comes into one is free.
LEMMA EntersFree ==
  ASSUME IInv, NEW w \in Workers, Step(w), NEW b \in Bookings, NEW r \in Rooms,
         KeptRoom(b)' = r, KeptRoom(b) # r, NEW c \in Bookings \ {b}, KeptRoom(c) = r
  PROVE  ~Overlaps(b, c)
  <1>1. Saving(txn[w]) /\ b = txn[w].booking /\ r = txn[w].room
    BY EntersByChecks DEF IInv
  <1>2. Conflicting(b, r) = {}
    BY <1>1 DEF IInv, ChecksHold, ReadyAndFree
  <1> QED
    BY <1>2, ConflictingIsKept DEF IInv

\* No step of a transaction keeps a room for two overlapping stays.
LEMMA StepKeepsRooms ==
  ASSUME IInv, NEW w \in Workers, Step(w)
  PROVE  NoDoubleBooking'
  <1>0. TypeOK /\ TypeOK'
    BY NextTyped DEF IInv, Next, Step
  <1>1. SUFFICES ASSUME NEW b \in Bookings, NEW c \in Bookings, NEW r \in Rooms,
                        b # c, KeptRoom(b)' = r, KeptRoom(c)' = r
                 PROVE  ~Overlaps(b, c)
    <2>1. \A b \in Bookings : KeptRoom(b)' \in Rooms \cup {NoRoom}
      BY <1>0 DEF KeptRoom, TypeOK, RoomBooking
    <2>2. \A b \in Bookings, r \in Rooms :
            Conflicting(b, r)' = {c \in Bookings \ {b} : KeptRoom(c)' = r /\ Overlaps(b, c)}
      BY RoomsAssumption DEF Conflicting, KeptRoom, Overlaps
    <2> QED
      BY <2>1, <2>2 DEF NoDoubleBooking
  <1>2. CASE KeptRoom(b) = r /\ KeptRoom(c) = r
    BY <1>0, <1>1, <1>2, NoDoubleBookingIsPairwise DEF IInv
  <1>3. CASE KeptRoom(b) # r /\ KeptRoom(c) = r
    BY <1>1, <1>3, EntersFree
  <1>4. CASE KeptRoom(b) = r /\ KeptRoom(c) # r
    BY <1>1, <1>4, EntersFree, OverlapIsMutual
  <1>5. CASE KeptRoom(b) # r /\ KeptRoom(c) # r
    BY <1>0, <1>1, <1>5, EntersByChecks
  <1> QED
    BY <1>2, <1>3, <1>4, <1>5

-----------------------------------------------------------------------------
(* The invariant is inductive *)

\* The invariant holds at first.
LEMMA InitInvariant == Init => IInv
  <1> SUFFICES ASSUME Init
               PROVE  IInv
    OBVIOUS
  <1>1. TypeOK
    BY InitTyped
  <1>2. \A w \in Workers : txn[w].op = "idle"
    BY DEF Init, Idle
  <1>3. LocksHeld /\ ChecksHold
    BY <1>2 DEF LocksHeld, ChecksHold, HoldsBooking, HoldsRoom, HoldsFrom, Saving
  <1>4. \A b \in Bookings : KeptRoom(b) \in Rooms
          => booking[b].checked_in_at /\ booking[b].assigned_room = KeptRoom(b)
    <2>1. ASSUME NEW b \in Bookings, KeptRoom(b) \in Rooms
          PROVE  booking[b].checked_in_at /\ booking[b].assigned_room = KeptRoom(b)
      <3>1. booking[b] = Confirmed \/ \E r \in Rooms : booking[b] = Arrived(r)
        BY DEF Init
      <3>2. booking[b].assigned_room = KeptRoom(b)
        BY <2>1, RoomsAssumption DEF KeptRoom
      <3>3. Confirmed.assigned_room = NoRoom /\ \A r \in Rooms : Arrived(r).checked_in_at = TRUE
        BY DEF Confirmed, Arrived
      <3> QED
        BY <2>1, <3>1, <3>2, <3>3, RoomsAssumption
    <2> QED
      BY <2>1
  <1>5. NoDoubleBooking
    BY <1>1, <1>4, NoDoubleBookingIsPairwise DEF Init
  <1> QED
    BY <1>1, <1>3, <1>5 DEF IInv

\* Every step of a transaction keeps the invariant.
LEMMA StepInvariant ==
  ASSUME IInv, NEW w \in Workers, Step(w)
  PROVE  IInv'
  <1>1. TypeOK'
    BY NextTyped DEF IInv, Next, Step
  <1>2. LocksHeld'
    BY LocksStayHeld DEF IInv
  <1>3. ChecksHold'
    <2>1. ASSUME NEW v \in Workers, Saving(txn'[v])
          PROVE  ReadyAndFree(txn[v].booking, txn[v].room)'
      <3>1. txn'[v].booking \in Bookings /\ txn'[v].room \in Rooms
        BY <1>1 DEF TypeOK, Txn
      <3>2. \A b \in Bookings, r \in Rooms :
              b = txn'[v].booking /\ r = txn'[v].room => ReadyAndFree(b, r)'
        BY <2>1, OthersChecksHold, OwnChecksHold
      <3> QED
        BY <3>1, <3>2
    <2> QED
      BY <2>1 DEF ChecksHold, Saving
  <1>4. NoDoubleBooking'
    BY StepKeepsRooms
  <1> QED
    BY <1>1, <1>2, <1>3, <1>4 DEF IInv

\* An unassignment gives a room back, and no transaction has locked the row.
LEMMA UnassignInvariant ==
  ASSUME IInv, NEW b \in Bookings, UnassignsRoom(b)
  PROVE  IInv'
  <1>0. TypeOK /\ TypeOK'
    BY NextTyped DEF IInv, Next
  <1>1. LocksHeld'
    BY DEF IInv, LocksHeld, UnassignsRoom
  <1>2. \A c \in Bookings : booking'[c] = booking[c] \/ booking'[c].assigned_room = NoRoom
    BY <1>0 DEF UnassignsRoom, TypeOK, RoomBooking
  <1>3. \A c \in Bookings, r \in Rooms : KeptRoom(c)' = r => KeptRoom(c) = r
    BY <1>2, RoomsAssumption DEF KeptRoom
  <1>4. \A c \in Bookings, r \in Rooms : Conflicting(c, r)' \subseteq Conflicting(c, r)
    BY <1>2, RoomsAssumption DEF Conflicting, Overlaps
  <1>5. ChecksHold'
    <2>1. ASSUME NEW v \in Workers, Saving(txn[v])
          PROVE  ReadyAndFree(txn[v].booking, txn[v].room)'
      <3>1. txn[v].booking \in Bookings /\ txn[v].room \in Rooms /\ txn' = txn /\ room' = room
        BY <1>0 DEF TypeOK, Txn, UnassignsRoom
      <3>2. ReadyAndFree(txn[v].booking, txn[v].room)
        BY <2>1 DEF IInv, ChecksHold
      <3>3. \A c \in Bookings, r \in Rooms :
              ReadyAndFree(c, r) => ReadyAndFree(c, r)'
        BY <1>4, <3>1 DEF ReadyAndFree
      <3> QED
        BY <3>1, <3>2, <3>3
    <2>2. txn' = txn
      BY DEF UnassignsRoom
    <2> QED
      BY <2>1, <2>2 DEF ChecksHold
  <1>6. NoDoubleBooking'
    <2>1. ASSUME NEW c \in Bookings, KeptRoom(c)' # NoRoom
          PROVE  Conflicting(c, KeptRoom(c))' = {}
      <3>1. KeptRoom(c)' \in Rooms
        BY <1>0, <2>1 DEF KeptRoom, TypeOK, RoomBooking
      <3>2. KeptRoom(c) = KeptRoom(c)'
        BY <1>3, <3>1
      <3>3. Conflicting(c, KeptRoom(c)) = {}
        BY <2>1, <3>2 DEF IInv, NoDoubleBooking
      <3>4. \A r \in Rooms : Conflicting(c, r) = {} => Conflicting(c, r)' = {}
        BY <1>4
      <3> QED
        BY <3>1, <3>2, <3>3, <3>4
    <2> QED
      BY <2>1 DEF NoDoubleBooking
  <1> QED
    BY <1>0, <1>1, <1>5, <1>6 DEF IInv

\* So does a step that changes nothing.
LEMMA StutterInvariant ==
  ASSUME IInv, UNCHANGED vars
  PROVE  IInv'
  BY DEF IInv, TypeOK, LocksHeld, ChecksHold, ReadyAndFree, NoDoubleBooking, Conflicting, KeptRoom,
         Overlaps, Blocking, InHouse, vars

\* Every step keeps the invariant.
LEMMA NextInvariant ==
  ASSUME IInv, [Next]_vars
  PROVE  IInv'
  BY StepInvariant, UnassignInvariant, StutterInvariant DEF Next, Step

\* The invariant holds for ever.
LEMMA Invariant == Spec => []IInv
  BY InitInvariant, NextInvariant, PTL DEF Spec

\* NoDoubleBooking: however assignments, moves, unassignments, check-outs,
\* cancellations and cleaning interleave, lock by lock, for any hotel.
THEOREM RoomsAreNeverDoubleBooked == Spec => []NoDoubleBooking
  <1>1. IInv => NoDoubleBooking
    BY DEF IInv
  <1> QED
    BY <1>1, Invariant, PTL

-----------------------------------------------------------------------------
(* Refinement of RoomCalendar *)

Kept == [b \in Bookings |-> KeptRoom(b)]
Fit == {r \in Rooms : room[r].room_status = "READY_FOR_GUEST"}

\* The calendar's view of a booking is a room or none.
LEMMA KeptType == TypeOK => Kept \in [Bookings -> Rooms \cup {NoRoom}]
  BY DEF Kept, KeptRoom, TypeOK, RoomBooking

\* The initial state is one of the calendar.
LEMMA CalendarInit == Init => Calendar!Init
  <1> SUFFICES ASSUME Init
               PROVE  Calendar!Init
    OBVIOUS
  <1>1. IInv
    BY InitInvariant
  <1>2. Kept \in [Bookings -> Rooms \cup {NoRoom}]
    BY <1>1, KeptType DEF IInv
  <1>3. \A b \in Bookings : Kept[b] # NoRoom =>
          \A c \in Bookings \ {b} : Kept[c] = Kept[b] => ~Overlaps(b, c)
    BY <1>1, <1>2, NoDoubleBookingIsPairwise DEF IInv, Kept
  <1>4. Fit \in SUBSET Rooms
    BY DEF Fit
  <1> QED
    BY <1>2, <1>3, <1>4 DEF Calendar!Init, Calendar!Free, Kept, Fit

\* Nobody comes into a room: one booking at most leaves its room.
LEMMA CalendarGives ==
  ASSUME TypeOK, TypeOK', NEW b \in Bookings,
         booking' = [booking EXCEPT ![b] = booking'[b]],
         KeptRoom(b)' = KeptRoom(b) \/ KeptRoom(b)' = NoRoom,
         \A r \in Rooms : room'[r].room_status = "READY_FOR_GUEST"
                            => room[r].room_status = "READY_FOR_GUEST"
  PROVE  [Calendar!Next]_(Calendar!vars)
  <1>1. \A c \in Bookings \ {b} : KeptRoom(c)' = KeptRoom(c)
    BY DEF KeptRoom, TypeOK
  <1>2. Fit' \subseteq Fit /\ Fit' \in SUBSET Rooms
    BY DEF Fit
  <1>3. CASE KeptRoom(b)' = KeptRoom(b)
    <2>1. Kept' = Kept
      BY <1>1, <1>3 DEF Kept
    <2> QED
      BY <1>2, <2>1 DEF Calendar!Next, Calendar!Turnover, Kept, Fit
  <1>4. CASE KeptRoom(b)' = NoRoom
    <2>1. Kept' = [Kept EXCEPT ![b] = NoRoom]
      BY <1>1, <1>4 DEF Kept
    <2> QED
      BY <1>2, <2>1 DEF Calendar!Next, Calendar!Gives, Kept, Fit
  <1> QED
    BY <1>3, <1>4

\* A booking comes into a room that was checked: ready, and free.
LEMMA CalendarTakes ==
  ASSUME IInv, TypeOK', NEW w \in Workers, Step(w), AssignSaves(w) \/ MoveSaves(w),
         NEW b \in Bookings, NEW r \in Rooms, b = txn[w].booking, r = txn[w].room
  PROVE  [Calendar!Next]_(Calendar!vars)
  <1>0. TypeOK /\ txn[w].from \in Rooms
    BY DEF IInv, TypeOK, Txn
  <1>1. ReadyAndFree(b, r)
    BY DEF IInv, ChecksHold, Saving, AssignSaves, MoveSaves
  <1>2. \A c \in Bookings \ {b} : KeptRoom(c)' = KeptRoom(c)
    BY <1>0 DEF AssignSaves, MoveSaves, KeptRoom, TypeOK
  <1>3. KeptRoom(b)' = IF Blocking(booking[b]) THEN r ELSE NoRoom
    <2>1. booking'[b] = [booking[b] EXCEPT !.assigned_room = r] /\ booking[b] \in RoomBooking
      BY <1>0 DEF AssignSaves, MoveSaves, TypeOK
    <2>2. Blocking(booking'[b]) <=> Blocking(booking[b])
      BY <2>1 DEF Blocking, InHouse, RoomBooking
    <2>3. booking'[b].assigned_room = r
      BY <2>1 DEF RoomBooking
    <2> QED
      BY <2>2, <2>3 DEF KeptRoom
  <1>4. Fit' \subseteq Fit /\ Fit' \in SUBSET Rooms
    <2>1. Left.room_status # "READY_FOR_GUEST" /\ Occupied.room_status # "READY_FOR_GUEST"
      BY DEF Left, Occupied
    <2>2. CASE AssignSaves(w)
      BY <2>2 DEF AssignSaves, Fit
    <2>3. CASE MoveSaves(w)
      BY <2>1, <2>3, <1>0 DEF MoveSaves, Fit, TypeOK
    <2> QED
      BY <2>2, <2>3
  <1>5. CASE Blocking(booking[b])
    <2>1. Kept' = [Kept EXCEPT ![b] = r]
      BY <1>2, <1>3, <1>5 DEF Kept
    <2>2. r \in Fit
      BY <1>0, <1>1 DEF ReadyAndFree, Fit
    <2>3. \A c \in Bookings \ {b} : Kept[c] = r => ~Overlaps(b, c)
      BY <1>0, <1>1, ConflictingIsKept DEF ReadyAndFree, Kept
    <2> QED
      BY <1>0, <1>4, <2>1, <2>2, <2>3
         DEF Calendar!Next, Calendar!Takes, Calendar!Free, Kept, Fit
  <1>6. CASE ~Blocking(booking[b])
    <2>1. Kept' = Kept
      BY <1>2, <1>3, <1>6 DEF Kept, KeptRoom
    <2> QED
      BY <1>4, <2>1 DEF Calendar!Next, Calendar!Turnover, Kept, Fit
  <1> QED
    BY <1>5, <1>6

\* Every step is one of the calendar, or changes nothing it shows.
LEMMA CalendarStep ==
  ASSUME IInv, [Next]_vars
  PROVE  [Calendar!Next]_(Calendar!vars)
  <1>0. TypeOK /\ TypeOK'
    BY NextTyped DEF IInv
  <1>1. ASSUME UNCHANGED <<booking, room>>
        PROVE  [Calendar!Next]_(Calendar!vars)
    <2>1. Kept' = Kept /\ Fit' = Fit
      BY <1>1 DEF Kept, Fit, KeptRoom
    <2> QED
      BY <2>1 DEF Calendar!vars, Kept, Fit
  <1>2. ASSUME NEW w \in Workers, Step(w)
        PROVE  [Calendar!Next]_(Calendar!vars)
    <2>r. txn[w].booking \in Bookings /\ txn[w].room \in Rooms /\ txn[w].read \in RoomBooking
      BY <1>0 DEF TypeOK, Txn
    <2>b. PICK b \in Bookings, r \in Rooms : b = txn[w].booking /\ r = txn[w].room
      BY <2>r
    <2>t. txn[w].read \in RoomBooking /\ booking[b] \in RoomBooking
      BY <1>0, <2>r DEF TypeOK
    <2>1. CASE Reads
      BY <2>1, <1>1 DEF Reads
    <2>2. CASE AssignSaves(w) \/ MoveSaves(w)
      BY <1>0, <1>2, <2>2, <2>b, CalendarTakes
    <2>3. CASE CheckOutSaves(w)
      <3>1. booking' = [booking EXCEPT ![b] = booking'[b]]
        BY <1>0, <2>3, <2>b, <2>t DEF CheckOutSaves, TypeOK
      <3>2. booking'[b].status = "COMPLETED"
        BY <1>0, <2>3, <2>b, <2>t DEF CheckOutSaves, TypeOK, RoomBooking
      <3>3. Left.room_status # "READY_FOR_GUEST"
        BY DEF Left
      <3>4. \A n \in Rooms : room'[n].room_status = "READY_FOR_GUEST"
                               => room[n].room_status = "READY_FOR_GUEST"
        BY <1>0, <2>3, <2>b, <2>t, <3>3 DEF CheckOutSaves, TypeOK
      <3>5. KeptRoom(b)' = NoRoom
        BY <3>2, <2>3 DEF KeptRoom, Blocking
      <3> QED
        BY <1>0, <2>t, <3>1, <3>4, <3>5, CalendarGives
    <2>4. CASE StaffCancelSaves(w)
      <3>1. booking' = [booking EXCEPT ![b] = booking'[b]]
        BY <1>0, <2>4, <2>b, <2>t DEF StaffCancelSaves, TypeOK
      <3>2. booking'[b].status = "CANCELLED"
        BY <1>0, <2>4, <2>b, <2>t DEF StaffCancelSaves, TypeOK, RoomBooking
      <3>5. KeptRoom(b)' = NoRoom
        BY <3>2, <2>4 DEF KeptRoom, Blocking
      <3> QED
        BY <1>0, <2>4, <2>b, <2>t, <3>1, <3>5, CalendarGives DEF StaffCancelSaves
    <2>5. CASE HousekeepingSaves(w)
      <3>1. Kept' = Kept /\ Fit' \in SUBSET Rooms
        BY <2>5 DEF HousekeepingSaves, Kept, KeptRoom, Fit
      <3> QED
        BY <3>1 DEF Calendar!Next, Calendar!Turnover, Kept, Fit
    <2> QED
      BY <1>2, <2>1, <2>2, <2>3, <2>4, <2>5, StepKinds
  <1>3. ASSUME NEW b \in Bookings, UnassignsRoom(b)
        PROVE  [Calendar!Next]_(Calendar!vars)
    <2>1. booking' = [booking EXCEPT ![b] = booking'[b]] /\ booking'[b].assigned_room = NoRoom
      BY <1>0, <1>3 DEF UnassignsRoom, TypeOK, RoomBooking
    <2>2. KeptRoom(b)' = NoRoom /\ room' = room
      BY <1>3, <2>1 DEF KeptRoom, UnassignsRoom
    <2> QED
      BY <1>0, <2>1, <2>2, CalendarGives
  <1> QED
    BY <1>1, <1>2, <1>3 DEF Next, Step, vars

\* ImplementsCalendar: transactions that lock one row after another, in any
\* interleaving, look like single steps that each take a ready and free room.
THEOREM RoomsImplementCalendar == Spec => ImplementsCalendar
  <1>1. Init => Calendar!Init
    BY CalendarInit
  <1>2. IInv /\ [Next]_vars => [Calendar!Next]_(Calendar!vars)
    BY CalendarStep
  <1> QED
    BY <1>1, <1>2, Invariant, PTL DEF Spec, ImplementsCalendar, Calendar!Spec

-----------------------------------------------------------------------------
(* Check-in: one stale row is all that is wrong *)

CheckIn(w) ==
  \/ \E b \in Bookings : CheckInReads(w, b)
  \/ CheckInLocksBooking(w) \/ CheckInLocksRoom(w) \/ CheckInSaves(w)

\* The row that a check-in saves is still the one that is stored, as it would
\* be if the view read the booking again under its lock.
SavesWhatIsStored ==
  \A w \in Workers : CheckInSaves(w) => txn[w].read = booking[txn[w].booking]

CheckInLocks ==
  \A w \in Workers : txn[w].op = "check_in" =>
    /\ txn[w].at \in {"booking", "room", "saves"}
    /\ txn[w].at = "saves" => lock[txn[w].room] = w

CInv == IInv /\ CheckInLocks

\* A check-in keeps the tables well typed.
LEMMA CheckInTyped ==
  ASSUME TypeOK, NEW w \in Workers, CheckIn(w)
  PROVE  TypeOK'
  <1> DEFINE t == txn[w]
  <1>t. t \in Txn /\ t.booking \in Bookings /\ t.room \in Rooms /\ t.read \in RoomBooking
    BY DEF TypeOK, Txn
  <1>1. ASSUME NEW b \in Bookings, CheckInReads(w, b)
        PROVE  TypeOK'
    <2> DEFINE r == booking[b].assigned_room
               seen == room[r].room_status = "READY_FOR_GUEST"
    <2>1. booking[b] \in RoomBooking /\ r \in Rooms /\ seen \in BOOLEAN
      BY <1>1 DEF CheckInReads, TypeOK, RoomBooking
    <2>2. [Idle EXCEPT !.op = "check_in", !.at = "booking", !.booking = b, !.room = r,
                       !.read = booking[b], !.seen = seen] \in Txn
      <3> HIDE DEF r, seen
      <3> QED
        BY <2>1, IdleType DEF Txn
    <2>3. BeginsWith(w, "check_in", "booking", b, r, seen)
      BY <1>1 DEF CheckInReads
    <2> HIDE DEF r, seen
    <2> QED
      BY <2>2, <2>3 DEF BeginsWith, TypeOK
  <1>2. CASE CheckInLocksBooking(w)
    <2>1. lock' \in [Bookings \cup Rooms -> Workers \cup {NoWorker}]
      BY <1>2, <1>t, LockType DEF CheckInLocksBooking
    <2>2. txn' \in [Workers -> Txn]
      BY <1>2, GoesOnType DEF CheckInLocksBooking
    <2> QED
      BY <1>2, <2>1, <2>2 DEF CheckInLocksBooking, Locks, TypeOK
  <1>3. CASE CheckInLocksRoom(w)
    <2>1. lock' \in [Bookings \cup Rooms -> Workers \cup {NoWorker}]
      BY <1>3, <1>t, LockType DEF CheckInLocksRoom
    <2>2. txn' \in [Workers -> Txn]
      BY <1>3, GoesOnType DEF CheckInLocksRoom
    <2> QED
      BY <1>3, <2>1, <2>2 DEF CheckInLocksRoom, Locks, TypeOK
  <1>4. CASE CheckInSaves(w)
    <2>1. [t.read EXCEPT !.checked_in_at = TRUE] \in RoomBooking
      BY <1>t DEF RoomBooking
    <2>2. booking' \in [Bookings -> RoomBooking]
      BY <1>4, <2>1 DEF CheckInSaves, TypeOK
    <2>3. \A s \in {room[t.room].room_status, "OCCUPIED"} :
            [room[t.room] EXCEPT !.is_occupied = TRUE, !.room_status = s] \in Room
      BY <1>t DEF TypeOK, Room
    <2>4. /\ room' = [room EXCEPT ![t.room] = room'[t.room]]
          /\ \E s \in {room[t.room].room_status, "OCCUPIED"} :
               room'[t.room] = [room[t.room] EXCEPT !.is_occupied = TRUE, !.room_status = s]
      BY <1>4, <1>t DEF CheckInSaves, TypeOK, Room
    <2>5. room' \in [Rooms -> Room]
      BY <2>3, <2>4 DEF TypeOK
    <2>6. guest' \in [Bookings -> Rooms \cup {NoRoom}]
      BY <1>4, <1>t DEF CheckInSaves, TypeOK
    <2> QED
      BY <1>4, <2>2, <2>5, <2>6, EndType DEF CheckInSaves, TypeOK
  <1> QED
    BY <1>1, <1>2, <1>3, <1>4 DEF CheckIn

\* A check-in leaves the other transactions and their locks.
LEMMA CheckInOthersStay ==
  ASSUME TypeOK, NEW w \in Workers, CheckIn(w), NEW v \in Workers \ {w}
  PROVE  /\ txn'[v] = txn[v]
         /\ \A x \in Bookings \cup Rooms : lock[x] = v => lock'[x] = v
  <1>a. v # NoWorker /\ txn[w].booking \in Bookings /\ txn[w].room \in Rooms
    BY RoomsAssumption DEF TypeOK, Txn
  <1>1. CASE \E b \in Bookings : CheckInReads(w, b)
    BY <1>1 DEF CheckInReads, BeginsWith, TypeOK
  <1>2. CASE CheckInLocksBooking(w) \/ CheckInLocksRoom(w)
    BY <1>2, <1>a DEF CheckInLocksBooking, CheckInLocksRoom, Locks, TypeOK
  <1>3. CASE CheckInSaves(w)
    BY <1>3 DEF CheckInSaves, Ends, TypeOK
  <1> QED
    BY <1>1, <1>2, <1>3 DEF CheckIn

\* A check-in comes to save with its room locked.
LEMMA CheckInOwnLocks ==
  ASSUME TypeOK, NEW w \in Workers, CheckIn(w)
  PROVE  \/ txn'[w].op = "idle"
         \/ /\ txn'[w].op = "check_in" /\ txn'[w].at \in {"booking", "room", "saves"}
            /\ txn'[w].at = "saves" => lock'[txn'[w].room] = w
  <1> DEFINE t == txn[w]
             u == txn'[w]
  <1>t. t \in Txn /\ t.booking \in Bookings /\ t.room \in Rooms
    BY DEF TypeOK, Txn
  <1>i. Idle.op = "idle" /\ Idle \in Txn
    BY IdleType DEF Idle
  <1>1. ASSUME NEW b \in Bookings, CheckInReads(w, b)
        PROVE  u.op = "check_in" /\ u.at = "booking"
    <2>1. ASSUME NEW r, NEW seen, BeginsWith(w, "check_in", "booking", b, r, seen)
          PROVE  u.op = "check_in" /\ u.at = "booking"
      BY <2>1, <1>i DEF BeginsWith, TypeOK, Txn
    <2> QED
      BY <1>1, <2>1 DEF CheckInReads
  <1>2. CASE CheckInLocksBooking(w)
    <2>1. t.op = "check_in" /\ u = [t EXCEPT !.at = "room"]
      BY <1>2 DEF CheckInLocksBooking, TypeOK
    <2> QED
      BY <2>1, <1>t DEF Txn
  <1>3. CASE CheckInLocksRoom(w)
    <2>1. /\ t.op = "check_in" /\ u = [t EXCEPT !.at = "saves"]
          /\ lock' = [lock EXCEPT ![t.room] = w]
      BY <1>3 DEF CheckInLocksRoom, Locks, TypeOK
    <2>2. u.op = "check_in" /\ u.at = "saves" /\ u.room = t.room
      BY <2>1, <1>t DEF Txn
    <2>3. lock'[t.room] = w
      BY <2>1, <1>t DEF TypeOK
    <2> QED
      BY <2>2, <2>3
  <1>4. CASE CheckInSaves(w)
    BY <1>4, <1>i DEF CheckInSaves, Ends, TypeOK
  <1> QED
    BY <1>1, <1>2, <1>3, <1>4 DEF CheckIn

\* A check-in writes no room that another transaction has locked ...
LEMMA CheckInWritesWhatIsLocked ==
  ASSUME TypeOK, CheckInLocks, NEW w \in Workers, CheckIn(w), NEW r \in Rooms, room'[r] # room[r]
  PROVE  lock[r] = w
  <1>t. txn[w].room \in Rooms
    BY DEF TypeOK, Txn
  <1>1. CheckInSaves(w)
    BY DEF CheckIn, CheckInReads, BeginsWith, CheckInLocksBooking, CheckInLocksRoom, Locks
  <1>2. r = txn[w].room
    BY <1>1, <1>t DEF CheckInSaves, TypeOK
  <1> QED
    BY <1>1, <1>2 DEF CheckInSaves, CheckInLocks

\* ... and, of a row that is still as it was read, nothing that keeps a room.
LEMMA CheckInKeepsRooms ==
  ASSUME TypeOK, NEW w \in Workers, CheckIn(w), SavesWhatIsStored, NEW b \in Bookings
  PROVE  KeptRoom(b)' = KeptRoom(b)
  <1> DEFINE k == booking[b]
  <1>t. txn[w].booking \in Bookings /\ k \in RoomBooking
    BY DEF TypeOK, Txn
  <1>1. CASE booking' = booking
    BY <1>1 DEF KeptRoom, Blocking, InHouse
  <1>2. CASE CheckInSaves(w)
    <2>1. booking' = [booking EXCEPT ![txn[w].booking] =
                        [booking[txn[w].booking] EXCEPT !.checked_in_at = TRUE]]
      BY <1>2 DEF SavesWhatIsStored, CheckInSaves
    <2>2. booking'[b] \in {k, [k EXCEPT !.checked_in_at = TRUE]}
      BY <2>1, <1>t DEF TypeOK
    <2>3. Blocking([k EXCEPT !.checked_in_at = TRUE]) <=> Blocking(k)
      BY <1>t DEF Blocking, InHouse, RoomBooking
    <2>4. [k EXCEPT !.checked_in_at = TRUE].assigned_room = k.assigned_room
      BY <1>t DEF RoomBooking
    <2> QED
      BY <2>2, <2>3, <2>4 DEF KeptRoom
  <1> QED
    BY <1>1, <1>2 DEF CheckIn, CheckInReads, BeginsWith, CheckInLocksBooking, CheckInLocksRoom, Locks

\* Such a check-in keeps the invariant.
LEMMA CheckInInvariant ==
  ASSUME CInv, SavesWhatIsStored, NEW w \in Workers, CheckIn(w)
  PROVE  CInv'
  <1>0. TypeOK /\ TypeOK'
    BY CheckInTyped DEF CInv, IInv
  <1>a. \A v \in Workers : /\ txn[v].booking \in Bookings /\ txn[v].room \in Rooms
                           /\ txn[v].from \in Rooms /\ v # NoWorker
    BY <1>0, RoomsAssumption DEF TypeOK, Txn
  <1>b. \A v \in Workers \ {w} : /\ txn'[v] = txn[v]
                                 /\ \A x \in Bookings \cup Rooms : lock[x] = v => lock'[x] = v
    BY <1>0, CheckInOthersStay
  <1>c. txn'[w].op \in {"idle", "check_in"}
    BY <1>0, CheckInOwnLocks
  <1>1. LocksHeld'
    <2>1. ASSUME NEW v \in Workers
          PROVE  /\ HoldsBooking(txn'[v]) => lock'[txn'[v].booking] = v
                 /\ HoldsRoom(txn'[v]) => lock'[txn'[v].room] = v
                 /\ HoldsFrom(txn'[v]) => lock'[txn'[v].from] = v
      <3>1. CASE v = w
        BY <3>1, <1>c DEF HoldsBooking, HoldsRoom, HoldsFrom
      <3>2. CASE v # w
        BY <3>2, <1>a, <1>b DEF CInv, IInv, LocksHeld
      <3> QED
        BY <3>1, <3>2
    <2> QED
      BY <2>1 DEF LocksHeld
  <1>2. CheckInLocks'
    <2>1. ASSUME NEW v \in Workers, txn'[v].op = "check_in"
          PROVE  /\ txn'[v].at \in {"booking", "room", "saves"}
                 /\ txn'[v].at = "saves" => lock'[txn'[v].room] = v
      <3>1. CASE v = w
        BY <2>1, <3>1, <1>0, CheckInOwnLocks
      <3>2. CASE v # w
        BY <2>1, <3>2, <1>a, <1>b DEF CInv, CheckInLocks
      <3> QED
        BY <3>1, <3>2
    <2> QED
      BY <2>1 DEF CheckInLocks
  <1>k. \A b \in Bookings : KeptRoom(b)' = KeptRoom(b)
    BY <1>0, CheckInKeepsRooms
  <1>f. \A b \in Bookings, r \in Rooms : Conflicting(b, r)' = Conflicting(b, r)
    <2> SUFFICES ASSUME NEW b \in Bookings, NEW r \in Rooms
                 PROVE  Conflicting(b, r)' = Conflicting(b, r)
      OBVIOUS
    <2>1. Conflicting(b, r) = {c \in Bookings \ {b} : KeptRoom(c) = r /\ Overlaps(b, c)}
      BY <1>0, ConflictingIsKept
    <2>2. Conflicting(b, r)' = {c \in Bookings \ {b} : KeptRoom(c)' = r /\ Overlaps(b, c)}
      BY RoomsAssumption DEF Conflicting, KeptRoom, Overlaps
    <2>3. {c \in Bookings \ {b} : KeptRoom(c)' = r /\ Overlaps(b, c)}
            = {c \in Bookings \ {b} : KeptRoom(c) = r /\ Overlaps(b, c)}
      BY <1>k
    <2> QED
      BY <2>1, <2>2, <2>3
  <1>3. ChecksHold'
    <2>1. ASSUME NEW v \in Workers, Saving(txn'[v]),
                 NEW b \in Bookings, NEW r \in Rooms, b = txn'[v].booking, r = txn'[v].room
          PROVE  ReadyAndFree(b, r)'
      <3>1. v # w
        BY <2>1, <1>c DEF Saving
      <3>2. txn'[v] = txn[v] /\ ReadyAndFree(b, r)
        BY <2>1, <3>1, <1>b DEF CInv, IInv, ChecksHold
      <3>3. lock[r] = v
        BY <2>1, <3>2 DEF CInv, IInv, LocksHeld, Saving, HoldsRoom
      <3>4. room'[r] = room[r]
        BY <1>0, <3>1, <3>3, CheckInWritesWhatIsLocked DEF CInv
      <3> QED
        BY <1>f, <3>2, <3>4 DEF ReadyAndFree
    <2>2. \A v \in Workers : txn'[v].booking \in Bookings /\ txn'[v].room \in Rooms
      BY <1>0 DEF TypeOK, Txn
    <2>3. ASSUME NEW v \in Workers, Saving(txn[v])'
          PROVE  ReadyAndFree(txn[v].booking, txn[v].room)'
      <3>1. Saving(txn'[v])
        BY <2>3 DEF Saving
      <3>2. \A b \in Bookings, r \in Rooms :
              b = txn'[v].booking /\ r = txn'[v].room => ReadyAndFree(b, r)'
        BY <2>1, <3>1
      <3> QED
        BY <2>2, <3>2
    <2> QED
      BY <2>3 DEF ChecksHold
  <1>4. NoDoubleBooking'
    <2>1. \A b \in Bookings : KeptRoom(b)' \in Rooms \cup {NoRoom}
      BY <1>0 DEF KeptRoom, TypeOK, RoomBooking
    <2>2. ASSUME NEW b \in Bookings, NEW r \in Rooms, KeptRoom(b)' = r
          PROVE  Conflicting(b, r)' = {}
      BY <1>k, <1>f, <2>2, RoomsAssumption DEF CInv, IInv, NoDoubleBooking
    <2> QED
      BY <2>1, <2>2 DEF NoDoubleBooking
  <1> QED
    BY <1>0, <1>1, <1>2, <1>3, <1>4 DEF CInv, IInv

\* No other operation goes on with a check-in.
LEMMA StepIsNoCheckIn ==
  ASSUME TypeOK, NEW w \in Workers, Step(w)
  PROVE  txn'[w].op # "check_in"
  <1> DEFINE t == txn[w]
             u == txn'[w]
  <1>t. t \in Txn
    BY DEF TypeOK
  <1>i. Idle.op = "idle" /\ Idle \in Txn
    BY IdleType DEF Idle
  <1>1. CASE RequestBegins(w)
    <2>1. ASSUME NEW op \in {"assign", "move", "check_out"}, NEW k, NEW x,
                 Begins(w, op, "booking", k, x)
          PROVE  u.op = op
      BY <2>1, <1>i DEF Begins, TypeOK, Txn
    <2>2. ASSUME NEW op \in {"cancel", "clean"}, NEW k, NEW x, NEW seen,
                 BeginsWith(w, op, "saves", k, x, seen)
          PROVE  u.op = op
      BY <2>2, <1>i DEF BeginsWith, TypeOK, Txn
    <2> QED
      BY <1>1, <2>1, <2>2 DEF RequestBegins, AssignBegins, MoveBegins, CheckOutReads,
                              StaffCancelReads, HousekeepingReads
  <1>2. CASE RollsBack(w) \/ AssignSaves(w) \/ MoveSaves(w) \/ CheckOutSaves(w)
             \/ StaffCancelSaves(w) \/ HousekeepingSaves(w)
    BY <1>2, <1>i DEF RollsBack, AssignSaves, MoveSaves, CheckOutSaves, StaffCancelSaves,
                      HousekeepingSaves, Ends, TypeOK
  <1>3. CASE AssignLocksBooking(w) \/ AssignChecks(w) \/ MoveLocksFrom(w) \/ MoveLocksTo(w)
             \/ MoveChecks(w) \/ CheckOutLocksBooking(w) \/ CheckOutLocksRoom(w)
    <2>1. PICK at \in {"room", "checks", "saves"} : txn' = [txn EXCEPT ![w].at = at]
      BY <1>3 DEF AssignLocksBooking, AssignChecks, MoveLocksFrom, MoveLocksTo, MoveChecks,
                  CheckOutLocksBooking, CheckOutLocksRoom
    <2>2. u = [t EXCEPT !.at = at]
      BY <2>1 DEF TypeOK
    <2>3. u.op = t.op
      BY <2>2, <1>t DEF Txn
    <2> QED
      BY <1>3, <2>3 DEF AssignLocksBooking, AssignChecks, MoveLocksFrom, MoveLocksTo, MoveChecks,
                        CheckOutLocksBooking, CheckOutLocksRoom
  <1>4. CASE AssignLocksRoom(w)
    <2>1. t.op = "assign" /\ u = [t EXCEPT !.at = "conflicts", !.rest = Conflicting(t.booking, t.room)]
      BY <1>4 DEF AssignLocksRoom, TypeOK
    <2> QED
      BY <2>1, <1>t DEF Txn
  <1>5. CASE AssignLocksConflict(w)
    <2>1. PICK c \in t.rest : txn' = [txn EXCEPT ![w].rest = @ \ {c}]
      BY <1>5 DEF AssignLocksConflict
    <2>2. t.op = "assign" /\ u = [t EXCEPT !.rest = t.rest \ {c}]
      BY <1>5, <2>1 DEF AssignLocksConflict, TypeOK
    <2> QED
      BY <2>2, <1>t DEF Txn
  <1>6. CASE MoveLocksBooking(w)
    <2>1. /\ t.op = "move"
          /\ u = [t EXCEPT !.at = "from", !.from = booking[t.booking].assigned_room]
      BY <1>6 DEF MoveLocksBooking, TypeOK
    <2> QED
      BY <2>1, <1>t DEF Txn
  <1> QED
    BY <1>1, <1>2, <1>3, <1>4, <1>5, <1>6 DEF Step, Assigns, Moves, ChecksOut

\* Every step of the system with check-in keeps the invariant.
LEMMA CheckInNextInvariant ==
  ASSUME CInv, [CheckInNext /\ SavesWhatIsStored]_vars
  PROVE  CInv'
  <1>0. TypeOK /\ \A v \in Workers : txn[v].room \in Rooms
    BY DEF CInv, IInv, TypeOK, Txn
  <1>1. ASSUME NEW w \in Workers, Step(w)
        PROVE  CInv'
    <2>1. IInv'
      BY <1>1, StepInvariant DEF CInv
    <2>2. ASSUME NEW v \in Workers, txn'[v].op = "check_in"
          PROVE  /\ txn'[v].at \in {"booking", "room", "saves"}
                 /\ txn'[v].at = "saves" => lock'[txn'[v].room] = v
      <3>1. v # w
        BY <1>0, <1>1, <2>2, StepIsNoCheckIn
      <3>2. txn'[v] = txn[v] /\ \A x \in Bookings \cup Rooms : lock[x] = v => lock'[x] = v
        BY <1>0, <1>1, <3>1, OthersStay
      <3> QED
        BY <1>0, <2>2, <3>2 DEF CInv, CheckInLocks
    <2> QED
      BY <2>1, <2>2 DEF CInv, CheckInLocks
  <1>2. ASSUME NEW b \in Bookings, UnassignsRoom(b)
        PROVE  CInv'
    BY <1>2, UnassignInvariant DEF CInv, CheckInLocks, UnassignsRoom
  <1>3. ASSUME NEW w \in Workers, CheckIn(w), SavesWhatIsStored
        PROVE  CInv'
    BY <1>3, CheckInInvariant
  <1>4. CASE UNCHANGED vars
    BY <1>4, StutterInvariant DEF CInv, CheckInLocks, vars
  <1> QED
    BY <1>1, <1>2, <1>3, <1>4 DEF CheckInNext, Next, Step, CheckIn

\* NoDoubleBooking, with guests who arrive: whatever interleaves, two stays can
\* only get one room when a check-in saves a booking that another request has
\* written since BookingCheckInView read it; a view that reads the booking
\* again under its lock saves none.
THEOREM OnlyStaleCheckInsDoubleBook ==
  CheckInSpec /\ [][SavesWhatIsStored]_vars => []NoDoubleBooking
  <1>1. Init => CInv
    <2>1. Idle.op # "check_in"
      BY DEF Idle
    <2> QED
      BY <2>1, InitInvariant DEF CInv, CheckInLocks, Init
  <1>2. CInv => NoDoubleBooking
    BY DEF CInv, IInv
  <1>3. CInv /\ [CheckInNext]_vars /\ [SavesWhatIsStored]_vars => CInv'
    BY CheckInNextInvariant, StutterInvariant
  <1> QED
    BY <1>1, <1>2, <1>3, PTL DEF CheckInSpec

=============================================================================
