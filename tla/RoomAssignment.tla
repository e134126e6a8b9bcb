--------------------------- MODULE RoomAssignment ---------------------------
(***************************************************************************)
(* Which booking has which room: RoomAssignmentService, RoomMoveService,   *)
(* check-out and cancellation, as transactions that lock rows one by one.  *)
(* RoomCheckIn adds check-in.                                              *)
(*                                                                         *)
(* The database runs at READ COMMITTED.  SELECT ... FOR UPDATE and UPDATE  *)
(* take the lock of a row and wait while another transaction has it;       *)
(* queries read what is committed and wait for nothing.  What a            *)
(* transaction writes appears when it commits, and then its locks are      *)
(* released.  Staff cancellation reads the booking before it locks it, and  *)
(* saves every column of what it read.                                     *)
(*                                                                         *)
(* Rooms are all of the right hotel and type, active and large enough, and *)
(* staff have the capabilities they need.  Cleaning is one step here.      *)
(***************************************************************************)
EXTENDS Naturals

CONSTANTS
  Bookings,     \* rows of RoomBooking
  Rooms,        \* rows of Room
  Workers,      \* web workers
  Operations,   \* the requests that are made (all, or a bound)
  Stay,         \* the dates of each booking
  NoRoom,       \* a NULL assigned_room
  NoWorker      \* a row that nobody has locked

ASSUME RoomsAssumption ==
  /\ Bookings # {} /\ Rooms # {} /\ Bookings \cap Rooms = {}
  /\ NoRoom \notin Rooms /\ NoWorker \notin Workers
  /\ Stay \in [Bookings -> [check_in : Nat, check_out : Nat]]

VARIABLES
  booking,   \* the RoomBooking table
  room,      \* the Room table
  guest,     \* Guest.room of the party of each booking
  lock,      \* who has locked each row
  txn        \* the request that each worker runs

vars == <<booking, room, guest, lock, txn>>

-----------------------------------------------------------------------------
(* Tables *)

RoomBooking ==
  [status : {"CONFIRMED", "CANCELLED", "COMPLETED"},
   assigned_room : Rooms \cup {NoRoom},
   checked_in_at : BOOLEAN, checked_out_at : BOOLEAN]

Room ==
  [room_status : {"READY_FOR_GUEST", "OCCUPIED", "CHECKOUT_DIRTY"},
   is_occupied : BOOLEAN]

Confirmed == [status |-> "CONFIRMED", assigned_room |-> NoRoom,
              checked_in_at |-> FALSE, checked_out_at |-> FALSE]
Arrived(r) == [Confirmed EXCEPT !.assigned_room = r, !.checked_in_at = TRUE]

Ready == [room_status |-> "READY_FOR_GUEST", is_occupied |-> FALSE]
Occupied == [room_status |-> "OCCUPIED", is_occupied |-> TRUE]
Left == [room_status |-> "CHECKOUT_DIRTY", is_occupied |-> FALSE]

\* A request under way: the booking and the room it is about, the room that a
\* move leaves, the bookings it has still to lock, what it read without a lock.
Txn ==
  [op : {"idle", "assign", "move", "check_out", "check_in", "cancel", "clean"},
   at : {"idle", "booking", "from", "room", "conflicts", "checks", "saves"},
   booking : Bookings, room : Rooms, from : Rooms,
   rest : SUBSET Bookings, read : RoomBooking, seen : BOOLEAN]

Idle == [op |-> "idle", at |-> "idle", booking |-> CHOOSE b \in Bookings : TRUE,
         room |-> CHOOSE r \in Rooms : TRUE, from |-> CHOOSE r \in Rooms : TRUE,
         rest |-> {}, read |-> Confirmed, seen |-> FALSE]

TypeOK ==
  /\ booking \in [Bookings -> RoomBooking]
  /\ room \in [Rooms -> Room]
  /\ guest \in [Bookings -> Rooms \cup {NoRoom}]
  /\ lock \in [Bookings \cup Rooms -> Workers \cup {NoWorker}]
  /\ txn \in [Workers -> Txn]

\* Some guests have arrived, every party in a room of its own.
Init ==
  /\ booking \in [Bookings -> {Confirmed} \cup {Arrived(r) : r \in Rooms}]
  /\ \A b, c \in Bookings :
       b # c /\ booking[b].checked_in_at /\ booking[c].checked_in_at
         => booking[b].assigned_room # booking[c].assigned_room
  /\ room = [r \in Rooms |->
               IF \E b \in Bookings : booking[b].assigned_room = r THEN Occupied ELSE Ready]
  /\ guest = [b \in Bookings |-> booking[b].assigned_room]
  /\ lock = [x \in Bookings \cup Rooms |-> NoWorker]
  /\ txn = [w \in Workers |-> Idle]

-----------------------------------------------------------------------------
(* Who blocks whom *)

InHouse(k) == k.checked_in_at /\ ~k.checked_out_at

Blocking(k) ==
  /\ (k.status = "CONFIRMED" /\ ~k.checked_out_at) \/ InHouse(k)
  /\ k.status \notin {"CANCELLED", "COMPLETED"}

\* The room, if any, that is kept for b.
KeptRoom(b) == IF Blocking(booking[b]) THEN booking[b].assigned_room ELSE NoRoom

Overlaps(b, c) ==
  Stay[c].check_in < Stay[b].check_out /\ Stay[c].check_out > Stay[b].check_in

Conflicting(b, r) ==
  {c \in Bookings \ {b} :
     booking[c].assigned_room = r /\ Overlaps(b, c) /\ Blocking(booking[c])}

-----------------------------------------------------------------------------
(* Transactions *)

Begins(w, op, at, b, r) ==
  /\ op \in Operations
  /\ txn[w].op = "idle"
  /\ txn' = [txn EXCEPT ![w] = [Idle EXCEPT !.op = op, !.at = at, !.booking = b, !.room = r]]
  /\ UNCHANGED <<booking, room, guest, lock>>

\* Worker w reads the row of b, without a lock, and `seen' of its room.
BeginsWith(w, op, at, b, r, seen) ==
  /\ op \in Operations
  /\ txn[w].op = "idle"
  /\ txn' = [txn EXCEPT ![w] = [Idle EXCEPT !.op = op, !.at = at, !.booking = b, !.room = r,
                                            !.read = booking[b], !.seen = seen]]
  /\ UNCHANGED <<booking, room, guest, lock>>

Locks(w, x) ==
  /\ lock[x] = NoWorker
  /\ lock' = [lock EXCEPT ![x] = w]
  /\ UNCHANGED <<booking, room, guest>>

\* The transaction is over and its locks are released.
Ends(w) ==
  /\ txn' = [txn EXCEPT ![w] = Idle]
  /\ lock' = [x \in Bookings \cup Rooms |-> IF lock[x] = w THEN NoWorker ELSE lock[x]]

\* Refused by a check, chosen as the victim of a deadlock, or cut off.
RollsBack(w) ==
  /\ txn[w].op # "idle"
  /\ Ends(w)
  /\ UNCHANGED <<booking, room, guest>>

\* UPDATE of a single row outside a transaction waits for its lock, too.
Unlocked(x) == lock[x] = NoWorker

-----------------------------------------------------------------------------
(* RoomAssignmentService.assign_room_atomic *)

AssignBegins(w, b, r) == Begins(w, "assign", "booking", b, r)

AssignLocksBooking(w) ==
  /\ txn[w].op = "assign" /\ txn[w].at = "booking"
  /\ Locks(w, txn[w].booking)
  /\ txn' = [txn EXCEPT ![w].at = "room"]

\* Mutant: Room.objects.get without select_for_update.
AssignReadsRoom(w) ==
  /\ txn[w].op = "assign" /\ txn[w].at = "room"
  /\ txn' = [txn EXCEPT ![w].at = "conflicts",
                        ![w].rest = Conflicting(txn[w].booking, txn[w].room)]
  /\ UNCHANGED <<booking, room, guest, lock>>

\* With the room locked, it lists the bookings that stand in the way ...
AssignLocksRoom(w) ==
  /\ txn[w].op = "assign" /\ txn[w].at = "room"
  /\ Locks(w, txn[w].room)
  /\ txn' = [txn EXCEPT ![w].at = "conflicts",
                        ![w].rest = Conflicting(txn[w].booking, txn[w].room)]

\* ... and locks them; one that no longer stands in the way by the time its
\* lock is free is passed over.
AssignLocksConflict(w) ==
  /\ txn[w].op = "assign" /\ txn[w].at = "conflicts"
  /\ \E c \in txn[w].rest :
       /\ lock[c] = NoWorker
       /\ lock' = IF c \in Conflicting(txn[w].booking, txn[w].room)
                    THEN [lock EXCEPT ![c] = w] ELSE lock
       /\ txn' = [txn EXCEPT ![w].rest = @ \ {c}]
  /\ UNCHANGED <<booking, room, guest>>

\* assert_room_can_be_assigned
CanBeAssigned(b, r) ==
  /\ booking[b].status = "CONFIRMED"
  /\ ~InHouse(booking[b])
  /\ room[r].room_status = "READY_FOR_GUEST"
  /\ Conflicting(b, r) = {}

AssignChecks(w) ==
  /\ txn[w].op = "assign" /\ txn[w].at = "conflicts" /\ txn[w].rest = {}
  /\ CanBeAssigned(txn[w].booking, txn[w].room)
  /\ txn' = [txn EXCEPT ![w].at = "saves"]
  /\ UNCHANGED <<booking, room, guest, lock>>

AssignSaves(w) ==
  /\ txn[w].op = "assign" /\ txn[w].at = "saves"
  /\ booking' = [booking EXCEPT ![txn[w].booking].assigned_room = txn[w].room]
  /\ Ends(w)
  /\ UNCHANGED <<room, guest>>

-----------------------------------------------------------------------------
(* UnassignRoomView: one lock, one row *)

UnassignsRoom(b) ==
  /\ "unassign" \in Operations
  /\ Unlocked(b)
  /\ ~InHouse(booking[b]) /\ booking[b].assigned_room # NoRoom
  /\ booking' = [booking EXCEPT ![b].assigned_room = NoRoom]
  /\ UNCHANGED <<room, guest, lock, txn>>

-----------------------------------------------------------------------------
(* RoomMoveService.move_room_atomic *)

MoveBegins(w, b, r) == Begins(w, "move", "booking", b, r)

MoveLocksBooking(w) ==
  LET b == txn[w].booking
  IN  /\ txn[w].op = "move" /\ txn[w].at = "booking"
      /\ InHouse(booking[b]) /\ booking[b].assigned_room # NoRoom
      /\ Locks(w, b)
      /\ txn' = [txn EXCEPT ![w].at = "from", ![w].from = booking[b].assigned_room]

MoveLocksFrom(w) ==
  /\ txn[w].op = "move" /\ txn[w].at = "from"
  /\ Locks(w, txn[w].from)
  /\ txn' = [txn EXCEPT ![w].at = "room"]

\* A move to the room the guests are in changes nothing.
MoveLocksTo(w) ==
  /\ txn[w].op = "move" /\ txn[w].at = "room"
  /\ txn[w].room # txn[w].from
  /\ Locks(w, txn[w].room)
  /\ txn' = [txn EXCEPT ![w].at = "checks"]

\* set_room_status refuses READY_FOR_GUEST -> CHECKOUT_DIRTY.
CanTurnDirty(r) == room[r].room_status # "READY_FOR_GUEST"

CanMoveTo(b, r) ==
  /\ ~room[r].is_occupied
  /\ room[r].room_status = "READY_FOR_GUEST"
  /\ Conflicting(b, r) = {}

MoveChecks(w) ==
  /\ txn[w].op = "move" /\ txn[w].at = "checks"
  /\ CanMoveTo(txn[w].booking, txn[w].room)
  /\ txn' = [txn EXCEPT ![w].at = "saves"]
  /\ UNCHANGED <<booking, room, guest, lock>>

\* Mutant: the room that the guests leave is given back as it is.
MoveSavesClean(w) ==
  /\ txn[w].op = "move" /\ txn[w].at = "saves"
  /\ CanTurnDirty(txn[w].from)
  /\ booking' = [booking EXCEPT ![txn[w].booking].assigned_room = txn[w].room]
  /\ room' = [room EXCEPT ![txn[w].from] = Ready, ![txn[w].room] = Occupied]
  /\ Ends(w)
  /\ UNCHANGED guest

\* The Guest rows stay in the room they left.
MoveSaves(w) ==
  /\ txn[w].op = "move" /\ txn[w].at = "saves"
  /\ CanTurnDirty(txn[w].from)
  /\ booking' = [booking EXCEPT ![txn[w].booking].assigned_room = txn[w].room]
  /\ room' = [room EXCEPT ![txn[w].from] = Left, ![txn[w].room] = Occupied]
  /\ Ends(w)
  /\ UNCHANGED guest

-----------------------------------------------------------------------------
(* checkout_booking, from the booking page *)

\* Mutant: checkout_booking without the conditions it starts with.
CheckOutReadsAny(w, b) == Begins(w, "check_out", "booking", b, booking[b].assigned_room)

\* The room is taken from the row as it was read, before any lock.
CheckOutReads(w, b) ==
  /\ InHouse(booking[b]) /\ booking[b].assigned_room # NoRoom
  /\ Begins(w, "check_out", "booking", b, booking[b].assigned_room)

CheckOutLocksBooking(w) ==
  /\ txn[w].op = "check_out" /\ txn[w].at = "booking"
  /\ Locks(w, txn[w].booking)
  /\ txn' = [txn EXCEPT ![w].at = "room"]

CheckOutLocksRoom(w) ==
  /\ txn[w].op = "check_out" /\ txn[w].at = "room"
  /\ Locks(w, txn[w].room)
  /\ txn' = [txn EXCEPT ![w].at = "saves"]

\* The guests of the booking leave, wherever they are; with anybody else's
\* guests in the room the check-out is refused.
CheckOutSaves(w) ==
  LET b == txn[w].booking
      r == txn[w].room
  IN  /\ txn[w].op = "check_out" /\ txn[w].at = "saves"
      /\ \A c \in Bookings \ {b} : guest[c] # r
      /\ CanTurnDirty(r)
      /\ guest' = [guest EXCEPT ![b] = NoRoom]
      /\ booking' = [booking EXCEPT ![b].checked_out_at = TRUE, ![b].status = "COMPLETED"]
      /\ room' = [room EXCEPT ![r] = Left]
      /\ Ends(w)

-----------------------------------------------------------------------------
(* StaffBookingCancelView *)

StaffCancelReads(w, b) ==
  /\ booking[b].status \notin {"CANCELLED", "COMPLETED"}
  /\ BeginsWith(w, "cancel", "saves", b, Idle.room, FALSE)

StaffCancelSaves(w) ==
  /\ txn[w].op = "cancel"
  /\ Unlocked(txn[w].booking)
  /\ booking' = [booking EXCEPT ![txn[w].booking] = [txn[w].read EXCEPT !.status = "CANCELLED"]]
  /\ Ends(w)
  /\ UNCHANGED <<room, guest>>

-----------------------------------------------------------------------------
(* Housekeeping: set_room_status READY_FOR_GUEST, on a room read without a lock *)

HousekeepingReads(w, r) ==
  /\ room[r].room_status = "CHECKOUT_DIRTY"
  /\ BeginsWith(w, "clean", "saves", Idle.booking, r,
                /\ room[r].is_occupied
                /\ \E b \in Bookings : booking[b].assigned_room = r /\ InHouse(booking[b]))

HousekeepingSaves(w) ==
  /\ txn[w].op = "clean"
  /\ Unlocked(txn[w].room)
  /\ room' = [room EXCEPT ![txn[w].room] =
                [room_status |-> "READY_FOR_GUEST", is_occupied |-> txn[w].seen]]
  /\ Ends(w)
  /\ UNCHANGED <<booking, guest>>

-----------------------------------------------------------------------------
(* Specification *)

Assigns(w) ==
  \/ AssignLocksBooking(w) \/ AssignLocksRoom(w) \/ AssignLocksConflict(w)
  \/ AssignChecks(w) \/ AssignSaves(w)

Moves(w) ==
  \/ MoveLocksBooking(w) \/ MoveLocksFrom(w) \/ MoveLocksTo(w)
  \/ MoveChecks(w) \/ MoveSaves(w)

ChecksOut(w) == CheckOutLocksBooking(w) \/ CheckOutLocksRoom(w) \/ CheckOutSaves(w)

RequestBegins(w) ==
  \/ \E b \in Bookings, r \in Rooms : AssignBegins(w, b, r) \/ MoveBegins(w, b, r)
  \/ \E b \in Bookings : CheckOutReads(w, b) \/ StaffCancelReads(w, b)
  \/ \E r \in Rooms : HousekeepingReads(w, r)

Next ==
  \/ \E w \in Workers :
       \/ RequestBegins(w) \/ RollsBack(w)
       \/ Assigns(w) \/ Moves(w) \/ ChecksOut(w)
       \/ StaffCancelSaves(w) \/ HousekeepingSaves(w)
  \/ \E b \in Bookings : UnassignsRoom(b)

Spec == Init /\ [][Next]_vars

-----------------------------------------------------------------------------
(* Properties *)

\* docs/backend/14_services_and_business_rules.md:26, "No date overlap with
\* other blocking bookings for same room": whatever assignments, moves,
\* check-outs and cancellations race, no two stays that overlap have one room.
NoDoubleBooking ==
  \A b \in Bookings : KeptRoom(b) # NoRoom => Conflicting(b, KeptRoom(b)) = {}

\* The locked transactions look like single steps of RoomCalendar, each taken
\* at a moment at which the room was ready and free.
Calendar == INSTANCE RoomCalendar WITH
  kept <- [b \in Bookings |-> KeptRoom(b)],
  fit <- {r \in Rooms : room[r].room_status = "READY_FOR_GUEST"}

ImplementsCalendar == Calendar!Spec

=============================================================================
