----------------------------- MODULE RoomTurnover -----------------------------
(***************************************************************************)
(* One room between two guests: housekeeping/services.py, the turnover     *)
(* endpoints of rooms/views.py and housekeeping/views.py, check-in,        *)
(* check-out and moves as far as they write the room, the inventory form   *)
(* and the healing command.                                                *)
(*                                                                         *)
(* set_room_status is a transaction, but the room it is given was read     *)
(* before it, without a lock: all that it validates is what the request    *)
(* read.  A request is therefore two steps, one that reads and decides and *)
(* one that saves; the bulk check-out of rooms, which reads them once and  *)
(* its guests or bookings later, takes three.  Only the check-out of a     *)
(* booking and moves lock the rows they read, so each of them is one step; *)
(* RoomAssignment has their locks and the other rooms, which are           *)
(* "elsewhere" here.                                                       *)
(***************************************************************************)
EXTENDS Naturals

CONSTANTS
  Bookings, Workers,
  Idle         \* a worker without a request

VARIABLES
  room,        \* the row of the room
  stay,        \* how far the stay of each booking is
  guests,      \* the bookings whose Guest rows name this room
  audit,       \* to_status of the RoomStatusEvent that was committed last
  desk,        \* what each worker is about to save, and whether the row it
               \* read is still the row there is
  healed,      \* healing has saved a row that was out of date (history)
  edited       \* the inventory form has been saved (history)

vars == <<room, stay, guests, audit, desk, healed, edited>>

Statuses == {"OCCUPIED", "CHECKOUT_DIRTY", "CLEANING_IN_PROGRESS", "CLEANED_UNINSPECTED",
             "MAINTENANCE_REQUIRED", "OUT_OF_ORDER", "READY_FOR_GUEST"}

RoomRows == [status : Statuses, occupied : BOOLEAN, maintenance : BOOLEAN]

\* A booking that is assigned to this room is due, in house or has left; one
\* that is in house elsewhere may be moved here.
Stages == {"due", "in_house", "left", "elsewhere"}

\* What a request saves: every column of a row, healing with the guests it
\* records; the columns that go with a status; the stay of a booking; nothing
\* yet, but what a bulk check-out has read; or an empty room, whose guests are
\* gone and whose status is CHECKOUT_DIRTY unless that is refused.
Requests ==
  [saves : {"cleaning", "form"}, row : RoomRows, fresh : BOOLEAN]
    \cup [saves : {"heal"}, row : RoomRows, records : SUBSET Bookings, fresh : BOOLEAN]
    \cup [saves : {"status"}, to : Statuses, occupied : BOOLEAN, fresh : BOOLEAN]
    \cup [saves : {"check_in"}, booking : Bookings, stage : Stages, seen : Statuses, fresh : BOOLEAN]
    \cup [saves : {"nothing"}, seen : Statuses, occupied : BOOLEAN, fresh : BOOLEAN]
    \cup [saves : {"clear"}, gone : SUBSET Bookings, dirties : BOOLEAN, fresh : BOOLEAN]

ASSUME IdleAssumption == Idle \notin Requests

Capabilities == {"override", "transition", "front_desk"}

-----------------------------------------------------------------------------
(* The state machine of a room and who may use it *)

CanTransition ==
  [OCCUPIED             |-> {"CHECKOUT_DIRTY"},
   CHECKOUT_DIRTY       |-> {"CLEANING_IN_PROGRESS", "CLEANED_UNINSPECTED",
                             "MAINTENANCE_REQUIRED", "READY_FOR_GUEST"},
   CLEANING_IN_PROGRESS |-> {"CLEANED_UNINSPECTED", "CHECKOUT_DIRTY",
                             "MAINTENANCE_REQUIRED", "READY_FOR_GUEST"},
   CLEANED_UNINSPECTED  |-> {"READY_FOR_GUEST", "CHECKOUT_DIRTY", "MAINTENANCE_REQUIRED"},
   MAINTENANCE_REQUIRED |-> {"CHECKOUT_DIRTY", "OUT_OF_ORDER", "READY_FOR_GUEST"},
   OUT_OF_ORDER         |-> {"CHECKOUT_DIRTY", "READY_FOR_GUEST"},
   READY_FOR_GUEST      |-> {"OCCUPIED", "MAINTENANCE_REQUIRED", "OUT_OF_ORDER"}]

\* The matrix of housekeeping: the cleaning workflow, and maintenance from
\* every status the state machine allows it from.
HousekeepingMayChange(from, to) ==
  \/ to = "MAINTENANCE_REQUIRED"
  \/ from = "CHECKOUT_DIRTY" /\ to = "CLEANING_IN_PROGRESS"
  \/ from = "CLEANING_IN_PROGRESS" /\ to \in {"CLEANED_UNINSPECTED", "CHECKOUT_DIRTY"}
  \/ from = "CLEANED_UNINSPECTED" /\ to = "READY_FOR_GUEST"

FrontDeskMayChange(from, to) ==
  \/ from = "OCCUPIED" /\ to \in {"CHECKOUT_DIRTY", "MAINTENANCE_REQUIRED"}
  \/ from = "READY_FOR_GUEST" /\ to = "MAINTENANCE_REQUIRED"

CanChangeRoomStatus(c, from, to) ==
  /\ to \in CanTransition[from]
  /\ \/ c = "override"
     \/ c = "transition" /\ HousekeepingMayChange(from, to)
     \/ c = "front_desk" /\ FrontDeskMayChange(from, to)

-----------------------------------------------------------------------------
(* Reading: a request decides on the row it has read *)

Begins(w, request) ==
  /\ desk[w] = Idle
  /\ desk' = [desk EXCEPT ![w] = request]
  /\ UNCHANGED <<room, stay, guests, audit, healed, edited>>

\* set_room_status up to its audit record: the transition is valid and the
\* staff member may make it.  CLEANING_IN_PROGRESS writes a turnover note, and
\* with it every column as read.
AsksFor(w, to, c) ==
  /\ CanChangeRoomStatus(c, room.status, to)
  /\ Begins(w, IF to = "CLEANING_IN_PROGRESS"
               THEN [saves |-> "cleaning", row |-> [room EXCEPT !.status = to], fresh |-> TRUE]
               ELSE [saves |-> "status", to |-> to, occupied |-> room.occupied, fresh |-> TRUE])

StartCleaning(w, c) == AsksFor(w, "CLEANING_IN_PROGRESS", c)

MarkCleaned(w, c) == AsksFor(w, "CLEANED_UNINSPECTED", c)

InspectRoom(w, c) ==
  /\ room.status = "CLEANED_UNINSPECTED"
  /\ \E to \in {"READY_FOR_GUEST", "CHECKOUT_DIRTY"} : AsksFor(w, to, c)

MarkMaintenance(w, c) == AsksFor(w, "MAINTENANCE_REQUIRED", c)

\* A room that was cleaned and inspected once is ready, another one dirty; the
\* times of that are not kept here.
CompleteMaintenance(w, c) ==
  /\ room.status = "MAINTENANCE_REQUIRED"
  /\ \E to \in {"READY_FOR_GUEST", "CHECKOUT_DIRTY"} : AsksFor(w, to, c)

\* update_status, and manager_override for those who may override.
UpdateStatus(w, c) == \E to \in Statuses : AsksFor(w, to, c)

\* Mutant: the readiness of the room is not asked for.
CheckInReadsUnprepared(w, b, c) ==
  /\ stay[b] # "elsewhere"
  /\ room.status = "OCCUPIED" \/ CanChangeRoomStatus(c, room.status, "OCCUPIED")
  /\ Begins(w, [saves |-> "check_in", booking |-> b, stage |-> stay[b],
                seen |-> room.status, fresh |-> TRUE])

\* validate_checkin: whoever was checked in before passes, also after the
\* check-out; then set_room_status must accept OCCUPIED from the status read.
CheckInReads(w, b, c) ==
  /\ stay[b] # "elsewhere"
  /\ stay[b] = "due" => room.status = "READY_FOR_GUEST"
  /\ room.status = "OCCUPIED" \/ CanChangeRoomStatus(c, room.status, "OCCUPIED")
  /\ Begins(w, [saves |-> "check_in", booking |-> b, stage |-> stay[b],
                seen |-> room.status, fresh |-> TRUE])

\* PATCH of a room: any of the writable columns, and all the others as read.
FormReads(w) ==
  \E new \in {[room EXCEPT !.status = s] : s \in Statuses}
               \cup {[room EXCEPT !.occupied = ~@], [room EXCEPT !.maintenance = ~@]} :
    Begins(w, [saves |-> "form", row |-> new, fresh |-> TRUE])

\* heal_room_occupancy: the flag follows the guests recorded in the room.
HealRoomReads(w) ==
  /\ room.occupied # (guests # {})
  /\ Begins(w, [saves |-> "heal", row |-> [room EXCEPT !.occupied = ~@],
                records |-> {}, fresh |-> TRUE])

\* heal_booking_inhouse_guests, for a booking that was ever checked in and has
\* no PRIMARY guest: one is recorded, and the room is saved as occupied.
HealGuestReads(w, b) ==
  /\ stay[b] \in {"in_house", "left"}
  /\ Begins(w, [saves |-> "heal", row |-> [room EXCEPT !.occupied = TRUE],
                records |-> {b}, fresh |-> TRUE])

\* checkout_rooms reads all its rooms first, by a plain filter.
BulkReads(w) ==
  Begins(w, [saves |-> "nothing", seen |-> room.status, occupied |-> room.occupied, fresh |-> TRUE])

\* It goes on with what it has read.
GoesOn(w, request) ==
  /\ desk[w] # Idle /\ desk[w].saves = "nothing"
  /\ desk' = [desk EXCEPT ![w] = request]
  /\ UNCHANGED <<room, stay, guests, audit, healed, edited>>

\* Mutant: the status of a bulk check-out is not validated.
CanBecomeAnyDirty(from) == from # "CHECKOUT_DIRTY"
CanBecomeDirty(from) == "CHECKOUT_DIRTY" \in CanTransition[from]

\* The destructive one deletes the guests it finds; set_room_status may be
\* refused to whoever asks for it.
DeletesGuests(w) ==
  \E permitted \in BOOLEAN :
    GoesOn(w, [saves |-> "clear", gone |-> guests, fresh |-> desk[w].fresh,
               dirties |-> permitted /\ CanBecomeDirty(desk[w].seen)])

\* The other one checks out the bookings it finds, as CheckOut does.  If there
\* are none and the room was read as occupied it clears the room, in the name
\* of nobody whose permission would be asked.
LooksForBookings(w) ==
  GoesOn(w, IF desk[w].occupied /\ \A b \in Bookings : stay[b] \in {"left", "elsewhere"}
            THEN [saves |-> "clear", gone |-> {}, fresh |-> desk[w].fresh,
                  dirties |-> CanBecomeDirty(desk[w].seen)]
            ELSE Idle)

-----------------------------------------------------------------------------
(* Saving *)

InHouse == {b \in Bookings : stay[b] = "in_house"}

\* The row that every other request has read is no longer the row there is.
Outdated(v) == IF desk[v] = Idle THEN Idle ELSE [desk[v] EXCEPT !.fresh = FALSE]

Answers(w) == desk' = [v \in Workers |-> IF v = w THEN Idle ELSE Outdated(v)]

\* Mutant: the maintenance flags are not among the fields to update.
SavedWithoutFlags(to, occupied) ==
  IF to = "MAINTENANCE_REQUIRED" THEN [room EXCEPT !.status = to, !.maintenance = TRUE]
                                 ELSE [room EXCEPT !.status = to]

\* The columns set_room_status saves with a status: only READY_FOR_GUEST clears
\* the maintenance flag, and it leaves the occupancy as read to a stay in house.
SavedWith(to, occupied) ==
  CASE to = "MAINTENANCE_REQUIRED" -> [room EXCEPT !.status = to, !.maintenance = TRUE]
    [] to = "READY_FOR_GUEST" -> [status |-> to, maintenance |-> FALSE,
                                  occupied |-> occupied /\ InHouse # {}]
    [] OTHER -> [room EXCEPT !.status = to]

SetRoomStatus(w) ==
  /\ desk[w] # Idle /\ desk[w].saves = "status"
  /\ room' = SavedWith(desk[w].to, desk[w].occupied)
  /\ audit' = desk[w].to
  /\ Answers(w)
  /\ UNCHANGED <<stay, guests, healed, edited>>

\* The whole row, as it was read and changed since.
SaveRow(w) ==
  /\ desk[w] # Idle /\ desk[w].saves \in {"cleaning", "form"}
  /\ room' = desk[w].row
  /\ audit' = IF desk[w].saves = "cleaning" THEN desk[w].row.status ELSE audit
  /\ edited' = (edited \/ desk[w].saves = "form")
  /\ Answers(w)
  /\ UNCHANGED <<stay, guests, healed>>

HealSaves(w) ==
  /\ desk[w] # Idle /\ desk[w].saves = "heal"
  /\ room' = desk[w].row
  /\ guests' = guests \cup desk[w].records
  /\ healed' = (healed \/ ~desk[w].fresh)
  /\ Answers(w)
  /\ UNCHANGED <<stay, audit, edited>>

\* The flag of the room is saved, and stays saved if the status is refused.
ClearRoom(w) ==
  /\ desk[w] # Idle /\ desk[w].saves = "clear"
  /\ room' = [room EXCEPT !.occupied = FALSE,
                          !.status = IF desk[w].dirties THEN "CHECKOUT_DIRTY" ELSE @]
  /\ audit' = IF desk[w].dirties THEN "CHECKOUT_DIRTY" ELSE audit
  /\ guests' = guests \ desk[w].gone
  /\ Answers(w)
  /\ UNCHANGED <<stay, healed, edited>>

\* booking.save() writes the stay as read, with checked_in_at: a booking that
\* had left keeps its checked_out_at, and its guests return all the same.
CheckInSaves(w) ==
  LET b == desk[w].booking
      occupied == desk[w].seen = "OCCUPIED"
  IN  /\ desk[w] # Idle /\ desk[w].saves = "check_in"
      /\ stay' = [stay EXCEPT ![b] = IF desk[w].stage = "left" THEN "left" ELSE "in_house"]
      /\ guests' = guests \cup {b}
      /\ room' = [room EXCEPT !.occupied = TRUE, !.status = IF occupied THEN @ ELSE "OCCUPIED"]
      /\ audit' = IF occupied THEN audit ELSE "OCCUPIED"
      /\ Answers(w)
      /\ UNCHANGED <<healed, edited>>

-----------------------------------------------------------------------------
(* Transactions that lock what they read *)

\* set_room_status for the system, after the flag of the locked row was saved:
\* the same status again is accepted and leaves no audit record.
Accepts(to) == to = room.status \/ to \in CanTransition[room.status]

\* Mutant: the status is written past set_room_status.
BecomesUnaudited(to, occupied) ==
  /\ room' = [room EXCEPT !.status = to, !.occupied = occupied]
  /\ desk' = [v \in Workers |-> Outdated(v)]
  /\ UNCHANGED <<healed, edited, audit>>

Becomes(to, occupied) ==
  /\ room' = [room EXCEPT !.status = to, !.occupied = occupied]
  /\ audit' = IF to = room.status THEN audit ELSE to
  /\ desk' = [v \in Workers |-> Outdated(v)]
  /\ UNCHANGED <<healed, edited>>

\* checkout_booking: the room passes to housekeeping, unless guests of another
\* booking are recorded in it.
CheckOut(b) ==
  /\ stay[b] \in {"due", "in_house"}
  /\ guests \subseteq {b}
  /\ Accepts("CHECKOUT_DIRTY")
  /\ stay' = [stay EXCEPT ![b] = "left"]
  /\ guests' = {}
  /\ Becomes("CHECKOUT_DIRTY", FALSE)

\* Mutant: only the room of the booking is cleared.
MoveOutClears(b) ==
  /\ stay[b] = "in_house"
  /\ Accepts("CHECKOUT_DIRTY")
  /\ stay' = [stay EXCEPT ![b] = "cleared"]
  /\ Becomes("CHECKOUT_DIRTY", FALSE)
  /\ UNCHANGED guests

\* A move leaves Guest.room what it was.
MoveOut(b) ==
  /\ stay[b] = "in_house"
  /\ Accepts("CHECKOUT_DIRTY")
  /\ stay' = [stay EXCEPT ![b] = "elsewhere"]
  /\ Becomes("CHECKOUT_DIRTY", FALSE)
  /\ UNCHANGED guests

\* The target of a move is an available room, and an empty one.
MoveIn(b) ==
  /\ stay[b] = "elsewhere" /\ InHouse = {}
  /\ room.status = "READY_FOR_GUEST" /\ ~room.maintenance /\ ~room.occupied
  /\ stay' = [stay EXCEPT ![b] = "in_house"]
  /\ Becomes("OCCUPIED", TRUE)
  /\ UNCHANGED guests

\* heal_booking_inhouse_guests: the guests of a booking that was ever checked in
\* are recorded in its room, the departed ones too.  No room is written, unless
\* the PRIMARY one is missing.
HealGuests(b) ==
  /\ stay[b] # "due"
  /\ guests' = IF stay[b] = "elsewhere" THEN guests \ {b} ELSE guests \cup {b}
  /\ UNCHANGED <<room, stay, audit, desk, healed, edited>>

-----------------------------------------------------------------------------
(* Specification *)

Init ==
  /\ room = [status |-> "READY_FOR_GUEST", occupied |-> FALSE, maintenance |-> FALSE]
  /\ stay \in [Bookings -> {"due", "elsewhere"}]
  /\ guests = {}
  /\ audit = "READY_FOR_GUEST"
  /\ desk = [w \in Workers |-> Idle]
  /\ healed = FALSE
  /\ edited = FALSE

Next ==
  \/ \E w \in Workers, c \in Capabilities :
       \/ StartCleaning(w, c) \/ MarkCleaned(w, c) \/ InspectRoom(w, c)
       \/ MarkMaintenance(w, c) \/ CompleteMaintenance(w, c) \/ UpdateStatus(w, c)
       \/ \E b \in Bookings : CheckInReads(w, b, c)
  \/ \E w \in Workers :
       \/ FormReads(w) \/ HealRoomReads(w) \/ BulkReads(w)
       \/ \E b \in Bookings : HealGuestReads(w, b)
       \/ DeletesGuests(w) \/ LooksForBookings(w)
       \/ SetRoomStatus(w) \/ SaveRow(w) \/ HealSaves(w) \/ CheckInSaves(w) \/ ClearRoom(w)
  \/ \E b \in Bookings : CheckOut(b) \/ MoveOut(b) \/ MoveIn(b) \/ HealGuests(b)

Spec == Init /\ [][Next]_vars

-----------------------------------------------------------------------------
(* Properties *)

TypeOK ==
  /\ room \in RoomRows
  /\ stay \in [Bookings -> Stages]
  /\ guests \subseteq Bookings
  /\ audit \in Statuses
  /\ desk \in [Workers -> Requests \cup {Idle}]
  /\ healed \in BOOLEAN /\ edited \in BOOLEAN

\* "Ready rooms cannot have maintenance issues": however many requests save
\* rows that are out of date, only the inventory form makes a room with a
\* maintenance flag READY_FOR_GUEST.
ReadyRoomsNeedNoMaintenance ==
  ~edited => (room.status = "READY_FOR_GUEST" => ~room.maintenance)

\* A request ends that saves what another one has overwritten.
SavesOutdated == \E w \in Workers : desk[w] # Idle /\ ~desk[w].fresh /\ desk'[w] = Idle

\* The inventory form is saved.
SavesForm == \E w \in Workers : desk[w] # Idle /\ desk[w].saves = "form" /\ desk'[w] = Idle

\* validate_checkin and the search for a room to move to: whatever was saved
\* before, a guest comes into a room with a maintenance flag only if the
\* check-in itself overwrites what was written since it read the room.
GuestsComeIntoSoundRooms ==
  [][\A b \in Bookings :
       ~edited /\ stay[b] # "in_house" /\ stay'[b] = "in_house" /\ ~SavesOutdated
         => ~room'.maintenance]_vars

\* "Audit trail creation": however requests race, bulk check-outs included, the
\* audit trail ends with the status the room has, unless healing has saved a
\* row that was out of date or the form has written the status.
AuditTrailNamesTheStatus == ~healed /\ ~edited => audit = room.status

\* "Validation of transitions": a step that takes the status past the state
\* machine itself saves what another request has overwritten, or is the form;
\* what was saved out of date before excuses nothing.
StatusFollowsTheStateMachine ==
  [][room'.status # room.status /\ ~SavesOutdated /\ ~SavesForm
       => room'.status \in CanTransition[room.status]]_vars

=============================================================================
