------------------------------- MODULE Overstay -------------------------------
(***************************************************************************)
(* Guests who do not leave: flag_overstay_bookings, the acknowledgement    *)
(* and the extension of hotel/overstay_views.py, check-out, and the        *)
(* pre-check-in form that a guest may still send.  Rooms do not change     *)
(* here: RoomAssignment is about them.                                     *)
(*                                                                         *)
(* The command and the extension lock the booking, the command by skipping *)
(* those that others have locked.  An acknowledgement locks nothing and    *)
(* saves every column of the incident it has read; the form saves every    *)
(* column of the booking it has read.  UPDATE waits for the row lock.      *)
(***************************************************************************)
EXTENDS Naturals, Sequences, FiniteSets

CONSTANTS
  Bookings,
  CheckIn, CheckOut,  \* the dates that were booked
  RoomOf,             \* assigned_room
  TotalAmount,        \* total_amount, in cents
  Arrived,            \* bookings that are checked in
  Forms,              \* bookings whose pre-check-in form is still open
  Clerks,             \* requests of staff
  Keys, NoKey,        \* Idempotency-Key headers
  Nights, LaterBy,    \* bounds: add_nights, and new_checkout_date in days later
  MaxExtensions,      \* bound: extensions of each booking, asked for or made
  MaxDismissed,       \* bound: dismissed incidents of each booking
  DayLength, CheckOutHour,  \* hours of a day, and the deadline in UTC, which is on
                            \* the date of check-out: not in the far east or west
  LastHour,           \* bound: the clock
  Idle, Blank, Sent

ASSUME OverstayAssumption ==
  /\ CheckIn \in [Bookings -> Nat] /\ CheckOut \in [Bookings -> Nat]
  /\ \A b \in Bookings : CheckIn[b] < CheckOut[b]
  /\ \A b, o \in Bookings : b # o /\ RoomOf[b] = RoomOf[o]
                              => CheckOut[b] <= CheckIn[o] \/ CheckOut[o] <= CheckIn[b]
  /\ TotalAmount \in [Bookings -> Nat]
  /\ Arrived \subseteq Bookings /\ Forms \subseteq Bookings
  /\ NoKey \notin Keys /\ Idle \notin Clerks /\ Blank # Sent
  /\ Nights \subseteq Nat \ {0} /\ LaterBy \subseteq Nat \ {0}
  /\ MaxExtensions \in [Bookings -> Nat] /\ MaxDismissed \in [Bookings -> Nat]
  /\ DayLength \in Nat \ {0} /\ LastHour \in Nat
  /\ CheckOutHour \in Nat /\ CheckOutHour < DayLength

VARIABLES
  now,        \* hours
  booking,    \* RoomBooking
  incident,   \* OverstayIncident of each booking, in the order of creation
  extension,  \* BookingExtension of each booking
  lock,       \* who has locked each booking
  desk,       \* what each clerk's request is about to do
  form        \* the booking as the guest's form has read it

vars == <<now, booking, incident, extension, lock, desk, form>>

Rows == [status : {"CONFIRMED", "IN_HOUSE", "COMPLETED"},
         checked_in_at : BOOLEAN, checked_out_at : BOOLEAN, check_out : Nat]

\* `by' is history: the command or a clerk created it.
Incidents == [status : {"OPEN", "ACKED", "RESOLVED", "DISMISSED"}, by : {"command", "clerk"}]

Extensions == [idempotency_key : Keys \cup {NoKey}, old_checkout : Nat,
               added_nights : Nat \ {0}, amount_delta : Nat]

Requests ==
  [does : {"locks"}, booking : Bookings, key : Keys \cup {NoKey},
   by : {"nights"}, value : Nights]
    \cup [does : {"locks"}, booking : Bookings, key : Keys \cup {NoKey},
          by : {"date"}, value : Nat]
    \cup [does : {"charges"}, booking : Bookings, row : Extensions]
    \cup [does : {"creates"}, booking : Bookings, as : {"ACKED", "DISMISSED"}]
    \cup [does : {"saves"}, booking : Bookings, as : {"ACKED", "DISMISSED"}, row : Nat \ {0}]

ASSUME NoneAreNone == Idle \notin Requests

TypeOK ==
  /\ now \in 0..LastHour
  /\ booking \in [Bookings -> Rows]
  /\ incident \in [Bookings -> Seq(Incidents)]
  /\ extension \in [Bookings -> Seq(Extensions)]
  /\ lock \in [Bookings -> Clerks \cup {Idle}]
  /\ desk \in [Clerks -> Requests \cup {Idle}]
  /\ form \in [Bookings -> Rows \cup {Blank, Sent}]

Init ==
  /\ now = 0
  /\ booking = [b \in Bookings |->
                  [status |-> "CONFIRMED", checked_in_at |-> b \in Arrived,
                   checked_out_at |-> FALSE, check_out |-> CheckOut[b]]]
  /\ incident = [b \in Bookings |-> <<>>]
  /\ extension = [b \in Bookings |-> <<>>]
  /\ lock = [b \in Bookings |-> Idle]
  /\ desk = [c \in Clerks |-> Idle]
  /\ form = [b \in Bookings |-> IF b \in Forms THEN Blank ELSE Sent]

-----------------------------------------------------------------------------
(* The clock, the deadline and who is late *)

Today == now \div DayLength

\* compute_checkout_deadline_at
Deadline(checkOut) == checkOut * DayLength + CheckOutHour

InHouse(k) == k.checked_in_at /\ ~k.checked_out_at

\* What detect_overstays flags.
IsLate(b) ==
  /\ InHouse(booking[b])
  /\ booking[b].check_out <= Today
  /\ now >= Deadline(booking[b].check_out)

Active(b) == {i \in DOMAIN incident[b] : incident[b][i].status \in {"OPEN", "ACKED"}}

New(status, by) == [status |-> status, by |-> by]

-----------------------------------------------------------------------------
(* flag_overstay_bookings *)

\* Mutant: a booking is flagged once.
DetectOnce(b) ==
  /\ lock[b] = Idle
  /\ IsLate(b)
  /\ incident[b] = <<>>
  /\ incident' = [incident EXCEPT ![b] = Append(@, New("OPEN", "command"))]
  /\ UNCHANGED <<now, booking, extension, lock, desk, form>>

\* Not if somebody has locked the booking: the next run will.
Detect(b) ==
  /\ lock[b] = Idle
  /\ IsLate(b)
  /\ Active(b) = {}
  /\ incident' = [incident EXCEPT ![b] = Append(@, New("OPEN", "command"))]
  /\ UNCHANGED <<now, booking, extension, lock, desk, form>>

-----------------------------------------------------------------------------
(* OverstayAcknowledgeView *)

Asks(c, request) == desk[c] = Idle /\ desk' = [desk EXCEPT ![c] = request]
Answered(c) == desk' = [desk EXCEPT ![c] = Idle]

\* The view reads the booking, and acknowledge_overstay the active incident.
AckReads(c, b, as) ==
  /\ booking[b].status = "IN_HOUSE"
  /\ as = "DISMISSED"
       => Cardinality({i \in DOMAIN incident[b] : incident[b][i].status = as}) < MaxDismissed[b]
  /\ \/ /\ Active(b) = {}
        /\ Asks(c, [does |-> "creates", booking |-> b, as |-> as])
     \/ \E i \in Active(b) :
          Asks(c, [does |-> "saves", booking |-> b, as |-> as, row |-> i])
  /\ UNCHANGED <<now, booking, incident, extension, lock, form>>

\* unique_active_overstay_per_booking refuses a second one.
AckCreates(c) ==
  /\ desk[c] # Idle /\ desk[c].does = "creates"
  /\ LET b == desk[c].booking IN
       IF Active(b) = {}
       THEN /\ incident' = [incident EXCEPT ![b] = Append(@, New("OPEN", "clerk"))]
            /\ desk' = [desk EXCEPT ![c] = [does |-> "saves", booking |-> b, as |-> @.as,
                                            row |-> Len(incident'[b])]]
       ELSE Answered(c) /\ UNCHANGED incident
  /\ UNCHANGED <<now, booking, extension, lock, form>>

\* All columns of the incident that was read, whatever has become of it.
AckSaves(c) ==
  /\ desk[c] # Idle /\ desk[c].does = "saves"
  /\ LET b == desk[c].booking
         i == desk[c].row
     IN  incident' = IF desk[c].as = "ACKED" /\ Active(b) \ {i} # {}
                     THEN incident
                     ELSE [incident EXCEPT ![b][i].status = desk[c].as]
  /\ Answered(c)
  /\ UNCHANGED <<now, booking, extension, lock, form>>

-----------------------------------------------------------------------------
(* OverstayExtendView *)

IsExtending(c, b) ==
  desk[c] # Idle /\ desk[c].does \in {"locks", "charges"} /\ desk[c].booking = b

\* The view checks the status, and a date, of the booking it has read.
ExtendReads(c, b, key, by, value) ==
  /\ booking[b].status = "IN_HOUSE"
  /\ Len(extension[b]) + Cardinality({d \in Clerks : IsExtending(d, b)}) < MaxExtensions[b]
  /\ by = "date" => value > booking[b].check_out
  /\ Asks(c, [does |-> "locks", booking |-> b, key |-> key, by |-> by, value |-> value])
  /\ UNCHANGED <<now, booking, incident, extension, lock, form>>

\* Mutant: only guests who have arrived are in the way.
ConflictsInHouse(b, start, end) ==
  {o \in Bookings \ {b} :
     /\ RoomOf[o] = RoomOf[b]
     /\ CheckIn[o] < end /\ booking[o].check_out > start
     /\ booking[o].status = "IN_HOUSE"}

\* _check_room_conflicts
Conflicts(b, start, end) ==
  {o \in Bookings \ {b} :
     /\ RoomOf[o] = RoomOf[b]
     /\ CheckIn[o] < end /\ booking[o].check_out > start
     /\ booking[o].status \in {"CONFIRMED", "IN_HOUSE"}}

\* The rate of a night: the booked total over the nights until the check-out of now.
NightlyRate(b) == TotalAmount[b] \div (booking[b].check_out - CheckIn[b])

AddedNights(r) ==
  IF r.by = "nights" THEN r.value ELSE r.value - booking[r.booking].check_out

\* Mutant: keys are not looked up.
HasUsedNever(b, key) == FALSE

HasUsed(b, key) ==
  key # NoKey /\ \E i \in DOMAIN extension[b] : extension[b][i].idempotency_key = key

\* Mutant: the date is compared in the view only.
ExtendLocksAnyDate(c) ==
  /\ desk[c] # Idle /\ desk[c].does = "locks"
  /\ LET r == desk[c]
         b == r.booking
         old == booking[b].check_out
     IN  /\ lock[b] = Idle
         /\ IF \/ HasUsed(b, r.key)
               \/ Conflicts(b, old, old + AddedNights(r)) # {}
            THEN Answered(c) /\ UNCHANGED lock
            ELSE /\ lock' = [lock EXCEPT ![b] = c]
                 /\ desk' = [desk EXCEPT ![c] =
                      [does |-> "charges", booking |-> b,
                       row |-> [idempotency_key |-> r.key, old_checkout |-> old,
                                added_nights |-> AddedNights(r),
                                amount_delta |-> NightlyRate(b) * AddedNights(r)]]]
  /\ UNCHANGED <<now, booking, incident, extension, form>>

\* Mutant: without select_for_update.
ExtendLocksNothing(c) ==
  /\ desk[c] # Idle /\ desk[c].does = "locks"
  /\ LET r == desk[c]
         b == r.booking
         old == booking[b].check_out
     IN  /\ lock[b] = Idle
         /\ IF \/ HasUsed(b, r.key)
               \/ (r.by = "date" /\ r.value <= old)
               \/ Conflicts(b, old, old + AddedNights(r)) # {}
            THEN Answered(c) /\ UNCHANGED lock
            ELSE /\ UNCHANGED lock
                 /\ desk' = [desk EXCEPT ![c] =
                      [does |-> "charges", booking |-> b,
                       row |-> [idempotency_key |-> r.key, old_checkout |-> old,
                                added_nights |-> AddedNights(r),
                                amount_delta |-> NightlyRate(b) * AddedNights(r)]]]
  /\ UNCHANGED <<now, booking, incident, extension, form>>

\* A key seen before is answered as it was; too few nights or a conflict, refused.
ExtendLocks(c) ==
  /\ desk[c] # Idle /\ desk[c].does = "locks"
  /\ LET r == desk[c]
         b == r.booking
         old == booking[b].check_out
     IN  /\ lock[b] = Idle
         /\ IF \/ HasUsed(b, r.key)
               \/ (r.by = "date" /\ r.value <= old)
               \/ Conflicts(b, old, old + AddedNights(r)) # {}
            THEN Answered(c) /\ UNCHANGED lock
            ELSE /\ lock' = [lock EXCEPT ![b] = c]
                 /\ desk' = [desk EXCEPT ![c] =
                      [does |-> "charges", booking |-> b,
                       row |-> [idempotency_key |-> r.key, old_checkout |-> old,
                                added_nights |-> AddedNights(r),
                                amount_delta |-> NightlyRate(b) * AddedNights(r)]]]
  /\ UNCHANGED <<now, booking, incident, extension, form>>

\* Mutant: only acknowledged incidents are resolved.
ResolvedIfAcked(b, checkOut) ==
  [i \in DOMAIN incident[b] |->
     IF incident[b][i].status = "ACKED" /\ checkOut > Today
     THEN [incident[b][i] EXCEPT !.status = "RESOLVED"] ELSE incident[b][i]]

\* _resolve_overstay_if_applicable
Resolved(b, checkOut) ==
  [i \in DOMAIN incident[b] |->
     IF i \in Active(b) /\ (checkOut > Today \/ (checkOut = Today /\ now < Deadline(checkOut)))
     THEN [incident[b][i] EXCEPT !.status = "RESOLVED"] ELSE incident[b][i]]

\* After Stripe has answered, or has not.
ExtendCommits(c) ==
  /\ desk[c] # Idle /\ desk[c].does = "charges"
  /\ LET b == desk[c].booking
         row == desk[c].row
         final == row.old_checkout + row.added_nights
     IN  /\ extension' = [extension EXCEPT ![b] = Append(@, row)]
         /\ booking' = [booking EXCEPT ![b].check_out = final]
         /\ incident' = [incident EXCEPT ![b] = Resolved(b, final)]
         /\ lock' = [lock EXCEPT ![b] = Idle]
  /\ Answered(c)
  /\ UNCHANGED <<now, form>>

\* The worker is killed: its transaction is undone.
CutOff(c) ==
  /\ desk[c] # Idle
  /\ lock' = [b \in Bookings |-> IF lock[b] = c THEN Idle ELSE lock[b]]
  /\ Answered(c)
  /\ UNCHANGED <<now, booking, incident, extension, form>>

-----------------------------------------------------------------------------
(* The stay *)

\* An administrator sets the status that both views ask for.
AdminMarksInHouse(b) ==
  /\ lock[b] = Idle
  /\ InHouse(booking[b]) /\ booking[b].status = "CONFIRMED"
  /\ booking' = [booking EXCEPT ![b].status = "IN_HOUSE"]
  /\ UNCHANGED <<now, incident, extension, lock, desk, form>>

\* No incident is touched.
CheckOutBooking(b) ==
  /\ lock[b] = Idle
  /\ InHouse(booking[b])
  /\ booking' = [booking EXCEPT ![b].status = "COMPLETED", ![b].checked_out_at = TRUE]
  /\ UNCHANGED <<now, incident, extension, lock, desk, form>>

FormReads(b) ==
  /\ form[b] = Blank
  /\ form' = [form EXCEPT ![b] = booking[b]]
  /\ UNCHANGED <<now, booking, incident, extension, lock, desk>>

FormSaves(b) ==
  /\ form[b] \notin {Blank, Sent}
  /\ lock[b] = Idle
  /\ booking' = [booking EXCEPT ![b] = form[b]]
  /\ form' = [form EXCEPT ![b] = Sent]
  /\ UNCHANGED <<now, incident, extension, lock, desk>>

Tick ==
  /\ now < LastHour
  /\ now' = now + 1
  /\ UNCHANGED <<booking, incident, extension, lock, desk, form>>

-----------------------------------------------------------------------------

Next ==
  \/ \E b \in Bookings :
       \/ Detect(b) \/ AdminMarksInHouse(b) \/ CheckOutBooking(b)
       \/ FormReads(b) \/ FormSaves(b)
  \/ \E c \in Clerks, b \in Bookings :
       \/ \E as \in {"ACKED", "DISMISSED"} : AckReads(c, b, as)
       \/ \E key \in Keys \cup {NoKey} :
            \/ \E n \in Nights : ExtendReads(c, b, key, "nights", n)
            \/ \E n \in LaterBy : ExtendReads(c, b, key, "date", booking[b].check_out + n)
  \/ \E c \in Clerks :
       AckCreates(c) \/ AckSaves(c) \/ ExtendLocks(c) \/ ExtendCommits(c) \/ CutOff(c)
  \/ Tick

\* The command is run every half hour, a row lock is held for a moment, and a
\* transaction ends.
Fairness ==
  /\ \A b \in Bookings : SF_vars(Detect(b))
  /\ \A c \in Clerks : WF_vars(ExtendCommits(c))

Spec == Init /\ [][Next]_vars /\ Fairness

-----------------------------------------------------------------------------
(* Properties *)

\* The check-out date that the extensions up to the i-th lead to.
Departure(b, i) ==
  IF i = 0 THEN CheckOut[b] ELSE extension[b][i].old_checkout + extension[b][i].added_nights

\* Each extension goes on where the one before it ends, and the departure date is
\* where the last one ends, however requests are repeated, raced and cut off, unless
\* a form is still to be sent (extend_overstay, under the lock of the booking).
DepartureIsExplained ==
  \A b \in Bookings \ Forms :
    /\ \A i \in DOMAIN extension[b] : extension[b][i].old_checkout = Departure(b, i - 1)
    /\ booking[b].check_out = Departure(b, Len(extension[b]))

\* A request that is sent again with its key does not extend the stay again.
KeysExtendOnce ==
  \A b \in Bookings : \A i, j \in DOMAIN extension[b] :
    i < j => \/ extension[b][i].idempotency_key = NoKey
             \/ extension[b][i].idempotency_key # extension[b][j].idempotency_key

\* What the command has flagged and nobody has handled is an overstay still: an
\* extension that ends it resolves it.
FlaggedStaysAreLate ==
  \A b \in Bookings : \A i \in DOMAIN incident[b] :
    incident[b][i] = New("OPEN", "command") => now >= Deadline(booking[b].check_out)

\* No extension takes nights of the booking that has the room next.
NextGuestKeepsTheRoom ==
  \A b, o \in Bookings \ Forms :
    /\ b # o /\ RoomOf[b] = RoomOf[o]
    /\ booking[b].status # "COMPLETED" /\ booking[o].status # "COMPLETED"
    => booking[b].check_out <= CheckIn[o] \/ booking[o].check_out <= CheckIn[b]

\* A guest who stays on is on the list of overstays in the end, and a dismissal
\* does not keep them off it (detect_overstays).
OverstaysAreFlagged ==
  \A b \in Arrived : IsLate(b) ~> ~IsLate(b) \/ Active(b) # {}

=============================================================================
