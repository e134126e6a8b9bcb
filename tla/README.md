# HotelMate in TLA+

Models, model checking and machine-checked proofs of the parts of HotelMate in
which requests, webhooks and jobs race over the same rows: a booking's life
and the money behind it, the fee of a cancellation, which booking has which
room, the room between two guests, guests who do not leave, the links mailed
to them, the clock logs of staff and the count of the stock. Definitions are
translated from the Python sources; `PROJECT.json` maps each one to its lines.

HotelMate is Django on PostgreSQL, served by several gunicorn workers, with
jobs run by a scheduler. Three facts of that stack shape every model.

* Transactions are READ COMMITTED and there is no `ATOMIC_REQUESTS`: outside
  `transaction.atomic` every statement commits on its own.
* `select_for_update()` locks a row, a plain `get()` does not, and
  `instance.save()` without `update_fields` writes **every** column the
  instance holds, however old they are.
* Stripe, e-mail and Pusher are called inside or next to transactions. A call
  may succeed and its answer be lost; nothing undoes it when the transaction
  rolls back.

## Inventory

| Component | State | Operations | What is hard | What makes it correct |
| --- | --- | --- | --- | --- |
| Booking lifecycle and payments (`hotel/payment_views.py`, `staff_views.py`, `services/guest_cancellation.py`, `auto_expire_overdue_bookings.py`) | `RoomBooking`, the idempotency cache, `StripeWebhookEvent`; Stripe's sessions, refunds and keys | open a payment, webhook, accept, decline, confirm, cancel (guest, staff), expire, pre-check-in, check-in, check-out | copies read without a lock and saved; redelivered and lost events; refunds whose answer is lost; a job beside staff | rows never claim money that is not there or a refund that was not made; one refund per cancellation; nobody waits for ever |
| Cancellation fees (`services/cancellation.py`, policy serializer) | `CancellationPolicy`, its tiers, the clock | edit a policy, replace its tiers, calculate, cancel | tiers replaced one by one while they are read; three roundings | amounts agree to a cent; waiting never pays |
| Rooms of bookings (`room_bookings/services/*`, `staff_views.py`) | `assigned_room`, `Room`, `Guest.room`, row locks | assign, unassign, move, check in, check out, cancel | rows locked one by one in different orders, checks before saves, stale copies | no room is kept twice |
| Room turnover (`housekeeping/`, `rooms/views.py`, `rooms/models.py`, `services/booking_integrity.py`) | `Room.room_status`, flags, notes, `RoomStatusEvent`, who lives there | clean, inspect, maintain, override, check in and out, bulk check-out, the inventory form, healing | `set_room_status` judges a room it has not locked, bulk check-outs save rooms read long before; several ways round it | only documented transitions; the audit trail names the status; ready rooms need no maintenance, and no guest is let into a room that does |
| Overstays (`services/overstay.py`, `overstay_views.py`, `flag_overstay_bookings.py`) | `OverstayIncident`, `BookingExtension`, the departure date | detect, acknowledge, dismiss, extend, check out | a command that skips locked rows; acknowledgements without a lock; retried extensions | the departure date is explained by the extensions; the next guest keeps the room; who stays on is on the list |
| Links mailed to guests (`public_views.py`, `staff_views.py`, `cleanup_survey_tokens.py`) | `BookingPrecheckinToken`, `BookingSurveyToken`, `BookingSurveyResponse` | send, mail, revoke, use, age, clean up | whole rows saved after the fact; overlapping sends | a link works once and never opens again |
| Attendance (`attendance/`) | `ClockLog`, `Staff.duty_status`, `RosterPeriod.is_finalized` | clock in and out, breaks, approve, reject, finalize, warn, end long sessions | nothing is locked; logs and duty saved apart; two commands that depend on each other | one session a day; duty follows the logs; final periods are resolved and stay so; long sessions end |
| Stock tracker (`stock_tracker/`) | lines, movements, snapshots, stocktakes, periods | count, move, merge, approve, close, reopen, populate | writes that belong together are apart; units of several sizes; forms that write what approvals and merges have written | adjustments explain the count; the next period opens with it; approved lines stay |
| Guest and management tokens (`common/guest_access.py`, `services/guest_token.py`) | `GuestBookingToken`, `BookingManagementToken` | issue, resolve, revoke, expire | two kinds of token for one page, only hashes are kept | a token opens its own booking until it is revoked |
| Availability and creation (`services/availability.py`, `booking.py`, `pricing.py`) | counts of bookings per room type and night | quote, create | nothing is locked between counting and creating | no more bookings than rooms |
| Orders, restaurant, chats, maintenance, notifications, staff and roles, content, games, voice | rows with a status, or content | mostly create, read, update, delete | little that races | see "Not modelled" |

Components meet in the database. The webhook writes the row that staff decide;
the decision opens room assignment; assignment, moves, check-in and check-out
share `RoomBooking` and `Room` with housekeeping; an extension moves the
departure that the next assignment looks at; a guest's cancellation calls the
fee calculator, then Stripe, then saves the booking; the job expires what staff
have not decided. Realtime messages and e-mails follow commits and feed nothing
back, except that an e-mail gives the guest the link to cancel, the form before
the stay and the survey after it.

`PROJECT.json` lists the hazards found in this code, each at its line, with
the properties that watch it.

## Modules

| Module | Stands for |
| --- | --- |
| `BookingLifecycle` | bookings, payments, decisions, cancellations, refunds |
| `RefundLedger` | abstract: what the booking table promises about money |
| `BookingClaims` | what the code says of cancelled bookings and does not keep |
| `CancellationFee` | the calculator, policies being edited, a cancellation under way |
| `RoomAssignment` | assignment, moves, check-out, cancellation, as transactions over row locks |
| `RoomCheckIn` | `RoomAssignment` with guests who check in |
| `RoomCalendar` | abstract: a room is taken when it is ready and free |
| `RoomTurnover` | one room, its status, its guests and its audit trail |
| `Overstay` | late guests, incidents, extensions |
| `GuestLinks` | the pre-check-in and survey links of one booking |
| `Attendance` | clock logs, duty, roster periods, the two commands |
| `Stocktake` | one item of the stock, period after period |
| `...Proofs` | theorems about the module of that name |
| `MC...` | constants for TLC: symmetry, policies, dates, bounds |

**BookingLifecycle.** `row` is the `RoomBooking` table with the columns the
life cycle depends on (a timestamp is TRUE once set). `session` is Stripe: a
checkout session and its payment intent are one element. `expireKey` and
`cancelKey` are the idempotency keys Stripe remembers, `event` and `acked` the
webhook's table and what Stripe was told, `cache` the payment idempotency
cache, `link` who was mailed a link to cancel, `overdue` whose cutoff has
passed. A handler that locks its row from the first read is one action:
`WebhookProcesses`, `StaffAccepts`, `StaffDeclines`, `JobExpires`,
`AssignsRoom`, `UnassignsRoom`. A handler that reads without a lock is a
request in `req`: it takes a copy of the row (`...Reads`, `GuestCancels...`)
and later saves all of it (`...Saves`), with anything in between. Guest
cancellation has the call to Stripe between the two (`CancelSettles`). What
fails is an action beside what succeeds: `WebhookSwallowsFailure`,
`WebhookFails`, `WebhookCrashes`, `StaffDeclineLost`, `ExpiryRefundLost`,
`CancelAnswerLost`, `RequestDies`, `PaymentPageLosesSession`,
`BookingTokenCancelRollsBack` (the booking token has no `record_action`).

**CancellationFee.** `policy` is the policy row and its tiers, `edit` an update
by staff, which saves the row, deletes the tiers and creates them again one by
one, in separate commits. `seen` is a cancellation under way: the row it loaded
with the booking and the tiers it read after, which the calculator may query a
second time. `settled` is the outcome: the fee and the refund as PostgreSQL
rounds them and the cents that Stripe gets. `Cent` scales money so that a
percentage of a price, which the code does not round, is exact.

**RoomAssignment, RoomCheckIn.** `lock` says who has locked each row of
`RoomBooking` and `Room`; `txn` is the request that each worker runs: where it
is, the rows it is about, what it read without a lock. Each lock, each check
and each save is a step, and what a transaction writes appears with its commit.
A transaction that is refused, aborted by the deadlock detector or cut off is
`RollsBack`. `guest` is `Guest.room`, which a move leaves behind and a
check-out looks at. Cleaning is one step here with the stale read of
`set_room_status`; `RoomTurnover` has it in full.

**RoomTurnover.** `room` is the row of one room, `audit` the status that the
newest `RoomStatusEvent` names, `stay` and `guests` what the bookings and the
`Guest` rows say of who lives there. `set_room_status` validates the room that
the view has read, so a request is two steps: it puts into `desk` what it will
save (`AsksFor`), and saves it (`SetRoomStatus`, `SaveRow`, `CheckInSaves`). A
status saves the columns that go with it; a turnover note, the inventory form
and healing save every column. The bulk check-outs read all rooms with a plain
filter (`BulkReads`), come to this room later, delete its guests or look for
its bookings (`DeletesGuests`, `LooksForBookings`), and then save the room they
read at first (`ClearRoom`), of which the status may be refused when the
occupancy has been saved already. Healing reads the room, the booking and the
guests, and saves the room with the guests it records (`HealGuestReads`,
`HealSaves`). Only the check-out of a booking and moves lock what they read, and
are one step. `healed` and `edited` record what properties have to except: that
healing saved a row out of date, that the inventory form was used.

**Overstay.** `incident` and `extension` are the rows of each booking in the
order they were created. The command and the extension lock the booking
(`lock`), the command by skipping what others have locked (`Detect`); an
extension calls Stripe in between (`ExtendLocks`, `ExtendCommits`). An
acknowledgement locks nothing (`AckReads`, `AckCreates`, `AckSaves`), and the
late pre-check-in form saves the booking as it was read (`FormSaves`).

**GuestLinks.** `links` are the token rows of either kind, `response` the one
`BookingSurveyResponse`. Sending is an UPDATE, an INSERT and a mail
(`SendBegins`, `SendCreates`, `Mails`, `Revokes`), using a link a read and a
later save of every column (`SubmitReads`, `SubmitSaves`), and `Cleanup` the
command with its cascade.

**Attendance.** `log` are the clock logs, `duty` the column of `Staff` that is
saved apart from them, `final` the roster periods. A request is in `desk` with
what it has read and will write; `fresh` is lost when another request writes
about the same staff. `Alert` and `AutoClockOut` are the two commands: the
second ends only sessions of which the first has warned.

**Stocktake.** One item: its `line` and `snapshot` in each period, its `moves`
by type, the cocktail consumption still `unmerged`. Approving posts the
variance and the snapshot, then the stocktake, then the period, each committed
on its own (`PostVariance`, `Approve`, `ClosePeriod`); what goes past that
order is `Sidesteps`. `dated` are the stocktakes with the dates of a period:
only their approval writes a snapshot. Movements of any type are deleted or
turned into others by the lines' endpoints (`WriteMovement`), and also created
by their own, which know no stocktake (`RecordMovement`); `byHand` records when
that was done to adjustments or to movements of cocktails. The form of a line
writes its counts and purchases (`UpdateLine`), and may give it to another
stocktake or item, of whose approval nobody asks (`CarryLine`, `SaveCarried`).
`UnitSize`, `CountedQty`, `TotalServings` and `Stored` are the arithmetic of
units.

## Runs

| Run | Bounds | Distinct states | Shows |
| --- | --- | --- | --- |
| `lifecycle_all` | 1 booking, 2 sessions, 1 request, every operation but confirmation by staff and check-out, forgetful Stripe, fairness | 440 thousand | a waiting booking has all that the job's filter needs; nobody waits for ever; the table implements `RefundLedger` |
| `lifecycle_races` | 1 booking, 1 session, 2 requests that pay, cancel, confirm, check out and save stale forms, refunds of 1 or 2 out of 3 | 1.6 million | declined means refunded; recorded refunds are real; one cancellation, one refund; a row names captured money |
| `cancellation_fee` | a price of 1.05 for 2 nights, 4 hours, policies of every template and custom tiers | 96 thousand | the books balance to a cent; waiting is never cheaper |
| `room_assignment` | 2 overlapping stays, 2 rooms, 2 workers, all operations but check-in | 800 thousand | no double booking; `RoomCalendar` is implemented |
| `room_turnover` | 1 booking, 2 workers, every endpoint and capability | 1.1 million | ready rooms need no maintenance, whatever stale rows are saved; a guest comes into a room that does only by a check-in that overwrites news; the audit trail names the status; a step leaves the state machine only by overwriting news |
| `overstay` | a late guest, one with an open form, the next guest of the room, 2 clerks, 2 extensions, 7 half days | 150 thousand | departures are explained; keys extend once; flags are real; the next guest keeps the room; who stays on is flagged |
| `guest_links` | 3 links, 2 clerks, 2 windows | 1.9 million | links work once and stay closed |
| `attendance` | 1 member of staff, 2 logs, 2 days, 2 requests, both commands, fairness | 940 thousand | sessions, duty, final periods; long sessions end |
| `stocktake` | 2 periods, of which the first is counted, 1 item by the dozen or juice (2 servings, 2 bottles), 2 workers, one movement, one adjustment | 280 thousand | variance is posted; merges move; closed means approved; the next period opens with the count, juices with another number; approved lines change only by what is out of date |

Every module has its type invariant in one of these runs.

Why these bounds are enough to be interesting. Lost updates need two writers:
one request in flight beside the locked handlers, or two requests; both are
there in every run. A second session is what makes a second payment and an
event for a decided booking. An odd number of cents over two nights makes
first-night and half-cent rounding bite. Two workers, two rooms and two stays
that overlap are what a double booking, a swap of rooms and a lock cycle take.
One guest between two others is what a room that changes hands takes, and the
next booking is what an extension can run into. Three links are two of a kind,
one of which replaces the other, and one of the other kind that shares the
booking. Two days are a session past midnight and a period that is over; three
loose servings of a unit of two are the carry that opening stock could lose.
Requests, rooms and workers are symmetric where no liveness is checked.
`CHECK_DEADLOCK FALSE` is set where an instance really ends: its sessions,
links or hours are used up, its bookings are over.

State constraints cut what nothing is claimed of, or what adds no new meeting.

* `BeforeTheForm`: the inventory form writes any status past the state
  machine; all that is claimed of a room ends there. A form that is out of date
  is cut with it.
* `WhileRegular` (stocktake): up to the first request that has raced another,
  was cut off, went past the order of the endpoints, or wrote by hand what
  approvals and merges write. Two requests are under way at once when both
  merge, of which something is claimed in spite of races, or both carry a line
  to one stocktake, of which one is refused; other requests that are at work at
  once are in the theorems only.
* `CheckOutMeetsForms` (`lifecycle_races`): of other requests, a check-out meets
  the forms only; once the guest has checked out, requests come one at a time.
* `Bounds` (attendance): two requests race each other over one session, or one
  at a time over two sessions; nothing after a stale row was saved.
* `OneAtATime` (overstay): requests about the late guest, or the form of the
  other, who is in another room; the second clerk extends.
* `TwoOfAKind` (links): two survey links, and one pre-check-in link beside
  them or two alone.

The theorems below have none of these constraints, and no bounds.

Each of the other runs states what the code says of itself and finds a
behaviour that breaks it.

| Run | The code | The text |
| --- | --- | --- |
| `cancelled_not_refunded` | a guest who cancels before approval has paid, is promised a refund, gets none | "financially-correct booking cancellation" |
| `check_in_double_booking` | check-in saves an old copy of the booking back into a room that others got | "No date overlap with other blocking bookings" |
| `survey_answers_deleted` | cleaning up a used survey link deletes the answers it brought | "preserving responses forever" |

### Fairness

`lifecycle_all`: the expiry job runs on a schedule whatever happens, hence weak
fairness of `JobExpires` for each booking; Stripe repeats an event until it is
answered with 200, hence weak fairness of `WebhookProcesses` while the event is
not acknowledged. `attendance`: a scheduler keeps running both commands, hence
weak fairness of each (`AlertJob`, `CloserJob`), which includes that a run that
has begun goes on, unless it is cut off. `overstay`: the command runs every half
hour and skips locked rows, which are locked for a moment only, hence strong
fairness of `Detect`; a transaction that has locked its booking ends, hence weak
fairness of `ExtendCommits`. Nothing is assumed of guests, of what staff do, or
of other requests in flight, which may stay in flight for ever.

## Proofs

| Theorem | Property |
| --- | --- |
| `BookingLifecycleProofs`: `TypeCorrect`, `NamedIntentIsCaptured`, `WaitingBookingCanBeExpired`, `DeclinedBookingIsRefunded`, `RecordedRefundIsReal` | `TypeOK`, `IntentIsCaptured`, `PendingApprovalCanBeExpired`, `DeclinedIsRefunded`, `RecordedRefundsAreReal` |
| `CancellationRefundedOnce` | `CancellationRefundsOnce`, if Stripe forgets no key |
| `Implements` | `ImplementsLedger` |
| `WaitingEnds` | `NobodyWaitsForEver`, if the job is fair |
| `CancellationFeeProofs`: `FeeTypes`, `BooksAlwaysBalance`, `WaitingNeverPays` | `TypeOK`, `BooksBalance`, `WaitingIsNeverCheaper` |
| `RoomAssignmentProofs`: `RoomTypes`, `RoomsAreNeverDoubleBooked`, `RoomsImplementCalendar` | `TypeOK`, `NoDoubleBooking`, `ImplementsCalendar` |
| `OnlyStaleCheckInsDoubleBook` | `NoDoubleBooking` of `RoomCheckIn`, if check-in saves what is stored |
| `RoomTurnoverProofs`: `TypeCorrect`, `ReadyRoomsAreSafe`, `GuestsAreSafe`, `AuditTrailIsComplete`, `StatusesFollow` | `TypeOK`, `ReadyRoomsNeedNoMaintenance`, `GuestsComeIntoSoundRooms`, `AuditTrailNamesTheStatus`, `StatusFollowsTheStateMachine` |
| `OverstayProofs`: `TypeCorrect`, `ExtensionsAddUp`, `RetriesExtendOnce`, `FlagsAreReal`, `RoomsAreSpared` | `TypeOK`, `DepartureIsExplained`, `KeysExtendOnce`, `FlaggedStaysAreLate`, `NextGuestKeepsTheRoom` |
| `OverstaysEndUpOnTheList`, by `LocksEndWithTheirRequest` | `OverstaysAreFlagged`, if the command and lock holders are fair |
| `GuestLinksProofs`: `TypeCorrect`, `LinksAreOneTime`, `NoLinkReopens` | `TypeOK`, `LinksWorkOnce`, `ClosedLinksStayClosed` |
| `AttendanceProofs`: `TypeCorrect`, `SessionsAreSingle`, `DutyIsRight`, `FinalMeansResolved`, `FinalVerdicts` | `TypeOK`, `OneSessionADay`, `DutyFollowsTheLogs`, `FinalPeriodsAreResolved`, `FinalVerdictsStay` |
| `LongSessionsAreEnded` | `LongSessionsEnd`, if the commands are fair |
| `StocktakeProofs`: `TypeCorrect`, `VarianceIsPosted`, `MergesMove`, `ClosingFollowsApproval`, `ApprovalFreezesLines` | `TypeOK`, `AdjustmentsExplainTheCount`, `MergedIsMoved`, `ClosedPeriodsAreApproved`, `ApprovedLinesStay` |
| `CountIsCarriedOver`, by `SnapshotsInvariant` | `NextOpensWithTheCount`, for items of every kind |

They hold for all values of the constants that satisfy the named assumptions of
each module: numbers are numbers, what stands for nothing is no row, dates are
in order, the stays of a room that were booked do not overlap to begin with.

*Bookings.* None of the invariants is inductive, because of stale copies: what
a row may be trusted for must be true of every copy in flight, also after
everyone else has moved on. `IInv` therefore says of each copy what it says of
each row (`RowFact`, `RequestFact`) and of Stripe's keys what they stand for
(`KeysFact`). The facts mention Stripe only in ways that stay true as Stripe
moves on (`Later`: a payment, once captured, stays captured; refunds only
grow), so a copy never has to be looked at again when others take steps. Each
handler is then shown to build a row that satisfies the same facts. The
refinement uses the invariant twice over: what a row that is written claims is
true at that moment, and each step moves Stripe's money by at most one step of
the ledger.

*Fees.* The fee of every policy lies between nothing and the price, by cases
on template and penalty; the three roundings of a number and of its complement
are compared by integer arithmetic. That waiting never pays compares the tier
that applies at two hours. That a set of tiers has an earliest and a latest
member is an assumption about finite sets (`HasEnds`), which TLC checks for
the policies of the run.

*Rooms.* `IInv` adds to the property that a transaction owns the locks that
its position implies (`LocksHeld`), and that what an assignment or a move has
checked is still true when it is about to save (`ChecksHold`). The latter holds
because a row is written only by whoever has locked it, or when nobody has
(`WritesWhatIsLocked`), and because a booking comes into a room only through a
transaction that checked, and has locked, that room (`EntersByChecks`); the one
stale row that is saved, of a cancelled booking, blocks nothing. Check-in
breaks exactly this lemma, which is what `check_in_double_booking` shows.
`OnlyStaleCheckInsDoubleBook` says that nothing else is wrong with it: when the
row that it saves is the row that is stored (`SavesWhatIsStored`), it keeps
every room where it was (`CheckInKeepsRooms`) and writes no room that another
transaction has checked (`CheckInWritesWhatIsLocked`). The view as it is does
not keep to that condition; one that reads the booking again under its lock
would.

*Turnover, stocktakes, attendance.* Hardly anything is locked there, so the
invariant says what a request knows of the rows it has read **as long as it is
fresh** (`RequestsAreCurrent` in `RoomTurnoverProofs`, `RequestsKnow` in
`StocktakeProofs`, `Fact` in `AttendanceProofs`): whoever writes makes the
others stale. The invariant carries what is promised through the steps between
two writes that belong together: the variance that is posted before the
stocktake is approved, the duty that will be saved after the log, so that the
property is true again when the last of them is made.

How much racing a property survives differs. `FinalPeriodsAreResolved`,
`ReadyRoomsNeedNoMaintenance`, the first half of `MergedIsMoved` and, until
healing saves a stale row, `AuditTrailNamesTheStatus` are proved of requests
that race at will. `GuestsComeIntoSoundRooms`, `StatusFollowsTheStateMachine`
and `ApprovedLinesStay` hold of every step, in whatever state earlier races have
left the rows, unless that very step overwrites what was written since it read.
`AdjustmentsExplainTheCount`, `ClosedPeriodsAreApproved`,
`NextOpensWithTheCount`, `OneSessionADay`, `DutyFollowsTheLogs` and
`FinalVerdictsStay` are promised of requests that do not race: the code breaks
them otherwise.

*Overstays.* Extensions of a booking are serialised by its lock; `IInv` says
that a request that holds it knows the departure the extension starts from, that
its key is unused and that the added nights are free (`ExtensionsKnow`). It is
the room's other booking that need not be locked: its nights were disjoint to
begin with and each of the two extends into free nights only.

*Links.* A link is replaced by number: the invariant says that when a new link
is created, all that were there when it was asked for are closed, and
`StepKeeps` that no step opens a link or changes its kind.

*The next period.* What a line opens with is what the snapshot of the period
before says, and `SnapshotsFollow` that this is what was counted, from the
first write of an approval on. `StoredKeepsTheCount` is the arithmetic: full
units and the rest of one, put together again, are the count, for units of any
size. Of juices the snapshot stores cases and bottles, which are read back as
if they were units and servings: `CarriedOver` says what they open with, and the
run and the theorem include them. A stocktake without the dates of a period
leaves no snapshot, and nothing is claimed of the one after it.

*What happens in the end.* The prover knows neither `ENABLED` nor, therefore,
`WF_` and `SF_`. The liveness theorems assume the fairness that the runs
assume, with the condition under which the step can be taken written out
instead: `[]<>~guard \/ []<><<step>>_vars`, or `<>[]~guard` for the strong form.
In every state of the instances TLC finds the guard equal to `ENABLED` of the
step.

* `JobIsFair` is `WF_vars(JobExpires(b))`. Its guard stays true until the
  booking leaves the queue: `PendingApprovalCanBeExpired` and `OverdueStays`.
* `DetectionIsFair` is `SF_vars(Detect(b))`. `HoldersAreFair` is weak fairness
  for the lock of a booking, of whichever clerk has it; a clerk whose request is
  cut off gives up the lock, and `LocksAreHeld` says that no lock is left behind.
  Locks are therefore free again and again, and so the command comes by.
* `CommandsAreFair` is strong fairness for each session of being warned about
  and of being ended, where the run has weak fairness of either command as a
  whole: a run goes over all open sessions, so one of them keeps the command
  from another only for a while. It is weak fairness for the writes that follow.
  The argument goes through what a command
  in flight knows (`WarnedIsRead`, `CommandsOnly`): what is long stays long, a
  warning stays, and each command finishes what it has begun.

Only model-checked: the same three properties under `WF_` and `SF_` themselves,
and the violations. The invariants that these proofs rest on were first checked
by TLC on the instances of the runs.

## Met while modelling

Settled by reading, or by a run that is not kept; the models take these steps,
so what is proved holds in spite of them.

*Money.* An event whose processing fails is saved FAILED and answered with 200:
Stripe never sends it again (`payment_views.py:455-463`; the comment at 448
says "If FAILED or RECEIVED, reprocess"). Cancelling with the booking token
refunds, fails on the missing `record_action`, rolls back and leaves the
booking CONFIRMED (`guest_cancellation.py:86`). A pre-check-in form saved beside
the webhook turns PENDING_APPROVAL back into PENDING_PAYMENT
(`public_views.py:621`, against `docs/backend/13_state_machines.md:141-144`). A
NON_REFUNDABLE booking is refunded in full: `0 >= 0` hours is "free"
(`cancellation.py:134`). A guest pays twice when the cache entry of an open
session expires, and the second payment is ignored. A refund that fails when a
booking expires is not tried again, and `reason='expired'` is none of Stripe's.
A decline whose answer was lost may be followed by an approval, without the
money. Staff confirm a COMPLETED booking back to CONFIRMED. The booking keeps a
reference to its policy, not the snapshot its help text speaks of.

*Rooms.* A check-out that began before a move empties the room that the guest
has left (`checkout.py:49`). Plain front desk staff cannot check a guest in
(`housekeeping/policy.py` has no transition to OCCUPIED for them). A serializer
writes the status past `set_room_status`, "the ONLY function" to do so, and so
does every save of a whole room, of turnover notes and of healing.
Both bulk check-outs read their rooms without a lock and save those copies
later (`rooms/views.py:189`, `204`), over whatever was written meanwhile; when
the transition is refused, the room has lost its occupancy and keeps its status
(`:244`, `:297`). The plain one completes next week's bookings of the room
(`:260`), the destructive one leaves its booking in-house (`:231`), and a stay
that is in house may so be in a room that then goes under maintenance: only
coming in is judged. Turnover notes save a maintenance flag away
(`rooms/models.py:155`). Healing records departed guests in their room again,
saves the whole room with them (`booking_integrity.py:200-202`) and so brings
back a status that the audit trail has left behind. A move leaves `Guest.room`
behind.

*Overstays.* The second extension of a stay is priced by the departure that the
first has moved (`overstay.py:421-423`: "using original booking's rate"). A
stale acknowledgement revives an incident that an extension has resolved.
Stripe's intent for an extension has no idempotency key; an extension never
leaves PENDING_PAYMENT. `IN_HOUSE`, which both views ask for, is set by the
Django admin alone.

*Links.* A form sent twice doubles the companions, and the party is no longer
complete. Surveys of the mode AUTO_IMMEDIATE are never sent (`checkout.py:271`
filters by a field that does not exist, and the error is swallowed);
`send_scheduled_surveys.py:149` and `survey_analytics.py:87` do not parse.

*Attendance.* Sessions that managers or the command end have no hours:
`update_fields` leaves them out (`attendance/views.py:952`, `1050`). After
midnight a second session starts beside the open one. A long session that is
not approved is never warned of, and so never ended.

*Stock.* An approval that is cut off and repeated posts its adjustments twice,
and so does approving again after reopening. The closing stock of juices is
stored in other units than it is read back in, against the comment at
`stocktake_service.py:231-232` ("for ALL categories ... Next period opening
stock = this period counted closing"): with `CountedQty` for `CarriedOver`, TLC
finds a juice that opens with another number than was counted. A stocktake whose
dates are not those of a period leaves no snapshot at all (`:202-209`). A count
saved while a movement is added is lost. Two merges may count consumption twice.
The movements' own endpoints ask of no stocktake (`stock_tracker/views.py:1572`),
and those of a line delete and retype movements of any type (`:2896`, `:3008`):
the adjustment of an approved stocktake goes, or the movement of a merge while
its consumption stays marked. A line can be given to an approved stocktake by
PATCH, since only the one it comes from is asked (`:2419`,
`stock_serializers.py:868-902`). `is_closed` can be written by PATCH, and the
lines of an approved stocktake can be deleted.

*Elsewhere.* Creating a booking neither counts nor locks rooms, and a paid
booking that waits for approval occupies none (`availability.py:130`).
Restaurant tables are looked up and booked without a lock; the status of a room
service order is checked on a copy and saved whole.

## Not modelled

The texts of e-mails, prices and taxes, realtime events, audit columns,
permissions apart from those of housekeeping (an action is that of somebody who
may take it), images and files. Booking creation and availability, because
nothing in them could keep the promise. Guest tokens beyond which of the two a
cancellation resolves to. Rosters, their overlap checks and copies; face
matching; stock valuation, sales, reports, ingredients; housekeeping tasks; the
choice of other rooms for an overstay. Create-read-update-delete components
without a protocol: room service, restaurant, maintenance requests, content
pages, hotel information, games, voice recognition, notification delivery,
roles. Chats append messages in database order. They are the greater part of
the repository's lines.

Modules of one component do not share state with those of another: a room in
`RoomTurnover` knows bookings by their stage, `Overstay` keeps rooms as they
are. An assignment of a room while its guest's stay is being extended is
therefore in neither.

## What is left

In order of worth: `RoomStay`, the composition of `RoomAssignment` and
`RoomTurnover` in which every guest in house can be checked out; assignment
beside extension; the expiry job's scan with its slice; the status of room
service orders.
