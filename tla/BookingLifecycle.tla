-------------------------- MODULE BookingLifecycle --------------------------
(***************************************************************************)
(* The life of a room booking, from the payment page to check-out, and the *)
(* money that Stripe holds for it.                                         *)
(*                                                                         *)
(* Two kinds of code write a RoomBooking row.  The webhook, the staff      *)
(* accept and decline endpoints, the expiry job and room assignment lock   *)
(* the row (SELECT ... FOR UPDATE) and are one action each.  Guest         *)
(* cancellation, staff confirm and cancel, check-in and pre-check-in read  *)
(* the row without a lock and later save every column of what they read:   *)
(* each of those is a read and a save, with anything in between.           *)
(*                                                                         *)
(* Stripe is external: a payment session and its payment intent are one    *)
(* element of Sessions, and a call to Stripe may succeed, be refused, or   *)
(* succeed with its answer lost.                                           *)
(***************************************************************************)
EXTENDS Naturals

CONSTANTS
  Bookings,         \* rows of RoomBooking
  Sessions,         \* Stripe checkout sessions that may ever be opened
  Requests,         \* web workers that run the unlocked requests
  Operations,       \* the unlocked requests that are made (all, or a bound)
  NoSession,        \* a NULL payment_intent_id, an empty cache entry
  Price,            \* what every booking costs
  RefundOffers,     \* what CancellationCalculator may return, over time
  ForgetfulStripe   \* does Stripe ever drop an idempotency key?

ASSUME ConstantsAssumption ==
  /\ Bookings # {}
  /\ NoSession \notin Sessions
  /\ Price \in Nat \ {0}
  /\ RefundOffers \subseteq 0..Price
  /\ ForgetfulStripe \in BOOLEAN

VARIABLES
  row,        \* the RoomBooking table
  overdue,    \* bookings whose approval cutoff has passed
  link,       \* bookings whose guest holds a BookingManagementToken
  cache,      \* payment idempotency cache: booking -> session
  session,    \* Stripe: the state, booking and refunded amount of a session
  expireKey,  \* Stripe: intents whose "autoexpire:" key was used
  cancelKey,  \* Stripe: the call stored under a "guest_cancel_refund:" key
  event,      \* StripeWebhookEvent.status of the session's completed event
  acked,      \* events Stripe got an HTTP 200 for
  req         \* the unlocked requests in flight

webVars    == <<cache, req>>
stripeVars == <<session, expireKey, cancelKey>>
eventVars  == <<event, acked>>
vars == <<row, overdue, link, webVars, stripeVars, eventVars>>

-----------------------------------------------------------------------------
(* Tables *)

Statuses == {"PENDING_PAYMENT", "PENDING_APPROVAL", "CONFIRMED", "DECLINED",
             "CANCELLED", "EXPIRED", "COMPLETED"}

\* The columns of RoomBooking that carry the life cycle; a timestamp is TRUE
\* once it is set.
RoomBooking ==
  [status : Statuses,
   payment_provider : {"none", "stripe"},
   payment_intent_id : Sessions \cup {NoSession},
   paid_at : BOOLEAN, approval_deadline_at : BOOLEAN,
   expired_at : BOOLEAN, cancelled_at : BOOLEAN,
   refunded_at : BOOLEAN, refund_processed_at : BOOLEAN,
   refund_amount : 0..Price,
   assigned_room : BOOLEAN, checked_in_at : BOOLEAN, checked_out_at : BOOLEAN]

NewBooking ==
  [status |-> "PENDING_PAYMENT",
   payment_provider |-> "none", payment_intent_id |-> NoSession,
   paid_at |-> FALSE, approval_deadline_at |-> FALSE,
   expired_at |-> FALSE, cancelled_at |-> FALSE,
   refunded_at |-> FALSE, refund_processed_at |-> FALSE,
   refund_amount |-> 0,
   assigned_room |-> FALSE, checked_in_at |-> FALSE, checked_out_at |-> FALSE]

SessionRecord ==
  [state : {"unused", "open", "complete", "expired"},
   booking : Bookings, refunded : 0..Price]

RefundCall == [intent : Sessions \cup {NoSession}, amount : 0..Price]
NoCall == [intent |-> NoSession, amount |-> 0]

RequestKinds == {"idle", "pay", "pay_store", "cancel_gbt", "cancel_bmt",
                 "cancel_save", "confirm", "staff_cancel", "check_in",
                 "check_out", "precheckin"}

\* A request in flight: the row it read, the refund it computed, and the
\* Stripe object it has obtained so far.
Request ==
  [kind : RequestKinds, booking : Bookings, read : RoomBooking,
   amount : 0..Price, got : Sessions \cup {NoSession}]

Idle == [kind |-> "idle", booking |-> CHOOSE b \in Bookings : TRUE,
         read |-> NewBooking, amount |-> 0, got |-> NoSession]

TypeOK ==
  /\ row \in [Bookings -> RoomBooking]
  /\ overdue \subseteq Bookings
  /\ link \subseteq Bookings
  /\ cache \in [Bookings -> Sessions \cup {NoSession}]
  /\ session \in [Sessions -> SessionRecord]
  /\ expireKey \subseteq Sessions
  /\ cancelKey \in [Bookings -> RefundCall]
  /\ event \in [Sessions -> {"none", "RECEIVED", "PROCESSED", "FAILED"}]
  /\ acked \subseteq Sessions
  /\ req \in [Requests -> Request]

Init ==
  /\ row = [b \in Bookings |-> NewBooking]
  /\ overdue = {}
  /\ link = {}
  /\ cache = [b \in Bookings |-> NoSession]
  /\ session = [s \in Sessions |-> [state |-> "unused",
                                    booking |-> Idle.booking, refunded |-> 0]]
  /\ expireKey = {}
  /\ cancelKey = [b \in Bookings |-> NoCall]
  /\ event = [s \in Sessions |-> "none"]
  /\ acked = {}
  /\ req = [p \in Requests |-> Idle]

-----------------------------------------------------------------------------
(* Requests in flight *)

\* Request p reads the row of b and computes a refund of `amount'.
Reads(p, kind, b, amount) ==
  /\ kind \in Operations
  /\ req[p].kind = "idle"
  /\ req' = [req EXCEPT ![p] = [kind |-> kind, booking |-> b, read |-> row[b],
                                amount |-> amount, got |-> NoSession]]
  /\ UNCHANGED <<row, overdue, link, cache, stripeVars, eventVars>>

\* Request p saves `new' over the whole row, whatever the row is by now.
SavesRow(p, kind, new) ==
  /\ req[p].kind = kind
  /\ row' = [row EXCEPT ![req[p].booking] = new]
  /\ req' = [req EXCEPT ![p] = Idle]
  /\ UNCHANGED <<overdue, cache, stripeVars, eventVars>>

\* The worker dies or the connection to the database fails: nothing is saved.
RequestDies(p) ==
  /\ req[p].kind # "idle"
  /\ req' = [req EXCEPT ![p] = Idle]
  /\ UNCHANGED <<row, overdue, link, cache, stripeVars, eventVars>>

\* An e-mail with a management link for b, best effort.
MailsLink(b) == link' \in {link, link \cup {b}}

InHouse(r) == r.checked_in_at /\ ~r.checked_out_at

-----------------------------------------------------------------------------
(* Payment sessions: CreatePaymentSessionView *)

PaymentPageReads(p, b) ==
  /\ row[b].status = "PENDING_PAYMENT"
  /\ \/ cache[b] = NoSession
     \/ cache[b] # NoSession /\ session[cache[b]].state = "expired"
  /\ Reads(p, "pay", b, 0)

\* Session.retrieve raises StripeError: the cached session is passed over.
PaymentPageLosesSession(p, b) ==
  /\ row[b].status = "PENDING_PAYMENT"
  /\ cache[b] # NoSession
  /\ Reads(p, "pay", b, 0)

OpensSession(p, s) ==
  /\ req[p].kind = "pay"
  /\ session[s].state = "unused"
  /\ session' = [session EXCEPT ![s].state = "open",
                                ![s].booking = req[p].booking]
  /\ req' = [req EXCEPT ![p].kind = "pay_store", ![p].got = s]
  /\ UNCHANGED <<row, overdue, link, cache, expireKey, cancelKey, eventVars>>

\* Mutant: the payment is recorded when its page is opened.
StoresSessionAsPaid(p) ==
  LET b == req[p].booking
  IN  /\ req[p].kind = "pay_store"
      /\ row' = [row EXCEPT ![b].payment_provider = "stripe", ![b].paid_at = TRUE,
                            ![b].payment_intent_id = req[p].got]
      /\ req' = [req EXCEPT ![p] = Idle]
      /\ UNCHANGED <<overdue, link, cache, stripeVars, eventVars>>

\* save(update_fields=[payment_provider, payment_reference]): one column of
\* whatever row is there now.
StoresSession(p) ==
  LET b == req[p].booking
  IN  /\ req[p].kind = "pay_store"
      /\ cache' = [cache EXCEPT ![b] = req[p].got]
      /\ row' = [row EXCEPT ![b].payment_provider = "stripe"]
      /\ req' = [req EXCEPT ![p] = Idle]
      /\ UNCHANGED <<overdue, link, stripeVars, eventVars>>

CacheEntryExpires(b) ==
  /\ cache[b] # NoSession
  /\ cache' = [cache EXCEPT ![b] = NoSession]
  /\ UNCHANGED <<row, overdue, link, req, stripeVars, eventVars>>

GuestPays(s) ==
  /\ session[s].state = "open"
  /\ session' = [session EXCEPT ![s].state = "complete"]
  /\ UNCHANGED <<row, overdue, link, webVars, expireKey, cancelKey, eventVars>>

SessionExpires(s) ==
  /\ session[s].state = "open"
  /\ session' = [session EXCEPT ![s].state = "expired"]
  /\ UNCHANGED <<row, overdue, link, webVars, expireKey, cancelKey, eventVars>>

-----------------------------------------------------------------------------
(* The webhook: checkout.session.completed, delivered at least once *)

AlreadyPaidOrDecided(r) ==
  r.status \in {"PENDING_APPROVAL", "CONFIRMED", "DECLINED"} \/ r.paid_at

\* Mutant: the deadline is forgotten.
PaymentReceivedNoDeadline(r, s) ==
  [r EXCEPT !.payment_provider = "stripe", !.payment_intent_id = s,
            !.paid_at = TRUE, !.status = "PENDING_APPROVAL"]

PaymentReceived(r, s) ==
  [r EXCEPT !.payment_provider = "stripe", !.payment_intent_id = s,
            !.paid_at = TRUE, !.status = "PENDING_APPROVAL",
            !.approval_deadline_at = TRUE]

\* The locked part of process_checkout_completed, and the e-mail after it.
RecordsPayment(s) ==
  LET b == session[s].booking
  IN  IF AlreadyPaidOrDecided(row[b])
        THEN UNCHANGED <<row, link>>
        ELSE /\ row' = [row EXCEPT ![b] = PaymentReceived(row[b], s)]
             /\ MailsLink(b)

Delivered(s) == session[s].state = "complete" /\ event[s] # "PROCESSED"

\* The event may be saved and its answer lost.
WebhookProcesses(s) ==
  /\ Delivered(s)
  /\ RecordsPayment(s)
  /\ event' = [event EXCEPT ![s] = "PROCESSED"]
  /\ acked' \in {acked, acked \cup {s}}
  /\ UNCHANGED <<overdue, webVars, stripeVars>>

\* Saving the booking fails; the inner except swallows it and the event is
\* PROCESSED all the same.
WebhookSwallowsFailure(s) ==
  /\ Delivered(s)
  /\ ~AlreadyPaidOrDecided(row[session[s].booking])
  /\ event' = [event EXCEPT ![s] = "PROCESSED"]
  /\ acked' = acked \cup {s}
  /\ UNCHANGED <<row, overdue, link, webVars, stripeVars>>

\* PaymentIntent.retrieve raises: FAILED, and still an HTTP 200.
WebhookFails(s) ==
  /\ Delivered(s)
  /\ event' = [event EXCEPT ![s] = "FAILED"]
  /\ acked' = acked \cup {s}
  /\ UNCHANGED <<row, overdue, link, webVars, stripeVars>>

\* The worker dies after get_or_create, before or after the booking commits.
WebhookCrashes(s) ==
  /\ Delivered(s)
  /\ \/ UNCHANGED <<row, link>>
     \/ RecordsPayment(s)
  /\ event' = [event EXCEPT ![s] = IF @ = "none" THEN "RECEIVED" ELSE @]
  /\ UNCHANGED <<overdue, webVars, stripeVars, acked>>

\* A delivery of an event that is PROCESSED is answered and changes nothing.
WebhookSkips(s) ==
  /\ event[s] = "PROCESSED"
  /\ acked' = acked \cup {s}
  /\ UNCHANGED <<row, overdue, link, webVars, stripeVars, event>>

-----------------------------------------------------------------------------
(* Staff decide: accept and decline, under the row lock *)

StaffAccepts(b) ==
  LET r == row[b]
  IN  /\ ~r.expired_at
      /\ r.status \in {"PENDING_PAYMENT", "PENDING_APPROVAL"}
      /\ r.payment_provider = "stripe" => r.paid_at
      /\ row' = [row EXCEPT ![b].status = "CONFIRMED", ![b].paid_at = TRUE]
      /\ MailsLink(b)
      /\ UNCHANGED <<overdue, webVars, stripeVars, eventVars>>

\* Stripe gives back what is left of the payment.
RefundsRest(s) == session' = [session EXCEPT ![s].refunded = Price]
Refundable(s) == session[s].refunded < Price

Declined(r) == [r EXCEPT !.status = "DECLINED"]

\* process_booking_refund calls Stripe; otherwise there is nothing to refund or
\* it "already processed" the refund.
RefundsOnDecline(r) ==
  r.paid_at /\ r.payment_intent_id # NoSession /\ ~r.refund_processed_at

\* Mutant: a refund that Stripe refuses does not stop the decline.
StaffDeclinesUnrefunded(b) ==
  /\ row[b].status = "PENDING_APPROVAL"
  /\ row' = [row EXCEPT ![b] = Declined(row[b])]
  /\ UNCHANGED <<overdue, link, webVars, stripeVars, eventVars>>

StaffDeclines(b) ==
  LET r == row[b]
      s == r.payment_intent_id
  IN  /\ r.status = "PENDING_APPROVAL"
      /\ IF RefundsOnDecline(r)
           THEN /\ Refundable(s)
                /\ RefundsRest(s)
                /\ row' = [row EXCEPT ![b] =
                     [Declined(r) EXCEPT !.refund_processed_at = TRUE,
                        !.refund_amount = Price - session[s].refunded]]
           ELSE /\ row' = [row EXCEPT ![b] = Declined(r)]
                /\ UNCHANGED session
      /\ UNCHANGED <<overdue, link, webVars, expireKey, cancelKey, eventVars>>

\* Stripe refunds, and the answer is lost or the worker dies before COMMIT:
\* 502 or nothing, and the row is as it was.  (A refund that Stripe refuses
\* changes nothing at all.)
StaffDeclineLost(b) ==
  /\ row[b].status = "PENDING_APPROVAL" /\ RefundsOnDecline(row[b])
  /\ Refundable(row[b].payment_intent_id)
  /\ RefundsRest(row[b].payment_intent_id)
  /\ UNCHANGED <<row, overdue, link, webVars, expireKey, cancelKey, eventVars>>

-----------------------------------------------------------------------------
(* The job auto_expire_overdue_bookings *)

CutoffPasses(b) ==
  /\ b \notin overdue
  /\ overdue' = overdue \cup {b}
  /\ UNCHANGED <<row, link, webVars, stripeVars, eventVars>>

IsExpirable(b) ==
  /\ b \in overdue
  /\ row[b].status = "PENDING_APPROVAL"
  /\ row[b].approval_deadline_at
  /\ ~row[b].expired_at

WantsExpiryRefund(r) ==
  /\ r.paid_at /\ r.payment_intent_id # NoSession
  /\ ~r.refunded_at /\ r.payment_provider = "stripe"

\* Mutant: the reason code is written into the status.
ExpiredAsReason(r) ==
  [r EXCEPT !.status = "APPROVAL_TIMEOUT", !.expired_at = TRUE]

Expired(r) == [r EXCEPT !.status = "EXPIRED", !.expired_at = TRUE]

\* Stripe makes the refund, or replays the one stored under the key.
ExpiresWithRefund(b) ==
  LET s == row[b].payment_intent_id
  IN  /\ IsExpirable(b) /\ WantsExpiryRefund(row[b])
      /\ s \in expireKey \/ Refundable(s)
      /\ session' = [session EXCEPT ![s].refunded =
                       IF s \in expireKey THEN @ ELSE Price]
      /\ expireKey' = expireKey \cup {s}
      /\ row' = [row EXCEPT ![b] = [Expired(@) EXCEPT !.refunded_at = TRUE]]
      /\ UNCHANGED <<overdue, link, webVars, cancelKey, eventVars>>

\* Mutant: a refused refund is recorded like a made one.
ExpiresAsRefunded(b) ==
  /\ IsExpirable(b)
  /\ row' = [row EXCEPT ![b] = [Expired(@) EXCEPT !.refunded_at = TRUE]]
  /\ UNCHANGED <<overdue, link, webVars, stripeVars, eventVars>>

\* Mutant: a refused refund stops the expiry.
ExpiresUnlessRefused(b) ==
  /\ IsExpirable(b) /\ ~WantsExpiryRefund(row[b])
  /\ row' = [row EXCEPT ![b] = Expired(@)]
  /\ UNCHANGED <<overdue, link, webVars, stripeVars, eventVars>>

\* No refund is due, or Stripe refuses it: "continue with expiry".
ExpiresWithoutRefund(b) ==
  /\ IsExpirable(b)
  /\ row' = [row EXCEPT ![b] = Expired(@)]
  /\ UNCHANGED <<overdue, link, webVars, stripeVars, eventVars>>

\* Stripe refunds and its answer is lost (a StripeError: expire all the same),
\* or the job dies before COMMIT.
ExpiryRefundLost(b) ==
  LET s == row[b].payment_intent_id
  IN  /\ IsExpirable(b) /\ WantsExpiryRefund(row[b])
      /\ s \notin expireKey /\ Refundable(s)
      /\ RefundsRest(s)
      /\ expireKey' = expireKey \cup {s}
      /\ row' \in {row, [row EXCEPT ![b] = Expired(@)]}
      /\ UNCHANGED <<overdue, link, webVars, cancelKey, eventVars>>

JobExpires(b) == ExpiresWithRefund(b) \/ ExpiresWithoutRefund(b)

-----------------------------------------------------------------------------
(* Guest cancellation *)

Cancellable(r) == r.status \in {"PENDING_PAYMENT", "PENDING_APPROVAL", "CONFIRMED"}

\* The guest cancels from the booking page, with the GuestBookingToken that
\* came with the booking ...
GuestCancelsByBookingToken(p, b, amount) ==
  /\ Cancellable(row[b])
  /\ Reads(p, "cancel_gbt", b, amount)

\* ... or from the e-mailed management link.
GuestCancelsByLink(p, b, amount) ==
  /\ b \in link
  /\ Cancellable(row[b]) /\ ~row[b].cancelled_at
  /\ Reads(p, "cancel_bmt", b, amount)

\* _handle_stripe_operations calls Refund.create only for a row that was read
\* as CONFIRMED and paid.
RefundsOnCancel(q) ==
  /\ q.read.payment_provider = "stripe" /\ q.read.payment_intent_id # NoSession
  /\ q.read.status = "CONFIRMED" /\ q.read.paid_at
  /\ ~q.read.refund_processed_at
  /\ q.amount > 0

CancelCall(q) == [intent |-> q.read.payment_intent_id, amount |-> q.amount]

\* Mutant: the idempotency key is new for every request.
StripeRefundsCancelUnkeyed(q) ==
  LET s == q.read.payment_intent_id
  IN  /\ session[s].refunded + q.amount <= Price
      /\ session' = [session EXCEPT ![s].refunded = @ + q.amount]
      /\ cancelKey' = [cancelKey EXCEPT ![q.booking] = CancelCall(q)]

\* Stripe makes the refund under a fresh key, replays an identical call, and
\* refuses a different one.
StripeRefundsCancel(q) ==
  LET s == q.read.payment_intent_id
      b == q.booking
  IN  \/ /\ cancelKey[b] = NoCall
         /\ session[s].refunded + q.amount <= Price
         /\ session' = [session EXCEPT ![s].refunded = @ + q.amount]
         /\ cancelKey' = [cancelKey EXCEPT ![b] = CancelCall(q)]
      \/ /\ cancelKey[b] = CancelCall(q)
         /\ UNCHANGED <<session, cancelKey>>

CancelSettles(p) ==
  LET q == req[p]
  IN  /\ q.kind = "cancel_bmt"
      /\ \/ /\ RefundsOnCancel(q)
            /\ StripeRefundsCancel(q)
            /\ req' = [req EXCEPT ![p].kind = "cancel_save",
                                  ![p].got = q.read.payment_intent_id]
         \/ /\ ~RefundsOnCancel(q)
            /\ req' = [req EXCEPT ![p].kind = "cancel_save"]
            /\ UNCHANGED <<session, cancelKey>>
      /\ UNCHANGED <<row, overdue, link, cache, expireKey, eventVars>>

\* Mutant: refund_processed_at is set without a refund reference.
CancelledAsRefunded(q) ==
  [q.read EXCEPT !.status = "CANCELLED", !.cancelled_at = TRUE,
                 !.refund_amount = q.amount, !.refund_processed_at = TRUE]

Cancelled(q) ==
  [q.read EXCEPT !.status = "CANCELLED", !.cancelled_at = TRUE,
                 !.refund_amount = q.amount,
                 !.refund_processed_at = @ \/ q.got # NoSession]

CancelSaves(p) ==
  /\ SavesRow(p, "cancel_save", Cancelled(req[p]))
  /\ UNCHANGED link

\* A GuestBookingToken has no record_action: the AttributeError rolls the
\* transaction back after Stripe has made the refund.  (So does a lost answer.)
BookingTokenCancelRollsBack(p) ==
  LET q == req[p]
  IN  /\ q.kind = "cancel_gbt"
      /\ \/ RefundsOnCancel(q) /\ StripeRefundsCancel(q)
         \/ ~RefundsOnCancel(q) /\ UNCHANGED <<session, cancelKey>>
      /\ req' = [req EXCEPT ![p] = Idle]
      /\ UNCHANGED <<row, overdue, link, cache, expireKey, eventVars>>

\* Stripe refunds and its answer is lost: 400, nothing saved.
CancelAnswerLost(p) ==
  LET q == req[p]
  IN  /\ q.kind = "cancel_bmt"
      /\ RefundsOnCancel(q) /\ StripeRefundsCancel(q)
      /\ req' = [req EXCEPT ![p] = Idle]
      /\ UNCHANGED <<row, overdue, link, cache, expireKey, eventVars>>

\* Stripe keeps an idempotency key for a day or so.
KeyForgotten(b) ==
  /\ ForgetfulStripe /\ cancelKey[b] # NoCall
  /\ cancelKey' = [cancelKey EXCEPT ![b] = NoCall]
  /\ UNCHANGED <<row, overdue, link, webVars, session, expireKey, eventVars>>

-----------------------------------------------------------------------------
(* Staff confirm and cancel bookings that did not come through Stripe *)

IsStripeBooking(r) ==
  r.payment_provider = "stripe" \/ r.payment_intent_id # NoSession

ConfirmReads(p, b) ==
  /\ ~IsStripeBooking(row[b])
  /\ row[b].status \notin
       {"CANCELLED", "CONFIRMED", "PENDING_PAYMENT", "PENDING_APPROVAL"}
  /\ Reads(p, "confirm", b, 0)

ConfirmSaves(p) ==
  /\ SavesRow(p, "confirm", [req[p].read EXCEPT !.status = "CONFIRMED"])
  /\ MailsLink(req[p].booking)

StaffCancelReads(p, b) ==
  /\ ~IsStripeBooking(row[b])
  /\ row[b].status \notin {"CANCELLED", "COMPLETED", "PENDING_APPROVAL"}
  /\ Reads(p, "staff_cancel", b, 0)

StaffCancelSaves(p) ==
  /\ SavesRow(p, "staff_cancel", [req[p].read EXCEPT !.status = "CANCELLED"])
  /\ UNCHANGED link

-----------------------------------------------------------------------------
(* The stay, as far as the booking row goes; rooms are in RoomStay *)

AssignsRoom(b) ==
  /\ row[b].status = "CONFIRMED" /\ ~InHouse(row[b])
  /\ ~row[b].assigned_room
  /\ row' = [row EXCEPT ![b].assigned_room = TRUE]
  /\ UNCHANGED <<overdue, link, webVars, stripeVars, eventVars>>

UnassignsRoom(b) ==
  /\ ~InHouse(row[b]) /\ row[b].assigned_room
  /\ row' = [row EXCEPT ![b].assigned_room = FALSE]
  /\ UNCHANGED <<overdue, link, webVars, stripeVars, eventVars>>

\* The guest fills in the pre-check-in form; the link has no status guard.
PrecheckinReads(p, b) == Reads(p, "precheckin", b, 0)

PrecheckinSaves(p) ==
  /\ SavesRow(p, "precheckin", req[p].read)
  /\ UNCHANGED link

\* validate_checkin passes a row that was checked in before, whatever its
\* status; without a room the request fails later and rolls back.
CheckInReads(p, b) ==
  /\ row[b].assigned_room
  /\ row[b].checked_in_at \/ row[b].status = "CONFIRMED"
  /\ Reads(p, "check_in", b, 0)

CheckInSaves(p) ==
  /\ SavesRow(p, "check_in", [req[p].read EXCEPT !.checked_in_at = TRUE])
  /\ UNCHANGED link

\* checkout_booking, from the booking page (checked in) or for a whole room
\* (any booking that was not checked out).
CheckOutReads(p, b) ==
  /\ row[b].assigned_room /\ ~row[b].checked_out_at
  /\ Reads(p, "check_out", b, 0)

\* Locks and reads the row again, but tests nothing again.
CheckOutSaves(p) ==
  /\ SavesRow(p, "check_out", [row[req[p].booking] EXCEPT
                               !.checked_out_at = TRUE, !.status = "COMPLETED"])
  /\ UNCHANGED link

-----------------------------------------------------------------------------
(* Specification *)

StripeStep(s) ==
  \/ GuestPays(s) \/ SessionExpires(s)
  \/ WebhookProcesses(s) \/ WebhookSwallowsFailure(s) \/ WebhookFails(s)
  \/ WebhookCrashes(s) \/ WebhookSkips(s)

LockedStep(b) ==
  \/ StaffAccepts(b) \/ StaffDeclines(b) \/ StaffDeclineLost(b)
  \/ JobExpires(b) \/ ExpiryRefundLost(b)
  \/ AssignsRoom(b) \/ UnassignsRoom(b)

EnvironmentStep(b) == CutoffPasses(b) \/ CacheEntryExpires(b) \/ KeyForgotten(b)

RequestReads(p, b) ==
  \/ PaymentPageReads(p, b) \/ PaymentPageLosesSession(p, b)
  \/ \E amount \in RefundOffers : \/ GuestCancelsByBookingToken(p, b, amount)
                                  \/ GuestCancelsByLink(p, b, amount)
  \/ ConfirmReads(p, b) \/ StaffCancelReads(p, b) \/ PrecheckinReads(p, b)
  \/ CheckInReads(p, b) \/ CheckOutReads(p, b)

RequestGoesOn(p) ==
  \/ \E s \in Sessions : OpensSession(p, s)
  \/ StoresSession(p) \/ RequestDies(p)
  \/ CancelSettles(p) \/ CancelSaves(p) \/ CancelAnswerLost(p)
  \/ BookingTokenCancelRollsBack(p)
  \/ ConfirmSaves(p) \/ StaffCancelSaves(p) \/ PrecheckinSaves(p)
  \/ CheckInSaves(p) \/ CheckOutSaves(p)

Next ==
  \/ \E s \in Sessions : StripeStep(s)
  \/ \E b \in Bookings : LockedStep(b) \/ EnvironmentStep(b)
  \/ \E p \in Requests, b \in Bookings : RequestReads(p, b)
  \/ \E p \in Requests : RequestGoesOn(p)

Spec == Init /\ [][Next]_vars

\* The job runs on a schedule and Stripe repeats an event until it is
\* answered; guests and staff promise nothing.
Fairness ==
  /\ \A b \in Bookings : WF_vars(JobExpires(b))
  /\ \A s \in Sessions : WF_vars(s \notin acked /\ WebhookProcesses(s))

FairSpec == Spec /\ Fairness

-----------------------------------------------------------------------------
(* What the rows may be trusted for *)

\* A row that names a payment intent names money that Stripe captured for this
\* very booking, whose event the webhook saw, and says that it is paid: so
\* whatever stale copy of the row some request saves back.
NamesCapturedMoney(b, r) ==
  r.payment_intent_id # NoSession =>
    /\ session[r.payment_intent_id].state = "complete"
    /\ session[r.payment_intent_id].booking = b
    /\ event[r.payment_intent_id] # "none"
    /\ r.paid_at /\ r.payment_provider = "stripe"

IntentIsCaptured == \A b \in Bookings : NamesCapturedMoney(b, row[b])

\* A booking that waits for approval is one the expiry job can find and
\* refund: it never waits with a field missing that the job's filter needs.
CanBeExpired(r) ==
  r.status = "PENDING_APPROVAL" =>
    /\ r.payment_intent_id # NoSession /\ r.paid_at
    /\ r.approval_deadline_at /\ ~r.expired_at
    /\ ~r.refunded_at /\ ~r.refund_processed_at

PendingApprovalCanBeExpired == \A b \in Bookings : CanBeExpired(row[b])

\* A declined booking has been refunded in full at Stripe, through lost
\* answers, crashes and second attempts.
RefundedIfDeclined(r) ==
  r.status = "DECLINED" =>
    /\ r.payment_intent_id # NoSession
    /\ session[r.payment_intent_id].refunded = Price

DeclinedIsRefunded == \A b \in Bookings : RefundedIfDeclined(row[b])

\* A refund the row records has happened: refund_processed_at stands for
\* refund_amount given back, refunded_at for all of it.
RecordsRealRefund(r) ==
  /\ r.refund_processed_at =>
       /\ r.payment_intent_id # NoSession
       /\ session[r.payment_intent_id].refunded >= r.refund_amount
  /\ r.refunded_at =>
       /\ r.payment_intent_id # NoSession
       /\ session[r.payment_intent_id].refunded = Price

RecordedRefundsAreReal == \A b \in Bookings : RecordsRealRefund(row[b])

\* However many cancellations race or are repeated, Stripe gives a guest the
\* cancellation refund once; only a full refund can be on top of it.
CancellationRefundsOnce ==
  \A s \in Sessions :
    LET b == session[s].booking
    IN  session[s].refunded \in {0, Price} \cup
          (IF cancelKey[b].intent = s THEN {cancelKey[b].amount} ELSE {})

\* A booking left waiting past its cutoff does not wait for ever.
NobodyWaitsForEver ==
  \A b \in Bookings :
    (row[b].status = "PENDING_APPROVAL" /\ b \in overdue)
      ~> row[b].status # "PENDING_APPROVAL"

-----------------------------------------------------------------------------
(* The booking table implements the ledger of RefundLedger *)

Charge ==
  [s \in Sessions |->
     CASE session[s].state = "unused" -> "none"
       [] session[s].state = "open" -> "open"
       [] session[s].state = "complete" -> "captured"
       [] session[s].state = "expired" -> "void"]

ClaimOf(r) ==
  [intent |-> r.payment_intent_id,
   part |-> IF r.refund_processed_at THEN r.refund_amount ELSE 0,
   all |-> r.refunded_at \/ r.status = "DECLINED"]

Ledger == INSTANCE RefundLedger WITH
  charge <- Charge,
  owner <- [s \in Sessions |-> session[s].booking],
  returned <- [s \in Sessions |-> session[s].refunded],
  claim <- [b \in Bookings |-> ClaimOf(row[b])]

\* Whatever races, crashes and lost answers do to the rows, every row that is
\* ever written claims no more about the guest's money than Stripe has done,
\* and money that went back stays with the guest.
ImplementsLedger == Ledger!Spec

=============================================================================
