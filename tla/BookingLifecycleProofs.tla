----------------------- MODULE BookingLifecycleProofs -----------------------
(***************************************************************************)
(* What BookingLifecycle promises for every number of bookings, sessions   *)
(* and workers, every price and every refund offer, proved.                *)
(*                                                                         *)
(* An unlocked request carries a copy of a row and may save it at any      *)
(* later moment.  So the invariant speaks of the copies in flight exactly  *)
(* as it speaks of the rows: each must be true of Stripe now.  It can only *)
(* stay so because what Stripe has done is never undone (Later): captured  *)
(* money stays captured for the same booking, refunds only grow, an event  *)
(* that was seen stays seen.                                               *)
(***************************************************************************)
EXTENDS BookingLifecycle, TLAPS

-----------------------------------------------------------------------------
(* The inductive invariant *)

\* Row r of booking b is true of the money m and the events e.
RowFact(b, r, m, e) ==
  LET s == r.payment_intent_id
  IN  /\ s # NoSession =>
           /\ m[s].state = "complete" /\ m[s].booking = b /\ e[s] # "none"
           /\ r.paid_at /\ r.payment_provider = "stripe"
      /\ r.status = "PENDING_APPROVAL" =>
           /\ s # NoSession /\ r.approval_deadline_at /\ ~r.expired_at
           /\ ~r.refunded_at
      /\ r.status = "DECLINED" => s # NoSession /\ m[s].refunded = Price
      /\ r.refund_processed_at => s # NoSession /\ m[s].refunded >= r.refund_amount
      /\ r.refunded_at => s # NoSession /\ m[s].refunded = Price
      /\ r.expired_at => s # NoSession
      /\ Cancellable(r) => ~r.refund_processed_at

\* Request q is entitled to what it is going to save.
RequestFact(q, m, e) ==
  /\ RowFact(q.booking, q.read, m, e)
  /\ q.kind \in {"cancel_gbt", "cancel_bmt", "cancel_save"} => Cancellable(q.read)
  /\ q.kind \in {"cancel_gbt", "cancel_bmt"} => q.got = NoSession
  /\ q.kind = "cancel_save" /\ q.got # NoSession =>
       q.got = q.read.payment_intent_id /\ m[q.got].refunded >= q.amount
  /\ q.kind = "confirm" => ~IsStripeBooking(q.read)

\* A call that Stripe remembers has been carried out.
KeysFact ==
  /\ \A b \in Bookings : cancelKey[b].intent # NoSession =>
       session[cancelKey[b].intent].refunded >= cancelKey[b].amount
  /\ \A s \in expireKey : session[s].refunded = Price
  /\ \A s \in Sessions : session[s].state # "complete" => session[s].refunded = 0

IInv ==
  /\ TypeOK
  /\ \A b \in Bookings : RowFact(b, row[b], session, event)
  /\ \A p \in Requests : RequestFact(req[p], session, event)
  /\ KeysFact

\* Whatever was done with the money m and the events e is still done in n, f.
Later(m, e, n, f) ==
  \A s \in Sessions :
    /\ m[s].state = "complete" =>
         n[s].state = "complete" /\ n[s].booking = m[s].booking
    /\ n[s].refunded >= m[s].refunded
    /\ e[s] # "none" => f[s] # "none"

-----------------------------------------------------------------------------
(* Types *)

\* A worker that does nothing is a well-formed request.
LEMMA IdleType == Idle \in Request
  <1>1. (CHOOSE b \in Bookings : TRUE) \in Bookings
    BY ConstantsAssumption
  <1> QED
    BY <1>1, ConstantsAssumption
    DEF Idle, Request, RequestKinds, NewBooking, RoomBooking, Statuses

\* A booking as it is created is a well-formed row.
LEMMA NewBookingType == NewBooking \in RoomBooking
  BY ConstantsAssumption DEF NewBooking, RoomBooking, Statuses

\* The initial state has its types.
LEMMA InitType == Init => TypeOK
  <1>1. Idle.booking \in Bookings
    BY IdleType DEF Request
  <1> QED
    BY <1>1, IdleType, NewBookingType, ConstantsAssumption
    DEF Init, TypeOK, SessionRecord, RefundCall, NoCall

\* The unlocked requests: reading, saving.
LEMMA ReadsType ==
  ASSUME TypeOK, NEW p \in Requests, NEW b \in Bookings, NEW kind \in RequestKinds,
         NEW amount \in 0..Price, Reads(p, kind, b, amount)
  PROVE  TypeOK'
  <1>1. [kind |-> kind, booking |-> b, read |-> row[b], amount |-> amount,
         got |-> NoSession] \in Request
    BY DEF TypeOK, Request
  <1> QED
    BY <1>1 DEF TypeOK, Reads, stripeVars, eventVars

\* Saving a well-formed row over the one in the table keeps the types.
LEMMA SavesRowType ==
  ASSUME TypeOK, NEW p \in Requests, NEW kind, NEW new \in RoomBooking,
         SavesRow(p, kind, new), link' \subseteq Bookings
  PROVE  TypeOK'
  <1>1. req[p].booking \in Bookings
    BY DEF TypeOK, Request
  <1> QED
    BY <1>1, IdleType DEF TypeOK, SavesRow, stripeVars, eventVars

\* What a recorded payment leaves is a well-formed row.
LEMMA PaymentReceivedType ==
  ASSUME NEW r \in RoomBooking, NEW s \in Sessions
  PROVE  PaymentReceived(r, s) \in RoomBooking
  BY DEF PaymentReceived, RoomBooking, Statuses

\* The payment page, the webhook and Stripe itself keep the types.
LEMMA StripeStepType ==
  ASSUME TypeOK, NEW s \in Sessions, StripeStep(s)
  PROVE  TypeOK'
  <1> USE DEF TypeOK, webVars, stripeVars, eventVars
  <1>1. CASE GuestPays(s)
    BY <1>1 DEF GuestPays, SessionRecord
  <1>2. CASE SessionExpires(s)
    BY <1>2 DEF SessionExpires, SessionRecord
  <1>a. ASSUME RecordsPayment(s)
        PROVE  row' \in [Bookings -> RoomBooking] /\ link' \subseteq Bookings
    <2>1. session[s].booking \in Bookings
      BY DEF SessionRecord
    <2>2. PaymentReceived(row[session[s].booking], s) \in RoomBooking
      BY <2>1, PaymentReceivedType
    <2>3. CASE AlreadyPaidOrDecided(row[session[s].booking])
      BY <1>a, <2>3 DEF RecordsPayment
    <2>4. CASE ~AlreadyPaidOrDecided(row[session[s].booking])
      BY <1>a, <2>1, <2>2, <2>4 DEF RecordsPayment, MailsLink
    <2> QED
      BY <2>3, <2>4
  <1>3. CASE WebhookProcesses(s)
    BY <1>3, <1>a DEF WebhookProcesses
  <1>4. CASE WebhookSwallowsFailure(s)
    BY <1>4 DEF WebhookSwallowsFailure
  <1>5. CASE WebhookFails(s)
    BY <1>5 DEF WebhookFails
  <1>6. CASE WebhookCrashes(s)
    BY <1>6, <1>a DEF WebhookCrashes
  <1>7. CASE WebhookSkips(s)
    BY <1>7 DEF WebhookSkips
  <1> QED
    BY <1>1, <1>2, <1>3, <1>4, <1>5, <1>6, <1>7 DEF StripeStep

\* Handlers that lock the row they change keep the types.
LEMMA LockedStepType ==
  ASSUME TypeOK, NEW b \in Bookings, LockedStep(b)
  PROVE  TypeOK'
  <1> DEFINE s == row[b].payment_intent_id
  <1> USE ConstantsAssumption DEF TypeOK, webVars, stripeVars, eventVars
  <1>r. row[b] \in RoomBooking
    OBVIOUS
  <1>s. s \in Sessions \cup {NoSession}
    BY <1>r DEF RoomBooking
  <1>p. Price \in 0..Price
    OBVIOUS
  <1>d. Declined(row[b]) \in RoomBooking
    BY <1>r DEF Declined, RoomBooking, Statuses
  <1>e. /\ Expired(row[b]) \in RoomBooking
        /\ [Expired(row[b]) EXCEPT !.refunded_at = TRUE] \in RoomBooking
    BY <1>r DEF Expired, RoomBooking, Statuses
  <1>1. CASE StaffAccepts(b)
    <2>1. [row[b] EXCEPT !.status = "CONFIRMED", !.paid_at = TRUE] \in RoomBooking
      BY <1>r DEF RoomBooking, Statuses
    <2> QED
      BY <1>1, <2>1 DEF StaffAccepts, MailsLink
  <1>2. CASE StaffDeclines(b)
    <2>1. CASE RefundsOnDecline(row[b])
      <3>1. s \in Sessions
        BY <1>s, <2>1 DEF RefundsOnDecline
      <3>2. Price - session[s].refunded \in 0..Price
        BY <3>1 DEF SessionRecord
      <3>3. [Declined(row[b]) EXCEPT !.refund_processed_at = TRUE,
               !.refund_amount = Price - session[s].refunded] \in RoomBooking
        BY <1>d, <3>2 DEF RoomBooking
      <3>4. session' \in [Sessions -> SessionRecord]
        BY <1>2, <2>1, <3>1, <1>p DEF StaffDeclines, RefundsRest, SessionRecord
      <3> QED
        BY <1>2, <2>1, <3>3, <3>4 DEF StaffDeclines
    <2>2. CASE ~RefundsOnDecline(row[b])
      BY <1>2, <2>2, <1>d DEF StaffDeclines
    <2> QED
      BY <2>1, <2>2
  <1>3. CASE StaffDeclineLost(b)
    BY <1>3, <1>p DEF StaffDeclineLost, RefundsRest, SessionRecord
  <1>4. CASE ExpiresWithRefund(b)
    BY <1>4, <1>e, <1>s, <1>p DEF ExpiresWithRefund, WantsExpiryRefund, SessionRecord
  <1>5. CASE ExpiresWithoutRefund(b)
    BY <1>5, <1>e DEF ExpiresWithoutRefund
  <1>6. CASE ExpiryRefundLost(b)
    <2>1. row' \in [Bookings -> RoomBooking]
      BY <1>6, <1>e DEF ExpiryRefundLost
    <2>2. s \in Sessions
      BY <1>6, <1>s DEF ExpiryRefundLost, WantsExpiryRefund
    <2>3. session' \in [Sessions -> SessionRecord]
      BY <1>6, <2>2, <1>p DEF ExpiryRefundLost, RefundsRest, SessionRecord
    <2> QED
      BY <1>6, <2>1, <2>2, <2>3 DEF ExpiryRefundLost
  <1>7. CASE AssignsRoom(b)
    <2>1. [row[b] EXCEPT !.assigned_room = TRUE] \in RoomBooking
      BY <1>r DEF RoomBooking
    <2> QED
      BY <1>7, <2>1 DEF AssignsRoom
  <1>8. CASE UnassignsRoom(b)
    <2>1. [row[b] EXCEPT !.assigned_room = FALSE] \in RoomBooking
      BY <1>r DEF RoomBooking
    <2> QED
      BY <1>8, <2>1 DEF UnassignsRoom
  <1> QED
    BY <1>1, <1>2, <1>3, <1>4, <1>5, <1>6, <1>7, <1>8 DEF LockedStep, JobExpires

\* Deadlines, cache entries and forgotten keys keep the types.
LEMMA EnvironmentStepType ==
  ASSUME TypeOK, NEW b \in Bookings, EnvironmentStep(b)
  PROVE  TypeOK'
  BY ConstantsAssumption
  DEF TypeOK, EnvironmentStep, CutoffPasses, CacheEntryExpires, KeyForgotten,
      RefundCall, NoCall, webVars, stripeVars, eventVars

\* A request that starts with a copy of a row keeps the types.
LEMMA RequestReadsType ==
  ASSUME TypeOK, NEW p \in Requests, NEW b \in Bookings, RequestReads(p, b)
  PROVE  TypeOK'
  <1>1. PICK kind \in RequestKinds, amount \in 0..Price : Reads(p, kind, b, amount)
    <2>1. \A amount \in RefundOffers : amount \in 0..Price
      BY ConstantsAssumption
    <2> QED
      BY <2>1, ConstantsAssumption
      DEF RequestReads, PaymentPageReads, PaymentPageLosesSession,
          GuestCancelsByBookingToken, GuestCancelsByLink, ConfirmReads,
          StaffCancelReads, PrecheckinReads, CheckInReads, CheckOutReads, RequestKinds
  <1> QED
    BY <1>1, ReadsType

\* A refund call leaves well-typed sessions and keys.
LEMMA StripeRefundsCancelType ==
  ASSUME TypeOK, NEW q \in Request, RefundsOnCancel(q), StripeRefundsCancel(q)
  PROVE  /\ session' \in [Sessions -> SessionRecord]
         /\ cancelKey' \in [Bookings -> RefundCall]
  <1> DEFINE s == q.read.payment_intent_id
  <1>1. s \in Sessions /\ q.amount \in 0..Price /\ q.booking \in Bookings
    BY DEF RefundsOnCancel, Request, RoomBooking
  <1>2. CASE session[s].refunded + q.amount <= Price
             /\ session' = [session EXCEPT ![s].refunded = @ + q.amount]
             /\ cancelKey' = [cancelKey EXCEPT ![q.booking] = CancelCall(q)]
    <2>1. session[s].refunded + q.amount \in 0..Price
      BY <1>1, <1>2, ConstantsAssumption DEF TypeOK, SessionRecord
    <2> QED
      BY <1>1, <1>2, <2>1 DEF TypeOK, SessionRecord, RefundCall, CancelCall
  <1>3. CASE UNCHANGED <<session, cancelKey>>
    BY <1>3 DEF TypeOK
  <1> QED
    BY <1>2, <1>3 DEF StripeRefundsCancel

\* A request that calls Stripe or saves its copy keeps the types.
LEMMA RequestGoesOnType ==
  ASSUME TypeOK, NEW p \in Requests, RequestGoesOn(p)
  PROVE  TypeOK'
  <1> USE DEF TypeOK, webVars, stripeVars, eventVars
  <1>q. /\ req[p] \in Request
        /\ req[p].booking \in Bookings /\ req[p].read \in RoomBooking
        /\ req[p].amount \in 0..Price /\ req[p].got \in Sessions \cup {NoSession}
        /\ row[req[p].booking] \in RoomBooking
    BY DEF Request
  <1>1. ASSUME NEW s \in Sessions, OpensSession(p, s) PROVE TypeOK'
    <2>1. [req[p] EXCEPT !.kind = "pay_store", !.got = s] \in Request
      BY <1>1, <1>q DEF Request, RequestKinds
    <2>2. [session[s] EXCEPT !.state = "open", !.booking = req[p].booking]
            \in SessionRecord
      BY <1>1, <1>q DEF SessionRecord
    <2>3. /\ req' = [req EXCEPT ![p] = [req[p] EXCEPT !.kind = "pay_store", !.got = s]]
          /\ session' = [session EXCEPT ![s] =
               [session[s] EXCEPT !.state = "open", !.booking = req[p].booking]]
      BY <1>1 DEF OpensSession
    <2> QED
      BY <1>1, <2>1, <2>2, <2>3 DEF OpensSession
  <1>2. CASE StoresSession(p)
    <2>1. [row[req[p].booking] EXCEPT !.payment_provider = "stripe"] \in RoomBooking
      BY <1>q DEF RoomBooking
    <2> QED
      BY <1>2, <1>q, <2>1, IdleType DEF StoresSession
  <1>3. CASE RequestDies(p)
    BY <1>3, IdleType DEF RequestDies
  <1>4. CASE CancelSettles(p)
    <2>1. req' \in [Requests -> Request]
      BY <1>4, <1>q DEF CancelSettles, Request, RequestKinds, RoomBooking
    <2> QED
      BY <1>4, <1>q, <2>1, StripeRefundsCancelType DEF CancelSettles
  <1>5. CASE CancelSaves(p)
    <2>1. Cancelled(req[p]) \in RoomBooking
      BY <1>q DEF Cancelled, RoomBooking, Statuses
    <2> QED
      BY <1>5, <2>1, SavesRowType DEF CancelSaves
  <1>6. CASE CancelAnswerLost(p)
    BY <1>6, <1>q, StripeRefundsCancelType, IdleType DEF CancelAnswerLost
  <1>7. CASE BookingTokenCancelRollsBack(p)
    BY <1>7, <1>q, StripeRefundsCancelType, IdleType DEF BookingTokenCancelRollsBack
  <1>8. CASE ConfirmSaves(p)
    <2>1. [req[p].read EXCEPT !.status = "CONFIRMED"] \in RoomBooking
      BY <1>q DEF RoomBooking, Statuses
    <2>2. link' \subseteq Bookings
      BY <1>8, <1>q DEF ConfirmSaves, MailsLink
    <2> QED
      BY <1>8, <2>1, <2>2, SavesRowType DEF ConfirmSaves
  <1>9. CASE StaffCancelSaves(p)
    <2>1. [req[p].read EXCEPT !.status = "CANCELLED"] \in RoomBooking
      BY <1>q DEF RoomBooking, Statuses
    <2> QED
      BY <1>9, <2>1, SavesRowType DEF StaffCancelSaves
  <1>10. CASE PrecheckinSaves(p)
    BY <1>10, <1>q, SavesRowType DEF PrecheckinSaves
  <1>11. CASE CheckInSaves(p)
    <2>1. [req[p].read EXCEPT !.checked_in_at = TRUE] \in RoomBooking
      BY <1>q DEF RoomBooking
    <2> QED
      BY <1>11, <2>1, SavesRowType DEF CheckInSaves
  <1>12. CASE CheckOutSaves(p)
    <2>1. [row[req[p].booking] EXCEPT !.checked_out_at = TRUE,
                                      !.status = "COMPLETED"] \in RoomBooking
      BY <1>q DEF RoomBooking, Statuses
    <2> QED
      BY <1>12, <2>1, SavesRowType DEF CheckOutSaves
  <1> QED
    BY <1>1, <1>2, <1>3, <1>4, <1>5, <1>6, <1>7, <1>8, <1>9, <1>10, <1>11, <1>12
    DEF RequestGoesOn

\* Every step, or none, keeps the types.
LEMMA NextType == TypeOK /\ [Next]_vars => TypeOK'
  <1> SUFFICES ASSUME TypeOK, [Next]_vars PROVE TypeOK'
    OBVIOUS
  <1>1. CASE UNCHANGED vars
    BY <1>1 DEF vars, TypeOK, webVars, stripeVars, eventVars
  <1>2. CASE Next
    BY <1>2, StripeStepType, LockedStepType, EnvironmentStepType, RequestReadsType,
       RequestGoesOnType DEF Next
  <1> QED
    BY <1>1, <1>2

\* The columns of a booking, the sessions and the requests in flight always
\* hold values of their types: among them, Stripe never gives back more than
\* the price, whatever refunds race.
THEOREM TypeCorrect == Spec => []TypeOK
  BY InitType, NextType, PTL DEF Spec

-----------------------------------------------------------------------------
(* What is written to a row is true *)

\* A row that was true stays true: Stripe undoes nothing.
LEMMA RowFactLater ==
  ASSUME NEW b \in Bookings, NEW r \in RoomBooking,
         NEW m \in [Sessions -> SessionRecord], NEW n \in [Sessions -> SessionRecord],
         NEW e, NEW f, Later(m, e, n, f), RowFact(b, r, m, e)
  PROVE  RowFact(b, r, n, f)
  <1> DEFINE s == r.payment_intent_id
  <1>1. CASE s = NoSession
    BY <1>1 DEF RowFact
  <1>2. CASE s # NoSession
    <2>1. s \in Sessions
      BY <1>2 DEF RoomBooking
    <2>2. /\ m[s].refunded \in 0..Price /\ n[s].refunded \in 0..Price
          /\ r.refund_amount \in 0..Price
      BY <2>1 DEF SessionRecord, RoomBooking
    <2>3. /\ m[s].state = "complete" => n[s].state = "complete" /\ n[s].booking = m[s].booking
          /\ n[s].refunded >= m[s].refunded
          /\ e[s] # "none" => f[s] # "none"
      BY <2>1 DEF Later
    <2> QED
      BY <1>2, <2>2, <2>3, ConstantsAssumption DEF RowFact
  <1> QED
    BY <1>1, <1>2

\* What entitles a request to save stays true as Stripe does more.
LEMMA RequestFactLater ==
  ASSUME NEW q \in Request,
         NEW m \in [Sessions -> SessionRecord], NEW n \in [Sessions -> SessionRecord],
         NEW e, NEW f, Later(m, e, n, f), RequestFact(q, m, e)
  PROVE  RequestFact(q, n, f)
  <1>1. q.booking \in Bookings /\ q.read \in RoomBooking
    BY DEF Request
  <1>2. RowFact(q.booking, q.read, n, f)
    BY <1>1, RowFactLater DEF RequestFact
  <1>3. q.kind = "cancel_save" /\ q.got # NoSession =>
          q.got = q.read.payment_intent_id /\ n[q.got].refunded >= q.amount
    <2> SUFFICES ASSUME q.kind = "cancel_save", q.got # NoSession
                 PROVE  q.got = q.read.payment_intent_id /\ n[q.got].refunded >= q.amount
      OBVIOUS
    <2>1. q.got \in Sessions /\ q.amount \in 0..Price
      BY DEF Request
    <2>2. m[q.got].refunded \in 0..Price /\ n[q.got].refunded \in 0..Price
      BY <2>1 DEF SessionRecord
    <2>3. m[q.got].refunded >= q.amount /\ n[q.got].refunded >= m[q.got].refunded
      BY <2>1 DEF RequestFact, Later
    <2> QED
      BY <2>1, <2>2, <2>3, ConstantsAssumption DEF RequestFact
  <1> QED
    BY <1>2, <1>3 DEF RequestFact

\* A new booking says nothing of money, so it is true of any.
LEMMA NewBookingFact ==
  ASSUME NEW b, NEW m, NEW e PROVE RowFact(b, NewBooking, m, e)
  BY DEF RowFact, NewBooking

\* A worker that does nothing needs no entitlement.
LEMMA IdleFact ==
  ASSUME NEW m, NEW e PROVE RequestFact(Idle, m, e)
  BY NewBookingFact DEF RequestFact, Idle

\* A payment is written to a row that has none: an unpaid row names no intent,
\* so it records no refund and no expiry.
LEMMA PaymentReceivedFact ==
  ASSUME NEW b \in Bookings, NEW r \in RoomBooking, NEW s \in Sessions, NEW m, NEW e,
         NEW f, RowFact(b, r, m, e), ~AlreadyPaidOrDecided(r),
         m[s].state = "complete", m[s].booking = b, f[s] # "none"
  PROVE  RowFact(b, PaymentReceived(r, s), m, f)
  <1>1. r.payment_intent_id = NoSession
    BY DEF RowFact, AlreadyPaidOrDecided
  <1>2. ~r.refund_processed_at /\ ~r.refunded_at /\ ~r.expired_at
    BY <1>1 DEF RowFact
  <1>3. s # NoSession
    BY ConstantsAssumption
  <1> QED
    BY <1>2, <1>3 DEF RowFact, PaymentReceived, RoomBooking, Cancellable

\* Accepting a booking that is not decided yet leaves a true row.
LEMMA AcceptedFact ==
  ASSUME NEW b, NEW r \in RoomBooking, NEW m, NEW e, RowFact(b, r, m, e),
         r.status \in {"PENDING_PAYMENT", "PENDING_APPROVAL"}
  PROVE  RowFact(b, [r EXCEPT !.status = "CONFIRMED", !.paid_at = TRUE], m, e)
  BY DEF RowFact, RoomBooking, Cancellable

\* The columns of the stay and of the payment page are no part of the fact.
LEMMA OtherColumnsFact ==
  ASSUME NEW b, NEW r \in RoomBooking, NEW m, NEW e, RowFact(b, r, m, e)
  PROVE  /\ RowFact(b, [r EXCEPT !.payment_provider = "stripe"], m, e)
         /\ RowFact(b, [r EXCEPT !.assigned_room = TRUE], m, e)
         /\ RowFact(b, [r EXCEPT !.assigned_room = FALSE], m, e)
         /\ RowFact(b, [r EXCEPT !.checked_in_at = TRUE], m, e)
  BY DEF RowFact, RoomBooking, Cancellable

\* Cancelling or checking out changes no claim about money.
LEMMA ClosedFact ==
  ASSUME NEW b, NEW r \in RoomBooking, NEW m, NEW e, RowFact(b, r, m, e)
  PROVE  /\ RowFact(b, [r EXCEPT !.status = "CANCELLED"], m, e)
         /\ RowFact(b, [r EXCEPT !.checked_out_at = TRUE, !.status = "COMPLETED"], m, e)
  BY DEF RowFact, RoomBooking, Cancellable

\* Expiring a booking leaves a true row, with or without its refund.
LEMMA ExpiredFact ==
  ASSUME NEW b, NEW r \in RoomBooking, NEW m, NEW e, RowFact(b, r, m, e),
         r.status = "PENDING_APPROVAL"
  PROVE  /\ RowFact(b, Expired(r), m, e)
         /\ m[r.payment_intent_id].refunded = Price =>
              RowFact(b, [Expired(r) EXCEPT !.refunded_at = TRUE], m, e)
  BY DEF RowFact, RoomBooking, Cancellable, Expired

\* The refund that is recorded is at most what Stripe has given back.
LEMMA DeclinedFact ==
  ASSUME NEW b, NEW r \in RoomBooking, NEW m, NEW e, NEW amount \in 0..Price,
         RowFact(b, r, m, e), r.payment_intent_id # NoSession,
         m[r.payment_intent_id].refunded = Price
  PROVE  RowFact(b, [Declined(r) EXCEPT !.refund_processed_at = TRUE,
                                        !.refund_amount = amount], m, e)
  BY ConstantsAssumption DEF RowFact, RoomBooking, Cancellable, Declined

\* A guest's cancellation saves a true row: it records what Stripe refunded.
LEMMA CancelledFact ==
  ASSUME NEW q \in Request, NEW m \in [Sessions -> SessionRecord], NEW e,
         RequestFact(q, m, e), q.kind = "cancel_save"
  PROVE  RowFact(q.booking, Cancelled(q), m, e)
  <1>1. q.read \in RoomBooking
    BY DEF Request
  <1>2. ~q.read.refund_processed_at
    BY DEF RequestFact, RowFact
  <1>3. Cancelled(q).refund_processed_at => q.got # NoSession
    BY <1>1, <1>2 DEF Cancelled, RoomBooking
  <1>4. /\ Cancelled(q).status = "CANCELLED"
        /\ Cancelled(q).refund_amount = q.amount
        /\ Cancelled(q).payment_intent_id = q.read.payment_intent_id
        /\ Cancelled(q).paid_at = q.read.paid_at
        /\ Cancelled(q).payment_provider = q.read.payment_provider
        /\ Cancelled(q).refunded_at = q.read.refunded_at
        /\ Cancelled(q).expired_at = q.read.expired_at
    BY <1>1 DEF Cancelled, RoomBooking
  <1> QED
    BY <1>3, <1>4 DEF RequestFact, RowFact, Cancellable

\* Staff confirmation saves a true row, however old its copy.
LEMMA ConfirmedFact ==
  ASSUME NEW q \in Request, NEW m, NEW e, RequestFact(q, m, e), q.kind = "confirm"
  PROVE  RowFact(q.booking, [q.read EXCEPT !.status = "CONFIRMED"], m, e)
  <1>1. q.read \in RoomBooking
    BY DEF Request
  <1>2. q.read.payment_intent_id = NoSession
    BY DEF RequestFact, IsStripeBooking
  <1> QED
    BY <1>1, <1>2 DEF RequestFact, RowFact, RoomBooking, Cancellable

-----------------------------------------------------------------------------
(* What Stripe does is never undone *)

\* A step that writes only true rows and true requests, and undoes nothing.
Advances ==
  /\ Later(session, event, session', event')
  /\ \A b \in Bookings : row'[b] = row[b] \/ RowFact(b, row'[b], session', event')
  /\ \A p \in Requests : req'[p] = req[p] \/ RequestFact(req'[p], session', event')
  /\ KeysFact'

\* A step of the shape Advances keeps the invariant: whatever it does not
\* write was true before and stays so.
LEMMA AdvancesKeepsIInv ==
  ASSUME IInv, TypeOK', Advances
  PROVE  IInv'
  <1>1. ASSUME NEW b \in Bookings PROVE RowFact(b, row'[b], session', event')
    <2>1. row[b] \in RoomBooking
      BY DEF IInv, TypeOK
    <2>2. RowFact(b, row[b], session', event')
      BY <2>1, RowFactLater DEF IInv, TypeOK, Advances
    <2> QED
      BY <2>2 DEF Advances
  <1>2. ASSUME NEW p \in Requests PROVE RequestFact(req'[p], session', event')
    <2>1. req[p] \in Request
      BY DEF IInv, TypeOK
    <2>2. RequestFact(req[p], session', event')
      BY <2>1, RequestFactLater DEF IInv, TypeOK, Advances
    <2> QED
      BY <2>2 DEF Advances
  <1> QED
    BY <1>1, <1>2 DEF IInv, Advances

\* Without a move of money every fact about it stays.
LEMMA MoneyUnmoved ==
  ASSUME IInv, session' = session, cancelKey' = cancelKey, expireKey' = expireKey,
         \A s \in Sessions : event[s] # "none" => event'[s] # "none"
  PROVE  Later(session, event, session', event') /\ KeysFact'
  <1>1. \A s \in Sessions : session[s].refunded \in 0..Price
    BY DEF IInv, TypeOK, SessionRecord
  <1> QED
    BY <1>1, ConstantsAssumption DEF IInv, KeysFact, Later

\* Writing one true row leaves all others as they were.
LEMMA RowsWritten ==
  ASSUME TypeOK, NEW b \in Bookings, NEW new, row' = [row EXCEPT ![b] = new],
         RowFact(b, new, session', event')
  PROVE  \A c \in Bookings : row'[c] = row[c] \/ RowFact(c, row'[c], session', event')
  BY DEF TypeOK

\* Writing one entitled request leaves all others as they were.
LEMMA RequestsWritten ==
  ASSUME TypeOK, NEW p \in Requests, NEW new, req' = [req EXCEPT ![p] = new],
         RequestFact(new, session', event')
  PROVE  \A c \in Requests : req'[c] = req[c] \/ RequestFact(req'[c], session', event')
  BY DEF TypeOK

\* The intent a row names is captured money of its own booking.
LEMMA RowIntent ==
  ASSUME TypeOK, NEW b \in Bookings, NEW r \in RoomBooking,
         RowFact(b, r, session, event), r.payment_intent_id # NoSession
  PROVE  /\ r.payment_intent_id \in Sessions
         /\ session[r.payment_intent_id].state = "complete"
         /\ session[r.payment_intent_id].booking = b
  BY DEF RoomBooking, RowFact

\* Refunding what is left of a payment goes forward and gives all of it back.
LEMMA RefundsRestMoves ==
  ASSUME IInv, NEW s \in Sessions, session[s].state = "complete", RefundsRest(s),
         event' = event, cancelKey' = cancelKey,
         expireKey' \in {expireKey, expireKey \cup {s}}
  PROVE  /\ Later(session, event, session', event') /\ KeysFact'
         /\ session'[s].refunded = Price
  <1>1. \A t \in Sessions : session[t] \in SessionRecord /\ session[t].refunded \in 0..Price
    BY DEF IInv, TypeOK, SessionRecord
  <1>2. \A t \in Sessions : /\ session'[t].state = session[t].state
                            /\ session'[t].booking = session[t].booking
                            /\ session'[t].refunded = IF t = s THEN Price
                                                      ELSE session[t].refunded
    BY <1>1 DEF RefundsRest, IInv, TypeOK, SessionRecord
  <1>3. Later(session, event, session', event')
    BY <1>1, <1>2, ConstantsAssumption DEF Later
  <1>4. \A b \in Bookings : cancelKey[b].intent \in Sessions \cup {NoSession}
                            /\ cancelKey[b].amount \in 0..Price
    BY DEF IInv, TypeOK, RefundCall
  <1>5. KeysFact'
    BY <1>1, <1>2, <1>4, ConstantsAssumption DEF IInv, TypeOK, KeysFact
  <1> QED
    BY <1>2, <1>3, <1>5

\* The refund of a cancellation, new or remembered, goes forward and is at
\* least what the request asked for.
LEMMA StripeRefundsCancelMoves ==
  ASSUME IInv, NEW q \in Request, RequestFact(q, session, event),
         RefundsOnCancel(q), StripeRefundsCancel(q),
         event' = event, expireKey' = expireKey
  PROVE  /\ Later(session, event, session', event') /\ KeysFact'
         /\ session'[q.read.payment_intent_id].refunded >= q.amount
  <1> DEFINE s == q.read.payment_intent_id
  <1>1. /\ q.booking \in Bookings /\ q.read \in RoomBooking
        /\ q.amount \in 0..Price /\ q.amount > 0
    BY DEF Request, RefundsOnCancel
  <1>2. s \in Sessions /\ s # NoSession /\ session[s].state = "complete"
    BY <1>1, RowIntent DEF RequestFact, IInv, RefundsOnCancel
  <1>3. \A t \in Sessions : session[t] \in SessionRecord /\ session[t].refunded \in 0..Price
    BY DEF IInv, TypeOK, SessionRecord
  <1>4. \A b \in Bookings : cancelKey[b].intent \in Sessions \cup {NoSession}
                            /\ cancelKey[b].amount \in 0..Price
    BY DEF IInv, TypeOK, RefundCall
  <1>5. CASE /\ session[s].refunded + q.amount <= Price
             /\ session' = [session EXCEPT ![s].refunded = @ + q.amount]
             /\ cancelKey' = [cancelKey EXCEPT ![q.booking] = CancelCall(q)]
    <2>1. \A t \in Sessions : /\ session'[t].state = session[t].state
                              /\ session'[t].booking = session[t].booking
                              /\ session'[t].refunded =
                                   IF t = s THEN session[t].refunded + q.amount
                                   ELSE session[t].refunded
      BY <1>3, <1>5 DEF IInv, TypeOK, SessionRecord
    <2>2. Later(session, event, session', event')
      BY <1>1, <1>3, <2>1, ConstantsAssumption DEF Later
    <2>3. \A t \in Sessions : session'[t].state # "complete" => session'[t].refunded = 0
      BY <1>2, <2>1 DEF IInv, KeysFact
    <2>4. \A t \in expireKey : session'[t].refunded = Price
      <3>1. \A t \in expireKey : t \in Sessions /\ session[t].refunded = Price
        BY DEF IInv, TypeOK, KeysFact
      <3> QED
        BY <1>1, <1>3, <1>5, <2>1, <3>1, ConstantsAssumption
    <2>5. ASSUME NEW b \in Bookings, cancelKey'[b].intent # NoSession
          PROVE  session'[cancelKey'[b].intent].refunded >= cancelKey'[b].amount
      <3>1. CASE b = q.booking
        <4>1. cancelKey'[b].intent = s /\ cancelKey'[b].amount = q.amount
          BY <1>1, <1>5, <3>1 DEF IInv, TypeOK, CancelCall
        <4> QED
          BY <1>1, <1>2, <1>3, <2>1, <4>1, ConstantsAssumption
      <3>2. CASE b # q.booking
        <4>1. cancelKey'[b] = cancelKey[b]
          BY <1>5, <3>2 DEF IInv, TypeOK
        <4>2. session[cancelKey[b].intent].refunded >= cancelKey[b].amount
              /\ cancelKey[b].intent \in Sessions
          BY <1>4, <2>5, <4>1 DEF IInv, KeysFact
        <4> QED
          BY <1>1, <1>3, <1>4, <2>1, <4>1, <4>2, ConstantsAssumption
      <3> QED
        BY <3>1, <3>2
    <2>6. KeysFact'
      BY <2>3, <2>4, <2>5 DEF KeysFact
    <2> QED
      BY <1>1, <1>2, <1>3, <2>1, <2>2, <2>6, ConstantsAssumption
  <1>6. CASE cancelKey[q.booking] = CancelCall(q) /\ UNCHANGED <<session, cancelKey>>
    <2>1. session[s].refunded >= q.amount
      BY <1>1, <1>2, <1>6 DEF IInv, KeysFact, CancelCall
    <2> QED
      BY <1>6, <2>1, MoneyUnmoved
  <1> QED
    BY <1>5, <1>6 DEF StripeRefundsCancel

-----------------------------------------------------------------------------
(* Every step advances *)

\* The invariant holds at first.
LEMMA InitIInv == Init => IInv
  <1> SUFFICES ASSUME Init PROVE IInv
    OBVIOUS
  <1>1. TypeOK
    BY InitType
  <1>2. \A b \in Bookings : RowFact(b, row[b], session, event)
    BY NewBookingFact DEF Init
  <1>3. \A p \in Requests : RequestFact(req[p], session, event)
    BY IdleFact DEF Init
  <1>4. KeysFact
    BY ConstantsAssumption DEF Init, KeysFact, NoCall
  <1> QED
    BY <1>1, <1>2, <1>3, <1>4 DEF IInv

\* Guests who pay, sessions that end and webhook deliveries advance.
LEMMA StripeStepAdvances ==
  ASSUME IInv, NEW s \in Sessions, StripeStep(s)
  PROVE  Advances
  <1> DEFINE b == session[s].booking
  <1>1. ASSUME UNCHANGED <<row, req, expireKey, cancelKey, event>>,
               session[s].state = "open",
               session' = [session EXCEPT ![s].state = "complete"]
               \/ session' = [session EXCEPT ![s].state = "expired"]
        PROVE  Advances
    <2>1. \A t \in Sessions : session[t] \in SessionRecord /\ session[t].refunded \in 0..Price
      BY DEF IInv, TypeOK, SessionRecord
    <2>2. \A t \in Sessions :
            /\ session'[t].refunded = session[t].refunded
            /\ session'[t].booking = session[t].booking
            /\ t # s => session'[t].state = session[t].state
      BY <1>1, <2>1 DEF IInv, TypeOK, SessionRecord
    <2>3. Later(session, event, session', event')
      BY <1>1, <2>1, <2>2, ConstantsAssumption DEF Later
    <2>4. \A c \in Bookings : cancelKey[c].intent \in Sessions \cup {NoSession}
      BY DEF IInv, TypeOK, RefundCall
    <2>5. KeysFact'
      BY <1>1, <2>2, <2>4 DEF IInv, TypeOK, KeysFact
    <2> QED
      BY <1>1, <2>3, <2>5 DEF Advances
  <1>2. CASE GuestPays(s)
    BY <1>1, <1>2 DEF GuestPays, webVars, eventVars
  <1>3. CASE SessionExpires(s)
    BY <1>1, <1>3 DEF SessionExpires, webVars, eventVars
  <1>w. ASSUME UNCHANGED <<req, stripeVars>>, Delivered(s), NEW status,
               event' = [event EXCEPT ![s] = status], status # "none",
               row' = row \/ RecordsPayment(s)
        PROVE  Advances
    <2>1. event'[s] # "none" /\ \A t \in Sessions : event[t] # "none" => event'[t] # "none"
      BY <1>w DEF IInv, TypeOK
    <2>2. Later(session, event, session', event') /\ KeysFact'
      BY <1>w, <2>1, MoneyUnmoved DEF stripeVars
    <2>3. CASE row' = row
      BY <1>w, <2>2, <2>3 DEF Advances
    <2>4. CASE RecordsPayment(s) /\ row' # row
      <3>1. b \in Bookings /\ row[b] \in RoomBooking
        BY DEF IInv, TypeOK, SessionRecord
      <3>2. /\ row' = [row EXCEPT ![b] = PaymentReceived(row[b], s)]
            /\ ~AlreadyPaidOrDecided(row[b])
        BY <2>4 DEF RecordsPayment
      <3>3. RowFact(b, PaymentReceived(row[b], s), session, event')
        BY <1>w, <2>1, <3>1, <3>2, PaymentReceivedFact DEF IInv, Delivered
      <3>4. RowFact(b, PaymentReceived(row[b], s), session', event')
        BY <1>w, <3>3 DEF stripeVars
      <3> HIDE DEF b
      <3> QED
        BY <1>w, <2>2, <3>1, <3>2, <3>4, RowsWritten DEF IInv, Advances
    <2> QED
      BY <1>w, <2>3, <2>4
  <1>4. CASE WebhookProcesses(s)
    BY <1>w, <1>4 DEF WebhookProcesses, webVars
  <1>5. CASE WebhookSwallowsFailure(s)
    BY <1>w, <1>5 DEF WebhookSwallowsFailure, webVars
  <1>6. CASE WebhookFails(s)
    BY <1>w, <1>6 DEF WebhookFails, webVars
  <1>7. CASE WebhookCrashes(s)
    <2> DEFINE status == IF event[s] = "none" THEN "RECEIVED" ELSE event[s]
    <2>1. status # "none"
      OBVIOUS
    <2>2. /\ UNCHANGED <<req, stripeVars>> /\ Delivered(s)
          /\ event' = [event EXCEPT ![s] = status]
          /\ row' = row \/ RecordsPayment(s)
      BY <1>7 DEF WebhookCrashes, webVars
    <2> HIDE DEF status
    <2> QED
      BY <1>w, <2>1, <2>2
  <1>8. CASE WebhookSkips(s)
    BY <1>8, MoneyUnmoved DEF WebhookSkips, Advances, webVars, stripeVars
  <1> QED
    BY <1>2, <1>3, <1>4, <1>5, <1>6, <1>7, <1>8 DEF StripeStep

\* Approval, decline, expiry and room assignment advance.
LEMMA LockedStepAdvances ==
  ASSUME IInv, NEW b \in Bookings, LockedStep(b)
  PROVE  Advances
  <1> DEFINE s == row[b].payment_intent_id
  <1>r. row[b] \in RoomBooking /\ RowFact(b, row[b], session, event)
    BY DEF IInv, TypeOK
  <1>i. s # NoSession => /\ s \in Sessions
                         /\ session[s].state = "complete"
    BY <1>r, RowIntent DEF IInv
  <1>t. TypeOK'
    BY LockedStepType DEF IInv
  <1>u. ASSUME UNCHANGED <<session, expireKey, cancelKey, event, req>>, NEW new,
               row' = [row EXCEPT ![b] = new], RowFact(b, new, session, event)
        PROVE  Advances
    BY <1>u, MoneyUnmoved, RowsWritten DEF IInv, Advances
  <1>v. ASSUME UNCHANGED <<cancelKey, event, req>>, s # NoSession, RefundsRest(s),
               expireKey' \in {expireKey, expireKey \cup {s}},
               row' = row \/ \E new : /\ row' = [row EXCEPT ![b] = new]
                                      /\ RowFact(b, row[b], session', event')
                                         /\ session'[s].refunded = Price
                                           => RowFact(b, new, session', event')
        PROVE  Advances
    <2>1. /\ Later(session, event, session', event') /\ KeysFact'
          /\ session'[s].refunded = Price
      BY <1>i, <1>v, RefundsRestMoves
    <2>2. RowFact(b, row[b], session', event')
      BY <1>r, <1>t, <2>1, RowFactLater DEF IInv, TypeOK
    <2> QED
      BY <1>v, <2>1, <2>2, RowsWritten DEF IInv, Advances
  <1>1. CASE StaffAccepts(b)
    <2> DEFINE new == [row[b] EXCEPT !.status = "CONFIRMED", !.paid_at = TRUE]
    <2>1. RowFact(b, new, session, event)
      BY <1>1, <1>r, AcceptedFact DEF StaffAccepts
    <2>2. /\ row' = [row EXCEPT ![b] = new]
          /\ UNCHANGED <<session, expireKey, cancelKey, event, req>>
      BY <1>1 DEF StaffAccepts, webVars, stripeVars, eventVars
    <2> HIDE DEF new
    <2> QED
      BY <1>u, <2>1, <2>2
  <1>2. CASE StaffDeclines(b)
    <2>1. RefundsOnDecline(row[b])
      BY <1>2, <1>r DEF StaffDeclines, RefundsOnDecline, RowFact, Cancellable
    <2>2. s # NoSession
      BY <2>1 DEF RefundsOnDecline
    <2>3. Price - session[s].refunded \in 0..Price
      BY <1>i, <2>2, ConstantsAssumption DEF IInv, TypeOK, SessionRecord
    <2> DEFINE new == [Declined(row[b]) EXCEPT !.refund_processed_at = TRUE,
                         !.refund_amount = Price - session[s].refunded]
    <2>4. RowFact(b, row[b], session', event') /\ session'[s].refunded = Price
            => RowFact(b, new, session', event')
      BY <1>r, <2>2, <2>3, DeclinedFact
    <2>5. /\ UNCHANGED <<cancelKey, expireKey, event, req>> /\ RefundsRest(s)
          /\ row' = [row EXCEPT ![b] = new]
      BY <1>2, <2>1 DEF StaffDeclines, webVars, eventVars
    <2> QED
      BY <1>v, <2>2, <2>4, <2>5
  <1>3. CASE StaffDeclineLost(b)
    BY <1>3, <1>v DEF StaffDeclineLost, RefundsOnDecline, webVars, eventVars
  <1>4. CASE ExpiresWithRefund(b)
    <2> DEFINE new == [Expired(row[b]) EXCEPT !.refunded_at = TRUE]
    <2>1. /\ s # NoSession /\ row[b].status = "PENDING_APPROVAL"
          /\ row' = [row EXCEPT ![b] = new]
          /\ UNCHANGED <<cancelKey, event, req>>
          /\ expireKey' = expireKey \cup {s}
      BY <1>4 DEF ExpiresWithRefund, WantsExpiryRefund, IsExpirable, webVars, eventVars
    <2>2. CASE s \in expireKey
      <3>1. session' = session /\ expireKey' = expireKey
        BY <1>4, <2>1, <2>2 DEF ExpiresWithRefund, IInv, TypeOK, SessionRecord
      <3>2. session[s].refunded = Price
        BY <2>2 DEF IInv, KeysFact
      <3>3. RowFact(b, new, session, event)
        BY <1>r, <2>1, <3>2, ExpiredFact
      <3> QED
        BY <1>u, <2>1, <3>1, <3>3
    <2>3. CASE s \notin expireKey
      <3>1. RefundsRest(s)
        BY <1>4, <2>3 DEF ExpiresWithRefund, RefundsRest
      <3>2. RowFact(b, row[b], session', event') /\ session'[s].refunded = Price
              => RowFact(b, new, session', event')
        BY <1>r, <2>1, ExpiredFact
      <3> HIDE DEF new
      <3> QED
        BY <1>v, <2>1, <3>1, <3>2
    <2> QED
      BY <2>2, <2>3
  <1>5. CASE ExpiresWithoutRefund(b)
    BY <1>5, <1>r, <1>u, ExpiredFact
    DEF ExpiresWithoutRefund, IsExpirable, webVars, stripeVars, eventVars
  <1>6. CASE ExpiryRefundLost(b)
    <2>1. RowFact(b, row[b], session', event')
            => RowFact(b, Expired(row[b]), session', event')
      BY <1>6, <1>r, ExpiredFact DEF ExpiryRefundLost, IsExpirable
    <2>2. /\ s # NoSession /\ RefundsRest(s)
          /\ row' = row \/ row' = [row EXCEPT ![b] = Expired(row[b])]
          /\ UNCHANGED <<cancelKey, event, req>>
          /\ expireKey' = expireKey \cup {s}
      BY <1>6 DEF ExpiryRefundLost, WantsExpiryRefund, webVars, eventVars
    <2> QED
      BY <1>v, <2>1, <2>2
  <1>7. CASE AssignsRoom(b)
    <2>1. row' = [row EXCEPT ![b] = [row[b] EXCEPT !.assigned_room = TRUE]]
      BY <1>7 DEF AssignsRoom
    <2> QED
      BY <1>7, <1>r, <1>u, <2>1, OtherColumnsFact
      DEF AssignsRoom, webVars, stripeVars, eventVars
  <1>8. CASE UnassignsRoom(b)
    <2>1. row' = [row EXCEPT ![b] = [row[b] EXCEPT !.assigned_room = FALSE]]
      BY <1>8 DEF UnassignsRoom
    <2> QED
      BY <1>8, <1>r, <1>u, <2>1, OtherColumnsFact
      DEF UnassignsRoom, webVars, stripeVars, eventVars
  <1> QED
    BY <1>1, <1>2, <1>3, <1>4, <1>5, <1>6, <1>7, <1>8 DEF LockedStep, JobExpires

\* Deadlines, cache entries and forgotten keys advance.
LEMMA EnvironmentStepAdvances ==
  ASSUME IInv, NEW b \in Bookings, EnvironmentStep(b)
  PROVE  Advances
  <1>1. CASE CutoffPasses(b) \/ CacheEntryExpires(b)
    BY <1>1, MoneyUnmoved
    DEF CutoffPasses, CacheEntryExpires, Advances, webVars, stripeVars, eventVars
  <1>2. CASE KeyForgotten(b)
    <2>1. /\ UNCHANGED <<row, req, session, expireKey, event>>
          /\ cancelKey' = [cancelKey EXCEPT ![b] = NoCall]
      BY <1>2 DEF KeyForgotten, webVars, eventVars
    <2>2. KeysFact'
      BY <2>1 DEF IInv, TypeOK, KeysFact, NoCall
    <2>3. Later(session, event, session', event')
      <3>1. \A s \in Sessions : session[s].refunded \in 0..Price
        BY DEF IInv, TypeOK, SessionRecord
      <3> QED
        BY <2>1, <3>1, ConstantsAssumption DEF Later
    <2> QED
      BY <2>1, <2>2, <2>3 DEF Advances
  <1> QED
    BY <1>1, <1>2 DEF EnvironmentStep

\* A request that reads a row takes a copy that is true.
LEMMA RequestReadsAdvances ==
  ASSUME IInv, NEW p \in Requests, NEW b \in Bookings, RequestReads(p, b)
  PROVE  Advances
  <1>1. PICK kind, amount :
          /\ Reads(p, kind, b, amount)
          /\ kind # "cancel_save"
          /\ kind \in {"cancel_gbt", "cancel_bmt"} => Cancellable(row[b])
          /\ kind = "confirm" => ~IsStripeBooking(row[b])
    BY DEF RequestReads, PaymentPageReads, PaymentPageLosesSession,
           GuestCancelsByBookingToken, GuestCancelsByLink, ConfirmReads,
           StaffCancelReads, PrecheckinReads, CheckInReads, CheckOutReads
  <1> DEFINE q == [kind |-> kind, booking |-> b, read |-> row[b],
                   amount |-> amount, got |-> NoSession]
  <1>2. /\ UNCHANGED <<row, session, expireKey, cancelKey, event>>
        /\ req' = [req EXCEPT ![p] = q]
    BY <1>1 DEF Reads, stripeVars, eventVars
  <1>3. RequestFact(q, session, event)
    BY <1>1 DEF IInv, RequestFact
  <1> QED
    BY <1>2, <1>3, MoneyUnmoved, RequestsWritten DEF IInv, Advances

\* A request that calls Stripe or saves its copy advances.
LEMMA RequestGoesOnAdvances ==
  ASSUME IInv, NEW p \in Requests, RequestGoesOn(p)
  PROVE  Advances
  <1> DEFINE q == req[p]
  <1>q. /\ q \in Request /\ q.booking \in Bookings /\ q.read \in RoomBooking
        /\ RequestFact(q, session, event) /\ RowFact(q.booking, q.read, session, event)
        /\ row[q.booking] \in RoomBooking
        /\ RowFact(q.booking, row[q.booking], session, event)
    BY DEF IInv, TypeOK, Request, RequestFact
  <1>t. TypeOK'
    BY RequestGoesOnType DEF IInv
  <1>s. ASSUME NEW new, UNCHANGED <<session, expireKey, cancelKey, event>>,
               row' = row \/ row' = [row EXCEPT ![q.booking] = new],
               RowFact(q.booking, new, session, event), req' = [req EXCEPT ![p] = Idle]
        PROVE  Advances
    BY <1>q, <1>s, MoneyUnmoved, RowsWritten, RequestsWritten, IdleFact
    DEF IInv, Advances
  <1>v. ASSUME NEW new, SavesRow(p, q.kind, new), RowFact(q.booking, new, session, event)
        PROVE  Advances
    BY <1>s, <1>v DEF SavesRow, stripeVars, eventVars
  <1>1. ASSUME NEW s \in Sessions, OpensSession(p, s) PROVE Advances
    <2> DEFINE next == [q EXCEPT !.kind = "pay_store", !.got = s]
    <2>1. /\ UNCHANGED <<row, expireKey, cancelKey, event>>
          /\ req' = [req EXCEPT ![p] = next]
          /\ session[s].state = "unused"
          /\ session' = [session EXCEPT ![s].state = "open", ![s].booking = q.booking]
      BY <1>1 DEF OpensSession, eventVars
    <2>2. \A t \in Sessions : session[t] \in SessionRecord /\ session[t].refunded \in 0..Price
      BY DEF IInv, TypeOK, SessionRecord
    <2>3. \A t \in Sessions : /\ session'[t].refunded = session[t].refunded
                              /\ t # s => session'[t] = session[t]
      BY <2>1, <2>2 DEF IInv, TypeOK, SessionRecord
    <2>4. session'[s].state = "open"
      BY <2>1, <2>2 DEF IInv, TypeOK, SessionRecord
    <2>5. Later(session, event, session', event')
      <3>1. ASSUME NEW t \in Sessions
            PROVE  /\ session[t].state = "complete" =>
                        /\ session'[t].state = "complete"
                        /\ session'[t].booking = session[t].booking
                   /\ session'[t].refunded >= session[t].refunded
        <4>1. session'[t].refunded >= session[t].refunded
          BY <2>2, <2>3, ConstantsAssumption
        <4> QED
          BY <2>1, <2>3, <4>1
      <3> QED
        BY <2>1, <3>1 DEF Later
    <2>6. \A c \in Bookings : cancelKey[c].intent \in Sessions \cup {NoSession}
      BY DEF IInv, TypeOK, RefundCall
    <2>7. KeysFact'
      BY <2>1, <2>3, <2>4, <2>6 DEF IInv, TypeOK, KeysFact
    <2>8. RequestFact(next, session', event')
      <3>1. RowFact(q.booking, q.read, session', event')
        BY <1>q, <1>t, <2>5, RowFactLater DEF IInv, TypeOK
      <3>2. /\ next.kind = "pay_store" /\ next.booking = q.booking
            /\ next.read = q.read
        BY <1>q DEF Request
      <3> QED
        BY <3>1, <3>2 DEF RequestFact
    <2> HIDE DEF next
    <2> QED
      BY <2>1, <2>5, <2>7, <2>8, RequestsWritten DEF IInv, Advances
  <1>2. CASE StoresSession(p)
    <2>1. row' = [row EXCEPT ![q.booking] =
                    [row[q.booking] EXCEPT !.payment_provider = "stripe"]]
      BY <1>2 DEF StoresSession
    <2> QED
      BY <1>2, <1>q, <1>s, <2>1, OtherColumnsFact
      DEF StoresSession, stripeVars, eventVars
  <1>3. CASE RequestDies(p)
    BY <1>3, <1>q, <1>s DEF RequestDies, stripeVars, eventVars
  <1>4. CASE CancelSettles(p)
    <2>1. q.kind = "cancel_bmt" /\ Cancellable(q.read) /\ q.got = NoSession
      BY <1>4, <1>q DEF CancelSettles, RequestFact
    <2>2. CASE RefundsOnCancel(q) /\ StripeRefundsCancel(q)
               /\ req' = [req EXCEPT ![p].kind = "cancel_save",
                                     ![p].got = q.read.payment_intent_id]
      <3> DEFINE next == [q EXCEPT !.kind = "cancel_save", !.got = q.read.payment_intent_id]
      <3>1. /\ UNCHANGED <<row, expireKey, event>> /\ req' = [req EXCEPT ![p] = next]
        BY <1>4, <2>2 DEF CancelSettles, eventVars
      <3>2. /\ Later(session, event, session', event') /\ KeysFact'
            /\ session'[q.read.payment_intent_id].refunded >= q.amount
        BY <1>q, <2>2, <3>1, StripeRefundsCancelMoves
      <3>3. RowFact(q.booking, q.read, session', event')
        BY <1>q, <1>t, <3>2, RowFactLater DEF IInv, TypeOK
      <3>4. /\ next.kind = "cancel_save" /\ next.booking = q.booking
            /\ next.read = q.read /\ next.amount = q.amount
            /\ next.got = q.read.payment_intent_id
        BY <1>q DEF Request
      <3>5. RequestFact(next, session', event')
        BY <2>1, <3>2, <3>3, <3>4 DEF RequestFact
      <3> HIDE DEF next
      <3> QED
        BY <3>1, <3>2, <3>5, RequestsWritten DEF IInv, Advances
    <2>3. CASE UNCHANGED <<session, cancelKey>>
               /\ req' = [req EXCEPT ![p].kind = "cancel_save"]
      <3> DEFINE next == [q EXCEPT !.kind = "cancel_save"]
      <3>1. /\ UNCHANGED <<row, session, cancelKey, expireKey, event>>
            /\ req' = [req EXCEPT ![p] = next]
        BY <1>4, <2>3 DEF CancelSettles, eventVars
      <3>2. /\ next.kind = "cancel_save" /\ next.booking = q.booking
            /\ next.read = q.read /\ next.got = NoSession
        BY <1>q, <2>1 DEF Request
      <3>3. RequestFact(next, session', event')
        BY <1>q, <2>1, <3>1, <3>2 DEF RequestFact
      <3> HIDE DEF next
      <3> QED
        BY <3>1, <3>3, MoneyUnmoved, RequestsWritten DEF IInv, Advances
    <2> QED
      BY <1>4, <2>2, <2>3 DEF CancelSettles
  <1>5. CASE CancelSaves(p)
    <2>1. q.kind = "cancel_save"
      BY <1>5 DEF CancelSaves, SavesRow
    <2>2. RowFact(q.booking, Cancelled(q), session, event)
      BY <1>q, <2>1, CancelledFact DEF IInv, TypeOK
    <2> QED
      BY <1>5, <1>v, <2>1, <2>2 DEF CancelSaves
  <1>r. ASSUME RefundsOnCancel(q), StripeRefundsCancel(q),
               req' = [req EXCEPT ![p] = Idle], UNCHANGED <<row, expireKey, event>>
        PROVE  Advances
    BY <1>q, <1>r, StripeRefundsCancelMoves, RequestsWritten, IdleFact DEF IInv, Advances
  <1>6. CASE CancelAnswerLost(p)
    BY <1>6, <1>r DEF CancelAnswerLost, eventVars
  <1>7. CASE BookingTokenCancelRollsBack(p)
    <2>1. CASE UNCHANGED <<session, cancelKey>>
      BY <1>7, <1>q, <1>s, <2>1 DEF BookingTokenCancelRollsBack, eventVars
    <2> QED
      BY <1>7, <1>r, <2>1 DEF BookingTokenCancelRollsBack, eventVars
  <1>8. CASE ConfirmSaves(p)
    <2>1. q.kind = "confirm"
      BY <1>8 DEF ConfirmSaves, SavesRow
    <2> QED
      BY <1>8, <1>q, <1>v, <2>1, ConfirmedFact DEF ConfirmSaves
  <1>9. CASE StaffCancelSaves(p)
    <2>1. q.kind = "staff_cancel"
      BY <1>9 DEF StaffCancelSaves, SavesRow
    <2> QED
      BY <1>9, <1>q, <1>v, <2>1, ClosedFact DEF StaffCancelSaves
  <1>10. CASE PrecheckinSaves(p)
    <2>1. q.kind = "precheckin"
      BY <1>10 DEF PrecheckinSaves, SavesRow
    <2> QED
      BY <1>10, <1>q, <1>v, <2>1 DEF PrecheckinSaves
  <1>11. CASE CheckInSaves(p)
    <2>1. q.kind = "check_in"
      BY <1>11 DEF CheckInSaves, SavesRow
    <2> QED
      BY <1>11, <1>q, <1>v, <2>1, OtherColumnsFact DEF CheckInSaves
  <1>12. CASE CheckOutSaves(p)
    <2>1. q.kind = "check_out"
      BY <1>12 DEF CheckOutSaves, SavesRow
    <2> QED
      BY <1>12, <1>q, <1>v, <2>1, ClosedFact DEF CheckOutSaves
  <1> QED
    BY <1>1, <1>2, <1>3, <1>4, <1>5, <1>6, <1>7, <1>8, <1>9, <1>10, <1>11, <1>12
    DEF RequestGoesOn

\* Every step advances.
LEMMA NextAdvances == IInv /\ [Next]_vars => Advances
  <1> SUFFICES ASSUME IInv, [Next]_vars PROVE Advances
    OBVIOUS
  <1>1. CASE UNCHANGED vars
    BY <1>1, MoneyUnmoved DEF vars, webVars, stripeVars, eventVars, Advances
  <1>2. CASE Next
    BY <1>2, StripeStepAdvances, LockedStepAdvances, EnvironmentStepAdvances,
       RequestReadsAdvances, RequestGoesOnAdvances DEF Next
  <1> QED
    BY <1>1, <1>2

\* Every step keeps the invariant.
LEMMA NextIInv == IInv /\ [Next]_vars => IInv'
  BY NextType, NextAdvances, AdvancesKeepsIInv DEF IInv

\* The invariant holds for ever.
LEMMA Invariance == Spec => []IInv
  BY InitIInv, NextIInv, PTL DEF Spec

-----------------------------------------------------------------------------
(* Four invariants the runs check *)

\* A row never names a payment that Stripe has not captured for this booking,
\* or whose event the webhook has not seen: not even a row that an unlocked
\* request saved back long after it was read.
THEOREM NamedIntentIsCaptured == Spec => []IntentIsCaptured
  <1>1. IInv => IntentIsCaptured
    BY DEF IInv, RowFact, IntentIsCaptured, NamesCapturedMoney
  <1> QED
    BY <1>1, Invariance, PTL

\* The expiry job's filter and its refund never miss a field on a booking that
\* waits for approval.
THEOREM WaitingBookingCanBeExpired == Spec => []PendingApprovalCanBeExpired
  <1>1. IInv => PendingApprovalCanBeExpired
    BY DEF IInv, RowFact, PendingApprovalCanBeExpired, CanBeExpired, Cancellable
  <1> QED
    BY <1>1, Invariance, PTL

\* No booking is DECLINED before Stripe has given everything back, through lost
\* answers, crashes, repeated declines and racing cancellations.
THEOREM DeclinedBookingIsRefunded == Spec => []DeclinedIsRefunded
  <1>1. IInv => DeclinedIsRefunded
    BY DEF IInv, RowFact, DeclinedIsRefunded, RefundedIfDeclined
  <1> QED
    BY <1>1, Invariance, PTL

\* A refund that a row records was made by Stripe, whatever was saved over the
\* row in between.
THEOREM RecordedRefundIsReal == Spec => []RecordedRefundsAreReal
  <1>1. IInv => RecordedRefundsAreReal
    BY DEF IInv, RowFact, RecordedRefundsAreReal, RecordsRealRefund
  <1> QED
    BY <1>1, Invariance, PTL

-----------------------------------------------------------------------------
(* The ways in which a step moves money and rows *)

\* At most one row is written.
OneRow == row' = row \/ \E b \in Bookings, r \in RoomBooking : row' = [row EXCEPT ![b] = r]

\* Session s is opened, paid or closed.
SessionMoves(s) ==
  \/ /\ session[s].state = "unused"
     /\ \E b \in Bookings :
          session' = [session EXCEPT ![s].state = "open", ![s].booking = b]
  \/ /\ session[s].state = "open"
     /\ \E to \in {"complete", "expired"} :
          session' = [session EXCEPT ![s].state = to]

StepShape ==
  \/ OneRow /\ UNCHANGED <<session, cancelKey>>
  \/ UNCHANGED <<row, cancelKey>> /\ \E s \in Sessions : SessionMoves(s)
  \/ /\ OneRow /\ UNCHANGED cancelKey
     /\ \E s \in Sessions : session[s].state = "complete" /\ Refundable(s) /\ RefundsRest(s)
  \/ /\ UNCHANGED row
     /\ \E q \in Request : /\ RequestFact(q, session, event)
                           /\ RefundsOnCancel(q) /\ StripeRefundsCancel(q)
  \/ ForgetfulStripe /\ UNCHANGED <<row, session>>

\* A step that assigns one row writes at most one.
LEMMA RequestRowType ==
  ASSUME TypeOK', NEW b \in Bookings, NEW r, row' = [row EXCEPT ![b] = r], TypeOK
  PROVE  OneRow
  <1>1. row'[b] = r /\ row'[b] \in RoomBooking
    BY DEF TypeOK
  <1> QED
    BY <1>1 DEF OneRow

\* Locked handlers write one row and refund at most one payment.
LEMMA LockedStepShape ==
  ASSUME IInv, NEW b \in Bookings, LockedStep(b)
  PROVE  StepShape
  <1> DEFINE s == row[b].payment_intent_id
  <1>t. TypeOK /\ TypeOK'
    BY LockedStepType DEF IInv
  <1>i. s # NoSession => s \in Sessions /\ session[s].state = "complete"
    <2>1. row[b] \in RoomBooking /\ RowFact(b, row[b], session, event)
      BY DEF IInv, TypeOK
    <2> QED
      BY <1>t, <2>1, RowIntent
  <1>1. CASE StaffAccepts(b)
    BY <1>1, <1>t, RequestRowType DEF StaffAccepts, stripeVars, StepShape
  <1>2. CASE StaffDeclines(b)
    <2>1. CASE RefundsOnDecline(row[b])
      <3>1. OneRow
        BY <1>2, <2>1, <1>t, RequestRowType DEF StaffDeclines
      <3> QED
        BY <1>2, <1>i, <2>1, <3>1 DEF StaffDeclines, RefundsOnDecline, StepShape
    <2>2. CASE ~RefundsOnDecline(row[b])
      BY <1>2, <1>t, <2>2, RequestRowType DEF StaffDeclines, StepShape
    <2> QED
      BY <2>1, <2>2
  <1>3. CASE StaffDeclineLost(b)
    BY <1>3, <1>i DEF StaffDeclineLost, RefundsOnDecline, OneRow, StepShape
  <1>4. CASE ExpiresWithRefund(b)
    <2>1. OneRow /\ UNCHANGED cancelKey
      BY <1>4, <1>t, RequestRowType DEF ExpiresWithRefund
    <2>2. CASE s \in expireKey
      <3>1. session' = session
        BY <1>4, <2>2 DEF ExpiresWithRefund, IInv, TypeOK, SessionRecord
      <3> QED
        BY <2>1, <3>1 DEF StepShape
    <2>3. CASE s \notin expireKey
      <3>1. s # NoSession /\ Refundable(s) /\ RefundsRest(s)
        BY <1>4, <2>3 DEF ExpiresWithRefund, WantsExpiryRefund, RefundsRest
      <3> QED
        BY <1>i, <2>1, <3>1 DEF StepShape
    <2> QED
      BY <2>2, <2>3
  <1>5. CASE ExpiresWithoutRefund(b)
    BY <1>5, <1>t, RequestRowType DEF ExpiresWithoutRefund, stripeVars, StepShape
  <1>6. CASE ExpiryRefundLost(b)
    <2>1. OneRow
      <3>1. CASE row' = row
        BY <3>1 DEF OneRow
      <3>2. CASE row' # row
        BY <1>6, <1>t, <3>2, RequestRowType DEF ExpiryRefundLost
      <3> QED
        BY <3>1, <3>2
    <2> QED
      BY <1>6, <1>i, <2>1 DEF ExpiryRefundLost, WantsExpiryRefund, StepShape
  <1>7. CASE AssignsRoom(b)
    <2>1. row' = [row EXCEPT ![b] = [row[b] EXCEPT !.assigned_room = TRUE]]
      BY <1>7 DEF AssignsRoom
    <2>2. OneRow
      BY <1>t, <2>1, RequestRowType
    <2> QED
      BY <1>7, <2>2 DEF AssignsRoom, stripeVars, StepShape
  <1>8. CASE UnassignsRoom(b)
    <2>1. row' = [row EXCEPT ![b] = [row[b] EXCEPT !.assigned_room = FALSE]]
      BY <1>8 DEF UnassignsRoom
    <2>2. OneRow
      BY <1>t, <2>1, RequestRowType
    <2> QED
      BY <1>8, <2>2 DEF UnassignsRoom, stripeVars, StepShape
  <1> QED
    BY <1>1, <1>2, <1>3, <1>4, <1>5, <1>6, <1>7, <1>8 DEF LockedStep, JobExpires

\* Stripe's steps either move a session or write one row.
LEMMA StripeStepShape ==
  ASSUME IInv, NEW s \in Sessions, StripeStep(s)
  PROVE  StepShape
  <1>t. TypeOK /\ TypeOK'
    BY StripeStepType DEF IInv
  <1>1. CASE GuestPays(s)
    BY <1>1 DEF GuestPays, SessionMoves, StepShape
  <1>2. CASE SessionExpires(s)
    BY <1>2 DEF SessionExpires, SessionMoves, StepShape
  <1>w. ASSUME RecordsPayment(s) \/ row' = row, UNCHANGED stripeVars
        PROVE  StepShape
    <2>1. session[s].booking \in Bookings
      BY <1>t DEF TypeOK, SessionRecord
    <2>2. CASE row' = row
      BY <1>w, <2>2 DEF stripeVars, OneRow, StepShape
    <2>3. CASE row' # row
      <3>1. OneRow
        BY <1>w, <1>t, <2>1, <2>3, RequestRowType DEF RecordsPayment
      <3> QED
        BY <1>w, <3>1 DEF stripeVars, StepShape
    <2> QED
      BY <2>2, <2>3
  <1> QED
    BY <1>1, <1>2, <1>w
    DEF StripeStep, WebhookProcesses, WebhookSwallowsFailure, WebhookFails,
        WebhookCrashes, WebhookSkips

\* A request refunds in one step and saves its row in another.
LEMMA RequestGoesOnShape ==
  ASSUME IInv, NEW p \in Requests, RequestGoesOn(p)
  PROVE  StepShape
  <1> DEFINE q == req[p]
  <1>t. TypeOK /\ TypeOK'
    BY RequestGoesOnType DEF IInv
  <1>q. /\ q \in Request /\ q.booking \in Bookings
        /\ RequestFact(q, session, event)
    BY DEF IInv, TypeOK, Request
  <1>s. ASSUME NEW kind, NEW new, SavesRow(p, kind, new) PROVE StepShape
    <2>1. OneRow
      BY <1>s, <1>t, <1>q, RequestRowType DEF SavesRow
    <2> QED
      BY <1>s, <2>1 DEF SavesRow, stripeVars, StepShape
  <1>1. ASSUME NEW s \in Sessions, OpensSession(p, s) PROVE StepShape
    BY <1>1, <1>q DEF OpensSession, SessionMoves, StepShape
  <1>2. CASE StoresSession(p)
    <2>1. row' = [row EXCEPT ![q.booking] =
                    [row[q.booking] EXCEPT !.payment_provider = "stripe"]]
      BY <1>2 DEF StoresSession
    <2>2. OneRow
      BY <1>t, <1>q, <2>1, RequestRowType
    <2> QED
      BY <1>2, <2>2 DEF StoresSession, stripeVars, StepShape
  <1>3. CASE RequestDies(p)
    BY <1>3 DEF RequestDies, stripeVars, OneRow, StepShape
  <1>4. CASE CancelSettles(p) \/ CancelAnswerLost(p) \/ BookingTokenCancelRollsBack(p)
    <2>1. UNCHANGED row /\ (UNCHANGED <<session, cancelKey>>
                            \/ (RefundsOnCancel(q) /\ StripeRefundsCancel(q)))
      <3>1. CASE CancelSettles(p)
        BY <3>1 DEF CancelSettles
      <3>2. CASE CancelAnswerLost(p)
        BY <3>2 DEF CancelAnswerLost
      <3>3. CASE BookingTokenCancelRollsBack(p)
        BY <3>3 DEF BookingTokenCancelRollsBack
      <3> QED
        BY <1>4, <3>1, <3>2, <3>3
    <2>2. CASE UNCHANGED <<session, cancelKey>>
      BY <2>1, <2>2 DEF OneRow, StepShape
    <2>3. CASE RefundsOnCancel(q) /\ StripeRefundsCancel(q)
      BY <1>q, <2>1, <2>3 DEF StepShape
    <2> QED
      BY <2>1, <2>2, <2>3
  <1> QED
    BY <1>1, <1>2, <1>3, <1>4, <1>s
    DEF RequestGoesOn, CancelSaves, ConfirmSaves, StaffCancelSaves, PrecheckinSaves,
        CheckInSaves, CheckOutSaves

\* Every step has one of the five shapes.
LEMMA NextShape == IInv /\ [Next]_vars => StepShape
  <1> SUFFICES ASSUME IInv, [Next]_vars PROVE StepShape
    OBVIOUS
  <1>1. CASE UNCHANGED vars
    BY <1>1 DEF vars, webVars, stripeVars, OneRow, StepShape
  <1>2. ASSUME NEW b \in Bookings, EnvironmentStep(b) PROVE StepShape
    BY <1>2 DEF EnvironmentStep, CutoffPasses, CacheEntryExpires, KeyForgotten, webVars,
                stripeVars, OneRow, StepShape
  <1>3. ASSUME NEW p \in Requests, NEW b \in Bookings, RequestReads(p, b) PROVE StepShape
    <2>1. UNCHANGED <<row, session, cancelKey>>
      BY <1>3 DEF RequestReads, PaymentPageReads, PaymentPageLosesSession,
           GuestCancelsByBookingToken, GuestCancelsByLink, ConfirmReads,
           StaffCancelReads, PrecheckinReads, CheckInReads, CheckOutReads, Reads,
           stripeVars
    <2> QED
      BY <2>1 DEF OneRow, StepShape
  <1> QED
    BY <1>1, <1>2, <1>3, StripeStepShape, LockedStepShape, RequestGoesOnShape DEF Next

-----------------------------------------------------------------------------
(* A cancellation is refunded once *)

\* With an idempotency key that Stripe never drops, no number of cancellation
\* requests, retries and lost answers gives the guest the cancellation refund
\* twice: one request may save its stale row over another's, the key outlives
\* both.
THEOREM CancellationRefundedOnce ==
  ASSUME ~ForgetfulStripe
  PROVE  Spec => []CancellationRefundsOnce
  <1>1. Init => CancellationRefundsOnce
    BY DEF Init, CancellationRefundsOnce
  <1>2. IInv /\ CancellationRefundsOnce /\ [Next]_vars => CancellationRefundsOnce'
    <2> SUFFICES ASSUME IInv, CancellationRefundsOnce, StepShape
                 PROVE  CancellationRefundsOnce'
      BY NextShape
    <2>t. /\ \A s \in Sessions : /\ session[s] \in SessionRecord
                                 /\ session[s].refunded \in 0..Price
                                 /\ session[s].booking \in Bookings
          /\ session \in [Sessions -> SessionRecord]
          /\ cancelKey \in [Bookings -> RefundCall]
      BY DEF IInv, TypeOK, SessionRecord
    <2>1. CASE UNCHANGED <<session, cancelKey>>
      BY <2>1 DEF CancellationRefundsOnce
    <2>2. ASSUME UNCHANGED cancelKey, NEW s \in Sessions, SessionMoves(s)
          PROVE  CancellationRefundsOnce'
      <3>1. /\ session'[s].refunded = 0
            /\ \A t \in Sessions : t # s => session'[t] = session[t]
        BY <2>2, <2>t DEF SessionMoves, IInv, KeysFact, SessionRecord
      <3> QED
        BY <2>2, <3>1 DEF CancellationRefundsOnce
    <2>3. ASSUME UNCHANGED cancelKey, NEW s \in Sessions, RefundsRest(s)
          PROVE  CancellationRefundsOnce'
      <3>1. /\ session'[s].refunded = Price
            /\ \A t \in Sessions : t # s => session'[t] = session[t]
        BY <2>3, <2>t DEF RefundsRest, SessionRecord
      <3> QED
        BY <2>3, <3>1 DEF CancellationRefundsOnce
    <2>4. ASSUME NEW q \in Request, RequestFact(q, session, event),
                 RefundsOnCancel(q), StripeRefundsCancel(q), ~UNCHANGED <<session, cancelKey>>
          PROVE  CancellationRefundsOnce'
      <3> DEFINE s == q.read.payment_intent_id
                 b == q.booking
      <3>1. /\ b \in Bookings /\ q.amount \in 0..Price /\ q.amount > 0
            /\ q.read \in RoomBooking
        BY <2>4 DEF Request, RefundsOnCancel
      <3>2. s \in Sessions /\ session[s].booking = b
        BY <2>4, <3>1, RowIntent DEF RequestFact, IInv, RefundsOnCancel
      <3>3. /\ cancelKey[b] = NoCall
            /\ session[s].refunded + q.amount <= Price
            /\ session' = [session EXCEPT ![s].refunded = @ + q.amount]
            /\ cancelKey' = [cancelKey EXCEPT ![b] = CancelCall(q)]
        BY <2>4 DEF StripeRefundsCancel
      <3>4. \A t \in Sessions : session[t].booking = b => session[t].refunded \in {0, Price}
        BY <3>3, ConstantsAssumption DEF CancellationRefundsOnce, NoCall
      <3>5. session[s].refunded = 0
        BY <2>t, <3>1, <3>2, <3>3, <3>4, ConstantsAssumption
      <3>6. /\ session'[s].refunded = q.amount /\ session'[s].booking = b
            /\ cancelKey'[b].intent = s /\ cancelKey'[b].amount = q.amount
        BY <2>t, <3>1, <3>2, <3>3, <3>5, ConstantsAssumption DEF CancelCall, SessionRecord
      <3> HIDE DEF s, b
      <3>7. ASSUME NEW t \in Sessions, t # s
            PROVE  /\ session'[t] = session[t]
                   /\ session[t].booking # b =>
                        cancelKey'[session[t].booking] = cancelKey[session[t].booking]
        BY <2>t, <3>1, <3>2, <3>3, <3>7
      <3> QED
        BY <3>4, <3>6, <3>7 DEF CancellationRefundsOnce
    <2>5. CASE UNCHANGED session /\ ForgetfulStripe
      BY <2>5
    <2> QED
      BY <2>1, <2>2, <2>3, <2>4, <2>5 DEF StepShape
  <1> QED
    BY <1>1, <1>2, Invariance, PTL DEF Spec

-----------------------------------------------------------------------------
(* The booking table is a truthful ledger *)

\* What a row claims is a claim of the ledger.
LEMMA ClaimType ==
  ASSUME NEW r \in RoomBooking
  PROVE  ClaimOf(r) \in Ledger!Claims
  BY ConstantsAssumption DEF ClaimOf, Ledger!Claims, RoomBooking

\* A true row claims no more than Stripe has done.
LEMMA ClaimRecorded ==
  ASSUME NEW b, NEW r \in RoomBooking, NEW m, NEW e, RowFact(b, r, m, e)
  PROVE  LET s == r.payment_intent_id
         IN  /\ ClaimOf(r).intent = s
             /\ s # NoSession => s \in Sessions /\ m[s].state = "complete" /\ m[s].booking = b
             /\ ClaimOf(r).part > 0 => s # NoSession /\ m[s].refunded >= ClaimOf(r).part
             /\ ClaimOf(r).all => s # NoSession /\ m[s].refunded = Price
  <1>1. ~(0 > 0)
    OBVIOUS
  <1>2. CASE r.refund_processed_at
    BY <1>2 DEF ClaimOf, RowFact, RoomBooking
  <1>3. CASE ~r.refund_processed_at
    BY <1>1, <1>3 DEF ClaimOf, RowFact, RoomBooking
  <1> QED
    BY <1>2, <1>3

\* Every execution of the bookings, whatever races, crashes and lost answers
\* it has, is one of the abstract ledger: money that went back stays back, and
\* whatever a request writes to a row is true when it is written.
THEOREM Implements == Spec => ImplementsLedger
  <1> DEFINE owner == [s \in Sessions |-> session[s].booking]
             returned == [s \in Sessions |-> session[s].refunded]
             claim == [b \in Bookings |-> ClaimOf(row[b])]
  <1>1. Init => Ledger!Init
    <2> SUFFICES ASSUME Init PROVE Ledger!Init
      OBVIOUS
    <2>1. Idle.booking \in Bookings
      BY IdleType DEF Request
    <2> QED
      BY <2>1 DEF Init, Ledger!Init, Charge, ClaimOf, NewBooking
  <1>2. IInv /\ IInv' /\ [Next]_vars => [Ledger!Next]_Ledger!vars
    <2> SUFFICES ASSUME IInv, IInv', StepShape
                 PROVE  Ledger!Next \/ UNCHANGED Ledger!vars
      BY NextShape
    <2>t. /\ \A s \in Sessions : /\ session[s] \in SessionRecord
                                 /\ session[s].refunded \in 0..Price
          /\ session \in [Sessions -> SessionRecord]
      BY DEF IInv, TypeOK, SessionRecord
    <2>1. ASSUME row' # row, OneRow PROVE \E b \in Bookings : Ledger!Claim(b)
      <3>1. PICK b \in Bookings, r \in RoomBooking : row' = [row EXCEPT ![b] = r]
        BY <2>1 DEF OneRow
      <3>2. row'[b] = r /\ RowFact(b, row'[b], session', event')
        BY <3>1 DEF IInv, TypeOK
      <3>3. ClaimOf(r) \in Ledger!Claims /\ Ledger!Truthful(b, ClaimOf(r))'
        <4> DEFINE s == r.payment_intent_id
        <4>1. /\ ClaimOf(r).intent = s
              /\ s # NoSession => s \in Sessions /\ session'[s].state = "complete"
                                  /\ session'[s].booking = b
              /\ ClaimOf(r).part > 0 => s # NoSession /\ session'[s].refunded >= ClaimOf(r).part
              /\ ClaimOf(r).all => s # NoSession /\ session'[s].refunded = Price
          BY <3>2, ClaimRecorded
        <4>2. s # NoSession => Charge'[s] = "captured"
          BY <4>1 DEF Charge
        <4> QED
          BY <4>1, <4>2, ClaimType DEF Ledger!Truthful
      <3>4. claim' = [claim EXCEPT ![b] = ClaimOf(r)]
        BY <3>1 DEF IInv, TypeOK
      <3> QED
        BY <3>3, <3>4 DEF Ledger!Claim
    <2>2. ASSUME OneRow PROVE claim' = claim \/ \E b \in Bookings : Ledger!Claim(b)
      BY <2>1, <2>2
    <2>3. CASE OneRow /\ UNCHANGED <<session, cancelKey>>
      <3>1. Charge' = Charge /\ owner' = owner /\ returned' = returned
        BY <2>3 DEF Charge
      <3> QED
        BY <2>2, <2>3, <3>1 DEF Ledger!Next, Ledger!vars
    <2>4. ASSUME UNCHANGED row, NEW s \in Sessions, SessionMoves(s)
          PROVE  Ledger!Opens(s) \/ Ledger!Closes(s)
      <3>1. returned' = returned /\ claim' = claim
        BY <2>4, <2>t DEF SessionMoves, SessionRecord
      <3>2. ASSUME NEW b \in Bookings, session[s].state = "unused",
                   session' = [session EXCEPT ![s].state = "open", ![s].booking = b]
            PROVE  Ledger!Opens(s)
        <4>1. Charge[s] = "none"
          BY <3>2 DEF Charge
        <4>2. Charge' = [Charge EXCEPT ![s] = "open"]
          BY <3>2, <2>t DEF Charge, SessionRecord
        <4>3. owner' = [owner EXCEPT ![s] = b]
          BY <3>2, <2>t DEF SessionRecord
        <4> QED
          BY <3>1, <4>1, <4>2, <4>3 DEF Ledger!Opens
      <3>3. ASSUME session[s].state = "open", NEW to \in {"complete", "expired"},
                   session' = [session EXCEPT ![s].state = to]
            PROVE  Ledger!Closes(s)
        <4>1. Charge[s] = "open"
          BY <3>3 DEF Charge
        <4>2. \E c \in {"captured", "void"} : Charge' = [Charge EXCEPT ![s] = c]
          <5>1. Charge' = [Charge EXCEPT ![s] =
                             IF to = "complete" THEN "captured" ELSE "void"]
            BY <3>3, <2>t DEF Charge, SessionRecord
          <5> QED
            BY <5>1
        <4>3. owner' = owner
          BY <3>3, <2>t DEF SessionRecord
        <4> QED
          BY <3>1, <4>1, <4>2, <4>3 DEF Ledger!Closes
      <3> QED
        BY <2>4, <3>2, <3>3 DEF SessionMoves
    <2>r. ASSUME NEW s \in Sessions, session[s].state = "complete", NEW total \in 0..Price,
                 total > session[s].refunded,
                 session' = [session EXCEPT ![s].refunded = total]
          PROVE  Ledger!Returns(s)
      <3>1. Charge[s] = "captured" /\ Charge' = Charge
        BY <2>r, <2>t DEF Charge, SessionRecord
      <3>2. owner' = owner /\ returned' = [returned EXCEPT ![s] = total]
        BY <2>r, <2>t DEF SessionRecord
      <3>3. returned[s] \in 0..Price /\ total \in (returned[s] + 1)..Price
        BY <2>r, <2>t, ConstantsAssumption
      <3> QED
        BY <3>1, <3>2, <3>3 DEF Ledger!Returns
    <2>5. ASSUME OneRow, NEW s \in Sessions, session[s].state = "complete",
                 Refundable(s), RefundsRest(s)
          PROVE  Ledger!Next
      <3>1. Ledger!Returns(s)
        <4>1. /\ Price \in 0..Price /\ Price > session[s].refunded
              /\ session' = [session EXCEPT ![s].refunded = Price]
          BY <2>5, <2>t, ConstantsAssumption DEF Refundable, RefundsRest
        <4> QED
          BY <2>5, <2>r, <4>1
      <3> QED
        BY <2>2, <2>5, <3>1 DEF Ledger!Next
    <2>6. ASSUME UNCHANGED row, NEW q \in Request, RequestFact(q, session, event),
                 RefundsOnCancel(q), StripeRefundsCancel(q)
          PROVE  Ledger!Next \/ UNCHANGED Ledger!vars
      <3> DEFINE s == q.read.payment_intent_id
      <3>1. q.booking \in Bookings /\ q.amount \in 0..Price /\ q.amount > 0
            /\ q.read \in RoomBooking
        BY <2>6 DEF Request, RefundsOnCancel
      <3>2. s \in Sessions /\ session[s].state = "complete"
        BY <2>6, <3>1, RowIntent DEF RequestFact, IInv, RefundsOnCancel
      <3>3. CASE UNCHANGED <<session, cancelKey>>
        BY <2>6, <3>3 DEF Charge, Ledger!vars
      <3>4. CASE session[s].refunded + q.amount <= Price
                 /\ session' = [session EXCEPT ![s].refunded = @ + q.amount]
        <4>1. /\ session[s].refunded + q.amount \in 0..Price
              /\ session[s].refunded + q.amount > session[s].refunded
              /\ session' = [session EXCEPT ![s].refunded = session[s].refunded + q.amount]
          BY <2>t, <3>1, <3>2, <3>4, ConstantsAssumption
        <4> HIDE DEF s
        <4>2. Ledger!Returns(s)
          BY <2>r, <3>2, <4>1
        <4> QED
          BY <2>6, <3>2, <4>2 DEF Ledger!Next
      <3> QED
        BY <2>6, <3>3, <3>4 DEF StripeRefundsCancel
    <2>7. CASE UNCHANGED <<row, session>>
      BY <2>7 DEF Charge, Ledger!vars
    <2> QED
      BY <2>3, <2>4, <2>5, <2>6, <2>7 DEF StepShape, Ledger!Next
  <1> QED
    BY <1>1, <1>2, Invariance, PTL DEF Spec, ImplementsLedger, Ledger!Spec

-----------------------------------------------------------------------------
(* Nobody waits for ever *)

\* Weak fairness of the job for each booking, with the condition under which it
\* can expire the booking written out: it runs on a schedule, and what stays
\* expirable is expired sooner or later.
JobIsFair ==
  \A b \in Bookings : []<>(~IsExpirable(b)) \/ []<><<JobExpires(b)>>_vars

\* A cutoff that has passed has passed.
LEMMA OverdueStays == [Next]_vars => overdue \subseteq overdue'
  <1> SUFFICES ASSUME [Next]_vars PROVE overdue \subseteq overdue'
    OBVIOUS
  <1>1. ASSUME NEW s \in Sessions, StripeStep(s) PROVE overdue' = overdue
    BY <1>1 DEF StripeStep, GuestPays, SessionExpires, WebhookProcesses, WebhookSwallowsFailure,
       WebhookFails, WebhookCrashes, WebhookSkips
  <1>2. ASSUME NEW b \in Bookings, LockedStep(b) PROVE overdue' = overdue
    BY <1>2 DEF LockedStep, StaffAccepts, StaffDeclines, StaffDeclineLost, JobExpires,
       ExpiresWithRefund, ExpiresWithoutRefund, ExpiryRefundLost, AssignsRoom, UnassignsRoom
  <1>3. ASSUME NEW b \in Bookings, EnvironmentStep(b) PROVE overdue \subseteq overdue'
    BY <1>3 DEF EnvironmentStep, CutoffPasses, CacheEntryExpires, KeyForgotten
  <1>4. ASSUME NEW p \in Requests, NEW b \in Bookings, RequestReads(p, b) PROVE overdue' = overdue
    BY <1>4 DEF RequestReads, PaymentPageReads, PaymentPageLosesSession, GuestCancelsByBookingToken,
       GuestCancelsByLink, ConfirmReads, StaffCancelReads, PrecheckinReads, CheckInReads,
       CheckOutReads, Reads
  <1>5. ASSUME NEW p \in Requests, RequestGoesOn(p) PROVE overdue' = overdue
    BY <1>5 DEF RequestGoesOn, OpensSession, StoresSession, RequestDies, CancelSettles, CancelSaves,
       CancelAnswerLost, BookingTokenCancelRollsBack, ConfirmSaves, StaffCancelSaves,
       PrecheckinSaves, CheckInSaves, CheckOutSaves, SavesRow
  <1>6. CASE UNCHANGED vars
    BY <1>6 DEF vars
  <1> QED
    BY <1>1, <1>2, <1>3, <1>4, <1>5, <1>6 DEF Next

\* What the job expires has left the queue of approvals.
LEMMA ExpiryEndsWaiting ==
  ASSUME TypeOK, NEW b \in Bookings, JobExpires(b)
  PROVE  row'[b].status = "EXPIRED"
  <1>1. row[b] \in RoomBooking
    BY DEF TypeOK
  <1>2. /\ Expired(row[b]).status = "EXPIRED"
        /\ [Expired(row[b]) EXCEPT !.refunded_at = TRUE].status = "EXPIRED"
    BY <1>1 DEF Expired, RoomBooking
  <1>3. row'[b] \in {Expired(row[b]), [Expired(row[b]) EXCEPT !.refunded_at = TRUE]}
    BY DEF JobExpires, ExpiresWithRefund, ExpiresWithoutRefund, TypeOK
  <1> QED
    BY <1>2, <1>3

\* A booking that waits past its cutoff leaves the queue, whatever races and
\* whatever is lost, because nothing that waits ever escapes the job's filter.
THEOREM WaitingEnds == Spec /\ JobIsFair => NobodyWaitsForEver
  <1> SUFFICES ASSUME NEW b \in Bookings
               PROVE  Spec /\ ([]<>(~IsExpirable(b)) \/ []<><<JobExpires(b)>>_vars)
                        => (row[b].status = "PENDING_APPROVAL" /\ b \in overdue
                              ~> row[b].status # "PENDING_APPROVAL")
    BY DEF JobIsFair, NobodyWaitsForEver
  <1>1. IInv /\ (row[b].status = "PENDING_APPROVAL" /\ b \in overdue) => IsExpirable(b)
    BY DEF IInv, RowFact, IsExpirable
  <1>2. (row[b].status = "PENDING_APPROVAL" /\ b \in overdue) /\ [Next]_vars
          => (row[b].status = "PENDING_APPROVAL" /\ b \in overdue)'
               \/ (row[b].status # "PENDING_APPROVAL")'
    BY OverdueStays
  <1>3. IInv /\ <<JobExpires(b)>>_vars => (row[b].status # "PENDING_APPROVAL")'
    BY ExpiryEndsWaiting DEF IInv
  <1> QED
    BY <1>1, <1>2, <1>3, Invariance, PTL DEF Spec

=============================================================================
