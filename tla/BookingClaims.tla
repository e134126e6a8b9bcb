---------------------------- MODULE BookingClaims ----------------------------
(* What the repository says of cancelled bookings, and the code does not keep. *)
EXTENDS BookingLifecycle

\* hotel/services/guest_cancellation.py:5, "financially-correct booking
\* cancellation": a guest who cancelled has got back the refund that the row
\* promises.
CancelledIsRefunded ==
  \A b \in Bookings :
    LET r == row[b]
    IN  r.status = "CANCELLED" /\ r.cancelled_at /\ r.payment_intent_id # NoSession
          => session[r.payment_intent_id].refunded >= r.refund_amount

=============================================================================
