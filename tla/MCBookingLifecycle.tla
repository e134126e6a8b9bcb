------------------------- MODULE MCBookingLifecycle -------------------------
(* Model checking BookingLifecycle: the symmetry of its workers and sessions. *)
EXTENDS BookingClaims, TLC

RequestSymmetry == Permutations(Requests)
SessionSymmetry == Permutations(Sessions)

\* A check-out meets forms that were read before it; once the guest has left,
\* requests are looked at one at a time.
CheckOutMeetsForms ==
  \A p, q \in Requests :
    p = q \/ req[p].kind = "idle" \/ req[q].kind = "idle"
          \/ ( /\ req[p].kind = "check_out" => req[q].kind = "precheckin"
               /\ ~row[req[p].booking].checked_out_at )

=============================================================================
