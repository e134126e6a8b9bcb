---------------------------- MODULE RefundLedger ----------------------------
(***************************************************************************)
(* What the booking table promises about money, whatever races below it:   *)
(* Stripe is the only authority, and the table is a ledger of claims that  *)
(* may be out of date but never says more than is true.                    *)
(***************************************************************************)
EXTENDS Naturals

CONSTANTS Bookings, Sessions, NoSession, Price

VARIABLES
  charge,     \* the state of each payment
  owner,      \* the booking it pays for
  returned,   \* how much of it went back to the guest
  claim       \* what the row of each booking says of its payment

vars == <<charge, owner, returned, claim>>

\* A row names a payment or none; it may say that a part of it, or all of it,
\* was given back.
Claims == [intent : Sessions \cup {NoSession}, part : 0..Price, all : BOOLEAN]

Truthful(b, c) ==
  /\ c.intent # NoSession => charge[c.intent] = "captured" /\ owner[c.intent] = b
  /\ c.part > 0 => c.intent # NoSession /\ returned[c.intent] >= c.part
  /\ c.all => c.intent # NoSession /\ returned[c.intent] = Price

Init ==
  /\ charge = [s \in Sessions |-> "none"]
  /\ owner \in [Sessions -> Bookings]
  /\ returned = [s \in Sessions |-> 0]
  /\ claim = [b \in Bookings |-> [intent |-> NoSession, part |-> 0, all |-> FALSE]]

Opens(s) ==
  /\ charge[s] = "none"
  /\ charge' = [charge EXCEPT ![s] = "open"]
  /\ \E b \in Bookings : owner' = [owner EXCEPT ![s] = b]
  /\ UNCHANGED <<returned, claim>>

Closes(s) ==
  /\ charge[s] = "open"
  /\ \E c \in {"captured", "void"} : charge' = [charge EXCEPT ![s] = c]
  /\ UNCHANGED <<owner, returned, claim>>

\* Money goes back, never to be taken again.
Returns(s) ==
  /\ charge[s] = "captured"
  /\ \E total \in (returned[s] + 1)..Price :
       returned' = [returned EXCEPT ![s] = total]
  /\ UNCHANGED <<charge, owner>>

\* A row is written; what it says is true at that moment.
Claim(b) ==
  \E c \in Claims : claim' = [claim EXCEPT ![b] = c] /\ Truthful(b, c)'

Next ==
  \/ \E s \in Sessions : Opens(s) \/ Closes(s)
  \/ \E s \in Sessions : Returns(s) /\ UNCHANGED claim
  \/ \E s \in Sessions, b \in Bookings : Returns(s) /\ Claim(b)
  \/ \E b \in Bookings : Claim(b) /\ UNCHANGED <<charge, owner, returned>>

Spec == Init /\ [][Next]_vars

=============================================================================
