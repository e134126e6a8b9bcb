-------------------------- MODULE MCCancellationFee --------------------------
(* Model checking CancellationFee: one policy of every template, with every  *)
(* penalty type, percentages that do not come out in cents and one over 100, *)
(* and two sets of tiers that an update replaces by each other.              *)
EXTENDS CancellationFee

P(type, amount, percentage) ==
  [type |-> type, amount |-> amount, percentage |-> percentage]
None == P("NONE", 0, 0)
FirstNightFee == P("FIRST_NIGHT", 0, 0)
FullStay == P("FULL_STAY", 0, 0)

Template(template, free, penalty) ==
  [template |-> template, free_until_hours |-> free, penalty |-> penalty, tiers |-> {}]
Custom(ts) ==
  [template |-> "CUSTOM", free_until_hours |-> 0, penalty |-> None, tiers |-> ts]
T(h, penalty) == [hours |-> h, penalty |-> penalty]

SomePolicies ==
  {Template("FLEXIBLE", 2, FirstNightFee),
   Template("MODERATE", 3, P("PERCENTAGE", 0, 1050)),
   Template("NON_REFUNDABLE", 0, FullStay),
   Custom({T(1, P("PERCENTAGE", 0, 5000)), T(2, FirstNightFee), T(4, None)}),
   Custom({T(2, P("PERCENTAGE", 0, 15000)), T(3, P("FIXED", 2, 0))})}

=============================================================================
