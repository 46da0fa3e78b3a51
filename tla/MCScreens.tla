------------------------------ MODULE MCScreens ------------------------------
(* The pages of Screens on small instances.                                *)
EXTENDS Screens

(* A day with a reservation in it, one that runs past midnight, and one of *)
(* a room that is inactive.                                                *)
BusyOvernightInactive ==
  {[hours |-> SlotRange(1, 3), active |-> TRUE, taken |-> {SlotRange(1, 2)}],
   [hours |-> SlotRange(3, 1), active |-> TRUE, taken |-> {}],
   [hours |-> SlotRange(1, 3), active |-> FALSE, taken |-> {}]}

TwoInARow == [i \in {1, 2, 3} |-> [room |-> 1, start |-> IF i = 1 THEN 0 ELSE 1, end |-> IF i = 1 THEN 1 ELSE 2]]

OnceOrFortnightly  == <<0, 2>>
PersonalThenBand   == <<"personal", "band">>
OpensAtMidnight    == <<0>>
FirstSlotOfToday   == <<[room |-> 1, date |-> 1, slot |-> 0]>>
==============================================================================
