-------------------------- MODULE ExclusiveCalendar --------------------------
(* What the b201 back end promises of its calendar, whatever its requests   *)
(* do to one another: a booking takes cells, half-hours of a room's date,   *)
(* all at once, when it is made, out of those nobody holds; it never takes  *)
(* more; and it gives them up all at once.  A booking that is put in the    *)
(* place of others takes theirs in the same step.                           *)

CONSTANTS
  Bookings,   \* the numbers a booking may get
  Cells       \* what can be held

VARIABLES
  numbers,    \* the numbers handed out
  held        \* the cells of each booking

vars == <<numbers, held>>

Init == numbers = {} /\ held = [b \in Bookings |-> {}]

(* No cell is ever held by two bookings. *)
Exclusive == \A b, c \in Bookings : b # c => held[b] \cap held[c] = {}

\* The bookings of one request, and those it is put in the place of.
Reserve(new, displaced) ==
  /\ new # {} /\ numbers' = numbers \cup new
  /\ held' \in [Bookings -> SUBSET Cells]
  /\ \A b \in displaced : held'[b] = {}
  /\ \A b \in Bookings \ (new \cup displaced) : held'[b] = held[b]
  /\ \A b \in new, c \in Bookings : b # c => held'[b] \cap held'[c] = {}

Release(S) ==
  /\ held' = [b \in Bookings |-> IF b \in S THEN {} ELSE held[b]]
  /\ UNCHANGED numbers

Next ==
  \/ \E new \in SUBSET (Bookings \ numbers), displaced \in SUBSET numbers : Reserve(new, displaced)
  \/ \E S \in SUBSET numbers : Release(S)

Spec == Init /\ [][Next]_vars
==============================================================================
