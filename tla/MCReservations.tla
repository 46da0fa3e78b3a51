---------------------------- MODULE MCReservations ----------------------------
(* Small instances of Reservations: a day of eight quarter hours.          *)
EXTENDS Reservations, TLC

(* Open 2-6; open 4 and closing at 2 of the next day; never closed.        *)
DayHours   == [open |-> 2, close |-> 6, allDay |-> FALSE]
NightHours == [open |-> 4, close |-> 2, allDay |-> FALSE]
FullHours  == [open |-> 4, close |-> 2, allDay |-> TRUE]

At(s, e) == [start |-> s, end |-> e]
AllDay   == [start |-> NoTime, end |-> NoTime]

OnlyDay      == {DayHours}
OnlyFull     == {FullHours}
OnlyNight    == {NightHours}
RaceWindows  == {At(4, 6), At(6, 2)}
DayOrNight   == {DayHours, NightHours}
DayWindows   == {At(2, 4), At(2, 6)}
NightWindows == {At(4, 6), At(6, 2), At(2, 6)}
FullWindows  == {At(2, 4), At(2, 6), At(4, 6)}
OneOwner     == {At(2, 4)}
OneNight     == {At(6, 2)}
OddOwner     == {At(3, 5), At(6, 2)}
SomeSpans    == {AllDay, At(4, 6)}

Symmetric == Permutations(Ids) \cup Permutations(Groups)
               \cup Permutations(Txs) \cup Permutations(DayOffs)
===============================================================================
