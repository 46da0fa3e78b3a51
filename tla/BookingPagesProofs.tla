------------------------- MODULE BookingPagesProofs --------------------------
(***************************************************************************)
(* The pages on which a user applies for a reservation, follows it, lists  *)
(* all of them, and renames himself, for every value of the constants.     *)
(* Each page has an inductive invariant of its own; the first lemmas carry *)
(* it from the page to Screens, where one page is on screen at a time.     *)
(***************************************************************************)
EXTENDS Screens, WellFoundedInduction, FiniteSetTheorems, SequenceTheorems, TLAPS

(* A page starts in its own first state.                                   *)
LEMMA FirstPage ==
  ASSUME Init
  PROVE  /\ screen = "apply" => Apply!Init
         /\ screen = "detail" => Detail!Init
         /\ screen = "list" => List!Init
         /\ screen = "team" => Team!Init
         /\ screen = "profile" => Own!Init
         /\ screen = "reservations" => Panel!Init
         /\ screen = "teams" => Crews!Init
         /\ screen = "users" => People!Init
         /\ screen = "rooms" => Studio!Init
  BY Zenon DEF Init

(* A step is one of the page on screen, or leaves that page as it is.      *)
LEMMA PageSteps ==
  ASSUME [Next]_vars
  PROVE  /\ screen' = screen
         /\ screen = "apply" => [Apply!Next]_(Apply!applyVars)
         /\ screen = "detail" => [Detail!Next]_(Detail!detailVars)
         /\ screen = "list" => [List!Next]_(List!listVars)
         /\ screen = "team" => [Team!Next]_(Team!teamVars)
         /\ screen = "profile" => [Own!Next]_(Own!profileVars)
         /\ screen = "reservations" => [Panel!Next]_(Panel!panelVars)
         /\ screen = "teams" => [Crews!Next]_(Crews!teamVars)
         /\ screen = "users" => [People!Next]_(People!userVars)
         /\ screen = "rooms" => [Studio!Next]_(Studio!roomVars)
<1>1. CASE Next
  <2>1. screen' = screen BY <1>1 DEF Next, On
  <2> QED BY <1>1, <2>1, Zenon DEF Next, On
<1>2. CASE UNCHANGED vars
  <2>1. /\ screen' = screen /\ moves' = moves
        /\ UNCHANGED ApplyVars /\ UNCHANGED DetailVars /\ UNCHANGED ListVars
        /\ UNCHANGED TeamVars /\ UNCHANGED OwnVars /\ UNCHANGED PanelVars
        /\ UNCHANGED CrewsVars /\ UNCHANGED PeopleVars /\ UNCHANGED StudioVars
    BY <1>2 DEF vars
  <2>2. UNCHANGED Apply!applyVars BY <2>1 DEF ApplyVars, Apply!applyVars
  <2>3. UNCHANGED Detail!detailVars BY <2>1 DEF DetailVars, Detail!detailVars
  <2>4. UNCHANGED List!listVars BY <2>1 DEF ListVars, List!listVars
  <2>5. UNCHANGED Team!teamVars BY <2>1 DEF TeamVars, Team!teamVars
  <2>6. UNCHANGED Own!profileVars BY <2>1 DEF OwnVars, Own!profileVars
  <2>7. UNCHANGED Panel!panelVars BY <2>1 DEF PanelVars, Panel!panelVars
  <2>8. UNCHANGED Crews!teamVars BY <2>1 DEF CrewsVars, Crews!teamVars
  <2>9. UNCHANGED People!userVars BY <2>1 DEF PeopleVars, People!userVars
  <2>10. UNCHANGED Studio!roomVars BY <2>1 DEF StudioVars, Studio!roomVars
  <2> QED BY <2>1, <2>2, <2>3, <2>4, <2>5, <2>6, <2>7, <2>8, <2>9, <2>10
<1> QED BY <1>1, <1>2

(***************************************************************************)
(* Applying for a reservation: what the searches for a slot find, and from *)
(* it that the window chosen stays inside the hours of the room, and that  *)
(* one request is on its way at most.                                      *)
(***************************************************************************)

(***************************************************************************)
(* The first and the last of a set of slots.                               *)
(***************************************************************************)

(* A set of natural numbers that is not empty has a least member.          *)
LEMMA NatHasMin ==
  ASSUME NEW S \in SUBSET Nat, S # {}
  PROVE  \E x \in S : \A y \in S : x <= y
<1> DEFINE R == OpToRel(<, Nat)
<1>1. IsWellFoundedOn(R, Nat) BY NatLessThanWellFounded
<1>2. PICK x \in S : \A y \in S : ~(<<y, x>> \in R)
  <2> HIDE DEF R
  <2> QED BY <1>1, WFMin, Zenon
<1>3. \A y \in S : ~(y < x)
  <2> TAKE y \in S
  <2>1. ~(<<y, x>> \in R) BY <1>2
  <2>2. <<y, x>> \in R <=> <<y, x>> \in Nat \X Nat /\ y < x BY DEF OpToRel
  <2>3. <<y, x>> \in Nat \X Nat OBVIOUS
  <2> HIDE DEF R
  <2> QED BY <2>1, <2>2, <2>3
<1> HIDE DEF R
<1> QED BY <1>3

(* FirstOr finds the least slot, when there is one.                        *)
LEMMA FirstOrIs ==
  ASSUME NEW S \in SUBSET Int, NEW b \in Int, \A x \in S : b <= x, NEW slot
  PROVE  /\ S = {} => Apply!FirstOr(S, slot) = slot
         /\ S # {} => Apply!FirstOr(S, slot) \in S /\ \A y \in S : Apply!FirstOr(S, slot) <= y
<1>1. CASE S = {} BY <1>1 DEF Apply!FirstOr
<1>2. CASE S # {}
  <2> DEFINE T == {x - b : x \in S}
  <2>1. T \in SUBSET Nat OBVIOUS
  <2>2. T # {} BY <1>2
  <2>3. PICK t \in T : \A u \in T : t <= u
    <3> HIDE DEF T
    <3> QED BY NatHasMin, <2>1, <2>2
  <2>4. PICK x \in S : t = x - b OBVIOUS
  <2>5. \A y \in S : x <= y
    <3> TAKE y \in S
    <3>1. y - b \in T OBVIOUS
    <3>2. t <= y - b BY <3>1, <2>3
    <3> QED BY <3>2, <2>4
  <2>6. Apply!Min(S) \in S /\ \A y \in S : Apply!Min(S) <= y BY <2>5 DEF Apply!Min
  <2> QED BY <1>2, <2>6 DEF Apply!FirstOr
<1> QED BY <1>1, <1>2

(* LastOr finds the greatest slot, when there is one.                      *)
LEMMA LastOrIs ==
  ASSUME NEW S \in SUBSET Int, NEW b \in Int, \A x \in S : x <= b, NEW slot
  PROVE  /\ S = {} => Apply!LastOr(S, slot) = slot
         /\ S # {} => Apply!LastOr(S, slot) \in S /\ \A y \in S : y <= Apply!LastOr(S, slot)
<1>1. CASE S = {} BY <1>1 DEF Apply!LastOr
<1>2. CASE S # {}
  <2> DEFINE T == {b - x : x \in S}
  <2>1. T \in SUBSET Nat OBVIOUS
  <2>2. T # {} BY <1>2
  <2>3. PICK t \in T : \A u \in T : t <= u
    <3> HIDE DEF T
    <3> QED BY NatHasMin, <2>1, <2>2
  <2>4. PICK x \in S : t = b - x OBVIOUS
  <2>5. \A y \in S : x >= y
    <3> TAKE y \in S
    <3>1. b - y \in T OBVIOUS
    <3>2. t <= b - y BY <3>1, <2>3
    <3> QED BY <3>2, <2>4
  <2>6. Apply!Max(S) \in S /\ \A y \in S : y <= Apply!Max(S) BY <2>5 DEF Apply!Max
  <2> QED BY <1>2, <2>6 DEF Apply!LastOr
<1> QED BY <1>1, <1>2

LEMMA LaterOfTwo ==
  ASSUME NEW a \in Int, NEW b \in Int
  PROVE  Apply!Max({a, b}) = IF a >= b THEN a ELSE b
<1>1. \E m \in {a, b} : \A y \in {a, b} : m >= y OBVIOUS
<1>2. Apply!Max({a, b}) \in {a, b} /\ \A y \in {a, b} : Apply!Max({a, b}) >= y
  BY <1>1 DEF Apply!Max
<1> QED BY <1>2

(***************************************************************************)
(* The operating window around a slot.                                     *)
(***************************************************************************)
Hours == {h \in [from: Int, to: Int] : h.from < h.to /\ h.to <= h.from + DaySlots}

LEMMA DivIs ==
  ASSUME NEW a \in Int
  PROVE  /\ a \div DaySlots \in Int
         /\ (a \div DaySlots) * DaySlots <= a
         /\ a < (a \div DaySlots) * DaySlots + DaySlots
BY DaySlotsAssumption

(* A slot lies in the day that begins at its own window.                   *)
LEMMA WindowIs ==
  ASSUME NEW h \in Hours, NEW x \in Int
  PROVE  LET w == Apply!WindowAround(h, x)
         IN  /\ w.from \in Int /\ w.to \in Int
             /\ w.from <= x /\ x < w.from + DaySlots
             /\ w.from < w.to /\ w.to <= w.from + DaySlots
<1> DEFINE shift == ((x - h.from) \div DaySlots) * DaySlots
<1>1. shift \in Int /\ shift <= x - h.from /\ x - h.from < shift + DaySlots
  <2>1. x - h.from \in Int BY DEF Hours
  <2> QED BY <2>1, DivIs, DaySlotsAssumption
<1>2. Apply!WindowAround(h, x) = [from |-> h.from + shift, to |-> h.to + shift] BY DEF Apply!WindowAround
<1>3. h.from \in Int /\ h.to \in Int /\ h.from < h.to /\ h.to <= h.from + DaySlots BY DEF Hours
<1>4. DaySlots \in Nat BY DaySlotsAssumption
<1> HIDE DEF shift
<1> QED BY <1>1, <1>2, <1>3, <1>4

(* The window of the next day begins one day later.                        *)
LEMMA NextWindowIs ==
  ASSUME NEW h \in Hours, NEW x \in Int
  PROVE  LET y == Apply!WindowAround(h, x).from + DaySlots
         IN  Apply!WindowAround(h, y).from = y
<1> DEFINE q == (x - h.from) \div DaySlots
           y == h.from + q * DaySlots + DaySlots
           p == (y - h.from) \div DaySlots
<1>1. DaySlots \in Nat \ {0} /\ h.from \in Int BY DaySlotsAssumption DEF Hours
<1>2. q \in Int BY <1>1
<1>3. y - h.from = (q + 1) * DaySlots BY <1>1, <1>2
<1>4. p = q + 1
  <2>1. y - h.from \in Int /\ p \in Int BY <1>1, <1>2
  <2>2. p * DaySlots <= (q + 1) * DaySlots /\ (q + 1) * DaySlots < (p + 1) * DaySlots
    BY <1>1, <1>2, <1>3, <2>1, DivIs
  <2> HIDE DEF p, q, y
  <2>3. p <= q + 1 BY <1>1, <1>2, <2>1, <2>2
  <2>4. q + 1 < p + 1 BY <1>1, <1>2, <2>1, <2>2
  <2> QED BY <2>1, <2>3, <2>4, <1>2
<1> QED BY <1>1, <1>2, <1>4 DEF Apply!WindowAround

(* A slot is inside the hours when some end of a reservation fits.         *)
LEMMA InsideIs ==
  ASSUME NEW h \in Hours, NEW x \in Int
  PROVE  /\ Apply!StartInsideOperatingHours(h, x) => ~Apply!OutsideOperatingHours(h, x, x + 1)
         /\ \A e \in Int :
              /\ ~Apply!OutsideOperatingHours(h, x, e) => e <= x + DaySlots
              /\ e > x /\ ~Apply!OutsideOperatingHours(h, x, e) => Apply!StartInsideOperatingHours(h, x)
<1> DEFINE w == Apply!WindowAround(h, x)
<1>1. /\ w.from \in Int /\ w.to \in Int /\ DaySlots \in Int
      /\ w.from <= x /\ x < w.from + DaySlots
      /\ w.from < w.to /\ w.to <= w.from + DaySlots
  BY WindowIs, DaySlotsAssumption
<1>2. Apply!StartInsideOperatingHours(h, x) <=> w.from <= x /\ x < w.to
  BY DEF Apply!StartInsideOperatingHours
<1>3. \A e : Apply!OutsideOperatingHours(h, x, e) <=> x < w.from \/ e > w.to
  BY DEF Apply!OutsideOperatingHours
<1> HIDE DEF w
<1> QED BY <1>1, <1>2, <1>3

(* Every day has a slot inside the hours.                                  *)
LEMMA VisibleWithinADay ==
  ASSUME NEW h \in Hours, NEW x \in Int
  PROVE  \E y \in x .. x + DaySlots - 1 : Apply!StartInsideOperatingHours(h, y)
<1> DEFINE w == Apply!WindowAround(h, x)
           y == w.from + DaySlots
<1>1. /\ w.from \in Int /\ w.to \in Int /\ DaySlots \in Nat \ {0}
      /\ w.from <= x /\ x < w.from + DaySlots
      /\ w.from < w.to /\ w.to <= w.from + DaySlots
  BY WindowIs, DaySlotsAssumption
<1>2. CASE x < w.to
  <2>1. Apply!StartInsideOperatingHours(h, x) BY <1>1, <1>2 DEF Apply!StartInsideOperatingHours
  <2>2. x \in x .. x + DaySlots - 1 BY <1>1
  <2> QED BY <2>1, <2>2
<1>3. CASE w.to <= x
  <2>1. y \in x .. x + DaySlots - 1 BY <1>1, <1>3
  <2>2. Apply!WindowAround(h, y).from = y BY NextWindowIs
  <2>3. y < Apply!WindowAround(h, y).to
    <3>1. y \in Int BY <1>1
    <3>2. Apply!WindowAround(h, y).from < Apply!WindowAround(h, y).to BY <3>1, WindowIs
    <3> QED BY <2>2, <3>2
  <2>4. Apply!StartInsideOperatingHours(h, y)
    <3> DEFINE v == Apply!WindowAround(h, y)
    <3>1. v.from <= y /\ y < v.to BY <2>2, <2>3, <1>1
    <3> QED BY <3>1 DEF Apply!StartInsideOperatingHours
  <2> QED BY <2>1, <2>4
<1> QED BY <1>1, <1>2, <1>3

(***************************************************************************)
(* What the searches find.                                                 *)
(***************************************************************************)
LEMMA ScheduleIs ==
  ASSUME Apply!WizardAssumption, NEW s \in Schedules
  PROVE  /\ s.hours \in Hours /\ s.active \in BOOLEAN
         /\ \A r \in s.taken : r.from \in Int /\ r.to \in Int
         /\ \A r \in s.taken : r.to + SlotBound + DaySlots <= Horizon
BY DEF Apply!WizardAssumption, Hours

LEMMA ConstantsAre ==
  ASSUME Apply!WizardAssumption
  PROVE  /\ DaySlots \in Nat \ {0} /\ PresentTime \in Nat /\ InitialStart \in Nat
         /\ SlotBound \in Nat /\ DefaultDuration \in Nat \ {0}
         /\ Horizon \in Nat /\ Reach \in Nat /\ Days \subseteq Nat
         /\ DaySlots <= Reach /\ SlotBound <= Reach /\ DefaultDuration <= Reach
         /\ SlotBound + DaySlots <= Horizon /\ PresentTime + SlotBound + DaySlots <= Horizon
BY DaySlotsAssumption DEF Apply!WizardAssumption

(* The first available start is not before the minimum, and inside the     *)
(* hours when the minimum leaves a day before the horizon.                 *)
LEMMA FirstAvailableStartIs ==
  ASSUME Apply!WizardAssumption, NEW s \in Schedules \cup {Apply!Loading}, NEW date,
         NEW minimum \in Int
  PROVE  LET x == Apply!FirstAvailableStart(s, date, minimum)
         IN  /\ x \in Int /\ x >= minimum
             /\ s # Apply!Loading /\ minimum + DaySlots <= Horizon =>
                  Apply!StartInsideOperatingHours(s.hours, x)
<1> DEFINE ahead == minimum .. Horizon - 1
           open == {x \in ahead : Apply!StartOpen(s, date, x)}
           visible == {x \in ahead : Apply!StartVisible(s, x)}
           found == Apply!FirstOr(visible, minimum)
<1>1. Horizon \in Int /\ DaySlots \in Int BY ConstantsAre
<1>2. /\ open \in SUBSET Int /\ visible \in SUBSET Int
      /\ \A x \in open \cup visible : minimum <= x
  BY <1>1
<1>3. Apply!FirstAvailableStart(s, date, minimum) = Apply!FirstOr(open, found)
  BY DEF Apply!FirstAvailableStart
<1>4. /\ visible = {} => found = minimum
      /\ visible # {} => found \in visible
  <2> HIDE DEF visible
  <2> QED BY <1>2, FirstOrIs
<1>5. /\ open = {} => Apply!FirstOr(open, found) = found
      /\ open # {} => Apply!FirstOr(open, found) \in open
  <2> HIDE DEF open, found
  <2> QED BY <1>2, FirstOrIs
<1>6. open \subseteq visible BY DEF Apply!StartOpen
<1>7. \/ Apply!FirstOr(open, found) = minimum /\ visible = {}
      \/ Apply!FirstOr(open, found) \in visible
  <2> HIDE DEF open, visible, found
  <2> QED BY <1>4, <1>5, <1>6
<1>8. ASSUME s # Apply!Loading, minimum + DaySlots <= Horizon
      PROVE  visible # {} /\ \A x \in visible : Apply!StartInsideOperatingHours(s.hours, x)
  <2>1. s \in Schedules /\ s.hours \in Hours BY <1>8, ScheduleIs
  <2>2. \A x : Apply!StartVisible(s, x) <=> Apply!StartInsideOperatingHours(s.hours, x)
    BY <1>8 DEF Apply!StartVisible
  <2>3. PICK y \in minimum .. minimum + DaySlots - 1 : Apply!StartInsideOperatingHours(s.hours, y)
    BY <2>1, VisibleWithinADay
  <2>4. y \in ahead BY <1>1, <1>8, <2>3
  <2> QED BY <2>2, <2>3, <2>4
<1> QED
  <2> DEFINE z == Apply!FirstOr(open, found)
  <2>1. z \in Int /\ z >= minimum BY <1>2, <1>7
  <2>2. s # Apply!Loading /\ minimum + DaySlots <= Horizon => Apply!StartInsideOperatingHours(s.hours, z)
    <3> HIDE DEF open, found, visible
    <3> QED BY <1>7, <1>8
  <2> QED BY <2>1, <2>2, <1>3

(* The next start of an active room is inside the hours: past what is      *)
(* taken, and past now, a day is left before the horizon.                  *)
LEMMA NextStartIs ==
  ASSUME Apply!WizardAssumption, NEW s \in Schedules \cup {Apply!Loading}, NEW date \in Days,
         NEW x \in Int
  PROVE  /\ Apply!NextStart(s, date, x, 1) \in Int
         /\ s # Apply!Loading /\ s.active /\ x >= -SlotBound =>
              Apply!StartInsideOperatingHours(s.hours, Apply!NextStart(s, date, x, 1))
<1> DEFINE open == {y \in x + 1 .. x + Horizon : Apply!StartOpen(s, date, y)}
<1>1. Horizon \in Int /\ DaySlots \in Int /\ SlotBound \in Int /\ PresentTime \in Nat BY ConstantsAre
<1>2. open \in SUBSET Int /\ \A y \in open : x <= y BY <1>1
<1>3. Apply!NextStart(s, date, x, 1) = Apply!FirstOr(open, x) BY DEF Apply!NextStart
<1>4. /\ open = {} => Apply!FirstOr(open, x) = x
      /\ open # {} => Apply!FirstOr(open, x) \in open
  <2> HIDE DEF open
  <2> QED BY <1>2, FirstOrIs
<1>5. ASSUME s # Apply!Loading, s.active, x >= -SlotBound
      PROVE  /\ open # {}
             /\ \A y \in open : Apply!StartInsideOperatingHours(s.hours, y)
  <2> DEFINE past == Horizon - SlotBound - DaySlots
             least == IF x + 1 >= past THEN x + 1 ELSE past
  <2>1. s \in Schedules /\ s.hours \in Hours BY <1>5, ScheduleIs
  <2>2. least \in Int /\ least >= x + 1 /\ least >= past BY <1>1
  <2>3. PICK y \in least .. least + DaySlots - 1 : Apply!StartInsideOperatingHours(s.hours, y)
    BY <2>1, <2>2, VisibleWithinADay
  <2>4. y \in x + 1 .. x + Horizon
    <3>1. SlotBound + DaySlots <= Horizon /\ SlotBound >= 0 BY ConstantsAre
    <3> QED BY <1>1, <1>5, <2>2, <2>3, <3>1
  <2>5. ~Apply!StartReserved(s, date, y)
    <3>1. PresentTime <= y BY <1>1, <2>2, <2>3, ConstantsAre
    <3>2. Apply!MinimumStart(date) <= PresentTime
      <4>1. date \in Nat BY ConstantsAre
      <4>2. date * DaySlots \in Nat BY <4>1, ConstantsAre
      <4> QED BY <4>2, <1>1 DEF Apply!MinimumStart
    <3>3. ~(y < Apply!MinimumStart(date))
      <4>1. Apply!MinimumStart(date) \in Int BY <1>1, ConstantsAre DEF Apply!MinimumStart
      <4> QED BY <3>1, <3>2, <4>1, <1>1, <2>2, <2>3
    <3>4. ~Apply!OutsideOperatingHours(s.hours, y, y + 1) BY <2>1, <2>2, <2>3, InsideIs
    <3>5. ~Apply!BlockedOverlap(s.taken, y, y + 1)
      <4>1. \A r \in s.taken : r.to \in Int /\ r.to <= past BY <1>1, <2>1, ScheduleIs
      <4> QED BY <4>1, <1>1, <2>2, <2>3 DEF Apply!BlockedOverlap
    <3> QED BY <1>5, <3>3, <3>4, <3>5 DEF Apply!StartReserved
  <2>6. \A z : Apply!StartVisible(s, z) <=> Apply!StartInsideOperatingHours(s.hours, z)
    BY <1>5 DEF Apply!StartVisible
  <2> QED BY <2>3, <2>4, <2>5, <2>6 DEF Apply!StartOpen
<1>6. Apply!FirstOr(open, x) \in Int
  <2> HIDE DEF open
  <2> QED BY <1>2, <1>4
<1> HIDE DEF open
<1> QED BY <1>3, <1>4, <1>5, <1>6

(* An end on show is after its start, and not later than a day after it    *)
(* once the schedule is loaded; inside the hours there is one.             *)
LEMMA EndVisibleIs ==
  ASSUME Apply!WizardAssumption, NEW s \in Schedules \cup {Apply!Loading}, NEW start \in Int,
         NEW x \in Int
  PROVE  /\ Apply!EndVisible(s, start, x) => x > start
         /\ s = Apply!Loading => (Apply!EndVisible(s, start, x) <=> x > start)
         /\ s # Apply!Loading =>
              /\ Apply!EndVisible(s, start, x) => x <= start + DaySlots
              /\ Apply!EndVisible(s, start, x) => ~Apply!OutsideOperatingHours(s.hours, start, x)
              /\ Apply!StartInsideOperatingHours(s.hours, start) => Apply!EndVisible(s, start, start + 1)
<1>1. CASE s = Apply!Loading BY <1>1 DEF Apply!EndVisible
<1>2. CASE s # Apply!Loading
  <2>1. s.hours \in Hours BY <1>2, ScheduleIs
  <2>2. \A z : Apply!EndVisible(s, start, z) <=> z > start /\ ~Apply!OutsideOperatingHours(s.hours, start, z)
    BY <1>2 DEF Apply!EndVisible
  <2> QED BY <1>2, <2>1, <2>2, InsideIs
<1> QED BY <1>1, <1>2

(* The closest end is after its start and within reach of it, and on show  *)
(* when the start is inside the hours.                                     *)
LEMMA ClosestEndIs ==
  ASSUME Apply!WizardAssumption, NEW s \in Schedules, s # Apply!Loading, NEW start \in Int,
         NEW x \in Int, x > start, x <= start + Reach
  PROVE  LET e == Apply!ClosestEnd(s, start, x)
         IN  /\ e \in Int /\ e > start /\ e <= start + Reach
             /\ Apply!StartInsideOperatingHours(s.hours, start) =>
                  ~Apply!OutsideOperatingHours(s.hours, start, e)
<1> DEFINE near == {d \in 0 .. Reach : Apply!EndVisible(s, start, x + d) \/ Apply!EndVisible(s, start, x - d)}
           d == Apply!FirstOr(near, 0)
           e == IF near = {} \/ Apply!EndVisible(s, start, x + d) THEN x + d ELSE x - d
<1>1. Apply!ClosestEnd(s, start, x) = e BY DEF Apply!ClosestEnd
<1>2. Reach \in Nat /\ DaySlots \in Nat /\ DaySlots <= Reach BY ConstantsAre
<1>3. near \in SUBSET Int /\ \A y \in near : 0 <= y BY <1>2
<1>4. (near = {} => d = 0) /\ (near # {} => d \in near)
  <2> HIDE DEF near, e
  <2>1. 0 \in Int OBVIOUS
  <2> QED BY <1>3, <2>1, FirstOrIs
<1>5. CASE near = {}
  <2>1. e = x
    <3> HIDE DEF near, d
    <3> QED BY <1>4, <1>5
  <2>2. ~Apply!StartInsideOperatingHours(s.hours, start)
    <3> SUFFICES ASSUME Apply!StartInsideOperatingHours(s.hours, start) PROVE FALSE OBVIOUS
    <3>1. Apply!EndVisible(s, start, start + 1) BY EndVisibleIs
    <3>2. x - start - 1 \in 0 .. Reach /\ x - (x - start - 1) = start + 1 BY <1>2
    <3>3. x - start - 1 \in near BY <3>1, <3>2
    <3> QED BY <3>3, <1>5
  <2> HIDE DEF e
  <2> QED BY <1>1, <2>1, <2>2
<1>6. CASE near # {}
  <2>1. d \in near /\ d \in Int
    <3> HIDE DEF near
    <3> QED BY <1>3, <1>4, <1>6
  <2>2. Apply!EndVisible(s, start, e) /\ e \in Int
    <3> HIDE DEF d
    <3> QED BY <2>1, <1>6
  <2> HIDE DEF e
  <2>3. e > start /\ e <= start + DaySlots /\ ~Apply!OutsideOperatingHours(s.hours, start, e)
    BY <2>2, EndVisibleIs
  <2> QED BY <1>1, <1>2, <2>2, <2>3
<1> QED BY <1>5, <1>6

(* The default end is after its start and within reach of it, and on show  *)
(* when the start is inside the hours.                                     *)
LEMMA DefaultEndIs ==
  ASSUME Apply!WizardAssumption, seen \in Schedules \cup {Apply!Loading}, NEW start \in Int
  PROVE  LET e == Apply!DefaultEnd(start)
         IN  /\ e \in Int /\ e > start /\ e <= start + Reach
             /\ seen # Apply!Loading /\ Apply!StartInsideOperatingHours(seen.hours, start) =>
                  ~Apply!OutsideOperatingHours(seen.hours, start, e)
<1> DEFINE preferred == start + DefaultDuration
           A == {x \in start + 1 .. preferred : ~Apply!EndReserved(seen, start, x)}
           B == {x \in start + 1 .. Horizon - 1 : ~Apply!EndReserved(seen, start, x)}
           C == {x \in start + 1 .. Horizon - 1 : Apply!EndVisible(seen, start, x)}
           c == Apply!FirstOr(C, start + 1)
           b == Apply!FirstOr(B, c)
           e == Apply!LastOr(A, b)
<1>1. /\ Reach \in Nat /\ Horizon \in Int /\ DaySlots \in Nat \ {0} /\ DaySlots <= Reach
      /\ DefaultDuration \in Nat \ {0} /\ DefaultDuration <= Reach
  BY ConstantsAre
<1>2. Apply!DefaultEnd(start) = e BY DEF Apply!DefaultEnd
<1>3. \A x : ~Apply!EndReserved(seen, start, x) => Apply!EndVisible(seen, start, x) BY DEF Apply!EndReserved
<1>4. e \in A \/ e \in B \/ e \in C \/ (e = start + 1 /\ A = {})
  <2>1. /\ C \in SUBSET Int /\ B \in SUBSET Int /\ A \in SUBSET Int
        /\ start \in Int /\ preferred \in Int
        /\ \A x \in C \cup B : start <= x
        /\ \A x \in A : x <= preferred
    BY <1>1
  <2>2. IF C = {} THEN c = start + 1 ELSE c \in C
    <3> HIDE DEF A, B, C, b, e
    <3> QED BY <2>1, FirstOrIs
  <2>3. IF B = {} THEN b = c ELSE b \in B
    <3> HIDE DEF A, B, C, c, e
    <3> QED BY <2>1, FirstOrIs
  <2>4. IF A = {} THEN e = b ELSE e \in A
    <3> HIDE DEF A, B, C, b, c, preferred
    <3> QED BY <2>1, LastOrIs
  <2> HIDE DEF A, B, C, b, c, e
  <2> QED BY <2>2, <2>3, <2>4
<1>5. CASE seen = Apply!Loading
  <2>1. start + 1 \in A
    <3>1. ~Apply!EndReserved(seen, start, start + 1) BY <1>5, EndVisibleIs DEF Apply!EndReserved
    <3> QED BY <1>1, <3>1
  <2>2. e \in A
    <3>1. A \in SUBSET Int /\ preferred \in Int /\ \A x \in A : x <= preferred BY <1>1
    <3>2. A # {} BY <2>1
    <3> HIDE DEF A, b, preferred
    <3> QED BY <3>1, <3>2, LastOrIs
  <2>3. e \in start + 1 .. preferred
    <3> HIDE DEF e
    <3> QED BY <2>2
  <2> HIDE DEF e
  <2> QED BY <1>1, <1>2, <1>5, <2>3
<1>6. CASE seen # Apply!Loading
  <2>1. e \in Int /\ (Apply!EndVisible(seen, start, e) \/ e = start + 1)
    <3> HIDE DEF e
    <3> QED BY <1>1, <1>3, <1>4
  <2> HIDE DEF e
  <2>2. CASE Apply!EndVisible(seen, start, e)
    <3>1. e > start /\ e <= start + DaySlots /\ ~Apply!OutsideOperatingHours(seen.hours, start, e)
      BY <1>6, <2>1, <2>2, EndVisibleIs
    <3> QED BY <1>1, <1>2, <2>1, <3>1
  <2>3. CASE e = start + 1
    <3>1. seen.hours \in Hours BY <1>6, ScheduleIs
    <3>2. Apply!StartInsideOperatingHours(seen.hours, start) => ~Apply!OutsideOperatingHours(seen.hours, start, e)
      BY <2>3, <3>1, InsideIs
    <3> QED BY <1>1, <1>2, <2>1, <2>3, <3>2
  <2> QED BY <2>1, <2>2, <2>3
<1> QED BY <1>5, <1>6

(***************************************************************************)
(* The effects.                                                            *)
(***************************************************************************)

(* The end of a choice has moved behind a start: it is after it and within *)
(* reach of it, and the window is inside the hours when the start is.      *)
Behind(e, start, s) ==
  /\ e <= start + Reach
  /\ s # Apply!Loading => e > start
  /\ s # Apply!Loading /\ Apply!StartInsideOperatingHours(s.hours, start) =>
       ~Apply!OutsideOperatingHours(s.hours, start, e)

LEMMA EndMovedIs ==
  ASSUME Apply!WizardAssumption, NEW s \in Schedules \cup {Apply!Loading}, NEW f \in Apply!Choice,
         NEW start \in Int, f.end <= start + Reach
  PROVE  LET g == Apply!EndMoved(f, start, s)
         IN  /\ g \in Apply!Choice /\ g.start = f.start /\ g.date = f.date
             /\ Behind(g.end, start, s)
             /\ s = Apply!Loading => g = f
<1>1. CASE s = Apply!Loading BY <1>1 DEF Apply!EndMoved, Behind
<1>2. CASE s # Apply!Loading
  <2> DEFINE x == Apply!Max({f.end, start + 1})
             e == Apply!ClosestEnd(s, start, x)
  <2>1. f.end \in Int /\ Reach \in Nat \ {0} BY ConstantsAre DEF Apply!Choice
  <2>2. x \in Int /\ x > start /\ x <= start + Reach
    <3>1. x = IF f.end >= start + 1 THEN f.end ELSE start + 1 BY <2>1, LaterOfTwo
    <3> QED BY <2>1, <3>1
  <2>3. /\ e \in Int /\ e > start /\ e <= start + Reach
        /\ Apply!StartInsideOperatingHours(s.hours, start) => ~Apply!OutsideOperatingHours(s.hours, start, e)
    <3> HIDE DEF x
    <3> QED BY <1>2, <2>2, ClosestEndIs
  <2>4. Apply!EndMoved(f, start, s) = [f EXCEPT !.end = e] BY <1>2 DEF Apply!EndMoved
  <2> HIDE DEF e
  <2> QED BY <1>2, <2>3, <2>4 DEF Apply!Choice, Behind
<1> QED BY <1>1, <1>2

(* The start of a choice has moved into the hours, and not backwards.      *)
LEMMA StartMovedIs ==
  ASSUME Apply!WizardAssumption, NEW s \in Schedules \cup {Apply!Loading}, NEW f \in Apply!Choice,
         NEW date
  PROVE  LET g == Apply!StartMoved(f, date, s)
         IN  /\ g \in Apply!Choice /\ g.end = f.end /\ g.date = f.date
             /\ g.start >= f.start
             /\ s = Apply!Loading => g = f
             /\ s # Apply!Loading /\ f.start <= SlotBound =>
                  Apply!StartInsideOperatingHours(s.hours, g.start)
<1>1. CASE s = Apply!Loading BY <1>1 DEF Apply!StartMoved, Apply!Choice
<1>2. CASE s # Apply!Loading
  <2> DEFINE m == Apply!Max({0, f.start})
             x == Apply!FirstAvailableStart(s, date, m)
  <2>1. /\ f.start \in Int /\ SlotBound \in Nat /\ DaySlots \in Nat /\ Horizon \in Nat
        /\ SlotBound + DaySlots <= Horizon
    BY ConstantsAre DEF Apply!Choice
  <2>2. m \in Int /\ m >= f.start /\ (f.start <= SlotBound => m + DaySlots <= Horizon)
    <3>1. m = IF 0 >= f.start THEN 0 ELSE f.start BY <2>1, LaterOfTwo
    <3> QED BY <2>1, <3>1
  <2>3. /\ x \in Int /\ x >= m
        /\ m + DaySlots <= Horizon => Apply!StartInsideOperatingHours(s.hours, x)
    <3> HIDE DEF m
    <3> QED BY <1>2, <2>2, FirstAvailableStartIs
  <2>4. Apply!StartMoved(f, date, s) = [f EXCEPT !.start = x] BY <1>2 DEF Apply!StartMoved
  <2> HIDE DEF x, m
  <2> QED BY <1>2, <2>1, <2>2, <2>3, <2>4 DEF Apply!Choice
<1> QED BY <1>1, <1>2

(***************************************************************************)
(* The inductive invariant.  WindowFits alone is not one: the end that     *)
(* follows a new start must be within reach of it, or no end on show is    *)
(* found, and the slots a start is searched from must not lie so far back  *)
(* that the horizon ends before the next window of the room.               *)
(***************************************************************************)
Bounds ==
  /\ form.start >= 0 /\ draft.start >= -SlotBound
  /\ form.end <= form.start + Reach /\ draft.end <= form.start + Reach

WindowInv == Apply!TypeOK /\ Bounds /\ Apply!WindowFits

LEMMA ChoiceIs ==
  ASSUME NEW f \in Apply!Choice
  PROVE  f.start \in Int /\ f.end \in Int /\ f.date \in Days /\ f.repeat \in Apply!RepeatValues
BY DEF Apply!Choice

(* Confirmed values that fit their day keep the invariant, whatever the    *)
(* effects do with them.                                                   *)
LEMMA ConfirmedKeeps ==
  ASSUME Apply!WizardAssumption, WindowInv, NEW f \in Apply!Choice, NEW d \in Apply!Choice, Apply!Confirmed(f, d),
         f.start >= 0, f.start < f.end, f.end <= f.start + Reach,
         d.start >= -SlotBound, d.end <= f.start + Reach,
         f.date = form.date /\ seen # Apply!Loading /\ seen.active =>
           ~Apply!OutsideOperatingHours(seen.hours, f.start, f.end)
  PROVE  /\ seen' \in Schedules \cup {Apply!Loading} /\ form' \in Apply!Choice /\ draft' \in Apply!Choice
         /\ Bounds' /\ Apply!WindowFits'
<1> DEFINE s == IF f.date # form.date THEN Apply!Loading ELSE seen
           after(v) == IF f.start # form.start THEN Apply!EndMoved(v, f.start, s) ELSE v
<1>1. seen' = s /\ form' = after(f) /\ draft' = after(d) BY DEF Apply!Confirmed
<1>2. s \in Schedules \cup {Apply!Loading} BY DEF WindowInv, Apply!TypeOK
<1>3. /\ f.start \in Int /\ f.end \in Int /\ d.start \in Int /\ d.end \in Int
      /\ SlotBound \in Nat /\ Reach \in Nat
  BY ChoiceIs, ConstantsAre
<1>4. s # Apply!Loading /\ s.active => Apply!StartInsideOperatingHours(s.hours, f.start)
  <2> SUFFICES ASSUME s # Apply!Loading, s.active PROVE Apply!StartInsideOperatingHours(s.hours, f.start)
    OBVIOUS
  <2>1. s = seen /\ f.date = form.date OBVIOUS
  <2>2. s.hours \in Hours BY <1>2, <2>1, ScheduleIs
  <2>3. ~Apply!OutsideOperatingHours(s.hours, f.start, f.end) BY <2>1
  <2> HIDE DEF s
  <2> QED BY <1>3, <2>2, <2>3, InsideIs
<1>5. s # Apply!Loading /\ s.active => ~Apply!OutsideOperatingHours(s.hours, f.start, f.end) OBVIOUS
<1> HIDE DEF s
<1>6. CASE f.start = form.start
  <2>1. form' = f /\ draft' = d BY <1>1, <1>6
  <2> QED BY <1>1, <1>2, <1>5, <2>1 DEF Bounds, Apply!WindowFits
<1>7. CASE f.start # form.start
  <2>1. form' = Apply!EndMoved(f, f.start, s) /\ draft' = Apply!EndMoved(d, f.start, s) BY <1>1, <1>7
  <2>2. /\ form' \in Apply!Choice /\ form'.start = f.start
        /\ Behind(form'.end, f.start, s) /\ (s = Apply!Loading => form' = f)
    BY <1>2, <1>3, <2>1, EndMovedIs
  <2>3. /\ draft' \in Apply!Choice /\ draft'.start = d.start /\ Behind(draft'.end, f.start, s)
    BY <1>2, <1>3, <2>1, EndMovedIs
  <2>4. form'.start < form'.end
    <3>1. CASE s = Apply!Loading BY <2>2, <3>1
    <3>2. CASE s # Apply!Loading BY <2>2, <3>2, <1>3, ChoiceIs DEF Behind
    <3> QED BY <3>1, <3>2
  <2>5. s # Apply!Loading /\ s.active => ~Apply!OutsideOperatingHours(s.hours, form'.start, form'.end)
    BY <1>4, <2>2 DEF Behind
  <2>6. Bounds' BY <2>2, <2>3 DEF Bounds, Behind
  <2> QED BY <1>1, <1>2, <2>2, <2>3, <2>4, <2>5, <2>6 DEF Apply!WindowFits
<1> QED BY <1>6, <1>7

(* A schedule that arrives moves the start into the hours, and the end     *)
(* behind the old start and then behind the new one.                       *)
LEMMA ScheduleSeenKeeps ==
  ASSUME Apply!WizardAssumption, WindowInv, NEW s \in Schedules, Apply!ScheduleSeen(s),
         form.start <= SlotBound
  PROVE  /\ seen' \in Schedules \cup {Apply!Loading} /\ form' \in Apply!Choice /\ draft' \in Apply!Choice
         /\ Bounds' /\ Apply!WindowFits'
<1> DEFINE moved == Apply!StartMoved(form, form.date, s)
           drafted == Apply!StartMoved(draft, form.date, s)
           again(f) == IF moved.start = form.start THEN f ELSE Apply!EndMoved(f, moved.start, s)
           first == Apply!EndMoved(moved, form.start, s)
           firstDraft == Apply!EndMoved(drafted, form.start, s)
<1>1. form' = again(first) /\ draft' = again(firstDraft) /\ seen' = s BY DEF Apply!ScheduleSeen
<1>2. /\ form \in Apply!Choice /\ draft \in Apply!Choice /\ form.start \in Int /\ form.end \in Int
      /\ draft.start \in Int /\ draft.end \in Int /\ SlotBound \in Nat /\ Reach \in Nat
      /\ form.start >= 0 /\ draft.start >= -SlotBound /\ form.start < form.end
      /\ form.end <= form.start + Reach /\ draft.end <= form.start + Reach
  BY ChoiceIs, ConstantsAre DEF WindowInv, Apply!TypeOK, Bounds, Apply!WindowFits
<1>3. /\ moved \in Apply!Choice /\ moved.start \in Int /\ moved.end = form.end
      /\ moved.start >= form.start
      /\ s = Apply!Loading => moved = form
      /\ s # Apply!Loading => Apply!StartInsideOperatingHours(s.hours, moved.start)
  BY <1>2, StartMovedIs, ChoiceIs
<1>4. drafted \in Apply!Choice /\ drafted.end = draft.end /\ drafted.start >= draft.start
      /\ drafted.start \in Int
  BY <1>2, StartMovedIs, ChoiceIs
<1> HIDE DEF moved, drafted
<1>5. /\ first \in Apply!Choice /\ first.start = moved.start /\ Behind(first.end, form.start, s)
      /\ s = Apply!Loading => first = moved
  BY <1>2, <1>3, EndMovedIs
<1>6. firstDraft \in Apply!Choice /\ firstDraft.start = drafted.start
      /\ Behind(firstDraft.end, form.start, s)
  BY <1>2, <1>4, EndMovedIs
<1> HIDE DEF first, firstDraft
<1>7. first.end \in Int /\ firstDraft.end \in Int
      /\ first.end <= moved.start + Reach /\ firstDraft.end <= moved.start + Reach
  BY <1>2, <1>3, <1>5, <1>6, ChoiceIs DEF Behind
<1>8. /\ form' \in Apply!Choice /\ form'.start = moved.start /\ Behind(form'.end, moved.start, s)
      /\ s = Apply!Loading => form' = first
  <2>1. CASE moved.start = form.start BY <1>1, <1>5, <2>1
  <2>2. CASE moved.start # form.start
    <3>1. form' = Apply!EndMoved(first, moved.start, s) BY <1>1, <2>2
    <3> QED BY <3>1, <1>3, <1>5, <1>7, EndMovedIs
  <2> QED BY <2>1, <2>2
<1>9. draft' \in Apply!Choice /\ draft'.start = drafted.start /\ Behind(draft'.end, moved.start, s)
  <2>1. CASE moved.start = form.start BY <1>1, <1>6, <2>1
  <2>2. CASE moved.start # form.start
    <3>1. draft' = Apply!EndMoved(firstDraft, moved.start, s) BY <1>1, <2>2
    <3> QED BY <3>1, <1>3, <1>6, <1>7, EndMovedIs
  <2> QED BY <2>1, <2>2
<1>10. form'.start < form'.end
  <2>1. CASE s = Apply!Loading BY <1>2, <1>3, <1>5, <1>8, <2>1
  <2>2. CASE s # Apply!Loading BY <1>3, <1>8, <2>2, ChoiceIs DEF Behind
  <2> QED BY <2>1, <2>2
<1>11. s # Apply!Loading => ~Apply!OutsideOperatingHours(s.hours, form'.start, form'.end)
  BY <1>3, <1>8 DEF Behind
<1>12. Bounds'
  <2>1. form'.start >= 0 /\ draft'.start >= -SlotBound BY <1>2, <1>3, <1>4, <1>8, <1>9
  <2> QED BY <2>1, <1>8, <1>9 DEF Bounds, Behind
<1> QED BY <1>1, <1>8, <1>9, <1>10, <1>11, <1>12 DEF Apply!WindowFits

(***************************************************************************)
(* The steps of the flow.                                                  *)
(***************************************************************************)
LEMMA StepIndexIs ==
  /\ Len(Apply!STEP_ORDER) = 5
  /\ Apply!StepIndex("date") = 1 /\ Apply!StepIndex("startTime") = 2 /\ Apply!StepIndex("endTime") = 3
  /\ Apply!StepIndex("repeat") = 4 /\ Apply!StepIndex("type") = 5
  /\ {"date", "startTime", "endTime", "repeat", "type"} \subseteq Apply!Steps
<1>1. /\ Len(Apply!STEP_ORDER) = 5 /\ DOMAIN Apply!STEP_ORDER = 1 .. 5
      /\ Apply!STEP_ORDER[1] = "date" /\ Apply!STEP_ORDER[2] = "startTime" /\ Apply!STEP_ORDER[3] = "endTime"
      /\ Apply!STEP_ORDER[4] = "repeat" /\ Apply!STEP_ORDER[5] = "type"
  BY DEF Apply!STEP_ORDER
<1>2. \A i \in DOMAIN Apply!STEP_ORDER : Apply!StepIndex(Apply!STEP_ORDER[i]) = i
  <2> SUFFICES ASSUME NEW i \in 1 .. 5 PROVE Apply!StepIndex(Apply!STEP_ORDER[i]) = i BY <1>1
  <2>1. \A j \in 1 .. 5 : Apply!STEP_ORDER[j] = Apply!STEP_ORDER[i] => j = i BY <1>1
  <2> QED BY <1>1, <2>1 DEF Apply!StepIndex
<1>3. {Apply!STEP_ORDER[i] : i \in 1 .. 5} = Apply!Steps BY <1>1 DEF Apply!Steps
<1> QED BY <1>1, <1>2, <1>3

(* A confirmed step opens the next one or returns to the review, and what  *)
(* was complete stays complete.                                            *)
LEMMA CompletedIs ==
  ASSUME Apply!TypeOK, NEW step \in {"date", "startTime", "endTime", "repeat"}, NEW changed \in BOOLEAN
  PROVE  LET f == Apply!Completed(step, changed)
         IN  /\ f \in [step: Apply!Steps \cup {"left"}, done: 0 .. Len(Apply!STEP_ORDER), review: BOOLEAN]
             /\ flow.done <= f.done
             /\ f.review => flow.done = Len(Apply!STEP_ORDER)
<1> DEFINE i == Apply!StepIndex(step)
           next == Apply!STEP_ORDER[i + 1]
           done == Apply!Max({flow.done, i})
<1>1. i \in 1 .. 4 /\ Len(Apply!STEP_ORDER) = 5 BY StepIndexIs
<1>2. flow.done \in 0 .. 5 /\ flow.step \in Apply!Steps \cup {"left"} BY <1>1 DEF Apply!TypeOK
<1>3. next \in Apply!Steps
  <2>1. i + 1 \in DOMAIN Apply!STEP_ORDER BY <1>1 DEF Apply!STEP_ORDER
  <2> HIDE DEF i
  <2> QED BY <2>1 DEF Apply!Steps
<1>4. done \in 0 .. 5 /\ flow.done <= done
  <2>1. done = IF flow.done >= i THEN flow.done ELSE i
    <3> HIDE DEF i
    <3> QED BY <1>1, <1>2, LaterOfTwo
  <2> HIDE DEF i, done
  <2> QED BY <1>1, <1>2, <2>1
<1> DEFINE back == Apply!isFlowCompleted /\ ~changed
           onShow == IF back THEN flow.step ELSE next
<1>5. /\ back \in BOOLEAN /\ onShow \in Apply!Steps \cup {"left"}
      /\ back => flow.done = Len(Apply!STEP_ORDER)
  <2> HIDE DEF next
  <2> QED BY <1>2, <1>3 DEF Apply!isFlowCompleted
<1>6. Apply!Completed(step, changed) = [step |-> onShow, done |-> done, review |-> back]
  BY DEF Apply!Completed
<1> HIDE DEF next, done, back, onShow
<1> QED BY <1>1, <1>4, <1>5, <1>6

Flows == [step: Apply!Steps \cup {"left"}, done: 0 .. Len(Apply!STEP_ORDER), review: BOOLEAN]

Notices == [open: BOOLEAN, checked: BOOLEAN]

LEMMA NoticeIs ==
  /\ [open |-> TRUE, checked |-> FALSE] \in Notices
  /\ [open |-> FALSE, checked |-> FALSE] \in Notices
  /\ \A n \in Notices : /\ [n EXCEPT !.checked = ~n.checked] \in Notices
                        /\ [n EXCEPT !.open = FALSE] \in Notices
BY DEF Notices

LEMMA InvIs ==
  ASSUME Apply!WizardAssumption, WindowInv
  PROVE  /\ seen \in Schedules \cup {Apply!Loading} /\ closed \subseteq ClosableDays
         /\ form \in Apply!Choice /\ draft \in Apply!Choice
         /\ form.start \in Int /\ form.end \in Int /\ form.date \in Days
         /\ draft.start \in Int /\ draft.end \in Int /\ draft.date \in Days
         /\ form.repeat \in Apply!RepeatValues /\ draft.repeat \in Apply!RepeatValues
         /\ flow \in Flows
         /\ form.start >= 0 /\ draft.start >= -SlotBound /\ form.start < form.end
         /\ form.end <= form.start + Reach /\ draft.end <= form.start + Reach
         /\ SlotBound \in Nat /\ Reach \in Nat /\ SlotBound <= Reach
         /\ DaySlots \in Nat \ {0}
BY ChoiceIs, ConstantsAre DEF WindowInv, Apply!TypeOK, Bounds, Apply!WindowFits, Flows

(* The date is confirmed: the start is the first one available of the day  *)
(* confirmed before, which counts only when the day stays the same.        *)
LEMMA SubmitDateKeeps ==
  ASSUME Apply!WizardAssumption, WindowInv, Apply!SubmitDate
  PROVE  WindowInv'
<1> DEFINE start == Apply!DefaultStart(draft.date)
           end == Apply!DefaultEnd(start)
           f == [form EXCEPT !.date = draft.date, !.start = start, !.end = end]
           d == [draft EXCEPT !.date = draft.date, !.start = start, !.end = end]
           minimum == IF draft.date = 0 THEN Apply!Max({0, Apply!MinimumStart(draft.date)}) ELSE 0
<1>1. /\ Apply!Confirmed(f, d) /\ flow' = Apply!Completed("date", draft.date # form.date)
      /\ UNCHANGED <<closed, notice, calls, busy>>
  BY DEF Apply!SubmitDate, Apply!KeepCalls
<1>2. minimum \in Int /\ minimum >= 0 /\ minimum + DaySlots <= Horizon
  <2>1. /\ PresentTime \in Nat /\ DaySlots \in Nat /\ Horizon \in Nat /\ SlotBound \in Nat
        /\ PresentTime + SlotBound + DaySlots <= Horizon
    BY ConstantsAre
  <2>2. CASE draft.date = 0
    <3>1. Apply!MinimumStart(draft.date) = PresentTime BY <2>1, <2>2 DEF Apply!MinimumStart
    <3>2. minimum = PresentTime BY <2>1, <2>2, <3>1, LaterOfTwo
    <3> QED BY <2>1, <3>2
  <2>3. CASE draft.date # 0 BY <2>1, <2>3
  <2> QED BY <2>2, <2>3
<1>3. start = Apply!FirstAvailableStart(seen, form.date, minimum) BY DEF Apply!DefaultStart
<1> HIDE DEF minimum
<1>4. /\ start \in Int /\ start >= 0
      /\ seen # Apply!Loading => Apply!StartInsideOperatingHours(seen.hours, start)
  <2>1. seen \in Schedules \cup {Apply!Loading} BY InvIs
  <2>2. start \in Int /\ start >= minimum
        /\ (seen # Apply!Loading => Apply!StartInsideOperatingHours(seen.hours, start))
    BY <1>2, <1>3, <2>1, FirstAvailableStartIs
  <2> HIDE DEF start
  <2> QED BY <1>2, <2>2
<1> HIDE DEF start
<1>5. /\ end \in Int /\ end > start /\ end <= start + Reach
      /\ seen # Apply!Loading => ~Apply!OutsideOperatingHours(seen.hours, start, end)
  BY <1>4, InvIs, DefaultEndIs
<1> HIDE DEF end
<1>6. f \in Apply!Choice /\ d \in Apply!Choice /\ f.start = start /\ f.end = end /\ d.start = start /\ d.end = end
  BY <1>4, <1>5, InvIs DEF Apply!Choice
<1> HIDE DEF f, d
<1>7. /\ seen' \in Schedules \cup {Apply!Loading} /\ form' \in Apply!Choice /\ draft' \in Apply!Choice
      /\ Bounds' /\ Apply!WindowFits'
  <2>1. d.start >= -SlotBound BY <1>4, <1>6, InvIs
  <2> QED BY <1>1, <1>4, <1>5, <1>6, <2>1, ConfirmedKeeps
<1>8. flow' \in Flows
  <2>1. Apply!TypeOK BY DEF WindowInv
  <2> QED BY <1>1, <2>1, CompletedIs DEF Flows
<1> QED BY <1>1, <1>7, <1>8 DEF WindowInv, Apply!TypeOK, Flows

(* The start is confirmed: a slot past midnight is a slot of its own date, *)
(* whose schedule is not loaded yet.                                       *)
LEMMA SubmitStartTimeKeeps ==
  ASSUME Apply!WizardAssumption, WindowInv, Apply!SubmitStartTime
  PROVE  WindowInv'
<1> DEFINE x == IF Apply!StartOpen(seen, form.date, draft.start) THEN draft.start
                ELSE Apply!NextStart(seen, form.date, draft.start, 1)
           own == Apply!OnItsDate(form.date, x)
           end == Apply!DefaultEnd(own.start)
           f == [form EXCEPT !.date = own.date, !.start = own.start, !.end = end]
           d == [draft EXCEPT !.date = own.date, !.start = own.start, !.end = end]
<1>1. /\ Apply!Confirmed(f, d) /\ own.date \in Days
      /\ flow' = Apply!Completed("startTime", own.start # form.start \/ own.date # form.date)
      /\ UNCHANGED <<closed, notice, calls, busy>>
  BY DEF Apply!SubmitStartTime, Apply!KeepCalls
<1>2. /\ x \in Int
      /\ seen # Apply!Loading /\ seen.active => Apply!StartInsideOperatingHours(seen.hours, x)
  <2>1. CASE Apply!StartOpen(seen, form.date, draft.start)
    BY <2>1, InvIs DEF Apply!StartOpen, Apply!StartVisible
  <2>2. CASE ~Apply!StartOpen(seen, form.date, draft.start) BY <2>2, InvIs, NextStartIs
  <2> QED BY <2>1, <2>2
<1> HIDE DEF x
<1>3. /\ own.date = form.date + x \div DaySlots /\ own.start = x % DaySlots BY DEF Apply!OnItsDate
<1>4. own.start \in Int /\ own.start >= 0 BY <1>2, <1>3, InvIs
<1>5. own.date = form.date => own.start = x
  <2>1. /\ DaySlots \in Nat \ {0} /\ form.date \in Int BY InvIs, ConstantsAre
  <2>2. x = ((x \div DaySlots) * DaySlots) + (x % DaySlots) BY <1>2, <2>1
  <2>3. x \div DaySlots \in Int BY <1>2, <2>1
  <2>4. own.date = form.date => x \div DaySlots = 0 BY <1>3, <2>1, <2>3
  <2> QED BY <1>2, <1>3, <2>1, <2>2, <2>4
<1> HIDE DEF own
<1>6. /\ end \in Int /\ end > own.start /\ end <= own.start + Reach
      /\ seen # Apply!Loading /\ Apply!StartInsideOperatingHours(seen.hours, own.start) =>
           ~Apply!OutsideOperatingHours(seen.hours, own.start, end)
  BY <1>4, InvIs, DefaultEndIs
<1> HIDE DEF end
<1>7. /\ f \in Apply!Choice /\ d \in Apply!Choice /\ f.date = own.date
      /\ f.start = own.start /\ f.end = end /\ d.start = own.start /\ d.end = end
  BY <1>1, <1>4, <1>6, InvIs DEF Apply!Choice
<1> HIDE DEF f, d
<1>8. /\ seen' \in Schedules \cup {Apply!Loading} /\ form' \in Apply!Choice /\ draft' \in Apply!Choice
      /\ Bounds' /\ Apply!WindowFits'
  <2>1. d.start >= -SlotBound BY <1>4, <1>7, InvIs
  <2>2. f.date = form.date /\ seen # Apply!Loading /\ seen.active =>
          ~Apply!OutsideOperatingHours(seen.hours, f.start, f.end)
    BY <1>2, <1>5, <1>6, <1>7
  <2> QED BY <1>1, <1>4, <1>6, <1>7, <2>1, <2>2, ConfirmedKeeps
<1>9. flow' \in Flows
  <2>1. Apply!TypeOK BY DEF WindowInv
  <2> DEFINE changed == own.start # form.start \/ own.date # form.date
  <2>2. changed \in BOOLEAN OBVIOUS
  <2> HIDE DEF changed
  <2>3. flow' = Apply!Completed("startTime", changed) BY <1>1 DEF changed
  <2> QED BY <2>1, <2>2, <2>3, CompletedIs DEF Flows
<1> QED BY <1>1, <1>8, <1>9 DEF WindowInv, Apply!TypeOK, Flows

LEMMA WindowInit ==
  ASSUME Apply!WizardAssumption, Apply!Init
  PROVE  WindowInv
<1>1. PICK date \in Days :
        LET start == Apply!Max({InitialStart, Apply!MinimumStart(date)})
        IN  form = [date |-> date, start |-> start, end |-> start + DefaultDuration, repeat |-> 0]
  BY DEF Apply!Init
<1> DEFINE start == Apply!Max({InitialStart, Apply!MinimumStart(date)})
<1>2. start \in Int /\ start >= 0
  <2>1. Apply!MinimumStart(date) \in Int BY ConstantsAre DEF Apply!MinimumStart
  <2>2. start = IF InitialStart >= Apply!MinimumStart(date) THEN InitialStart ELSE Apply!MinimumStart(date)
    BY <2>1, ConstantsAre, LaterOfTwo
  <2> HIDE DEF start
  <2> QED BY <2>1, <2>2, ConstantsAre
<1>3. form = [date |-> date, start |-> start, end |-> start + DefaultDuration, repeat |-> 0]
  BY <1>1
<1> HIDE DEF start
<1>4. 0 \in Apply!RepeatValues BY DEF Apply!WizardAssumption
<1>5. form \in Apply!Choice /\ draft = form /\ form.start = start /\ form.end = start + DefaultDuration
  BY <1>2, <1>3, <1>4, ConstantsAre DEF Apply!Choice, Apply!Init
<1>6. flow = [step |-> "date", done |-> 0, review |-> FALSE] /\ "date" \in Apply!Steps /\ 0 \in 0 .. Len(Apply!STEP_ORDER)
  BY StepIndexIs DEF Apply!Init
<1>7. Apply!TypeOK
  <2>1. flow \in Flows BY <1>6 DEF Flows
  <2>2. notice \in Notices BY NoticeIs DEF Apply!Init
  <2>3. /\ seen = Apply!Loading /\ closed = {} /\ calls = {} /\ busy \in BOOLEAN BY DEF Apply!Init
  <2> QED BY <1>5, <2>1, <2>2, <2>3 DEF Apply!TypeOK, Flows, Notices
<1>8. Bounds BY <1>2, <1>5, ConstantsAre DEF Bounds
<1>9. Apply!WindowFits BY <1>2, <1>5, ConstantsAre DEF Apply!WindowFits, Apply!Init
<1> QED BY <1>7, <1>8, <1>9 DEF WindowInv

(* A step that leaves the schedule and both choices alone.                 *)
LEMMA RestKeeps ==
  ASSUME Apply!WizardAssumption, WindowInv, UNCHANGED <<seen, form, draft>>,
         closed' \subseteq ClosableDays, flow' \in Flows,
         notice' \in Notices, busy' \in BOOLEAN,
         calls' \subseteq [kind: {"check", "create"}, body: Apply!Choice]
  PROVE  WindowInv'
BY DEF WindowInv, Apply!TypeOK, Bounds, Apply!WindowFits, Flows, Notices

(* A step that changes the draft only.                                     *)
LEMMA DraftKeeps ==
  ASSUME Apply!WizardAssumption, WindowInv, UNCHANGED <<seen, form, flow, closed, notice, calls, busy>>,
         draft' \in Apply!Choice, draft'.start >= -SlotBound, draft'.end <= form.start + Reach
  PROVE  WindowInv'
BY DEF WindowInv, Apply!TypeOK, Bounds, Apply!WindowFits

LEMMA WindowStep ==
  ASSUME Apply!WizardAssumption, WindowInv, [Apply!Next]_(Apply!applyVars)
  PROVE  WindowInv'
<1> USE InvIs
<1>0. /\ notice \in Notices /\ busy \in BOOLEAN
      /\ calls \subseteq [kind: {"check", "create"}, body: Apply!Choice] /\ Apply!TypeOK
  BY DEF WindowInv, Apply!TypeOK, Notices
<1>1. ASSUME NEW s \in Schedules, Apply!DayArrives(s)  PROVE  WindowInv'
  <2>1. /\ seen' \in Schedules \cup {Apply!Loading} /\ form' \in Apply!Choice /\ draft' \in Apply!Choice
        /\ Bounds' /\ Apply!WindowFits'
    BY <1>1, ScheduleSeenKeeps DEF Apply!DayArrives
  <2> QED BY <1>0, <1>1, <2>1 DEF Apply!DayArrives, Apply!KeepCalls, WindowInv, Apply!TypeOK
<1>2. ASSUME NEW off \in SUBSET ClosableDays, Apply!MonthArrives(off)  PROVE  WindowInv'
  BY <1>0, <1>2, RestKeeps DEF Apply!MonthArrives, Apply!KeepCalls
<1>3. ASSUME Apply!ExpandControls \/ Apply!Back \/ Apply!SubmitTeam  PROVE  WindowInv'
  <2>1. CASE Apply!ExpandControls
    <3>1. flow' \in Flows BY <2>1 DEF Apply!ExpandControls, Flows
    <3> QED BY <1>0, <2>1, <3>1, RestKeeps DEF Apply!ExpandControls, Apply!KeepCalls
  <2>2. CASE Apply!Back
    <3>1. flow' \in Flows BY <2>2 DEF Apply!Back, Flows
    <3> QED BY <1>0, <2>2, <3>1, RestKeeps DEF Apply!Back, Apply!KeepCalls
  <2>3. CASE Apply!SubmitTeam
    <3>1. Len(Apply!STEP_ORDER) \in 0 .. Len(Apply!STEP_ORDER) BY StepIndexIs
    <3>2. flow' \in Flows BY <2>3, <3>1 DEF Apply!SubmitTeam, Flows
    <3> QED BY <1>0, <2>3, <3>2, RestKeeps DEF Apply!SubmitTeam, Apply!KeepCalls
  <2> QED BY <1>3, <2>1, <2>2, <2>3
<1>4. ASSUME NEW d \in Days, Apply!SelectCalendarDay(d)  PROVE  WindowInv'
  <2>1. draft' = [draft EXCEPT !.date = d] BY <1>4 DEF Apply!SelectCalendarDay
  <2>2. draft' \in Apply!Choice /\ draft'.start = draft.start /\ draft'.end = draft.end
    BY <2>1 DEF Apply!Choice
  <2> QED BY <1>4, <2>2, DraftKeeps DEF Apply!SelectCalendarDay, Apply!KeepCalls
<1>5. ASSUME Apply!SelectStartTime  PROVE  WindowInv'
  <2>1. PICK x \in Apply!Slots : draft' = [draft EXCEPT !.start = x] BY <1>5 DEF Apply!SelectStartTime
  <2>2. x \in Int /\ x >= -SlotBound BY <2>1 DEF Apply!Slots
  <2>3. draft' \in Apply!Choice /\ draft'.start = x /\ draft'.end = draft.end
    BY <2>1, <2>2 DEF Apply!Choice
  <2> QED BY <1>5, <2>2, <2>3, DraftKeeps DEF Apply!SelectStartTime, Apply!KeepCalls
<1>6. ASSUME Apply!SelectEndTime  PROVE  WindowInv'
  <2>1. PICK x \in Apply!Slots : draft' = [draft EXCEPT !.end = x] BY <1>6 DEF Apply!SelectEndTime
  <2>2. x \in Int /\ x <= SlotBound BY <2>1 DEF Apply!Slots
  <2>3. draft' \in Apply!Choice /\ draft'.start = draft.start /\ draft'.end = x
    BY <2>1, <2>2 DEF Apply!Choice
  <2>4. x <= form.start + Reach BY <2>2
  <2> QED BY <1>6, <2>3, <2>4, DraftKeeps DEF Apply!SelectEndTime, Apply!KeepCalls
<1>7. ASSUME NEW n \in Apply!RepeatValues, Apply!SelectRepeat(n)  PROVE  WindowInv'
  <2>1. draft' = [draft EXCEPT !.repeat = n] BY <1>7 DEF Apply!SelectRepeat
  <2>2. draft' \in Apply!Choice /\ draft'.start = draft.start /\ draft'.end = draft.end
    BY <2>1 DEF Apply!Choice
  <2> QED BY <1>7, <2>2, DraftKeeps DEF Apply!SelectRepeat, Apply!KeepCalls
<1>8. ASSUME NEW step \in Apply!Steps, Apply!SelectStep(step)  PROVE  WindowInv'
  <2>1. /\ draft' = form /\ flow' = [flow EXCEPT !.step = step, !.review = FALSE]
        /\ UNCHANGED <<seen, form, closed, notice, calls, busy>>
    BY <1>8 DEF Apply!SelectStep, Apply!KeepCalls
  <2>2. flow' \in Flows BY <2>1 DEF Flows
  <2>3. form.start >= -SlotBound OBVIOUS
  <2> QED BY <1>0, <2>1, <2>2, <2>3 DEF WindowInv, Apply!TypeOK, Bounds, Apply!WindowFits, Flows
<1>9. ASSUME Apply!SubmitDate  PROVE  WindowInv' BY <1>9, SubmitDateKeeps
<1>10. ASSUME Apply!SubmitStartTime  PROVE  WindowInv' BY <1>10, SubmitStartTimeKeeps
<1>11. ASSUME Apply!SubmitEndTime  PROVE  WindowInv'
  <2>1. /\ form' = [form EXCEPT !.end = draft.end] /\ flow' = Apply!Completed("endTime", FALSE)
        /\ ~Apply!EndReserved(seen, form.start, draft.end)
        /\ UNCHANGED <<seen, draft, closed, notice, calls, busy>>
    BY <1>11 DEF Apply!SubmitEndTime, Apply!KeepCalls
  <2>2. flow' \in Flows BY <1>0, <2>1, CompletedIs DEF Flows
  <2>3. Apply!EndVisible(seen, form.start, draft.end) BY <2>1 DEF Apply!EndReserved
  <2>4. draft.end > form.start
        /\ (seen # Apply!Loading => ~Apply!OutsideOperatingHours(seen.hours, form.start, draft.end))
    BY <2>3, EndVisibleIs
  <2>5. form' \in Apply!Choice /\ form'.start = form.start /\ form'.end = draft.end
    BY <2>1 DEF Apply!Choice
  <2>6. Bounds' /\ Apply!WindowFits' BY <2>1, <2>4, <2>5 DEF Bounds, Apply!WindowFits
  <2> QED BY <1>0, <2>1, <2>2, <2>5, <2>6 DEF WindowInv, Apply!TypeOK, Flows
<1>12. ASSUME Apply!SubmitRepeat  PROVE  WindowInv'
  <2>1. /\ form' = [form EXCEPT !.repeat = draft.repeat] /\ flow' = Apply!Completed("repeat", FALSE)
        /\ UNCHANGED <<seen, draft, closed, notice, calls, busy>>
    BY <1>12 DEF Apply!SubmitRepeat, Apply!KeepCalls
  <2>2. flow' \in Flows BY <1>0, <2>1, CompletedIs DEF Flows
  <2>3. form' \in Apply!Choice /\ form'.start = form.start /\ form'.end = form.end
    BY <2>1 DEF Apply!Choice
  <2>4. Bounds' /\ Apply!WindowFits' BY <2>1, <2>3 DEF WindowInv, Bounds, Apply!WindowFits
  <2> QED BY <1>0, <2>1, <2>2, <2>3, <2>4 DEF WindowInv, Apply!TypeOK, Flows
<1>13. ASSUME Apply!SubmitReview \/ Apply!CheckNotice \/ Apply!CloseNotice \/ Apply!ConfirmNotice  PROVE  WindowInv'
  <2>1. ASSUME NEW kind \in {"check", "create"}, Apply!Send(kind)
        PROVE  calls' \subseteq [kind: {"check", "create"}, body: Apply!Choice] /\ busy' \in BOOLEAN
    <3>1. [kind |-> kind, body |-> form] \in [kind: {"check", "create"}, body: Apply!Choice] OBVIOUS
    <3> QED BY <1>0, <2>1, <3>1 DEF Apply!Send
  <2>2. CASE Apply!SubmitReview
    <3>1. (IF form.repeat > 0 THEN "check" ELSE "create") \in {"check", "create"} OBVIOUS
    <3>2. calls' \subseteq [kind: {"check", "create"}, body: Apply!Choice] /\ busy' \in BOOLEAN
      BY <2>1, <2>2, <3>1 DEF Apply!SubmitReview
    <3> QED BY <1>0, <2>2, <3>2, RestKeeps DEF Apply!SubmitReview
  <2>3. CASE Apply!CheckNotice \/ Apply!CloseNotice
    <3>1. notice' \in Notices BY <1>0, <2>3, NoticeIs DEF Apply!CheckNotice, Apply!CloseNotice
    <3> QED BY <1>0, <2>3, <3>1, RestKeeps DEF Apply!CheckNotice, Apply!CloseNotice
  <2>4. CASE Apply!ConfirmNotice
    <3>1. notice' \in Notices BY <1>0, <2>4, NoticeIs DEF Apply!ConfirmNotice
    <3>2. calls' \subseteq [kind: {"check", "create"}, body: Apply!Choice] /\ busy' \in BOOLEAN
      BY <2>1, <2>4 DEF Apply!ConfirmNotice
    <3> QED BY <1>0, <2>4, <3>1, <3>2, RestKeeps DEF Apply!ConfirmNotice
  <2> QED BY <1>13, <2>2, <2>3, <2>4
<1>14. ASSUME NEW c \in calls, Apply!CallFailed(c) \/ Apply!Created(c)  PROVE  WindowInv'
  <2>1. flow' \in Flows BY <1>14 DEF Apply!CallFailed, Apply!Created, Flows
  <2> QED BY <1>0, <1>14, <2>1, RestKeeps DEF Apply!CallFailed, Apply!Created
<1>15. ASSUME NEW c \in calls, NEW conflicts \in BOOLEAN, Apply!CheckAnswered(c, conflicts)
       PROVE  WindowInv'
  <2>1. [c EXCEPT !.kind = "create"] \in [kind: {"check", "create"}, body: Apply!Choice] BY <1>0
  <2>2. calls' \subseteq [kind: {"check", "create"}, body: Apply!Choice] /\ busy' \in BOOLEAN
    <3>1. CASE conflicts BY <1>0, <1>15, <3>1 DEF Apply!CheckAnswered
    <3>2. CASE ~conflicts BY <1>0, <1>15, <2>1, <3>2 DEF Apply!CheckAnswered
    <3> QED BY <3>1, <3>2
  <2>3. notice' \in Notices
    BY <1>0, <1>15, NoticeIs DEF Apply!CheckAnswered
  <2> QED BY <1>0, <1>15, <2>2, <2>3, RestKeeps DEF Apply!CheckAnswered
<1>16. CASE UNCHANGED Apply!applyVars
  BY <1>16 DEF Apply!applyVars, WindowInv, Apply!TypeOK, Bounds, Apply!WindowFits
<1> QED
  BY <1>1, <1>2, <1>3, <1>4, <1>5, <1>6, <1>7, <1>8, <1>9, <1>10, <1>11, <1>12, <1>13, <1>14,
     <1>15, <1>16 DEF Apply!Next

(* The wizard stays within its invariant while it is on screen.            *)
LEMMA WizardStays == Spec => [](screen = "apply" => WindowInv)
<1>1. Apply!WizardAssumption BY ScreensAssumption
<1>2. Init => (screen = "apply" => WindowInv) BY <1>1, FirstPage, WindowInit
<1>3. (screen = "apply" => WindowInv) /\ [Next]_vars => (screen = "apply" => WindowInv)'
  BY <1>1, PageSteps, WindowStep
<1> QED BY <1>2, <1>3, PTL DEF Spec

(* For every day, schedule and horizon that leaves the searches room, the  *)
(* window chosen on the page that applies for a reservation is inside one  *)
(* operating window of an active room.                                     *)
THEOREM WindowAlwaysFits == Spec => []WindowFits
<1>1. (screen = "apply" => WindowInv) => WindowFits BY DEF WindowInv, WindowFits
<1> QED BY <1>1, WizardStays, PTL

(***************************************************************************)
(* One request at a time.  The button tells by busy that a request is on   *)
(* its way, and the notice hides the button while none is; a review, a     *)
(* notice or a request is there only once every step has been confirmed,   *)
(* and no step takes that back.                                            *)
(***************************************************************************)
OrderInv ==
  /\ calls = {} \/ \E c : calls = {c}
  /\ calls # {} => busy
  /\ notice.open => calls = {}
  /\ calls # {} \/ flow.review \/ notice.open => Apply!isFlowCompleted

(* A step that sends and answers nothing, and undoes no confirmation.      *)
LEMMA FlowKeeps ==
  ASSUME Apply!TypeOK, Apply!TypeOK', OrderInv, UNCHANGED <<notice, calls, busy>>,
         flow.done <= flow'.done, flow'.review => flow.review \/ flow'.done = Len(Apply!STEP_ORDER)
  PROVE  OrderInv'
<1>1. /\ flow.done \in Int /\ flow'.done \in Int /\ Len(Apply!STEP_ORDER) = 5
      /\ flow'.done <= Len(Apply!STEP_ORDER)
  BY StepIndexIs DEF Apply!TypeOK
<1>2. Apply!isFlowCompleted => Apply!isFlowCompleted' BY <1>1 DEF Apply!isFlowCompleted
<1>3. flow'.done = Len(Apply!STEP_ORDER) => Apply!isFlowCompleted' BY DEF Apply!isFlowCompleted
<1> QED BY <1>2, <1>3 DEF OrderInv

(* A step that confirms one of the choices.                                *)
LEMMA CompletedKeeps ==
  ASSUME Apply!TypeOK, Apply!TypeOK', OrderInv, UNCHANGED <<notice, calls, busy>>,
         NEW step \in {"date", "startTime", "endTime", "repeat"}, NEW changed \in BOOLEAN,
         flow' = Apply!Completed(step, changed)
  PROVE  OrderInv'
<1>1. flow.done <= flow'.done /\ (flow'.review => flow.done = Len(Apply!STEP_ORDER)) BY CompletedIs
<1>2. /\ flow.done \in Int /\ flow'.done \in Int /\ Len(Apply!STEP_ORDER) = 5
      /\ flow'.done <= Len(Apply!STEP_ORDER)
  BY StepIndexIs DEF Apply!TypeOK
<1>3. flow'.review => flow'.done = Len(Apply!STEP_ORDER) BY <1>1, <1>2
<1> QED BY <1>1, <1>3, FlowKeeps

LEMMA OrderStep ==
  ASSUME Apply!TypeOK, Apply!TypeOK', OrderInv, [Apply!Next]_(Apply!applyVars)
  PROVE  OrderInv'
<1>0. /\ flow \in Flows /\ flow.done \in Int /\ notice \in Notices /\ Len(Apply!STEP_ORDER) = 5
  BY StepIndexIs DEF Apply!TypeOK, Flows, Notices
<1>1. ASSUME UNCHANGED <<flow, notice, calls, busy>>  PROVE  OrderInv'
  BY <1>1 DEF OrderInv, Apply!isFlowCompleted
<1>2. ASSUME NEW s \in Schedules, Apply!DayArrives(s)  PROVE  OrderInv'
  BY <1>1, <1>2 DEF Apply!DayArrives, Apply!KeepCalls
<1>3. ASSUME NEW off \in SUBSET ClosableDays, Apply!MonthArrives(off)  PROVE  OrderInv'
  BY <1>1, <1>3 DEF Apply!MonthArrives, Apply!KeepCalls
<1>4. ASSUME \/ \E d \in Days : Apply!SelectCalendarDay(d)
             \/ Apply!SelectStartTime \/ Apply!SelectEndTime
             \/ \E n \in Apply!RepeatValues : Apply!SelectRepeat(n)
      PROVE  OrderInv'
  BY <1>1, <1>4 DEF Apply!SelectCalendarDay, Apply!SelectStartTime, Apply!SelectEndTime, Apply!SelectRepeat, Apply!KeepCalls
<1>5. ASSUME Apply!ExpandControls \/ Apply!Back \/ \E step \in Apply!Steps : Apply!SelectStep(step)  PROVE  OrderInv'
  <2>1. UNCHANGED <<notice, calls, busy>>
    BY <1>5 DEF Apply!ExpandControls, Apply!Back, Apply!SelectStep, Apply!KeepCalls
  <2>2. flow'.done = flow.done /\ (flow'.review => flow.review)
    <3>1. CASE Apply!ExpandControls BY <1>0, <3>1 DEF Apply!ExpandControls, Flows
    <3>2. CASE Apply!Back BY <1>0, <3>2 DEF Apply!Back, Flows
    <3>3. ASSUME NEW step \in Apply!Steps, Apply!SelectStep(step)
          PROVE  flow'.done = flow.done /\ (flow'.review => flow.review)
      BY <1>0, <3>3 DEF Apply!SelectStep, Flows
    <3> QED BY <1>5, <3>1, <3>2, <3>3
  <2> QED BY <1>0, <2>1, <2>2, FlowKeeps
<1>6. ASSUME Apply!SubmitTeam  PROVE  OrderInv'
  <2>1. flow'.done = Len(Apply!STEP_ORDER) /\ UNCHANGED <<notice, calls, busy>>
    BY <1>0, <1>6 DEF Apply!SubmitTeam, Apply!KeepCalls, Flows
  <2>2. flow.done <= flow'.done BY <1>0, <2>1 DEF Flows
  <2> QED BY <2>1, <2>2, FlowKeeps
<1>7. ASSUME Apply!SubmitDate \/ Apply!SubmitStartTime \/ Apply!SubmitEndTime \/ Apply!SubmitRepeat  PROVE  OrderInv'
  <2>1. UNCHANGED <<notice, calls, busy>>
    BY <1>7 DEF Apply!SubmitDate, Apply!SubmitStartTime, Apply!SubmitEndTime, Apply!SubmitRepeat, Apply!KeepCalls
  <2>2. \E step \in {"date", "startTime", "endTime", "repeat"}, changed \in BOOLEAN :
          flow' = Apply!Completed(step, changed)
    <3>1. CASE Apply!SubmitDate BY <3>1, Zenon DEF Apply!SubmitDate
    <3>2. CASE Apply!SubmitStartTime BY <3>2, Zenon DEF Apply!SubmitStartTime
    <3>3. CASE Apply!SubmitEndTime BY <3>3, Zenon DEF Apply!SubmitEndTime
    <3>4. CASE Apply!SubmitRepeat BY <3>4, Zenon DEF Apply!SubmitRepeat
    <3> QED BY <1>7, <3>1, <3>2, <3>3, <3>4
  <2> QED BY <2>1, <2>2, CompletedKeeps
<1>8. ASSUME Apply!SubmitReview  PROVE  OrderInv'
  <2>1. calls = {} /\ Apply!isFlowCompleted /\ ~notice.open
    BY <1>8 DEF Apply!SubmitReview, Apply!ReviewPanel, Apply!SubmitButton, Apply!Open, OrderInv
  <2>2. UNCHANGED <<flow, notice>> /\ busy' = TRUE /\ \E c : calls' = {c}
    BY <1>8, <2>1 DEF Apply!SubmitReview, Apply!Send
  <2> QED BY <2>1, <2>2 DEF OrderInv, Apply!isFlowCompleted
<1>9. ASSUME Apply!CheckNotice \/ Apply!CloseNotice  PROVE  OrderInv'
  <2>1. UNCHANGED <<flow, calls, busy>> /\ notice.open
    BY <1>9 DEF Apply!CheckNotice, Apply!CloseNotice, Apply!RepeatNotice
  <2> QED BY <2>1 DEF OrderInv, Apply!isFlowCompleted
<1>10. ASSUME Apply!ConfirmNotice  PROVE  OrderInv'
  <2>1. calls = {} /\ Apply!isFlowCompleted BY <1>10 DEF Apply!ConfirmNotice, Apply!RepeatNotice, OrderInv
  <2>2. flow' = flow /\ busy' = TRUE /\ \E c : calls' = {c}
    BY <1>10, <2>1 DEF Apply!ConfirmNotice, Apply!Send
  <2>3. ~notice'.open BY <1>0, <1>10 DEF Apply!ConfirmNotice, Notices
  <2> QED BY <2>1, <2>2, <2>3 DEF OrderInv, Apply!isFlowCompleted
<1>11. ASSUME NEW c \in calls  PROVE  calls = {c} /\ busy /\ Apply!isFlowCompleted /\ ~notice.open
  BY <1>11 DEF OrderInv
<1>12. ASSUME NEW c \in calls, Apply!CallFailed(c) \/ Apply!Created(c)  PROVE  OrderInv'
  <2>1. calls' = {} /\ notice' = notice /\ ~notice.open /\ Apply!isFlowCompleted
    BY <1>11, <1>12 DEF Apply!CallFailed, Apply!Created
  <2>2. flow'.done = flow.done BY <1>0, <1>12 DEF Apply!CallFailed, Apply!Created, Flows
  <2> QED BY <2>1, <2>2 DEF OrderInv, Apply!isFlowCompleted
<1>13. ASSUME NEW c \in calls, NEW conflicts \in BOOLEAN, Apply!CheckAnswered(c, conflicts)
       PROVE  OrderInv'
  <2>1. calls = {c} /\ busy /\ Apply!isFlowCompleted /\ ~notice.open /\ flow' = flow
    BY <1>11, <1>13 DEF Apply!CheckAnswered
  <2>2. CASE conflicts
    <3>1. calls' = {} BY <1>13, <2>1, <2>2 DEF Apply!CheckAnswered
    <3> QED BY <2>1, <3>1 DEF OrderInv, Apply!isFlowCompleted
  <2>3. CASE ~conflicts
    <3>1. calls' = {[c EXCEPT !.kind = "create"]} /\ UNCHANGED <<notice, busy>>
      BY <1>13, <2>1, <2>3 DEF Apply!CheckAnswered
    <3> QED BY <2>1, <3>1 DEF OrderInv, Apply!isFlowCompleted
  <2> QED BY <2>2, <2>3
<1>14. CASE UNCHANGED Apply!applyVars BY <1>1, <1>14 DEF Apply!applyVars
<1> QED
  BY <1>2, <1>3, <1>4, <1>5, <1>6, <1>7, <1>8, <1>9, <1>10, <1>12, <1>13, <1>14 DEF Apply!Next

(* However the check of a repetition, its notice, the review and the steps *)
(* done again follow each other, one request at most is on its way, and of *)
(* a form whose steps have all been confirmed.                             *)
THEOREM OneRequestAtATime == Spec => []OneReservationAtATime
<1>1. Init => (screen = "apply" => OrderInv)
  <2>1. Apply!Init => OrderInv BY DEF Apply!Init, OrderInv
  <2> QED BY <2>1, FirstPage
<1>2. /\ screen = "apply" => WindowInv /\ WindowInv'
      /\ screen = "apply" => OrderInv
      /\ [Next]_vars
      => (screen = "apply" => OrderInv)'
  BY PageSteps, OrderStep DEF WindowInv
<1>3. (screen = "apply" => OrderInv) => OneReservationAtATime
  <2> SUFFICES ASSUME screen = "apply", OrderInv PROVE Apply!OneReservationAtATime
    BY DEF OneReservationAtATime
  <2>1. Apply!Cardinality(calls) = Cardinality(calls) BY Zenon DEF Apply!Cardinality, Cardinality
  <2>2. Cardinality(calls) <= 1
    <3>1. CASE calls = {} BY <3>1, FS_EmptySet
    <3>2. CASE \E c : calls = {c} BY <3>2, FS_Singleton
    <3> QED BY <3>1, <3>2 DEF OrderInv
  <2> QED BY <2>1, <2>2 DEF Apply!OneReservationAtATime, OrderInv
<1>4. (screen = "apply" => WindowInv) /\ (screen = "apply" => WindowInv)' /\ [Next]_vars
        => (screen = "apply" => WindowInv /\ WindowInv')
  BY PageSteps
<1> QED BY <1>1, <1>2, <1>3, <1>4, WizardStays, PTL DEF Spec

(***************************************************************************)
(* A reservation and its rounds.                                           *)
(***************************************************************************)
RoundRecord == [round : Weeks, date : Detail!Dates, numbered : BOOLEAN, status : Detail!Statuses]

RoundsOK(S) ==
  \A r \in S : /\ r \in RoundRecord
               /\ r.numbered => r.status # "conflict"
               /\ server[1] # "CONFLICT" => r.date = r.round

DetailTypes ==
  /\ server \in [Weeks -> Detail!Bookings \cup {"CONFLICT"}] /\ clock \in 0 .. MaxTime
  /\ isRepeat \in BOOLEAN /\ modal \in BOOLEAN
  /\ where \in {"here", "list", "calendar", "apply"}

(* A cancellation that was served has canceled its date for good.          *)
CancelsOK ==
  \A c \in cancels : /\ c \in [date : Detail!Dates, stage : {"sent", "reload"}]
                     /\ c.stage = "reload" => server[c.date] = "CANCELED"

DetailInv ==
  /\ DetailTypes /\ RoundsOK(rounds) /\ IsFiniteSet(rounds) /\ CancelsOK
  /\ picked = Detail!NoRound \/ RoundsOK({picked})

LEMMA WeeksAre ==
  /\ 1 \in Weeks /\ Weeks \subseteq Nat \ {0} /\ IsFiniteSet(Weeks) /\ Detail!Dates \subseteq Weeks
  /\ \A v, w \in Weeks : v <= w => w - v + 1 \in Weeks
<1>1. PICK n \in Nat \ {0} : Weeks = 1 .. n BY ScreensAssumption
<1>2. IsFiniteSet(1 .. n) BY FS_Interval
<1> QED BY <1>1, <1>2 DEF Detail!Dates

LEMMA DetailCardinality == \A S : Detail!Cardinality(S) = Cardinality(S)
  BY Zenon DEF Detail!Cardinality, Cardinality

LEMMA LeastWeek ==
  ASSUME NEW S \in SUBSET Weeks, S # {}
  PROVE  Detail!Min(S) \in S /\ \A w \in S : Detail!Min(S) <= w
<1>1. S \in SUBSET Nat BY WeeksAre
<1> QED BY <1>1, NatHasMin, Zenon DEF Detail!Min

(* A function takes finitely many values on a finite set.                  *)
LEMMA FiniteValues ==
  ASSUME NEW S, IsFiniteSet(S), NEW f, f = [x \in S |-> f[x]]
  PROVE  IsFiniteSet({f[x] : x \in S})
<1>1. f \in Surjection(S, {f[x] : x \in S}) BY DEF Surjection
<1> QED BY <1>1, FS_Surjection

(* What the server says of a reservation makes rounds in order.            *)
LEMMA DetailRounds ==
  ASSUME NEW snapshot, NEW now, isRepeat \in BOOLEAN
  PROVE  /\ RoundsOK(Detail!mapReservationDetailRounds(snapshot, now))
         /\ IsFiniteSet(Detail!mapReservationDetailRounds(snapshot, now))
<1> DEFINE f == [w \in Detail!Dates |->
                   [round |-> w, date |-> w, numbered |-> snapshot[w] # "CONFLICT",
                    status |-> Detail!mapOccurrenceStatus(snapshot[w], w, now)]]
<1>5. IsFiniteSet(Detail!mapReservationDetailRounds(snapshot, now))
  <2>1. Detail!mapReservationDetailRounds(snapshot, now) = {f[w] : w \in Detail!Dates}
    BY DEF Detail!mapReservationDetailRounds
  <2>2. IsFiniteSet(Detail!Dates) BY WeeksAre, FS_Subset
  <2>3. f = [w \in Detail!Dates |-> f[w]] OBVIOUS
  <2> HIDE DEF f
  <2>4. IsFiniteSet({f[w] : w \in Detail!Dates}) BY <2>2, <2>3, FiniteValues
  <2> QED BY <2>1, <2>4
<1> SUFFICES ASSUME NEW w \in Detail!Dates,
                    NEW r, r = [round |-> w, date |-> w, numbered |-> snapshot[w] # "CONFLICT",
                                status |-> Detail!mapOccurrenceStatus(snapshot[w], w, now)]
             PROVE  /\ r \in RoundRecord
                    /\ r.numbered => r.status # "conflict"
                    /\ server[1] # "CONFLICT" => r.date = r.round
  BY <1>5 DEF RoundsOK, Detail!mapReservationDetailRounds
<1>1. Detail!mapOccurrenceStatus(snapshot[w], w, now) \in Detail!Statuses
  BY DEF Detail!mapOccurrenceStatus, Detail!Statuses
<1>2. snapshot[w] # "CONFLICT" => Detail!mapOccurrenceStatus(snapshot[w], w, now) # "conflict"
  BY DEF Detail!mapOccurrenceStatus
<1>3. w \in Weeks BY WeeksAre
<1>4. (snapshot[w] # "CONFLICT") \in BOOLEAN OBVIOUS
<1> QED BY <1>1, <1>2, <1>3, <1>4 DEF RoundRecord

(* The rounds known from applying are numbered from the first created: by  *)
(* their weeks, when the first week was created.                           *)
LEMMA CreatedRounds ==
  ASSUME isRepeat = TRUE, Detail!Created # {}
  PROVE  /\ RoundsOK(Detail!mapCreatedRepeatRounds(Detail!Created))
         /\ IsFiniteSet(Detail!mapCreatedRepeatRounds(Detail!Created))
<1> DEFINE C == Detail!Created
<1>1. /\ C \in SUBSET Weeks /\ C # {} /\ Detail!Dates = Weeks
      /\ server[1] # "CONFLICT" => 1 \in C
  BY WeeksAre DEF Detail!Created, Detail!Dates
<1> HIDE DEF C
<1>2. Detail!Min(C) \in C /\ \A w \in C : Detail!Min(C) <= w BY <1>1, LeastWeek
<1>3. ASSUME NEW w \in C,
             NEW r, r = [round |-> Detail!RoundNumber(C, w), date |-> w, numbered |-> TRUE,
                         status |-> Detail!mapReservationState(server[w])]
      PROVE  /\ r \in RoundRecord /\ r.status # "conflict"
             /\ server[1] # "CONFLICT" => r.date = r.round
  <2>1. Detail!RoundNumber(C, w) \in Weeks
    <3>1. Detail!Min(C) \in Weeks /\ w \in Weeks /\ Detail!Min(C) <= w BY <1>1, <1>2
    <3> QED BY <3>1, WeeksAre DEF Detail!RoundNumber
  <2>2. server[1] # "CONFLICT" => Detail!RoundNumber(C, w) = w
    <3> SUFFICES ASSUME server[1] # "CONFLICT" PROVE Detail!RoundNumber(C, w) = w
      OBVIOUS
    <3>1. Detail!Min(C) <= 1 BY <1>1, <1>2
    <3>2. Detail!Min(C) \in Nat \ {0} /\ w \in Nat BY <1>1, <1>2, WeeksAre
    <3> QED BY <3>1, <3>2 DEF Detail!RoundNumber
  <2>3. /\ Detail!mapReservationState(server[w]) \in Detail!Statuses
        /\ Detail!mapReservationState(server[w]) # "conflict"
    BY DEF Detail!mapReservationState, Detail!Statuses
  <2>4. w \in Detail!Dates BY <1>1
  <2> QED BY <1>3, <2>1, <2>2, <2>3, <2>4 DEF RoundRecord
<1>4. ASSUME NEW w \in Detail!Dates \ C,
             NEW r, r = [round |-> w, date |-> w, numbered |-> FALSE, status |-> "conflict"]
      PROVE  r \in RoundRecord /\ r.numbered = FALSE /\ r.date = r.round
  BY <1>4, <1>1, WeeksAre DEF RoundRecord, Detail!Statuses
<1>5. Detail!mapCreatedRepeatRounds(C) =
        { [round |-> Detail!RoundNumber(C, w), date |-> w, numbered |-> TRUE,
           status |-> Detail!mapReservationState(server[w])] : w \in C }
        \cup { [round |-> w, date |-> w, numbered |-> FALSE, status |-> "conflict"] : w \in Detail!Dates \ C }
  BY DEF Detail!mapCreatedRepeatRounds
<1>6. RoundsOK(Detail!mapCreatedRepeatRounds(C))
  BY <1>3, <1>4, <1>5 DEF RoundsOK
<1>7. IsFiniteSet(Detail!mapCreatedRepeatRounds(C))
  <2> DEFINE g == [w \in C |-> [round |-> Detail!RoundNumber(C, w), date |-> w, numbered |-> TRUE,
                                status |-> Detail!mapReservationState(server[w])]]
             h == [w \in Detail!Dates \ C |->
                     [round |-> w, date |-> w, numbered |-> FALSE, status |-> "conflict"]]
  <2>1. IsFiniteSet(C) /\ IsFiniteSet(Detail!Dates \ C) BY <1>1, WeeksAre, FS_Subset
  <2>2. IsFiniteSet({g[w] : w \in C}) BY <2>1, FiniteValues
  <2>3. IsFiniteSet({h[w] : w \in Detail!Dates \ C}) BY <2>1, FiniteValues
  <2>4. Detail!mapCreatedRepeatRounds(C) = {g[w] : w \in C} \cup {h[w] : w \in Detail!Dates \ C}
    BY <1>5
  <2> HIDE DEF g, h
  <2> QED BY <2>2, <2>3, <2>4, FS_Union
<1> QED BY <1>6, <1>7 DEF C

LEMMA DetailFirst ==
  ASSUME Detail!Init
  PROVE  DetailInv
<1>1. DetailTypes
  <2>1. server \in [Weeks -> Detail!Bookings \cup {"CONFLICT"}]
    <3>1. server \in [Weeks -> {"PENDING", "CONFLICT"}] BY DEF Detail!Init
    <3> QED BY <3>1 DEF Detail!Bookings
  <2>2. clock \in 0 .. MaxTime
    <3>1. clock = 0 BY DEF Detail!Init
    <3> QED BY <3>1, ScreensAssumption
  <2> QED BY <2>1, <2>2 DEF Detail!Init, DetailTypes
<1>2. RoundsOK(rounds) /\ IsFiniteSet(rounds)
  <2>1. CASE isRepeat
    <3>1. rounds = Detail!mapCreatedRepeatRounds(Detail!Created) /\ Detail!Created # {}
      BY <2>1 DEF Detail!Init
    <3>2. isRepeat = TRUE BY <2>1 DEF Detail!Init
    <3> QED BY <3>1, <3>2, CreatedRounds
  <2>2. CASE ~isRepeat
    <3>1. rounds = Detail!mapReservationDetailRounds(server, 0) /\ isRepeat \in BOOLEAN
      BY <2>2 DEF Detail!Init
    <3> QED BY <3>1, DetailRounds
  <2> QED BY <2>1, <2>2
<1>3. CancelsOK BY DEF Detail!Init, CancelsOK
<1>4. picked = Detail!NoRound \/ RoundsOK({picked})
  <2>1. CASE isRepeat BY <2>1 DEF Detail!Init
  <2>2. CASE ~isRepeat
    <3>1. rounds = Detail!mapReservationDetailRounds(server, 0) /\ picked = CHOOSE r \in rounds : TRUE
      BY <2>2 DEF Detail!Init
    <3>2. rounds # {} BY <2>2, <3>1 DEF Detail!mapReservationDetailRounds, Detail!Dates
    <3>3. picked \in rounds BY <3>1, <3>2
    <3> QED BY <1>2, <3>3 DEF RoundsOK
  <2> QED BY <2>1, <2>2
<1> QED BY <1>1, <1>2, <1>3, <1>4 DEF DetailInv

(* What the round on show and the round picked have in common.             *)
LEMMA SelectedOK ==
  ASSUME DetailInv, picked # Detail!NoRound
  PROVE  RoundsOK({Detail!currentSelectedRound})
<1>1. CASE \E r \in rounds : r.round = picked.round
  <2>1. Detail!currentSelectedRound \in rounds BY <1>1 DEF Detail!currentSelectedRound
  <2> QED BY <2>1 DEF DetailInv, RoundsOK
<1>2. CASE ~\E r \in rounds : r.round = picked.round
  BY <1>2 DEF DetailInv, Detail!currentSelectedRound
<1> QED BY <1>1, <1>2

LEMMA RoundsStayOK ==
  ASSUME NEW S, RoundsOK(S), isRepeat' = isRepeat,
         (server[1] = "CONFLICT") <=> (server'[1] = "CONFLICT")
  PROVE  \A r \in S : /\ r \in RoundRecord' /\ (r.numbered => r.status # "conflict")
                      /\ server'[1] # "CONFLICT" => r.date = r.round
<1>1. RoundRecord' = RoundRecord BY DEF RoundRecord, Detail!Dates
<1> QED BY <1>1 DEF RoundsOK

(* An occurrence that could not be created stays one, and a canceled one   *)
(* stays canceled.                                                         *)
DecisionsLast ==
  \A w \in Weeks : /\ (server[w] = "CONFLICT") <=> (server'[w] = "CONFLICT")
                   /\ server[w] = "CANCELED" => server'[w] = "CANCELED"

LEMMA DetailStep ==
  ASSUME DetailInv, [Detail!Next]_(Detail!detailVars)
  PROVE  DetailInv'
<1> USE DEF Detail!KeepPage, Detail!Here
<1>0. /\ DetailTypes /\ RoundsOK(rounds) /\ IsFiniteSet(rounds) /\ CancelsOK
      /\ picked = Detail!NoRound \/ RoundsOK({picked})
  BY DEF DetailInv
(* What is on show keeps its dates while nobody touches it.                *)
<1>1. ASSUME isRepeat' = isRepeat, DecisionsLast,
             rounds' = rounds \/ \E sn, now : rounds' = Detail!mapReservationDetailRounds(sn, now),
             picked' = picked \/ picked' = Detail!NoRound \/ picked' \in rounds,
             DetailTypes', CancelsOK'
      PROVE  DetailInv'
  <2>1. isRepeat \in BOOLEAN BY <1>0 DEF DetailTypes
  <2>2. RoundsOK(rounds') /\ IsFiniteSet(rounds') BY <1>0, <1>1, <2>1, DetailRounds
  <2>3. (server[1] = "CONFLICT") <=> (server'[1] = "CONFLICT") BY <1>1, WeeksAre DEF DecisionsLast
  <2>4. RoundsOK(rounds)' BY <1>1, <2>2, <2>3, RoundsStayOK DEF RoundsOK
  <2>5. picked' = Detail!NoRound \/ RoundsOK({picked'}) BY <1>0, <1>1 DEF RoundsOK
  <2>6. RoundsOK({picked'}) => RoundsOK({picked})'
    BY <1>1, <2>3, RoundsStayOK DEF RoundsOK
  <2> QED BY <1>1, <2>2, <2>4, <2>5, <2>6 DEF DetailInv, Detail!NoRound
<1>2. ASSUME server' = server PROVE DecisionsLast
  BY <1>2 DEF DecisionsLast
<1>3. ASSUME UNCHANGED <<server, cancels, isRepeat>> PROVE CancelsOK'
  BY <1>0, <1>3 DEF CancelsOK, Detail!Dates
<1>4. ASSUME NEW w \in Weeks, NEW s \in Detail!Bookings, Detail!OthersDecide(w, s)
      PROVE  DetailInv'
  <2>1. /\ server' = [server EXCEPT ![w] = s] /\ w \in Detail!Dates
        /\ server[w] \in {"PENDING", "RESERVED"} /\ s # "CONFLICT"
        /\ UNCHANGED <<clock, rounds, picked, modal, cancels, isRepeat, where>>
    BY <1>4 DEF Detail!OthersDecide
  <2>2. DecisionsLast BY <2>1, <1>0 DEF DecisionsLast, DetailTypes
  <2>3. DetailTypes' BY <2>1, <1>0 DEF DetailTypes
  <2>4. CancelsOK' BY <1>0, <2>1, <2>2, WeeksAre DEF CancelsOK, DecisionsLast, Detail!Dates
  <2> QED BY <1>1, <2>1, <2>2, <2>3, <2>4
<1>5. ASSUME Detail!TimePasses PROVE DetailInv'
  <2>1. /\ clock < MaxTime /\ clock' = clock + 1
        /\ UNCHANGED <<server, rounds, picked, modal, cancels, isRepeat, where>>
    BY <1>5 DEF Detail!TimePasses
  <2>2. clock' \in 0 .. MaxTime BY <2>1, <1>0, ScreensAssumption DEF DetailTypes
  <2>3. DetailTypes' BY <2>1, <2>2, <1>0 DEF DetailTypes
  <2>4. CancelsOK' /\ DecisionsLast BY <1>2, <1>3, <2>1
  <2> QED BY <1>1, <2>1, <2>3, <2>4
<1>6. ASSUME NEW l \in loads, NEW s \in {l.snapshot, server}, Detail!Answered(l, s)
      PROVE  DetailInv'
  <2>1. /\ rounds' = Detail!mapReservationDetailRounds(s, clock)
        /\ UNCHANGED <<server, clock, picked, modal, cancels, isRepeat, where>>
    BY <1>6 DEF Detail!Answered
  <2>2. DetailTypes' BY <2>1, <1>0 DEF DetailTypes
  <2>3. CancelsOK' /\ DecisionsLast BY <1>2, <1>3, <2>1
  <2> QED BY <1>1, <2>1, <2>2, <2>3
<1>7. ASSUME NEW f \in Detail!Filters, NEW r \in rounds, Detail!SelectRound(f, r)
      PROVE  DetailInv'
  <2>1. /\ picked' = r /\ modal' = FALSE
        /\ UNCHANGED <<server, clock, rounds, cancels, isRepeat, where>>
    BY <1>7 DEF Detail!SelectRound
  <2>2. DetailTypes' BY <2>1, <1>0 DEF DetailTypes
  <2>3. CancelsOK' /\ DecisionsLast BY <1>2, <1>3, <2>1
  <2> QED BY <1>1, <2>1, <2>2, <2>3
<1>8. ASSUME Detail!ConfirmCancel PROVE DetailInv'
  <2> DEFINE r == Detail!currentSelectedRound
  <2>1. /\ picked # Detail!NoRound
        /\ cancels' = cancels \cup {[date |-> r.date, stage |-> "sent"]}
        /\ UNCHANGED <<server, clock, rounds, picked, modal, isRepeat, where>>
    BY <1>8 DEF Detail!ConfirmCancel, Detail!RoundPage
  <2>2. r.date \in Detail!Dates BY <2>1, SelectedOK DEF RoundsOK, RoundRecord
  <2> HIDE DEF r
  <2>3. CancelsOK' BY <1>0, <2>1, <2>2 DEF CancelsOK, Detail!Dates
  <2>4. DetailTypes' BY <2>1, <1>0 DEF DetailTypes
  <2>5. DecisionsLast BY <1>2, <2>1
  <2> QED BY <1>1, <2>1, <2>3, <2>4, <2>5
<1>9. ASSUME NEW c \in cancels, Detail!CancelServed(c) PROVE DetailInv'
  <2>0. /\ UNCHANGED <<clock, isRepeat, rounds, picked, modal>>
        /\ c \in [date : Detail!Dates, stage : {"sent", "reload"}] /\ c.date \in Weeks
    BY <1>9, <1>0, WeeksAre DEF Detail!CancelServed, CancelsOK
  <2>1. CASE Detail!Cancellable(c.date)
    <3>1. /\ server' = [server EXCEPT ![c.date] = "CANCELED"]
          /\ \/ cancels' = (cancels \ {c}) \cup {[c EXCEPT !.stage = "reload"]} /\ where' = where
             \/ cancels' = {} /\ where' = "list"
      BY <1>9, <2>1 DEF Detail!CancelServed
    <3>2. server[c.date] \in {"PENDING", "RESERVED"} BY <2>1 DEF Detail!Cancellable
    <3>3. DecisionsLast BY <1>0, <2>0, <3>1, <3>2 DEF DecisionsLast, DetailTypes
    <3>4. DetailTypes' BY <1>0, <2>0, <3>1 DEF DetailTypes, Detail!Bookings
    <3>5. server'[c.date] = "CANCELED" BY <1>0, <2>0, <3>1 DEF DetailTypes
    <3>6. Detail!Dates' = Detail!Dates BY <2>0 DEF Detail!Dates
    <3>7. \A b \in cancels : /\ b \in [date : Detail!Dates, stage : {"sent", "reload"}]
                             /\ b.stage = "reload" => server'[b.date] = "CANCELED"
      BY <1>0, <3>3, WeeksAre DEF CancelsOK, DecisionsLast
    <3>8. /\ [c EXCEPT !.stage = "reload"] \in [date : Detail!Dates, stage : {"sent", "reload"}]
          /\ [c EXCEPT !.stage = "reload"].date = c.date
      BY <2>0
    <3>9. CancelsOK' BY <3>1, <3>5, <3>6, <3>7, <3>8 DEF CancelsOK
    <3> QED BY <1>1, <2>0, <3>3, <3>4, <3>9
  <2>2. CASE ~Detail!Cancellable(c.date)
    <3>1. cancels' = cancels \ {c} /\ UNCHANGED <<server, where>>
      BY <1>9, <2>2 DEF Detail!CancelServed
    <3>2. CancelsOK' BY <1>0, <2>0, <3>1 DEF CancelsOK, Detail!Dates
    <3>3. DetailTypes' /\ DecisionsLast BY <1>0, <1>2, <2>0, <3>1 DEF DetailTypes
    <3> QED BY <1>1, <2>0, <3>1, <3>2, <3>3
  <2> QED BY <2>1, <2>2
<1>10. ASSUME NEW c \in cancels, Detail!CancelReloaded(c) \/ Detail!CancelReloadFailed(c)
       PROVE  DetailInv'
  <2>1. /\ cancels' = cancels \ {c} /\ UNCHANGED <<server, clock, isRepeat, where>>
        /\ rounds' = rounds \/ rounds' = Detail!mapReservationDetailRounds(server, clock)
        /\ picked' = picked \/ picked' = Detail!NoRound
        /\ modal' = modal \/ modal' = FALSE
    BY <1>10 DEF Detail!CancelReloaded, Detail!CancelReloadFailed, Detail!ShownAfterCancel
  <2>2. DetailTypes' BY <2>1, <1>0 DEF DetailTypes
  <2>3. CancelsOK' BY <1>0, <2>1 DEF CancelsOK, Detail!Dates
  <2>4. DecisionsLast BY <1>2, <2>1
  <2> QED BY <1>1, <2>1, <2>2, <2>3, <2>4
<1>11. ASSUME \/ \E l \in loads : Detail!LoadFailed(l)
              \/ Detail!Refresh \/ Detail!LeaveRound \/ Detail!Back \/ Detail!OpenCancelModal
              \/ Detail!CloseCancelModal
              \/ \E f \in Detail!Filters, r \in rounds : Detail!ReapplyRound(f, r)
              \/ UNCHANGED Detail!detailVars
       PROVE  DetailInv'
  <2>1. /\ UNCHANGED <<server, clock, isRepeat, rounds, cancels>>
        /\ picked' = picked \/ picked' = Detail!NoRound
        /\ modal' \in BOOLEAN /\ where' \in {"here", "list", "calendar", "apply"}
    BY <1>11, <1>0 DEF Detail!LoadFailed, Detail!Refresh, Detail!LeaveRound, Detail!Back,
      Detail!OpenCancelModal, Detail!CloseCancelModal, Detail!ReapplyRound, Detail!detailVars,
      DetailTypes
  <2>2. DetailTypes' BY <2>1, <1>0 DEF DetailTypes
  <2>3. CancelsOK' /\ DecisionsLast BY <1>2, <1>3, <2>1
  <2> QED BY <1>1, <2>1, <2>2, <2>3
<1> QED BY <1>4, <1>5, <1>6, <1>7, <1>8, <1>9, <1>10, <1>11, Zenon DEF Detail!Next

LEMMA DetailTyped ==
  ASSUME DetailInv
  PROVE  Detail!TypeOK
  BY WeeksAre DEF DetailInv, DetailTypes, RoundsOK, RoundRecord, CancelsOK, Detail!TypeOK

(* A live round keeps the heading of a repetition at pending or approved.  *)
LEMMA LiveRoundCounts ==
  ASSUME DetailInv
  PROVE  Detail!HeadingAgrees
<1> SUFFICES ASSUME NEW r \in rounds, r.numbered, Detail!getCancelInfo(r)
             PROVE  /\ Detail!summaryState \in {"pending", "approved"}
                    /\ Detail!getProgressSteps(r, openedAt)[2] \notin {"danger", "primary"}
  BY DEF Detail!HeadingAgrees
<1>1. Detail!getRoundReservationState(r.status) \in {"pending", "approved"}
  BY DEF Detail!getCancelInfo
<1>2. r.status \in {"pending", "approved", "completed"}
  <2>1. r.status \in Detail!Statuses /\ r.status # "conflict" BY DEF DetailInv, RoundsOK, RoundRecord
  <2> QED BY <1>1, <2>1 DEF Detail!getRoundReservationState, Detail!Statuses
<1>3. ASSUME NEW s PROVE /\ Detail!Count(s) \in Nat
                         /\ r.status = s => Detail!Count(s) > 0
  <2>1. IsFiniteSet({q \in rounds : q.status = s}) BY FS_Subset DEF DetailInv
  <2> QED BY <2>1, FS_CardinalityType, FS_EmptySet, DetailCardinality DEF Detail!Count
<1>4. Detail!summaryState \in {"pending", "approved"}
  BY <1>2, <1>3 DEF Detail!summaryState
<1>5. Detail!getProgressSteps(r, openedAt)[2] \notin {"danger", "primary"}
  BY <1>1 DEF Detail!getProgressSteps
<1> QED BY <1>4, <1>5

LEMMA DetailStays == Spec => [](screen = "detail" => DetailInv)
<1>1. Init => (screen = "detail" => DetailInv) BY FirstPage, DetailFirst
<1>2. (screen = "detail" => DetailInv) /\ [Next]_vars => (screen = "detail" => DetailInv)'
  BY PageSteps, DetailStep
<1> QED BY <1>1, <1>2, PTL DEF Spec

(* The page of a round stays the page of the date that was picked while    *)
(* answers renumber the rounds under it, unless the first week was         *)
(* skipped.                                                                *)
THEOREM RoundKeepsItsDate == Spec => []RoundStaysPut
<1>1. DetailInv => Detail!RoundStaysPut
  <2> SUFFICES ASSUME DetailInv, picked # Detail!NoRound, server[1] # "CONFLICT"
               PROVE  Detail!currentSelectedRound.date = picked.date
    BY DEF Detail!RoundStaysPut
  <2>1. picked.date = picked.round BY DEF DetailInv, RoundsOK
  <2>2. Detail!currentSelectedRound.date = Detail!currentSelectedRound.round
    BY SelectedOK DEF RoundsOK
  <2>3. Detail!currentSelectedRound.round = picked.round
    BY DEF Detail!currentSelectedRound
  <2> QED BY <2>1, <2>2, <2>3
<1>2. (screen = "detail" => DetailInv) => RoundStaysPut BY <1>1 DEF RoundStaysPut
<1> QED BY <1>2, DetailStays, PTL

(* A round that the page offers to cancel is one the heading counts as     *)
(* live, although the two read different clocks.                           *)
THEOREM LiveRoundsAreCounted == Spec => []HeadingAgrees
<1>1. (screen = "detail" => DetailInv) => HeadingAgrees BY LiveRoundCounts DEF HeadingAgrees
<1> QED BY <1>1, DetailStays, PTL

LEMMA ReloadShowsCanceled ==
  ASSUME DetailInv
  PROVE  Detail!CancelledIsShown
<1> SUFFICES ASSUME NEW c \in cancels, Detail!CancelReloaded(c)
             PROVE  \E r \in rounds' : r.date = c.date /\ r.status = "canceled"
  BY DEF Detail!CancelledIsShown
<1>1. c.date \in Detail!Dates /\ server[c.date] = "CANCELED"
  BY DEF Detail!CancelReloaded, DetailInv, CancelsOK
<1>2. rounds' = Detail!mapReservationDetailRounds(server, clock)
  BY DEF Detail!CancelReloaded, Detail!ShownAfterCancel
<1>3. Detail!mapOccurrenceStatus(server[c.date], c.date, clock) = "canceled"
  BY <1>1 DEF Detail!mapOccurrenceStatus
<1> DEFINE r == [round |-> c.date, date |-> c.date, numbered |-> server[c.date] # "CONFLICT",
                 status |-> Detail!mapOccurrenceStatus(server[c.date], c.date, clock)]
<1>4. r \in rounds' BY <1>1, <1>2 DEF Detail!mapReservationDetailRounds
<1>5. r.date = c.date /\ r.status = "canceled" BY <1>3
<1> HIDE DEF r
<1> QED BY <1>4, <1>5

(* The list that comes back after a cancellation shows the round canceled, *)
(* whatever refresh is on its way meanwhile.                               *)
THEOREM ReloadAfterCancel == Spec => ClosedWhenCancelled
<1>1. (screen = "detail" => DetailInv) /\ [Next]_vars
        => [screen = "detail" => Detail!CancelledIsShown]_vars
  BY ReloadShowsCanceled
<1> QED BY <1>1, DetailStays, PTL DEF Spec, ClosedWhenCancelled

(***************************************************************************)
(* The list of one's own reservations: what is kept for a choice of tab,   *)
(* status and team is of that choice, and so is every answer to come.      *)
(***************************************************************************)
RowsOf(k) == {r \in [id : Booked, team : List!TeamIds, status : List!Statuses, over : BOOLEAN] :
                List!Fits(r, k)}
KeptOf(k) == [rows : SUBSET RowsOf(k), pages : Nat, more : BOOLEAN, failed : BOOLEAN,
              nextFailed : BOOLEAN]
AsksOf(k) == {List!NoAsk} \cup
             [kind : {"first", "next", "again"}, q : {k}, page : Nat, rows : SUBSET RowsOf(k),
              pull : BOOLEAN]

AsksOK(a) == a = [k \in List!Choices |-> a[k]] /\ \A k \in List!Choices : a[k] \in AsksOf(k)
KeptOK(c) == c = [k \in List!Choices |-> c[k]] /\ \A k \in List!Choices : c[k] \in KeptOf(k)

ChoiceOK ==
  /\ chosen \in List!Choices /\ chosen.state \in List!Offered(chosen.tab)
  /\ drafting \in List!Choices /\ drafting.state \in List!Offered(chosen.tab)
  /\ sheetOpen \in {List!NoSheet, "sort", "state", "team"}

PageOK == pulling \in BOOLEAN /\ at \in {"list", "detail"}

StandingOK == standing \in [Booked -> [status : List!Statuses, over : BOOLEAN]]

ListInv == ChoiceOK /\ PageOK /\ StandingOK /\ AsksOK(asks) /\ KeptOK(kept)

(* A page of a choice holds rows of that choice.                           *)
LEMMA PageRows ==
  ASSUME StandingOK, NEW q, NEW n
  PROVE  List!PageOf(q, n) \subseteq RowsOf(q)
<1> SUFFICES ASSUME NEW b \in List!Matching(q)
             PROVE  List!RowOf(b) \in RowsOf(q)
  BY DEF List!PageOf
<1>1. b \in Booked /\ List!Fits(List!RowOf(b), q) BY DEF List!Matching
<1>2. List!RowOf(b) \in [id : Booked, team : List!TeamIds, status : List!Statuses, over : BOOLEAN]
  BY <1>1 DEF List!RowOf, List!TeamIds, StandingOK
<1> QED BY <1>1, <1>2 DEF RowsOf

LEMMA AskIsOf ==
  ASSUME NEW k, NEW kind \in {"first", "next", "again"}, NEW n \in Nat
  PROVE  List!Ask(kind, k, n) \in AsksOf(k)
  BY DEF List!Ask, AsksOf

LEMMA AskOne ==
  ASSUME NEW a, AsksOK(a), NEW k \in List!Choices, NEW x \in AsksOf(k)
  PROVE  AsksOK([a EXCEPT ![k] = x])
  BY Zenon DEF AsksOK

LEMMA KeepOne ==
  ASSUME NEW c, KeptOK(c), NEW k \in List!Choices, NEW x \in KeptOf(k)
  PROVE  KeptOK([c EXCEPT ![k] = x])
  BY Zenon DEF KeptOK

LEMMA LoadingOK ==
  ASSUME AsksOK(asks), NEW q \in List!Choices, NEW stale
  PROVE  AsksOK(List!Loading(q, stale))
<1>1. \A kind \in {"first", "again"} : AsksOK([asks EXCEPT ![q] = List!Ask(kind, q, 1)])
  BY AskOne, AskIsOf
<1> QED BY <1>1 DEF List!Loading, List!KeyOf

LEMMA DefaultOK ==
  \A pane \in List!Tabs : /\ List!Default(pane) \in List!Choices
                         /\ List!Default(pane).state \in List!Offered(List!Default(pane).tab)
  BY DEF List!Default, List!Choices, List!Offered, List!TeamOptions, List!Tabs, List!Sorts

LEMMA ListFirst ==
  ASSUME List!Init
  PROVE  ListInv
<1>1. ChoiceOK BY DefaultOK DEF List!Init, ChoiceOK, List!Tabs
<1>2. PageOK /\ StandingOK BY DEF List!Init, PageOK, StandingOK, List!Statuses
<1>4. KeptOK(kept)
  <2>1. \A k \in List!Choices : List!NoData \in KeptOf(k) BY DEF List!NoData, KeptOf
  <2> QED BY <2>1 DEF List!Init, KeptOK
<1>5. AsksOK(asks)
  <2>1. \A k \in List!Choices : List!Ask("first", k, 1) \in AsksOf(k) /\ List!NoAsk \in AsksOf(k)
    BY AskIsOf DEF AsksOf
  <2> QED BY <2>1 DEF List!Init, AsksOK, List!KeyOf
<1> QED BY <1>1, <1>2, <1>4, <1>5 DEF ListInv

LEMMA ListStep ==
  ASSUME ListInv, [List!Next]_(List!listVars)
  PROVE  ListInv'
<1> USE DEF List!Keep, List!OnList
<1>0. ChoiceOK /\ PageOK /\ StandingOK /\ AsksOK(asks) /\ KeptOK(kept) BY DEF ListInv
<1>1. ASSUME ChoiceOK', PageOK', AsksOK(asks'), UNCHANGED <<standing, kept>>
      PROVE  ListInv'
  BY <1>0, <1>1 DEF ListInv, StandingOK, AsksOK, KeptOK, KeptOf, AsksOf, RowsOf
<1>2. \A x \in List!Choices : List!KeyOf(x) = x BY DEF List!KeyOf
<1>3. ASSUME NEW pane \in List!Tabs, List!handleSelectTab(pane) PROVE ListInv'
  <2>1. /\ chosen' = List!Default(pane) /\ drafting' = chosen' /\ asks' = List!Loading(List!Default(pane), TRUE)
        /\ UNCHANGED <<sheetOpen, pulling, at, standing, kept>>
    BY <1>3 DEF List!handleSelectTab
  <2>2. ChoiceOK' /\ PageOK' BY <1>0, <2>1, DefaultOK DEF ChoiceOK, PageOK
  <2> QED BY <1>0, <1>1, <2>1, <2>2, DefaultOK, LoadingOK
<1>4. ASSUME NEW v, List!SelectOption(v) PROVE ListInv'
  <2>1. /\ sheetOpen # List!NoSheet /\ v \in List!Options(sheetOpen)
        /\ drafting' = [drafting EXCEPT ![sheetOpen] = v]
        /\ UNCHANGED <<chosen, sheetOpen, asks, pulling, at, standing, kept>>
    BY <1>4 DEF List!SelectOption
  <2>2. ChoiceOK' /\ PageOK'
    <3>1. CASE sheetOpen = "sort"
      BY <1>0, <2>1, <3>1 DEF ChoiceOK, PageOK, List!Options, List!Choices
    <3>2. CASE sheetOpen = "state"
      BY <1>0, <2>1, <3>2 DEF ChoiceOK, PageOK, List!Options, List!Choices, List!Offered, List!Statuses
    <3>3. CASE sheetOpen = "team"
      BY <1>0, <2>1, <3>3 DEF ChoiceOK, PageOK, List!Options, List!Choices
    <3> QED BY <1>0, <2>1, <3>1, <3>2, <3>3 DEF ChoiceOK
  <2> QED BY <1>0, <1>1, <2>1, <2>2
<1>5. ASSUME NEW stale \in BOOLEAN, List!applyFilterSheet(stale) PROVE ListInv'
  <2>1. /\ sheetOpen # List!NoSheet /\ sheetOpen' = List!NoSheet
        /\ chosen' = [chosen EXCEPT ![sheetOpen] = drafting[sheetOpen]]
        /\ asks' = IF chosen' = chosen THEN asks ELSE List!Loading(chosen', stale)
        /\ UNCHANGED <<drafting, pulling, at, standing, kept>>
    BY <1>5 DEF List!applyFilterSheet
  <2>2. ChoiceOK' /\ PageOK'
    <3>1. CASE sheetOpen = "sort"
      BY <1>0, <2>1, <3>1 DEF ChoiceOK, PageOK, List!Choices
    <3>2. CASE sheetOpen = "state"
      BY <1>0, <2>1, <3>2 DEF ChoiceOK, PageOK, List!Choices
    <3>3. CASE sheetOpen = "team"
      BY <1>0, <2>1, <3>3 DEF ChoiceOK, PageOK, List!Choices
    <3> QED BY <1>0, <2>1, <3>1, <3>2, <3>3 DEF ChoiceOK
  <2>3. AsksOK(asks') BY <1>0, <2>1, <2>2, LoadingOK DEF ChoiceOK
  <2> QED BY <1>1, <2>1, <2>2, <2>3
<1>6. ASSUME NEW restored \in BOOLEAN, NEW stale \in BOOLEAN, List!Return(restored, stale) PROVE ListInv'
  <2>1. /\ at' = "list" /\ chosen' = (IF restored THEN chosen ELSE List!Default("upcoming"))
        /\ drafting' = chosen' /\ asks' = List!Loading(chosen', stale)
        /\ UNCHANGED <<standing, sheetOpen, kept, pulling>>
    BY <1>6 DEF List!Return
  <2>2. ChoiceOK' /\ PageOK' BY <1>0, <2>1, DefaultOK DEF ChoiceOK, PageOK, List!Tabs
  <2>3. AsksOK(asks') BY <1>0, <2>1, <2>2, LoadingOK DEF ChoiceOK
  <2> QED BY <1>1, <2>1, <2>2, <2>3
<1>7. ASSUME List!LoadMore PROVE ListInv'
  <2>1. /\ asks' = [asks EXCEPT ![List!KeyOf(chosen)] = List!Ask("next", chosen, List!Now.pages + 1)]
        /\ UNCHANGED <<chosen, drafting, sheetOpen, pulling, at, standing, kept>>
    BY <1>7 DEF List!LoadMore
  <2>2. ChoiceOK' /\ PageOK' BY <1>0, <2>1 DEF ChoiceOK, PageOK
  <2>3. chosen \in List!Choices /\ List!KeyOf(chosen) = chosen /\ List!Now.pages + 1 \in Nat
    BY <1>0 DEF ChoiceOK, List!KeyOf, List!Now, KeptOK, KeptOf
  <2>4. List!Ask("next", chosen, List!Now.pages + 1) \in AsksOf(chosen) BY <2>3, AskIsOf
  <2>5. AsksOK(asks') BY <1>0, <2>1, <2>3, <2>4, AskOne
  <2> QED BY <1>1, <2>1, <2>2, <2>5
<1>8. ASSUME List!handleRefresh PROVE ListInv'
  <2> DEFINE a == asks[chosen]
             b == IF a # List!NoAsk /\ List!Now.pages = 0 THEN [a EXCEPT !.pull = TRUE]
                  ELSE [List!Ask(IF List!Now.pages = 0 THEN "first" ELSE "again", chosen, 1)
                          EXCEPT !.pull = TRUE]
  <2>1. /\ asks' = [asks EXCEPT ![chosen] = b] /\ pulling' = TRUE
        /\ UNCHANGED <<chosen, drafting, sheetOpen, at, standing, kept>>
    BY <1>8 DEF List!handleRefresh, List!KeyOf
  <2>2. ChoiceOK' /\ PageOK' BY <1>0, <2>1 DEF ChoiceOK, PageOK
  <2>3. chosen \in List!Choices BY <1>0 DEF ChoiceOK
  <2>4. a \in AsksOf(chosen) BY <1>0, <2>3 DEF AsksOK
  <2>5. [List!Ask(IF List!Now.pages = 0 THEN "first" ELSE "again", chosen, 1) EXCEPT !.pull = TRUE]
          \in AsksOf(chosen)
    BY AskIsOf DEF AsksOf, List!Ask
  <2>6. a # List!NoAsk => [a EXCEPT !.pull = TRUE] \in AsksOf(chosen) BY <2>4 DEF AsksOf
  <2>7. b \in AsksOf(chosen) BY <2>5, <2>6
  <2> HIDE DEF a, b
  <2>8. AsksOK(asks') BY <1>0, <2>1, <2>3, <2>7, AskOne
  <2> QED BY <1>1, <2>1, <2>2, <2>8
<1>9. ASSUME List!handleSelectReservation PROVE ListInv'
  <2>1. /\ at' = "detail" /\ pulling' = FALSE
        /\ asks' = [k \in List!Choices |-> IF asks[k] = List!NoAsk THEN List!NoAsk
                                           ELSE [asks[k] EXCEPT !.pull = FALSE]]
        /\ UNCHANGED <<standing, chosen, drafting, sheetOpen, kept>>
    BY <1>9 DEF List!handleSelectReservation
  <2>2. ChoiceOK' /\ PageOK' BY <1>0, <2>1 DEF ChoiceOK, PageOK
  <2>3. \A k \in List!Choices : asks'[k] \in AsksOf(k)
    <3> TAKE k \in List!Choices
    <3>1. asks[k] \in AsksOf(k) BY <1>0 DEF AsksOK
    <3>2. asks[k] # List!NoAsk => [asks[k] EXCEPT !.pull = FALSE] \in AsksOf(k) BY <3>1 DEF AsksOf
    <3> QED BY <2>1, <3>1, <3>2
  <2>4. AsksOK(asks') BY <2>1, <2>3 DEF AsksOK
  <2> QED BY <1>1, <2>1, <2>2, <2>4
<1>10. ASSUME NEW k \in List!Choices, List!PageArrives(k) PROVE ListInv'
  <2> DEFINE a    == asks[k]
             got  == a.rows \cup List!PageOf(a.q, a.page)
             next == List!HasNext(a.q, a.page)
  <2>1. /\ a # List!NoAsk
        /\ \/ asks' = [asks EXCEPT ![k].rows = got, ![k].page = @ + 1] /\ UNCHANGED kept
           \/ /\ kept' = [kept EXCEPT ![k] =
                            List!Loaded(IF a.kind = "next" THEN kept[k].rows \cup got ELSE got, a.page, next)]
              /\ asks' = [asks EXCEPT ![k] = List!NoAsk]
        /\ UNCHANGED <<standing, chosen, drafting, sheetOpen, pulling, at>>
    BY <1>10 DEF List!PageArrives
  <2>2. ChoiceOK' /\ PageOK' /\ StandingOK' BY <1>0, <2>1 DEF ChoiceOK, PageOK, StandingOK
  <2>3. a \in [kind : {"first", "next", "again"}, q : {k}, page : Nat, rows : SUBSET RowsOf(k),
               pull : BOOLEAN]
    BY <1>0, <2>1 DEF AsksOK, AsksOf
  <2>4. got \in SUBSET RowsOf(k) BY <1>0, <2>3, PageRows
  <2>5. next \in BOOLEAN BY DEF List!HasNext
  <2>6. kept[k] \in KeptOf(k) BY <1>0 DEF KeptOK
  <2> HIDE DEF got, next
  <2>7. CASE asks' = [asks EXCEPT ![k].rows = got, ![k].page = @ + 1] /\ UNCHANGED kept
    <3>1. asks' = [asks EXCEPT ![k] = [a EXCEPT !.rows = got, !.page = a.page + 1]] BY <2>7
    <3> HIDE DEF a
    <3>4. a.page + 1 \in Nat BY <2>3
    <3>2. [a EXCEPT !.rows = got, !.page = a.page + 1] \in AsksOf(k) BY <2>3, <2>4, <3>4 DEF AsksOf
    <3>3. AsksOK(asks') BY <1>0, <3>1, <3>2, AskOne
    <3> QED BY <1>1, <2>1, <2>2, <2>7, <3>3
  <2>8. CASE /\ kept' = [kept EXCEPT ![k] =
                           List!Loaded(IF a.kind = "next" THEN kept[k].rows \cup got ELSE got, a.page, next)]
             /\ asks' = [asks EXCEPT ![k] = List!NoAsk]
    <3>1. List!Loaded(IF a.kind = "next" THEN kept[k].rows \cup got ELSE got, a.page, next) \in KeptOf(k)
      BY <2>3, <2>4, <2>5, <2>6 DEF KeptOf, List!Loaded
    <3>2. KeptOK(kept') BY <1>0, <2>8, <3>1, KeepOne
    <3>3. List!NoAsk \in AsksOf(k) BY DEF AsksOf
    <3>4. AsksOK(asks') BY <1>0, <2>8, <3>3, AskOne
    <3> QED BY <2>2, <3>2, <3>4 DEF ListInv, AsksOK, KeptOK, AsksOf, KeptOf, RowsOf
  <2> QED BY <2>1, <2>7, <2>8
<1>11. ASSUME NEW k \in List!Choices, List!PageFails(k) PROVE ListInv'
  <2>1. /\ asks' = [asks EXCEPT ![k] = List!NoAsk]
        /\ kept' = [kept EXCEPT ![k].failed = TRUE, ![k].nextFailed = asks[k].kind = "next"]
        /\ UNCHANGED <<standing, chosen, drafting, sheetOpen, pulling, at>>
    BY <1>11 DEF List!PageFails
  <2>2. ChoiceOK' /\ PageOK' /\ StandingOK' BY <1>0, <2>1 DEF ChoiceOK, PageOK, StandingOK
  <2>3. List!NoAsk \in AsksOf(k) BY DEF AsksOf
  <2>4. AsksOK(asks') BY <1>0, <2>1, <2>3, AskOne
  <2>5. kept[k] \in KeptOf(k) BY <1>0 DEF KeptOK
  <2> DEFINE c == [kept[k] EXCEPT !.failed = TRUE, !.nextFailed = asks[k].kind = "next"]
  <2>6. c \in KeptOf(k) BY <2>5 DEF KeptOf
  <2>7. kept' = [kept EXCEPT ![k] = c] BY <2>1
  <2> HIDE DEF c
  <2>8. KeptOK(kept') BY <1>0, <2>6, <2>7, KeepOne
  <2> QED BY <2>2, <2>4, <2>8 DEF ListInv, AsksOK, KeptOK, AsksOf, KeptOf, RowsOf
<1>12. ASSUME NEW b \in Booked, List!Changes(b) PROVE ListInv'
  <2>1. /\ \/ standing' = [standing EXCEPT ![b].status = "canceled"]
           \/ standing' = [standing EXCEPT ![b].over = TRUE]
        /\ UNCHANGED <<chosen, drafting, sheetOpen, kept, asks, pulling, at>>
    BY <1>12 DEF List!Changes
  <2>2. ChoiceOK' /\ PageOK' BY <1>0, <2>1 DEF ChoiceOK, PageOK
  <2>3. StandingOK' BY <1>0, <2>1 DEF StandingOK, List!Statuses
  <2> QED BY <1>0, <2>1, <2>2, <2>3 DEF ListInv, AsksOK, KeptOK, AsksOf, KeptOf, RowsOf
<1>13. ASSUME \/ \E which \in {"sort", "state", "team"} : List!openFilterSheet(which)
              \/ List!closeFilterSheet \/ List!RefreshEnds \/ UNCHANGED List!listVars
       PROVE  ListInv'
  <2>1. /\ UNCHANGED <<standing, kept, at, chosen, asks>>
        /\ sheetOpen' \in {sheetOpen, List!NoSheet, "sort", "state", "team"}
        /\ drafting' \in {drafting, chosen} /\ pulling' \in {pulling, FALSE}
    BY <1>13 DEF List!openFilterSheet, List!closeFilterSheet, List!RefreshEnds, List!listVars
  <2>2. ChoiceOK' /\ PageOK' BY <1>0, <2>1 DEF ChoiceOK, PageOK
  <2> QED BY <1>0, <1>1, <2>1, <2>2
<1> QED BY <1>3, <1>4, <1>5, <1>6, <1>7, <1>8, <1>9, <1>10, <1>11, <1>12, <1>13, Zenon
        DEF List!Next, List!UserActs, List!Answers

LEMMA ListTyped ==
  ASSUME ListInv
  PROVE  List!TypeOK
  BY DEF ListInv, ChoiceOK, PageOK, KeptOK, KeptOf, List!TypeOK

LEMMA ListStays == Spec => [](screen = "list" => ListInv)
<1>1. Init => (screen = "list" => ListInv) BY FirstPage, ListFirst
<1>2. (screen = "list" => ListInv) /\ [Next]_vars => (screen = "list" => ListInv)'
  BY PageSteps, ListStep
<1> QED BY <1>1, <1>2, PTL DEF Spec

(* The rows on show are of the tab, status and team on show, however late  *)
(* the answers for earlier choices arrive.                                 *)
THEOREM ListIsOfItsChoice == Spec => []ShowsWhatIsChosen
<1>1. ListInv => List!ShowsWhatIsChosen
  <2> SUFFICES ASSUME ListInv PROVE List!ShowsWhatIsChosen OBVIOUS
  <2>1. chosen \in List!Choices /\ List!Now = kept[chosen] BY DEF ListInv, ChoiceOK, List!Now, List!KeyOf
  <2>2. List!Now.rows \subseteq RowsOf(chosen) BY <2>1 DEF ListInv, KeptOK, KeptOf
  <2> QED BY <2>2 DEF ListInv, ChoiceOK, RowsOf, List!ShowsWhatIsChosen
<1>2. (screen = "list" => ListInv) => ShowsWhatIsChosen BY <1>1 DEF ShowsWhatIsChosen
<1> QED BY <1>2, ListStays, PTL

(***************************************************************************)
(* The profile: nobody renames himself to what was not checked.            *)
(***************************************************************************)
OwnInfos == [pull : BOOLEAN, page : Own!OwnPages, got : Nicks \cup {Own!Empty}]
OwnSaves == [name : Nicks \cup {Own!Empty}, got : Nicks \cup {Own!Empty}, here : BOOLEAN]

OwnTypes ==
  /\ Own!TypeOK
  /\ others \subseteq Nicks /\ renamed \in BOOLEAN
  /\ checking \in [name : Nicks \cup {Own!Empty}, got : {"nothing", "available", "unavailable"}]
  /\ submitting \in OwnSaves
  /\ submitting.name \in Nicks \/ (submitting.got = Own!Empty /\ submitting.here = FALSE)
  /\ infos \subseteq OwnInfos

(* A check under way is of the nickname in the input, unless the stored    *)
(* one has taken its place.                                                *)
CheckIsOfTheInput ==
  checking # Own!NoCheck => /\ ownPage = "nickname"
                            /\ ~renamed => checking.name = nickname

OwnInv == OwnTypes /\ CheckIsOfTheInput /\ Own!SavedWasChecked

LEMMA OwnFirst == Own!Init => OwnInv
<1> SUFFICES ASSUME Own!Init PROVE OwnInv
  OBVIOUS
<1>1. checking = Own!NoCheck /\ checkStatus = "unchecked" BY DEF Own!Init
<1>2. CheckIsOfTheInput /\ Own!SavedWasChecked BY <1>1 DEF CheckIsOfTheInput, Own!SavedWasChecked
<1>3. submitting \in OwnSaves /\ submitting.name = Own!Empty /\ submitting.got = Own!Empty /\ ~submitting.here
  BY DEF Own!Init, Own!Idle, OwnSaves
<1>4. infos \subseteq OwnInfos
  BY DEF Own!Init, OwnInfos, Own!OwnPages
<1>5. /\ others \subseteq Nicks /\ renamed \in BOOLEAN /\ account \in Nicks \ others
      /\ stored \in Nicks /\ nickname \in Nicks /\ ownPage = "nickname" /\ isChecked = FALSE
  BY DEF Own!Init
<1>6. Own!TypeOK BY <1>1, <1>3, <1>5 DEF Own!TypeOK, Own!OwnPages
<1>7. checking \in [name : Nicks \cup {Own!Empty}, got : {"nothing", "available", "unavailable"}]
  BY <1>1 DEF Own!NoCheck
<1> QED BY <1>2, <1>3, <1>4, <1>5, <1>6, <1>7 DEF OwnInv, OwnTypes

LEMMA AskingKeeps ==
  ASSUME NEW pull \in BOOLEAN, infos \subseteq OwnInfos, ownPage' \in Own!OwnPages
  PROVE  Own!Asking(infos, pull) \subseteq OwnInfos
<1>1. Own!Info(pull) \in OwnInfos BY DEF Own!Info, OwnInfos
<1> QED BY <1>1 DEF Own!Asking

(* A page that mounts has nothing of the page before it.                   *)
LEMMA MountedKeeps ==
  ASSUME OwnInv, NEW page \in Own!OwnPages, Own!Mounted(page), UNCHANGED <<account, others>>,
         stored' \in Nicks, nickname' \in Nicks, submitting' \in OwnSaves,
         submitting'.name \in Nicks \/ (submitting'.got = Own!Empty /\ submitting'.here = FALSE)
  PROVE  OwnInv'
<1>1. /\ ownPage' = page /\ isChecked' = FALSE /\ checkStatus' = "unchecked"
      /\ checking' = Own!NoCheck /\ renamed' = FALSE
  BY DEF Own!Mounted
<1>2. infos' \subseteq OwnInfos
  BY <1>1, AskingKeeps DEF Own!Mounted, OwnInv, OwnTypes
<1>3. CheckIsOfTheInput' /\ Own!SavedWasChecked'
  BY <1>1 DEF CheckIsOfTheInput, Own!SavedWasChecked
<1>4. submitting'.name \in Nicks \cup {Own!Empty} BY DEF OwnSaves
<1>5. Own!TypeOK' BY <1>1, <1>4 DEF Own!TypeOK, OwnInv, OwnTypes
<1>6. checking' \in [name : Nicks \cup {Own!Empty}, got : {"nothing", "available", "unavailable"}]
  BY <1>1 DEF Own!NoCheck
<1>7. others' \subseteq Nicks BY DEF OwnInv, OwnTypes
<1> QED BY <1>1, <1>2, <1>3, <1>5, <1>6, <1>7 DEF OwnInv, OwnTypes

LEMMA OwnStep == OwnInv /\ [Own!Next]_(Own!profileVars) => OwnInv'
<1> SUFFICES ASSUME OwnInv, [Own!Next]_(Own!profileVars) PROVE OwnInv'
  OBVIOUS
<1>0. ASSUME submitting' = [submitting EXCEPT !.here = FALSE]
      PROVE  /\ submitting' \in OwnSaves
             /\ submitting'.name \in Nicks \/ (submitting'.got = Own!Empty /\ submitting'.here = FALSE)
  BY <1>0 DEF OwnInv, OwnTypes, OwnSaves
<1>12. ASSUME NEW page \in Own!OwnPages, Own!Navigate(page) PROVE OwnInv'
  <2>1. /\ Own!Mounted(page) /\ nickname' = stored /\ stored' = stored /\ UNCHANGED <<account, others>>
        /\ submitting' = [submitting EXCEPT !.here = FALSE]
    BY <1>12 DEF Own!Navigate, Own!KeepServer
  <2>2. stored \in Nicks BY DEF OwnInv, OwnTypes, Own!TypeOK
  <2> QED BY <1>0, <2>1, <2>2, MountedKeeps
<1>14. ASSUME Own!Copied, ownPage # "calendar" PROVE OwnInv'
  <2>1. /\ Own!Mounted("calendar") /\ nickname' = stored /\ stored' = stored /\ UNCHANGED <<account, others>>
        /\ submitting' = [submitting EXCEPT !.here = FALSE] /\ "calendar" \in Own!OwnPages
    BY <1>14 DEF Own!Copied, Own!KeepServer, Own!OwnPages
  <2>2. stored \in Nicks BY DEF OwnInv, OwnTypes, Own!TypeOK
  <2> QED BY <1>0, <2>1, <2>2, MountedKeeps
<1>7. ASSUME Own!Submitted, submitting.got # Own!Empty PROVE OwnInv'
  <2>1. /\ Own!Mounted("my") /\ nickname' = submitting.got /\ stored' = submitting.got
        /\ UNCHANGED <<account, others>> /\ submitting' = Own!Idle /\ "my" \in Own!OwnPages
    BY <1>7 DEF Own!Submitted, Own!KeepServer, Own!OwnPages
  <2>2. submitting.got \in Nicks BY <1>7 DEF OwnInv, OwnTypes, OwnSaves
  <2>3. submitting' \in OwnSaves /\ submitting'.got = Own!Empty /\ submitting'.here = FALSE
    BY <2>1 DEF Own!Idle, OwnSaves
  <2> QED BY <2>1, <2>2, <2>3, MountedKeeps
<1> USE DEF OwnInv, OwnTypes, CheckIsOfTheInput, Own!SavedWasChecked, Own!TypeOK, Own!KeepServer,
            Own!KeepForm, Own!KeepRest, OwnSaves, OwnInfos
<1>1. ASSUME NEW n \in Nicks \cup {Own!Empty}, Own!handleChange(n) PROVE OwnInv'
  BY <1>1 DEF Own!handleChange, Own!isBusy, Own!StatusTyped
<1>2. ASSUME Own!handleCheckNickname PROVE OwnInv'
  BY <1>2 DEF Own!handleCheckNickname
<1>3. ASSUME Own!CheckServed PROVE OwnInv'
  BY <1>3 DEF Own!CheckServed, Own!NoCheck
<1>4. ASSUME Own!Checked PROVE OwnInv'
  BY <1>4 DEF Own!Checked, Own!NoCheck
<1>5. ASSUME Own!handleSubmit PROVE OwnInv'
  <2>1. submitting' = [name |-> nickname, got |-> Own!Empty, here |-> TRUE] /\ nickname \in Nicks
    BY <1>5 DEF Own!handleSubmit
  <2> QED BY <1>5, <2>1 DEF Own!handleSubmit
<1>6. ASSUME Own!SubmitServed PROVE OwnInv'
  <2>1. submitting.name \in Nicks BY <1>6 DEF Own!SubmitServed, Own!Idle
  <2>2. account' = submitting.name /\ submitting' = [submitting EXCEPT !.got = account']
    BY <1>6 DEF Own!SubmitServed
  <2> QED BY <1>6, <2>1, <2>2 DEF Own!SubmitServed
<1>8. ASSUME Own!Submitted, submitting.got = Own!Empty PROVE OwnInv'
  <2>1. submitting' \in OwnSaves /\ submitting'.got = Own!Empty /\ submitting'.here = FALSE
    BY <1>8 DEF Own!Submitted, Own!Idle
  <2> QED BY <1>8, <2>1 DEF Own!Submitted
<1>9. ASSUME Own!Pull PROVE OwnInv'
  <2>1. infos' \subseteq OwnInfos BY <1>9, AskingKeeps DEF Own!Pull
  <2>2. UNCHANGED <<account, others, stored, nickname, checkStatus, checking, submitting, checkedName,
                    renamed, ownPage, isChecked>>
    BY <1>9 DEF Own!Pull
  <2> QED BY <2>1, <2>2
<1>10. ASSUME NEW c \in infos, Own!InfoServed(c) PROVE OwnInv'
  BY <1>10 DEF Own!InfoServed
<1>11. ASSUME NEW c \in infos, Own!InfoArrives(c) PROVE OwnInv'
  BY <1>11 DEF Own!InfoArrives, Own!SaveAuthUser
<1>13. ASSUME Own!SubscriptionArrives \/ Own!handleCopy \/ Own!handleToggle \/ Own!handleWithdraw
       PROVE  OwnInv'
  BY <1>13 DEF Own!SubscriptionArrives, Own!handleCopy, Own!handleToggle, Own!handleWithdraw, Own!OwnPages
<1>19. ASSUME Own!Copied, ownPage = "calendar" PROVE OwnInv' BY <1>19 DEF Own!Copied
<1>15. ASSUME Own!OthersAct PROVE OwnInv'
  BY <1>15 DEF Own!OthersAct
<1>16. ASSUME UNCHANGED Own!profileVars PROVE OwnInv'
  BY <1>16 DEF Own!profileVars
<1> HIDE DEF OwnInv
<1>17. ASSUME Own!UserActs PROVE OwnInv'
  BY <1>1, <1>2, <1>5, <1>9, <1>12, <1>13, <1>15, <1>17 DEF Own!UserActs
<1>18. ASSUME Own!Answers PROVE OwnInv'
  BY <1>3, <1>4, <1>6, <1>7, <1>8, <1>10, <1>11, <1>13, <1>14, <1>18, <1>19 DEF Own!Answers
<1> QED BY <1>16, <1>17, <1>18 DEF Own!Next

LEMMA OwnStays == Spec => [](screen = "profile" => OwnInv)
<1>1. Init => (screen = "profile" => OwnInv)
  BY FirstPage, OwnFirst
<1>2. (screen = "profile" => OwnInv) /\ [Next]_vars => (screen = "profile" => OwnInv)'
  BY PageSteps, OwnStep
<1> QED BY <1>1, <1>2, PTL DEF Spec

(* The nickname that can be submitted is the one that was checked, unless  *)
(* the stored one took its place, whatever is typed, stored or answered    *)
(* meanwhile.                                                              *)
THEOREM NickIsTheOneChecked == Spec => []SavedWasChecked
<1>1. (screen = "profile" => OwnInv) => SavedWasChecked
  BY DEF OwnInv, SavedWasChecked
<1> QED BY <1>1, OwnStays, PTL

==============================================================================
