----------------------------- MODULE ApplyWizard -----------------------------
(***************************************************************************)
(* The page that applies for a reservation                                 *)
(* (src/FE/src/pages/ReservationApplyPage.tsx): five steps (date, start,   *)
(* end, repetition, team), each with a draft and a confirmed value, a      *)
(* review, the check of a repetition and the call that creates it.         *)
(*                                                                         *)
(* A step of this module is a handler followed by the effects React runs   *)
(* because of it: the effects move the confirmed window into the hours of  *)
(* the schedule the page has loaded.  Other people change the schedules   *)
(* all the time, so an answer of the server may hold any of them.  Which   *)
(* team is chosen is left out: no property tells the teams apart.          *)
(***************************************************************************)
EXTENDS ClientTime, Sequences, FiniteSets

CONSTANTS
  Days,             (* the dates of the calendar, 0 is today *)
  ClosableDays,     (* the dates that may turn out to be closed *)
  Now,              (* the first half hour of today that has not begun *)
  InitialStart,     (* INITIAL_START_ABSOLUTE_SLOT: 46 in the code *)
  DefaultDuration,  (* DEFAULT_DURATION_SLOT_COUNT: 4 in the code *)
  Horizon,          (* how far a search for a slot goes: 14 days in the code *)
  Reach,            (* how far a search for the closest slot goes: 144 *)
  SlotBound,        (* bound: slots stay within this distance of midnight *)
  Schedules,        (* what the day schedule of a date may be *)
  VisibleRange,     (* TIME_PICKER_VISIBLE_RANGE: options above and below *)
  Repeats,          (* REPEAT_OPTIONS in their order, 0 is no repetition *)
  VisibleRepeats    (* VISIBLE_REPEAT_RANGE *)

VARIABLES
  seen,       (* the loaded schedule of the confirmed date, or Loading *)
  closed,     (* the dates the loaded month shows as disabled *)
  form,       (* selectedDate, selectedStartAbsoluteSlot, ... *)
  draft,      (* draftDate, draftStartAbsoluteSlot, ... *)
  flow,       (* activeStep, completedStepIndex, isReviewMode *)
  notice,     (* isRepeatNoticeOpen, isRepeatNoticeChecked *)
  calls,      (* the requests sent and not answered *)
  busy        (* isSubmittingReservation *)

applyVars == <<seen, closed, form, draft, flow, notice, calls, busy>>

STEP_ORDER == <<"date", "startTime", "endTime", "repeat", "type">>
StepIndex(step) == CHOOSE i \in DOMAIN STEP_ORDER : STEP_ORDER[i] = step
Steps == {STEP_ORDER[i] : i \in DOMAIN STEP_ORDER}
RepeatValues == {Repeats[i] : i \in DOMAIN Repeats}
Slots == -SlotBound .. SlotBound

Choice == [date: Days, start: Int, end: Int, repeat: RepeatValues]

TypeOK ==
  /\ seen \in Schedules \cup {Loading} /\ closed \subseteq ClosableDays
  /\ form \in Choice /\ draft \in Choice
  /\ flow \in [step: Steps \cup {"left"}, done: 0 .. Len(STEP_ORDER), review: BOOLEAN]
  /\ notice \in [open: BOOLEAN, checked: BOOLEAN] /\ busy \in BOOLEAN
  /\ calls \subseteq [kind: {"check", "create"}, body: Choice]

(***************************************************************************)
(* What the searches for a slot rely on: hours of a day at most, a default *)
(* end and every slot on show within reach of the closest slot, and a      *)
(* whole window of the room between what is taken or over and the horizon. *)
(* In the code a day has 48 slots, Reach is three days and Horizon 14.     *)
(***************************************************************************)
WizardAssumption ==
  /\ Days \subseteq Nat /\ ClosableDays \subseteq Days
  /\ Now \in Nat /\ InitialStart \in Nat /\ SlotBound \in Nat
  /\ DefaultDuration \in Nat \ {0} /\ Horizon \in Nat /\ Reach \in Nat
  /\ DaySlots <= Reach /\ SlotBound <= Reach /\ DefaultDuration <= Reach
  /\ SlotBound + DaySlots <= Horizon /\ Now + SlotBound + DaySlots <= Horizon
  /\ Repeats \in Seq(Nat) /\ 0 \in RepeatValues
  /\ \A s \in Schedules :
       /\ s.active \in BOOLEAN /\ s.hours \in [from: Int, to: Int]
       /\ s.hours.from < s.hours.to /\ s.hours.to <= s.hours.from + DaySlots
       /\ s.taken \subseteq [from: Int, to: Int]
       /\ \A r \in s.taken : r.to + SlotBound + DaySlots <= Horizon

(***************************************************************************)
(* What the page knows of a slot.  Until the schedule is loaded every slot *)
(* looks open.                                                             *)
(***************************************************************************)
MinimumStart(date) == Now - date * DaySlots

StartVisible(s, x) == s = Loading \/ StartInsideOperatingHours(s.hours, x)

StartReserved(s, date, x) ==
  \/ x < MinimumStart(date)
  \/ /\ s # Loading
     /\ \/ ~s.active
        \/ OutsideOperatingHours(s.hours, x, x + 1)
        \/ BlockedOverlap(s.taken, x, x + 1)

EndVisible(s, start, x) ==
  x > start /\ (s = Loading \/ ~OutsideOperatingHours(s.hours, start, x))

EndReserved(s, start, x) ==
  \/ ~EndVisible(s, start, x)
  \/ s # Loading /\ BlockedOverlap(s.taken, start, x)

StartOpen(s, date, x) == StartVisible(s, x) /\ ~StartReserved(s, date, x)

FirstAvailableStart(s, date, minimum) ==
  LET ahead == minimum .. Horizon - 1
  IN  FirstOr({x \in ahead : StartOpen(s, date, x)},
              FirstOr({x \in ahead : StartVisible(s, x)}, minimum))

NextStart(s, date, x, direction) ==
  IF direction = 1
  THEN FirstOr({y \in x + 1 .. x + Horizon : StartOpen(s, date, y)}, x)
  ELSE LastOr({y \in x - Horizon .. x - 1 : StartOpen(s, date, y)}, x)

NextEnd(s, start, x, direction) ==
  IF direction = 1
  THEN FirstOr({y \in x + 1 .. x + Horizon : ~EndReserved(s, start, y)}, x)
  ELSE LastOr({y \in x - Horizon .. x - 1 : ~EndReserved(s, start, y)}, x)

(* The closest visible end; of two at the same distance, the later one.    *)
ClosestEnd(s, start, x) ==
  LET near == {d \in 0 .. Reach : \/ EndVisible(s, start, x + d)
                                  \/ EndVisible(s, start, x - d)}
      d    == FirstOr(near, 0)
  IN  IF near = {} \/ EndVisible(s, start, x + d) THEN x + d ELSE x - d

(* getDefaultStartAbsoluteSlot: it reads the schedule of the date still    *)
(* confirmed, for the date being confirmed.                                *)
DefaultStart(date) ==
  FirstAvailableStart(seen, form.date,
                      IF date = 0 THEN Max({0, MinimumStart(date)}) ELSE 0)

DefaultEnd(start) ==
  LET preferred == start + DefaultDuration
      free(S)   == {x \in S : ~EndReserved(seen, start, x)}
  IN  LastOr(free(start + 1 .. preferred),
        FirstOr(free(start + 1 .. Horizon - 1),
          FirstOr({x \in start + 1 .. Horizon - 1 : EndVisible(seen, start, x)},
                  start + 1)))

(* normalizeAbsoluteSlotDate: a slot past midnight is a slot of its date.  *)
OnItsDate(date, x) ==
  [date |-> date + x \div DaySlots, start |-> x % DaySlots]

(***************************************************************************)
(* The effects.  The first follows the schedule and the date, the second   *)
(* the schedule and the start.                                             *)
(***************************************************************************)
BugKeepEnd(f, start, s) == f

EndMoved(f, start, s) ==
  IF s = Loading THEN f
  ELSE [f EXCEPT !.end = ClosestEnd(s, start, Max({f.end, start + 1}))]

StartMoved(f, date, s) ==
  IF s = Loading THEN f
  ELSE [f EXCEPT !.start = FirstAvailableStart(s, date, Max({0, f.start}))]

(* A schedule arrives: the end first follows the old start, then the new.  *)
ScheduleSeen(s) ==
  LET moved == StartMoved(form, form.date, s)
      again(f) == IF moved.start = form.start THEN f
                  ELSE EndMoved(f, moved.start, s)
  IN  /\ form'  = again(EndMoved(moved, form.start, s))
      /\ draft' = again(EndMoved(StartMoved(draft, form.date, s), form.start, s))
      /\ seen'  = s

(* A handler has confirmed new values: a new date starts a new query, a    *)
(* new start moves the end.                                                *)
Confirmed(f, d) ==
  LET s        == IF f.date # form.date THEN Loading ELSE seen
      after(v) == IF f.start # form.start THEN EndMoved(v, f.start, s) ELSE v
  IN  /\ seen' = s
      /\ form' = after(f)
      /\ draft' = after(d)

Init ==
  \E date \in Days :
    LET start == Max({InitialStart, MinimumStart(date)})
    IN  /\ form = [date |-> date, start |-> start, end |-> start + DefaultDuration,
                   repeat |-> 0]
        /\ draft = form
        /\ seen = Loading /\ closed = {}
        /\ flow = [step |-> "date", done |-> 0, review |-> FALSE]
        /\ notice = [open |-> FALSE, checked |-> FALSE]
        /\ calls = {} /\ busy = FALSE

Open == flow.step # "left" /\ ~notice.open   (* the notice covers the page *)

(* What the page shows, and with it what can be pressed.                   *)
ReviewPanel    == Open /\ flow.review
DatePanel      == Open /\ ~flow.review /\ flow.step = "date"
StartTimePanel == Open /\ ~flow.review /\ flow.step = "startTime"
EndTimePanel   == Open /\ ~flow.review /\ flow.step = "endTime"
RepeatPanel    == Open /\ ~flow.review /\ flow.step = "repeat"
TeamPanel      == Open /\ ~flow.review /\ flow.step = "type"
SubmitButton   == ~busy
RepeatNotice   == flow.step # "left" /\ notice.open

isFlowCompleted == flow.done = Len(STEP_ORDER)
KeepCalls == UNCHANGED <<notice, calls, busy>>

(* useRoomDay answers: on loading, on refresh and when the window is       *)
(* focused again.  An answer equal to the last one changes nothing.  Each  *)
(* answer may push the window on; SlotBound keeps it short of the Horizon. *)
DayArrives(s) ==
  /\ flow.step # "left" /\ seen # s /\ form.start <= SlotBound
  /\ ScheduleSeen(s)
  /\ UNCHANGED <<closed, flow>> /\ KeepCalls

(* useRoomMonth answers with the dates that are closed.                    *)
MonthArrives(off) ==
  /\ flow.step # "left" /\ closed # off /\ closed' = off
  /\ UNCHANGED <<seen, form, draft, flow>> /\ KeepCalls

CalendarDayDisabled(date) == date \in closed

(* handleSelectCalendarDay and handleMoveCalendarMonth put a date that is   *)
(* not disabled in the draft.                                              *)
SelectCalendarDay(date) ==
  /\ DatePanel /\ ~CalendarDayDisabled(date)
  /\ draft' = [draft EXCEPT !.date = date]
  /\ UNCHANGED <<seen, form, flow, closed>> /\ KeepCalls

(* The wheels of a time: a step either way, an option on show, or the other *)
(* half of the day; always a slot that is visible and not reserved.        *)
StartHalf(x, half) ==
  LET y == InHalf(x, half)
  IN  IF StartOpen(seen, form.date, y) THEN y ELSE NextStart(seen, form.date, y, 1)

EndHalf(x, half) ==
  LET y == InHalf(x, half)
  IN  IF EndReserved(seen, form.start, y) THEN NextEnd(seen, form.start, y, 1) ELSE y

TimePicker(steps, options, halves) == steps \cup options \cup halves

StartChoices(x) ==
  TimePicker({NextStart(seen, form.date, x, d) : d \in {-1, 1}},
             {y \in x - VisibleRange .. x + VisibleRange : StartOpen(seen, form.date, y)},
             {StartHalf(x, half) : half \in {0, 1}})

EndChoices(x) ==
  TimePicker({NextEnd(seen, form.start, x, d) : d \in {-1, 1}},
             {y \in x - VisibleRange .. x + VisibleRange : ~EndReserved(seen, form.start, y)},
             {EndHalf(x, half) : half \in {0, 1}})

(* The wheel of the repetitions: a step, or an option on show.             *)
RepeatPicker(n) ==
  LET i == CHOOSE k \in DOMAIN Repeats : Repeats[k] = n
  IN  {Repeats[k] : k \in DOMAIN Repeats \cap (i - VisibleRepeats .. i + VisibleRepeats)}

SelectStartTime ==
  /\ StartTimePanel
  /\ \E x \in StartChoices(draft.start) \cap Slots : draft' = [draft EXCEPT !.start = x]
  /\ UNCHANGED <<seen, form, flow, closed>> /\ KeepCalls

SelectEndTime ==
  /\ EndTimePanel
  /\ \E x \in EndChoices(draft.end) \cap Slots : draft' = [draft EXCEPT !.end = x]
  /\ UNCHANGED <<seen, form, flow, closed>> /\ KeepCalls

SelectRepeat(n) ==
  /\ RepeatPanel /\ n \in RepeatPicker(draft.repeat)
  /\ draft' = [draft EXCEPT !.repeat = n]
  /\ UNCHANGED <<seen, form, flow, closed>> /\ KeepCalls

(* handleSelectStep: a step opens with the confirmed values as its draft.  *)
SelectStep(step) ==
  /\ Open /\ (isFlowCompleted \/ StepIndex(step) <= flow.done + 1)
  /\ draft' = form
  /\ flow' = [flow EXCEPT !.step = step, !.review = FALSE]
  /\ UNCHANGED <<seen, form, closed>> /\ KeepCalls

(* The button that opens the controls again keeps drafts and step.         *)
ExpandControls ==
  /\ ReviewPanel
  /\ flow' = [flow EXCEPT !.review = FALSE]
  /\ UNCHANGED <<seen, form, draft, closed>> /\ KeepCalls

(* completeStep and what follows it: a changed date or start is followed   *)
(* by the next step; otherwise a complete flow returns to the review.      *)
Completed(step, changed) ==
  LET i    == StepIndex(step)
      next == STEP_ORDER[i + 1]
  IN  [step   |-> IF isFlowCompleted /\ ~changed THEN flow.step ELSE next,
       done   |-> Max({flow.done, i}),
       review |-> isFlowCompleted /\ ~changed]

SubmitDate ==
  LET start == DefaultStart(draft.date)
      end   == DefaultEnd(start)
      set(v) == [v EXCEPT !.date = draft.date, !.start = start, !.end = end]
  IN  /\ DatePanel /\ SubmitButton /\ ~CalendarDayDisabled(draft.date)
      /\ Confirmed(set(form), set(draft))
      /\ flow' = Completed("date", draft.date # form.date)
      /\ UNCHANGED closed /\ KeepCalls

SubmitStartTime ==
  LET x     == IF StartOpen(seen, form.date, draft.start) THEN draft.start
               ELSE NextStart(seen, form.date, draft.start, 1)
      at    == OnItsDate(form.date, x)
      end   == DefaultEnd(at.start)
      set(v) == [v EXCEPT !.date = at.date, !.start = at.start, !.end = end]
  IN  /\ StartTimePanel /\ SubmitButton /\ at.date \in Days
      /\ Confirmed(set(form), set(draft))
      /\ flow' = Completed("startTime", at.start # form.start \/ at.date # form.date)
      /\ UNCHANGED closed /\ KeepCalls

SubmitEndTime ==
  /\ EndTimePanel /\ SubmitButton /\ ~EndReserved(seen, form.start, draft.end)
  /\ form' = [form EXCEPT !.end = draft.end]
  /\ flow' = Completed("endTime", FALSE)
  /\ UNCHANGED <<seen, draft, closed>> /\ KeepCalls

SubmitRepeat ==
  /\ RepeatPanel /\ SubmitButton
  /\ form' = [form EXCEPT !.repeat = draft.repeat]
  /\ flow' = Completed("repeat", FALSE)
  /\ UNCHANGED <<seen, draft, closed>> /\ KeepCalls

SubmitTeam ==
  /\ TeamPanel /\ SubmitButton
  /\ flow' = [flow EXCEPT !.done = Len(STEP_ORDER), !.review = TRUE]
  /\ UNCHANGED <<seen, form, draft, closed>> /\ KeepCalls

(***************************************************************************)
(* The review: a repetition is checked first, and created at once when the *)
(* check found no conflict.  The requests carry the values of the moment   *)
(* the button was pressed.                                                 *)
(***************************************************************************)
BugSubmitNotBusy(kind) ==
  calls' = calls \cup {[kind |-> kind, body |-> form]} /\ busy' = FALSE

Send(kind) == calls' = calls \cup {[kind |-> kind, body |-> form]} /\ busy' = TRUE

SubmitReview ==
  /\ ReviewPanel /\ SubmitButton
  /\ Send(IF form.repeat > 0 THEN "check" ELSE "create")
  /\ UNCHANGED <<seen, form, draft, flow, notice, closed>>

CheckAnswered(call, conflicts) ==
  /\ call \in calls /\ call.kind = "check"
  /\ IF conflicts
     THEN /\ notice' = [open |-> TRUE, checked |-> FALSE]
          /\ calls' = calls \ {call} /\ busy' = FALSE
     ELSE /\ calls' = (calls \ {call}) \cup {[call EXCEPT !.kind = "create"]}
          /\ UNCHANGED <<notice, busy>>
  /\ UNCHANGED <<seen, form, draft, flow, closed>>

CallFailed(call) ==
  /\ call \in calls /\ calls' = calls \ {call} /\ busy' = FALSE
  /\ UNCHANGED <<seen, form, draft, flow, notice, closed>>

(* The reservation exists: the page leaves for its detail page.            *)
Created(call) ==
  /\ call \in calls /\ call.kind = "create"
  /\ calls' = calls \ {call} /\ busy' = FALSE
  /\ flow' = [flow EXCEPT !.step = "left"]
  /\ UNCHANGED <<seen, form, draft, notice, closed>>

CheckNotice ==
  /\ RepeatNotice /\ notice' = [notice EXCEPT !.checked = ~@]
  /\ UNCHANGED <<seen, form, draft, flow, calls, busy, closed>>

CloseNotice ==
  /\ RepeatNotice /\ notice' = [open |-> FALSE, checked |-> FALSE]
  /\ UNCHANGED <<seen, form, draft, flow, calls, busy, closed>>

(* handleConfirmRepeatReservation sends the values confirmed by now.       *)
ConfirmNotice ==
  /\ RepeatNotice /\ notice.checked
  /\ notice' = [notice EXCEPT !.open = FALSE]
  /\ Send("create")
  /\ UNCHANGED <<seen, form, draft, flow, closed>>

(* onBack: the page is left; a request on its way is not called back.      *)
Back ==
  /\ Open
  /\ flow' = [flow EXCEPT !.step = "left"]
  /\ UNCHANGED <<seen, closed, form, draft>> /\ KeepCalls

Next ==
  \/ \E s \in Schedules : DayArrives(s)
  \/ \E off \in SUBSET ClosableDays : MonthArrives(off)
  \/ ExpandControls \/ Back
  \/ \E d \in Days : SelectCalendarDay(d)
  \/ SelectStartTime \/ SelectEndTime
  \/ \E n \in RepeatValues : SelectRepeat(n)
  \/ \E step \in Steps : SelectStep(step)
  \/ SubmitDate \/ SubmitStartTime \/ SubmitEndTime \/ SubmitRepeat \/ SubmitTeam
  \/ SubmitReview \/ CheckNotice \/ CloseNotice \/ ConfirmNotice
  \/ \E c \in calls : CallFailed(c) \/ Created(c)
                      \/ \E conflicts \in BOOLEAN : CheckAnswered(c, conflicts)

Spec == Init /\ [][Next]_applyVars

(***************************************************************************)
(* The confirmed window never ends before it starts, and once the schedule *)
(* is loaded it lies in one operating window of the room, whatever the     *)
(* order of answers, changes of the schedule and steps done again.  While  *)
(* the room is inactive no slot is open, the other half of the day can be  *)
(* chosen all the same, and the hours are kept again only by the schedule  *)
(* that shows the room as active.                                          *)
(***************************************************************************)
WindowFits ==
  /\ form.start < form.end
  /\ seen # Loading /\ seen.active =>
       ~OutsideOperatingHours(seen.hours, form.start, form.end)

(***************************************************************************)
(* Between a review, the check of a repetition, its notice and the steps   *)
(* that stay usable meanwhile, at most one request is on its way, and it   *)
(* is sent only once every step has been confirmed.                        *)
(***************************************************************************)
OneReservationAtATime ==
  /\ Cardinality(calls) <= 1
  /\ calls # {} => isFlowCompleted
==============================================================================
