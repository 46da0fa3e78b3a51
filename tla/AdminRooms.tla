------------------------------ MODULE AdminRooms ------------------------------
(***************************************************************************)
(* The room panel of the back office                                       *)
(* (src/FE_ADMIN/src/components/admin/rooms/AdminRoomPanel.tsx): rooms and  *)
(* day-offs in two tabs, a stack of views for their details, forms and     *)
(* typed confirmations, and the two steps of a day-off: a check of what it *)
(* would cancel, and its creation.                                         *)
(*                                                                         *)
(* Rooms are saved and deleted without waiting for the server; no button   *)
(* is disabled while a request is on its way.                              *)
(***************************************************************************)
EXTENDS Integers, Sequences, FiniteSets, FiniteSetsExt, SequencesExt

CONSTANTS
  Rooms,      (* the rooms there may be *)
  Founded,    (* those there are at first *)
  OffIds,     (* the day-offs there may be; the first one stands at first *)
  Bookings,   (* [ids -> room, date, slot] of what users have booked *)
  Dates,      (* the dates of the picker: 1, 2, ...; 1 is today *)
  LastSlot,   (* the slots of a day: 0 .. LastSlot *)
  MaxCalls,   (* bound: requests on their way at once *)
  MaxMoves    (* bound: what the admin does *)

VARIABLES
  studio,     (* the rooms on the server: [open, hours] or none *)
  offs,       (* the day-offs on the server: id -> draft, or none *)
  canceled,   (* the bookings that day-offs and deleted rooms have canceled *)
  roomRows,   (* rooms *)
  offRows,    (* daysOff, by id *)
  opening,    (* the two loads of the panel that have not answered *)
  roomTab,    (* activeTab *)
  path,       (* viewStack *)
  entry,      (* the state of the screen on top *)
  roomCalls,  (* the requests on their way *)
  moves

roomVars == <<studio, offs, canceled, roomRows, offRows, opening, roomTab, path,
              entry, roomCalls, moves>>

All       == 0
NoRoom    == [known |-> FALSE]
Room(active, hours) == [known |-> TRUE, active |-> active, hours |-> hours]
NoOff     == [type |-> "none"]
Free      == [kind |-> "free"]
Unasked   == {-1}
NoEntry   == [on |-> "none"]
Kinds     == {"maintenance", "vacation"}
Hours     == {"old", "new"}

(***************************************************************************)
(* A day-off: a whole period of dates, or some slots of one date.          *)
(***************************************************************************)
defaultDayOffDraft ==
  [room |-> All, type |-> "maintenance", date |-> 1, endDate |-> 1, allDay |-> FALSE,
   start |-> 0, end |-> LastSlot + 1]

(* toDayOffRequest: what of the draft is sent.  Day-offs of whole days have *)
(* no times, and only a vacation has an end date of its own.               *)
toDayOffRequest(d) ==
  LET whole == d.type = "vacation" \/ d.allDay
  IN  [room |-> d.room, type |-> d.type, date |-> d.date,
       endDate |-> IF d.type = "vacation" THEN d.endDate ELSE d.date,
       start |-> IF whole THEN 0 ELSE d.start, end |-> IF whole THEN LastSlot + 1 ELSE d.end]

Covers(q, b) ==
  /\ q.room \in {All, Bookings[b].room}
  /\ q.date <= Bookings[b].date /\ Bookings[b].date <= q.endDate
  /\ q.start <= Bookings[b].slot /\ Bookings[b].slot < q.end

(* The server's conflict check.                                            *)
Conflicts(q) == {b \in DOMAIN Bookings : b \notin canceled /\ Covers(q, b)}

(***************************************************************************)
(* Views.                                                                  *)
(***************************************************************************)
View(name, arg) == [name |-> name, arg |-> arg]
List   == <<View("list", 0)>>
Top    == Last(path)
Gone   == <<View("gone", 0)>>      (* a reservation was opened in its own panel *)
Here   == path # Gone

(* The row a view needs; without it nothing is on the screen.              *)
RoomViews == {"room-detail", "room-edit", "room-delete"}
OffViews  == {"dayoff-detail", "dayoff-delete"}
On(name) == /\ Here /\ Top.name = name
            /\ name \in RoomViews => roomRows[Top.arg] # NoRoom
            /\ name \in OffViews  => offRows[Top.arg] # NoOff

Mounted(v) ==
  CASE v.name = "room-edit" -> [on |-> "room", hours |-> roomRows[v.arg].hours, active |-> roomRows[v.arg].active]
    [] v.name = "room-create" -> [on |-> "room", hours |-> "old", active |-> TRUE]
    [] v.name \in {"room-delete", "dayoff-delete"} -> [on |-> "confirm", typed |-> FALSE]
    [] v.name = "dayoff-create" -> [on |-> "dayoff", draft |-> defaultDayOffDraft]
    [] OTHER -> NoEntry

Goto(stack) == path' = stack /\ entry' = IF Last(stack) = Top THEN entry ELSE Mounted(Last(stack))
Back == IF Len(path) > 1 THEN Front(path) ELSE List

KeepServer == UNCHANGED <<studio, offs, canceled>>
KeepRows   == UNCHANGED <<roomRows, offRows, opening>>

navigate(name, arg) ==
  /\ Goto(Append(path, View(name, arg)))
  /\ UNCHANGED <<roomTab, roomCalls>> /\ KeepServer /\ KeepRows

goBack == /\ Here /\ Top.name # "list" /\ (Top.name \in RoomViews => On(Top.name))
          /\ Goto(Back) /\ UNCHANGED <<roomTab, roomCalls>> /\ KeepServer /\ KeepRows

SelectTab(t) ==
  /\ On("list") /\ roomTab # t /\ roomTab' = t
  /\ UNCHANGED <<path, entry, roomCalls>> /\ KeepServer /\ KeepRows

ListOn(t) == On("list") /\ opening = {} /\ roomTab = t
activeRooms == {r \in Rooms : roomRows[r] # NoRoom /\ roomRows[r].active}

RoomList(r)   == ListOn("rooms") /\ r \in activeRooms /\ navigate("room-detail", r)
DayOffList(i) == ListOn("daysOff") /\ offRows[i] # NoOff /\ navigate("dayoff-detail", i)

OpenForm ==
  \/ ListOn("rooms") /\ navigate("room-create", 0)
  \/ On("list") /\ navigate("dayoff-create", 0)

DayOffDetailScreen == On("dayoff-detail") /\ navigate("dayoff-delete", Top.arg)

RoomDetailScreen ==
  \/ On("room-detail") /\ navigate("room-edit", Top.arg)
  \/ On("room-detail") /\ roomRows[Top.arg].active /\ navigate("room-delete", Top.arg)
  \/ /\ On("room-detail") /\ roomTab' = "daysOff" /\ Goto(List)
     /\ UNCHANGED roomCalls /\ KeepServer /\ KeepRows

(***************************************************************************)
(* Requests take the first place that is free.                             *)
(***************************************************************************)
CanSend   == \E k \in DOMAIN roomCalls : roomCalls[k] = Free
Sent(req) == [roomCalls EXCEPT ![Min({k \in DOMAIN roomCalls : roomCalls[k] = Free})] = req]
Answered(k) == [roomCalls EXCEPT ![k] = Free]

Standing == [i \in OffIds |-> IF i = 1 THEN toDayOffRequest([defaultDayOffDraft EXCEPT !.date = Max(Dates)])
                              ELSE NoOff]

Init ==
  /\ studio = [r \in Rooms |-> IF r \in Founded THEN Room(TRUE, "old") ELSE NoRoom]
  /\ offs = Standing /\ canceled = {}
  /\ roomRows = [r \in Rooms |-> NoRoom] /\ offRows = [i \in OffIds |-> NoOff]
  /\ opening = {"rooms", "daysOff"} /\ roomTab = "rooms" /\ path = List /\ entry = NoEntry
  /\ roomCalls = [k \in 1 .. MaxCalls |-> Free] /\ moves = 0

RoomsArrive ==
  /\ Here /\ "rooms" \in opening /\ opening' = opening \ {"rooms"}
  /\ roomRows' \in {studio, roomRows}      (* or the load failed *)
  /\ UNCHANGED <<offRows, roomTab, path, entry, roomCalls>> /\ KeepServer

DayOffsArrive ==
  /\ Here /\ "daysOff" \in opening /\ opening' = opening \ {"daysOff"}
  /\ offRows' \in {offs, Standing, offRows}   (* now, at first, or failed *)
  /\ UNCHANGED <<roomRows, roomTab, path, entry, roomCalls>> /\ KeepServer

(***************************************************************************)
(* Rooms.                                                                  *)
(***************************************************************************)
Fill(e) == entry' = e /\ UNCHANGED <<roomTab, path, roomCalls>> /\ KeepServer /\ KeepRows

RoomFormScreen ==
  /\ On("room-edit") \/ On("room-create")
  /\ \/ \E h \in Hours : Fill([entry EXCEPT !.hours = h])
     \/ Fill([entry EXCEPT !.active = ~@])                   (* ToggleRow *)

toRoomRequest(e) == [hours |-> e.hours]

handleSaveRoom ==
  LET r == Top.arg
  IN  /\ On("room-edit") /\ CanSend
      /\ roomCalls' = Sent([kind |-> "save", room |-> r, data |-> toRoomRequest(entry)])
      /\ roomRows' = [roomRows EXCEPT ![r] = Room(entry.active, entry.hours)]
      /\ path' = <<View("list", 0), View("room-detail", r)>> /\ entry' = NoEntry
      /\ UNCHANGED <<offRows, opening, roomTab>> /\ KeepServer

SubmitRoom ==
  /\ On("room-create") /\ CanSend
  /\ roomCalls' = Sent([kind |-> "add", data |-> toRoomRequest(entry), room |-> 0])
  /\ UNCHANGED <<roomTab, path, entry>> /\ KeepServer /\ KeepRows

handleCreateRoom(k) ==
  LET r == roomCalls[k].room
  IN  /\ Here /\ roomCalls[k].kind = "add" /\ r # 0
      /\ roomRows' = [roomRows EXCEPT ![r] = Room(TRUE, roomCalls[k].data.hours)]
      /\ roomTab' = "rooms" /\ path' = <<View("list", 0), View("room-detail", r)>> /\ entry' = NoEntry
      /\ roomCalls' = Answered(k) /\ UNCHANGED <<offRows, opening>> /\ KeepServer

(* RoomDeleteScreen and DayOffDeleteScreen: a dialog asks for a sentence,  *)
(* and forgets it when it is closed.                                       *)
RoomDeleteScreen ==
  /\ On("room-delete") \/ On("dayoff-delete")
  /\ Fill([entry EXCEPT !.typed = ~@])

ConfirmDeleteRoom ==
  /\ On("room-delete") /\ entry.typed /\ CanSend
  /\ roomCalls' = Sent([kind |-> "remove", room |-> Top.arg])
  /\ roomRows' = [roomRows EXCEPT ![Top.arg].active = FALSE]
  /\ Goto(List) /\ UNCHANGED <<offRows, opening, roomTab>> /\ KeepServer

(***************************************************************************)
(* Day-offs.                                                               *)
(***************************************************************************)
StartingAt(d, s) == [d EXCEPT !.start = s, !.end = IF @ <= s THEN s + 1 ELSE @]

Edited(d) ==
  {[d EXCEPT !.room = r] : r \in activeRooms \cup {All}} \cup
  {[d EXCEPT !.type = t] : t \in Kinds} \cup {[d EXCEPT !.date = x] : x \in Dates} \cup
  (IF d.type = "vacation" THEN {[d EXCEPT !.endDate = x] : x \in Dates}
   ELSE {[d EXCEPT !.allDay = ~@]} \cup
        IF d.allDay THEN {}
        ELSE {StartingAt(d, s) : s \in 0 .. LastSlot} \cup       (* handleStartTimeChange *)
             {[d EXCEPT !.end = e] : e \in d.start + 1 .. LastSlot + 1})

DayOffCreateScreen(d) ==
  /\ On("dayoff-create") /\ d \in Edited(entry.draft) /\ d # entry.draft
  /\ Fill([entry EXCEPT !.draft = d])

CheckDayOff ==
  /\ On("dayoff-create") /\ CanSend
  /\ roomCalls' = Sent([kind |-> "check", draft |-> entry.draft, ids |-> Unasked])
  /\ UNCHANGED <<roomTab, path, entry>> /\ KeepServer /\ KeepRows

CreateCall(d, ids) == [kind |-> "create", draft |-> d, forced |-> ids, off |-> 0]

BugImpactOfTheForm(d) == IF entry.on = "dayoff" THEN entry.draft ELSE d

ImpactOf(d) == d

(* handleCheckDayOff goes on with what was checked: to the creation, or to *)
(* the list of what it cancels, on top of whatever is on the screen by now.*)
handleCheckDayOff(k) ==
  LET call == roomCalls[k]
  IN  /\ Here /\ call.kind = "check" /\ call.ids # Unasked
      /\ IF call.ids = {}
         THEN roomCalls' = [roomCalls EXCEPT ![k] = CreateCall(call.draft, {})] /\ UNCHANGED <<path, entry>>
         ELSE /\ Goto(Append(path, View("dayoff-impact", [draft |-> ImpactOf(call.draft), ids |-> call.ids])))
              /\ roomCalls' = Answered(k)
      /\ UNCHANGED roomTab /\ KeepServer /\ KeepRows

DayOffImpactScreen ==
  \/ /\ On("dayoff-impact") /\ CanSend
     /\ roomCalls' = Sent(CreateCall(Top.arg.draft, Top.arg.ids))
     /\ UNCHANGED <<roomTab, path, entry>> /\ KeepServer /\ KeepRows
  \/ /\ On("dayoff-impact") /\ path' = Gone /\ entry' = NoEntry     (* onOpenReservation *)
     /\ UNCHANGED <<roomTab, roomCalls>> /\ KeepServer /\ KeepRows

ShowDayOffs(k) == /\ roomTab' = "daysOff" /\ Goto(List) /\ roomCalls' = Answered(k)
                  /\ UNCHANGED <<roomRows, opening>> /\ KeepServer

handleConfirmDayOff(k) ==
  /\ Here /\ roomCalls[k].kind = "create" /\ roomCalls[k].off # 0
  /\ offRows' = [offRows EXCEPT ![roomCalls[k].off] = toDayOffRequest(roomCalls[k].draft)]
  /\ ShowDayOffs(k)

ConfirmDeleteDayOff ==
  /\ On("dayoff-delete") /\ entry.typed /\ CanSend
  /\ roomCalls' = Sent([kind |-> "drop", off |-> Top.arg, done |-> FALSE])
  /\ UNCHANGED <<roomTab, path, entry>> /\ KeepServer /\ KeepRows

handleDeleteDayOff(k) ==
  /\ Here /\ roomCalls[k].kind = "drop" /\ roomCalls[k].done
  /\ offRows' = [offRows EXCEPT ![roomCalls[k].off] = NoOff]
  /\ ShowDayOffs(k)

(***************************************************************************)
(* The server.  A request it refuses, or an answer that is lost, ends      *)
(* without a word on the screen.                                           *)
(***************************************************************************)
Waits == UNCHANGED <<roomTab, path, entry>> /\ KeepRows

Refused(k) ==
  /\ Here /\ roomCalls[k] # Free /\ roomCalls' = Answered(k) /\ KeepServer /\ Waits

RoomServed(k) ==
  LET call == roomCalls[k]
  IN  /\ Here
      /\ \/ /\ call.kind = "save" /\ studio' = [studio EXCEPT ![call.room].hours = call.data.hours]
            /\ UNCHANGED canceled /\ roomCalls' = Answered(k)
         \/ /\ call.kind = "remove" /\ studio' = [studio EXCEPT ![call.room].active = FALSE]
            /\ canceled' = canceled \cup {b \in DOMAIN Bookings : Bookings[b].room = call.room}
            /\ roomCalls' = Answered(k)
         \/ /\ call.kind = "add" /\ call.room = 0
            /\ \E r \in Rooms : /\ studio[r] = NoRoom
                                /\ studio' = [studio EXCEPT ![r] = Room(TRUE, call.data.hours)]
                                /\ roomCalls' = [roomCalls EXCEPT ![k].room = r]
            /\ UNCHANGED canceled
      /\ UNCHANGED offs /\ Waits

DayOffServed(k) ==
  LET call == roomCalls[k]
      q    == toDayOffRequest(call.draft)
  IN  /\ Here
      /\ \/ /\ call.kind = "check" /\ call.ids = Unasked
            /\ roomCalls' = [roomCalls EXCEPT ![k].ids = Conflicts(q)] /\ UNCHANGED <<offs, canceled>>
         \/ /\ call.kind = "create" /\ call.off = 0 /\ Conflicts(q) \subseteq call.forced
            /\ canceled' = canceled \cup call.forced
            /\ \E i \in OffIds : /\ offs[i] = NoOff /\ offs' = [offs EXCEPT ![i] = q]
                                 /\ roomCalls' = [roomCalls EXCEPT ![k].off = i]
         \/ /\ call.kind = "drop" /\ ~call.done /\ offs[call.off] # NoOff
            /\ offs' = [offs EXCEPT ![call.off] = NoOff] /\ UNCHANGED canceled
            /\ roomCalls' = [roomCalls EXCEPT ![k].done = TRUE]
      /\ UNCHANGED studio /\ Waits

AdminActs ==
  \/ \E t \in {"rooms", "daysOff"} : SelectTab(t)
  \/ \E r \in Rooms : RoomList(r)
  \/ \E i \in OffIds : DayOffList(i)
  \/ OpenForm \/ goBack \/ DayOffDetailScreen \/ RoomDetailScreen
  \/ RoomFormScreen \/ handleSaveRoom \/ SubmitRoom
  \/ RoomDeleteScreen \/ ConfirmDeleteRoom \/ ConfirmDeleteDayOff
  \/ (entry.on = "dayoff" /\ \E d \in Edited(entry.draft) : DayOffCreateScreen(d))
  \/ CheckDayOff \/ DayOffImpactScreen

Answers ==
  \/ RoomsArrive \/ DayOffsArrive
  \/ \E k \in DOMAIN roomCalls :
       \/ handleCreateRoom(k) \/ handleCheckDayOff(k) \/ handleConfirmDayOff(k) \/ handleDeleteDayOff(k)
       \/ Refused(k) \/ RoomServed(k) \/ DayOffServed(k)

Next ==
  \/ AdminActs /\ moves < MaxMoves /\ moves' = moves + 1
  \/ Answers /\ UNCHANGED moves

Spec == Init /\ [][Next]_roomVars

TypeOK ==
  /\ \A r \in Rooms : roomRows[r] = NoRoom \/ roomRows[r].hours \in Hours
  /\ canceled \subseteq DOMAIN Bookings /\ opening \subseteq {"rooms", "daysOff"}
  /\ roomTab \in {"rooms", "daysOff"} /\ path # <<>> /\ DOMAIN roomCalls = 1 .. MaxCalls

(***************************************************************************)
(* What the creation of a day-off cancels is what that very day-off covers *)
(* in its rooms, dates and hours, although the draft can be changed and    *)
(* checked again between the check and the confirmation; and its hours run *)
(* forwards.                                                               *)
(***************************************************************************)
DayOffCancelsItsOwn ==
  \A k \in DOMAIN roomCalls : roomCalls[k].kind = "create" =>
    LET q == toDayOffRequest(roomCalls[k].draft)
    IN  q.start < q.end /\ \A b \in roomCalls[k].forced : Covers(q, b)
==============================================================================
