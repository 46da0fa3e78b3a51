-------------------------------- MODULE Screens -------------------------------
(***************************************************************************)
(* The pages of the two web clients, side by side.  A browser shows one    *)
(* page at a time: screen says which, and only its variables are in use.   *)
(* A page that is left is unmounted, so each starts from its own first     *)
(* state.  The constants are those of the pages' modules, where they are   *)
(* described; a name that two modules give to different things is renamed. *)
(***************************************************************************)
EXTENDS ClientTime

CONSTANTS
  Days, ClosableDays, PresentTime, InitialStart, DefaultDuration, Horizon, Reach, SlotBound, Schedules,
  VisibleRange, Repeats, VisibleRepeats,                    (* ApplyWizard *)
  Weeks, Undecided, MaxTime, MaxLoads,                      (* ReservationDetail *)
  Booked, TeamOf, ListSize, MaxAsks, ListMoves,             (* ReservationList *)
  Members, Leader, Strangers, Colors, MaxWrites, TeamMoves, (* TeamPages *)
  Nicks, MaxInfos, NickMoves,                               (* Profile *)
  NewId, Series, RepeatDates, Window, Narrow, OpenTime, LastStart, LastEnd,
  MaxActs,                                                  (* AdminReservations *)
  Teams, Users, Admin, MaxDepth, MaxSaves, CrewMoves,       (* AdminTeams *)
  Found, MaxFetches, PeopleMoves,                           (* AdminUsers *)
  StudioRooms, Founded, OffIds, BookedSlots, OffDates, LastSlot, RoomMoves, (* AdminRooms *)
  Ids, PageSize, MaxCalls                                   (* of two modules each *)

VARIABLES
  screen,
  moves,     (* of the pages whose users are bounded *)
  seen, closed, form, draft, flow, notice, calls, busy,
  server, clock, openedAt, isRepeat, rounds, picked, modal, loads, cancels,
  refreshing, where,
  standing, chosen, drafting, sheetOpen, kept, asks, pulling, at,
  team, shown, load, invalid, broken, acked, settled, teamPage, editMode,
  removing, invite, palette, heir, writes,
  account, others, stored, nickname, checkStatus, checking, submitting,
  infos, checkedName, renamed, ownPage, icsUrl, isChecked,
  db, rows, totals, more, pages, tab, filter, loading, selected, external,
  adding, net, acts,
  base, teamRows, teamCache, spinning, crewCalls, teamCall, listing, trail,
  sheet, saves, lapsed,
  blockedIds, input, asking, listed, pageNo, hasNext, fetching, fetches,
  tabOpen, looking, normalTotal, sends, orderly,
  studio, offs, canceled, roomRows, offRows, opening, roomTab, path, entry,
  roomCalls

ApplyVars == <<seen, closed, form, draft, flow, notice, calls, busy>>
DetailVars == <<server, clock, openedAt, isRepeat, rounds, picked, modal,
               loads, cancels, refreshing, where>>
ListVars == <<standing, chosen, drafting, sheetOpen, kept, asks, pulling,
             at>>
TeamVars == <<team, shown, load, invalid, broken, acked, settled, teamPage,
             editMode, removing, invite, palette, heir, writes>>
OwnVars == <<account, others, stored, nickname, checkStatus, checking,
           submitting, infos, checkedName, renamed, ownPage, icsUrl,
           isChecked>>
PanelVars == <<db, rows, totals, more, pages, tab, filter, loading,
              selected, external, adding, net, acts>>
CrewsVars == <<base, teamRows, teamCache, spinning, crewCalls, teamCall,
              listing, trail, sheet, saves, lapsed>>
PeopleVars == <<blockedIds, input, asking, listed, pageNo, hasNext,
               fetching, fetches, tabOpen, looking, normalTotal, sends,
               orderly>>
StudioVars == <<studio, offs, canceled, roomRows, offRows, opening, roomTab,
              path, entry, roomCalls>>

vars == <<screen, moves, ApplyVars, DetailVars, ListVars, TeamVars, OwnVars, PanelVars,
            CrewsVars, PeopleVars, StudioVars>>

Apply  == INSTANCE ApplyWizard WITH Now <- PresentTime
Detail == INSTANCE ReservationDetail
List   == INSTANCE ReservationList WITH MaxMoves <- ListMoves
Team   == INSTANCE TeamPages WITH Users <- Members, Me <- Leader, MaxMoves <- TeamMoves
Own    == INSTANCE Profile WITH MaxMoves <- NickMoves
Panel  == INSTANCE AdminReservations WITH Dates <- RepeatDates
Crews  == INSTANCE AdminTeams WITH MaxMoves <- CrewMoves
People == INSTANCE AdminUsers WITH MaxMoves <- PeopleMoves
Studio == INSTANCE AdminRooms WITH Rooms <- StudioRooms, Bookings <- BookedSlots, Dates <- OffDates,
                                     MaxMoves <- RoomMoves

(***************************************************************************)
(* What the pages rely on: what the wizard does, the weeks of a repetition *)
(* counted from the first, colors and users numbered by the server, a      *)
(* finite number of them, and rooms that close after they open.            *)
(***************************************************************************)
ASSUME ScreensAssumption ==
  /\ Apply!WizardAssumption
  /\ MaxTime \in Nat /\ \E n \in Weeks : n \in Nat /\ Weeks = 1 .. n
  /\ Members \subseteq Nat /\ Leader \in Members
  /\ Colors \subseteq Nat /\ Colors # {}
  /\ IsFiniteSet(Ids) /\ LastSlot \in Nat
  /\ NewId \in Ids /\ MaxActs \in Nat /\ LastEnd \in Nat /\ MaxDepth \in Nat \ {0}
  /\ \A room \in DOMAIN OpenTime : OpenTime[room] \in Nat /\ OpenTime[room] < LastEnd

Off == "off"
ApplyOff == /\ seen = Off /\ closed = Off /\ form = Off /\ draft = Off /\ flow = Off
            /\ notice = Off /\ calls = Off /\ busy = Off
DetailOff == /\ server = Off /\ clock = Off /\ openedAt = Off /\ isRepeat = Off /\ rounds = Off
             /\ picked = Off /\ modal = Off /\ loads = Off /\ cancels = Off /\ refreshing = Off
             /\ where = Off
ListOff == /\ standing = Off /\ chosen = Off /\ drafting = Off /\ sheetOpen = Off /\ kept = Off
           /\ asks = Off /\ pulling = Off /\ at = Off
TeamOff == /\ team = Off /\ shown = Off /\ load = Off /\ invalid = Off /\ broken = Off
           /\ acked = Off /\ settled = Off /\ teamPage = Off /\ editMode = Off /\ removing = Off
           /\ invite = Off /\ palette = Off /\ heir = Off /\ writes = Off
OwnOff == /\ account = Off /\ others = Off /\ stored = Off /\ nickname = Off /\ checkStatus = Off
         /\ checking = Off /\ submitting = Off /\ infos = Off /\ checkedName = Off /\ renamed = Off
         /\ ownPage = Off /\ icsUrl = Off /\ isChecked = Off
PanelOff == /\ db = Off /\ rows = Off /\ totals = Off /\ more = Off /\ pages = Off
            /\ tab = Off /\ filter = Off /\ loading = Off /\ selected = Off /\ external = Off
            /\ adding = Off /\ net = Off /\ acts = Off
CrewsOff == /\ base = Off /\ teamRows = Off /\ teamCache = Off /\ spinning = Off /\ crewCalls = Off
            /\ teamCall = Off /\ listing = Off /\ trail = Off /\ sheet = Off /\ saves = Off
            /\ lapsed = Off
PeopleOff == /\ blockedIds = Off /\ input = Off /\ asking = Off /\ listed = Off /\ pageNo = Off
             /\ hasNext = Off /\ fetching = Off /\ fetches = Off /\ tabOpen = Off /\ looking = Off
             /\ normalTotal = Off /\ sends = Off /\ orderly = Off
StudioOff == /\ studio = Off /\ offs = Off /\ canceled = Off /\ roomRows = Off /\ offRows = Off
            /\ opening = Off /\ roomTab = Off /\ path = Off /\ entry = Off /\ roomCalls = Off

Init ==
  \/ /\ screen = "apply" /\ Apply!Init /\ moves = Off
     /\ DetailOff /\ ListOff /\ TeamOff /\ OwnOff /\ PanelOff /\ CrewsOff /\ PeopleOff /\ StudioOff
  \/ /\ screen = "detail" /\ Detail!Init /\ moves = Off
     /\ ApplyOff /\ ListOff /\ TeamOff /\ OwnOff /\ PanelOff /\ CrewsOff /\ PeopleOff /\ StudioOff
  \/ /\ screen = "list" /\ List!Init
     /\ ApplyOff /\ DetailOff /\ TeamOff /\ OwnOff /\ PanelOff /\ CrewsOff /\ PeopleOff /\ StudioOff
  \/ /\ screen = "team" /\ Team!Init
     /\ ApplyOff /\ DetailOff /\ ListOff /\ OwnOff /\ PanelOff /\ CrewsOff /\ PeopleOff /\ StudioOff
  \/ /\ screen = "profile" /\ Own!Init
     /\ ApplyOff /\ DetailOff /\ ListOff /\ TeamOff /\ PanelOff /\ CrewsOff /\ PeopleOff /\ StudioOff
  \/ /\ screen = "reservations" /\ Panel!Init /\ moves = Off
     /\ ApplyOff /\ DetailOff /\ ListOff /\ TeamOff /\ OwnOff /\ CrewsOff /\ PeopleOff /\ StudioOff
  \/ /\ screen = "teams" /\ Crews!Init
     /\ ApplyOff /\ DetailOff /\ ListOff /\ TeamOff /\ OwnOff /\ PanelOff /\ PeopleOff /\ StudioOff
  \/ /\ screen = "users" /\ People!Init
     /\ ApplyOff /\ DetailOff /\ ListOff /\ TeamOff /\ OwnOff /\ PanelOff /\ CrewsOff /\ StudioOff
  \/ /\ screen = "rooms" /\ Studio!Init
     /\ ApplyOff /\ DetailOff /\ ListOff /\ TeamOff /\ OwnOff /\ PanelOff /\ CrewsOff /\ PeopleOff


(* A step of the page on screen, which leaves the variables of the others. *)
On(page, Step, rest) == screen = page /\ Step /\ UNCHANGED <<screen, rest>>

NotApply == <<moves, DetailVars, ListVars, TeamVars, OwnVars, PanelVars,
               CrewsVars, PeopleVars, StudioVars>>
NotDetail == <<moves, ApplyVars, ListVars, TeamVars, OwnVars, PanelVars,
                CrewsVars, PeopleVars, StudioVars>>
NotList == <<ApplyVars, DetailVars, TeamVars, OwnVars, PanelVars,
              CrewsVars, PeopleVars, StudioVars>>
NotTeam == <<ApplyVars, DetailVars, ListVars, OwnVars, PanelVars,
              CrewsVars, PeopleVars, StudioVars>>
NotOwn == <<ApplyVars, DetailVars, ListVars, TeamVars, PanelVars,
            CrewsVars, PeopleVars, StudioVars>>
NotPanel == <<moves, ApplyVars, DetailVars, ListVars, TeamVars, OwnVars,
               CrewsVars, PeopleVars, StudioVars>>
NotCrews == <<ApplyVars, DetailVars, ListVars, TeamVars, OwnVars,
               PanelVars, PeopleVars, StudioVars>>
NotPeople == <<ApplyVars, DetailVars, ListVars, TeamVars, OwnVars,
                PanelVars, CrewsVars, StudioVars>>
NotStudio == <<ApplyVars, DetailVars, ListVars, TeamVars, OwnVars,
               PanelVars, CrewsVars, PeopleVars>>

Next ==
  \/ On("apply", Apply!Next, NotApply)
  \/ On("detail", Detail!Next, NotDetail)
  \/ On("list", List!Next, NotList)
  \/ On("team", Team!Next, NotTeam)
  \/ On("profile", Own!Next, NotOwn)
  \/ On("reservations", Panel!Next, NotPanel)
  \/ On("teams", Crews!Next, NotCrews)
  \/ On("users", People!Next, NotPeople)
  \/ On("rooms", Studio!Next, NotStudio)

Spec == Init /\ [][Next]_vars

(* The panel of the reservations asks again by its timer, and its requests *)
(* are answered or fail.                                                   *)
FairSpec ==
  /\ Spec
  /\ WF_vars(On("reservations", Panel!Poll, NotPanel))
  /\ \A k \in {1, 2} : WF_vars(On("reservations", Panel!CallGoesOn(k), NotPanel))

(***************************************************************************)
(* Every page keeps its type invariant.                                    *)
(***************************************************************************)
TypeOK ==
  /\ screen = "apply" => Apply!TypeOK
  /\ screen = "detail" => Detail!TypeOK
  /\ screen = "list" => List!TypeOK
  /\ screen = "team" => Team!TypeOK
  /\ screen = "profile" => Own!TypeOK
  /\ screen = "reservations" => Panel!TypeOK
  /\ screen = "teams" => Crews!TypeOK
  /\ screen = "users" => People!TypeOK
  /\ screen = "rooms" => Studio!TypeOK

(* The window chosen lies in one operating window of an active room's day. *)
WindowFits == screen = "apply" => Apply!WindowFits

(* One request for a reservation is on its way at most, of a finished form.*)
OneReservationAtATime == screen = "apply" => Apply!OneReservationAtATime

(* A round of a repetition keeps its number and its date on every load.    *)
RoundStaysPut == screen = "detail" => Detail!RoundStaysPut

(* A round that can still be canceled is shown as a live one.              *)
HeadingAgrees == screen = "detail" => Detail!HeadingAgrees

(* The rows of the list are of the tab, status and team on show.           *)
ShowsWhatIsChosen == screen = "list" => List!ShowsWhatIsChosen

(* A nickname is confirmed on the verdict of its own check only.           *)
CheckedIsTyped == screen = "team" => Team!CheckedIsTyped

(* The team shows what its leader was told had been changed.               *)
ShownKeepsUp == screen = "team" => Team!ShownKeepsUp

(* The nickname that can be submitted is the one that was checked.         *)
SavedWasChecked == screen = "profile" => Own!SavedWasChecked

(* A forced creation cancels what stands in its own way only.              *)
CancelsWhatIsInTheWay == screen = "reservations" => Panel!CancelsWhatIsInTheWay

(* The members kept for a team are those of its last save.                 *)
MembersAsSaved == screen = "teams" => Crews!MembersAsSaved

(* Scrolling through users or teams leaves no page out.                    *)
PagesAddUp == screen = "users" => People!PagesAddUp

(* A day-off cancels what it covers only.                                  *)
DayOffCancelsItsOwn == screen = "rooms" => Studio!DayOffCancelsItsOwn

(* A canceled reservation is shown as canceled by the reload that follows. *)
ClosedWhenCancelled == [][screen = "detail" => Detail!CancelledIsShown]_vars

(* The panel's own refresh ends up showing what the server has, whatever   *)
(* came in the wrong order, failed or was refused before.                  *)
PollCatchesUp ==
  <>[](screen = "reservations" /\ Panel!LeftAlone) => <>[](screen = "reservations" => Panel!Fresh)
==============================================================================
