------------------------------ MODULE AdminTeams ------------------------------
(***************************************************************************)
(* The screens of the teams in the back office's user panel                *)
(* (src/FE_ADMIN/src/components/admin/users/AdminUserPanel.tsx): a stack   *)
(* of views, the rows of the teams, and a cache of the members of a team   *)
(* that is filled when a screen needs it and by what an admin saves, and   *)
(* is never loaded again.                                                  *)
(*                                                                         *)
(* A change of view or of the cache drops the answer of a load under way.  *)
(* Leaders, deletions and settings are sent and shown without waiting.     *)
(***************************************************************************)
EXTENDS Integers, Sequences, FiniteSets, SequencesExt

CONSTANTS
  Teams,      (* the teams there may be *)
  Users,      (* the users who may be members *)
  Admin,      (* the admin's own account: leader id 0 of the requests *)
  MaxDepth,   (* bound: views on the stack *)
  MaxSaves,   (* bound: writes on their way at once *)
  MaxMoves    (* bound: what the admin does *)

VARIABLES
  base,       (* the teams on the server *)
  teamRows,   (* teams, by id *)
  teamCache,  (* teamMemberCache *)
  spinning,   (* loadingTeamMemberIds *)
  crewCalls,  (* loadingTeamMemberIdSetRef: loads of members on their way *)
  teamCall,   (* the load of a team that is not listed *)
  listing,    (* loads of the list on their way: the filters they ask with *)
  trail,      (* viewStack *)
  sheet,      (* the state of the screen on top *)
  saves,      (* writes on their way *)
  lapsed,     (* history: teams of which writes overlapped or were lost *)
  moves

teamVars == <<base, teamRows, teamCache, spinning, crewCalls, teamCall, listing,
              trail, sheet, saves, lapsed, moves>>

People   == Users \cup {Admin}
NoTeam   == 0
NoCall   == [live |-> FALSE]
NoRow    == [leader |-> NoTeam]
NoCrew   == {}          (* a team has a leader, so that no list is empty *)
NoSheet  == [on |-> "none"]
Unborn   == [state |-> "none", leader |-> NoTeam, members |-> {}]

View(name, t) == [name |-> name, team |-> t]
List     == <<View("list", NoTeam)>>
Gone     == <<View("gone", NoTeam)>>      (* the admin was sent to another panel *)
TeamViews == {"team", "settings", "members", "leader", "delete"}
CrewViews == {"team", "leader", "delete"}

Top(stack) == IF stack = <<>> THEN View("list", NoTeam) ELSE Last(stack)
Here == trail # Gone

(* What a stack of views has on the screen: nothing until its team is known *)
Shown(stack, rows) ==
  IF Top(stack).name \in TeamViews /\ rows[Top(stack).team] = NoRow
  THEN View("blank", NoTeam) ELSE Top(stack)
On(name) == Here /\ Shown(trail, teamRows).name = name
OnTeam   == Top(trail).team

(* The state a screen starts with.                                         *)
Mounted(v, rows) ==
  CASE v.name = "members" -> [on |-> "members", loaded |-> FALSE, saving |-> FALSE,
                              chosen |-> NoCrew, seen |-> base[v.team]]
    [] v.name = "leader"  -> [on |-> "leader", chosen |-> rows[v.team].leader]
    [] v.name = "create"  -> [on |-> "create", chosen |-> NoTeam]
    [] OTHER -> NoSheet

(* getTeamMemberEditList *)
Asked(t) == [live |-> TRUE, seen |-> base[t].members]

(***************************************************************************)
(* A render: the screen on top, and the effects that load what it lacks.   *)
(* A load of members is started once per team and dropped by any change of *)
(* the view or of the cache; the load of a team likewise, by the rows.     *)
(***************************************************************************)
CrewEffect(stack, cache) ==
  LET v      == Top(stack)
      rerun  == stack # trail \/ cache # teamCache
      wanted == rerun /\ v.name \in CrewViews /\ cache[v.team] = NoCrew /\ crewCalls[v.team] = NoCall
  IN  /\ crewCalls' = [t \in Teams |->
                         IF wanted /\ t = v.team THEN Asked(t)
                         ELSE IF rerun /\ crewCalls[t] # NoCall THEN [crewCalls[t] EXCEPT !.live = FALSE]
                         ELSE crewCalls[t]]
      /\ spinning' = IF wanted THEN spinning \cup {v.team} ELSE spinning

TeamEffect(stack, rows) ==
  teamCall' = IF stack = trail /\ rows = teamRows THEN teamCall
              ELSE IF Top(stack).name \in TeamViews /\ rows[Top(stack).team] = NoRow
              THEN Top(stack).team ELSE NoTeam

Screen(stack, rows) ==
  /\ trail' = stack /\ teamRows' = rows
  /\ sheet' = IF Shown(stack, rows) = Shown(trail, teamRows) THEN sheet
              ELSE Mounted(Shown(stack, rows), rows)
  /\ TeamEffect(stack, rows)

Render(stack, rows, cache) ==
  Screen(stack, rows) /\ teamCache' = cache /\ CrewEffect(stack, cache)

KeepServer == UNCHANGED <<base, lapsed>>
KeepScreen == UNCHANGED <<teamRows, teamCache, spinning, crewCalls, teamCall, trail, sheet>>

(* A write is sent; two of one team at a time are remembered.              *)
Write(w) ==
  /\ Cardinality(saves) < MaxSaves /\ saves' = saves \cup {w}
  /\ lapsed' = IF \E s \in saves : s.team = w.team THEN lapsed \cup {w.team} ELSE lapsed

Init ==
  /\ base \in [Teams -> {Unborn} \cup [state : {"live"}, leader : Users, members : SUBSET Users]]
  /\ \A t \in Teams : base[t] = Unborn \/ base[t].leader \in base[t].members
  /\ teamRows = [t \in Teams |-> NoRow] /\ teamCache = [t \in Teams |-> NoCrew]
  /\ spinning = {} /\ crewCalls = [t \in Teams |-> NoCall] /\ teamCall = NoTeam
  /\ listing = {"all"} /\ trail = List
  /\ sheet = NoSheet /\ saves = {} /\ lapsed = {} /\ moves = 0

(***************************************************************************)
(* The list: each answer replaces the rows, by what it was asked with.     *)
(***************************************************************************)
Live(t) == base[t].state = "live"
Row(t)  == [leader |-> base[t].leader]

refreshTeams(f) ==      (* the search and the filter by leader *)
  /\ On("list") /\ f \notin listing /\ listing' = listing \cup {f}
  /\ UNCHANGED <<saves>> /\ KeepServer /\ KeepScreen

TeamsArrive(f) ==
  /\ Here /\ f \in listing /\ listing' = listing \ {f}
  /\ Render(trail, [t \in Teams |-> IF f = "all" /\ Live(t) THEN Row(t) ELSE NoRow], teamCache)
  /\ UNCHANGED saves /\ KeepServer

TeamArrives ==
  /\ Here /\ teamCall # NoTeam /\ Live(teamCall)
  /\ Render(trail, [teamRows EXCEPT ![teamCall] = Row(teamCall)], teamCache)
  /\ UNCHANGED <<listing, saves>> /\ KeepServer

TeamLoadFails ==
  /\ Here /\ teamCall # NoTeam /\ teamCall' = NoTeam
  /\ UNCHANGED <<teamRows, teamCache, spinning, crewCalls, listing, trail, sheet, saves>> /\ KeepServer

(***************************************************************************)
(* Views.                                                                  *)
(***************************************************************************)
Goto(stack) ==
  /\ Render(stack, teamRows, teamCache) /\ UNCHANGED <<listing, saves>> /\ KeepServer

navigate(name, t) == Len(trail) < MaxDepth /\ Goto(Append(trail, View(name, t)))

(* TeamList *)
SelectTeam(t) == On("list") /\ "all" \notin listing /\ teamRows[t] # NoRow /\ navigate("team", t)
OpenCreate    == On("list") /\ navigate("create", NoTeam)

(* TeamDetailScreen, TeamSettingsScreen *)
OpenFromTeam(name) ==
  /\ On("team") /\ name \in {"settings", "members", "leader", "delete", "user", "history"}
  /\ name = "user" => teamCache[OnTeam] # NoCrew /\ OnTeam \notin spinning
  /\ navigate(name, OnTeam)

OpenFromSettings == On("settings") /\ navigate("leader", OnTeam)

(* The detail of a member lists the teams of that member.                  *)
OpenFromUser == On("user") /\ teamRows[OnTeam] # NoRow /\ navigate("team", OnTeam)

(* goBack: the only view of a stack gives the panel up.                    *)
Previous(stack, deep) ==
  IF ~deep THEN Gone ELSE IF stack = <<>> THEN <<>> ELSE Front(stack)

goBack == Here /\ Shown(trail, teamRows).name \notin {"list", "blank"}
          /\ Goto(Previous(trail, Len(trail) > 1))

(***************************************************************************)
(* The members of a team.                                                  *)
(***************************************************************************)
BugCacheAnyAnswer(t, members) == [teamCache EXCEPT ![t] = members]

CacheAfter(t, members) ==
  IF crewCalls[t].live THEN [teamCache EXCEPT ![t] = members] ELSE teamCache

CrewArrives(t, members) ==
  /\ Here /\ crewCalls[t] # NoCall /\ Live(t) /\ members \in {crewCalls[t].seen, base[t].members}
  /\ teamCache' = CacheAfter(t, members)
  /\ crewCalls' = [crewCalls EXCEPT ![t] = NoCall]
  /\ spinning' = IF crewCalls[t].live THEN spinning \ {t} ELSE spinning
  /\ UNCHANGED <<teamRows, teamCall, listing, trail, sheet, saves>> /\ KeepServer

CrewLoadFails(t) ==
  /\ Here /\ crewCalls[t] # NoCall
  /\ crewCalls' = [crewCalls EXCEPT ![t] = NoCall]
  /\ spinning' = IF crewCalls[t].live THEN spinning \ {t} ELSE spinning
  /\ UNCHANGED <<teamRows, teamCache, teamCall, listing, trail, sheet, saves>> /\ KeepServer

KeepBehindSheet == UNCHANGED <<teamRows, teamCache, spinning, crewCalls, teamCall, listing, trail>>

(* AddMembersScreen loads the members for itself.                          *)
EditListArrives ==
  /\ On("members") /\ ~sheet.loaded
  /\ \E answer \in {sheet.seen, base[OnTeam]} :
       sheet' = [sheet EXCEPT !.loaded = TRUE, !.chosen = answer.members, !.seen = answer]
  /\ UNCHANGED saves /\ KeepBehindSheet /\ KeepServer

EditListFails ==  (* nobody is listed or selected, and that can be saved *)
  /\ On("members") /\ ~sheet.loaded /\ sheet' = [sheet EXCEPT !.loaded = TRUE]
  /\ UNCHANGED saves /\ KeepBehindSheet /\ KeepServer

Toggle(u) ==      (* the box of the leader, as listed, is disabled *)
  /\ On("members") /\ sheet.loaded /\ sheet.chosen # NoCrew /\ u # sheet.seen.leader
  /\ sheet' = [sheet EXCEPT !.chosen = IF u \in @ THEN @ \ {u} ELSE @ \cup {u}]
  /\ UNCHANGED saves /\ KeepBehindSheet /\ KeepServer

handleSave ==
  /\ On("members") /\ sheet.loaded /\ ~sheet.saving
  /\ sheet' = [sheet EXCEPT !.saving = TRUE]
  /\ Write([kind |-> "members", team |-> OnTeam, ids |-> sheet.chosen,
            deep |-> Len(trail) > 1, served |-> FALSE])
  /\ UNCHANGED base /\ KeepBehindSheet

(* The answer is shown and takes a view off the stack, whichever view the  *)
(* admin has gone to meanwhile.                                            *)
handleUpdateMembers(s) ==
  /\ Here /\ s.kind = "members" /\ s.served
  /\ Render(Previous(trail, s.deep), teamRows, [teamCache EXCEPT ![s.team] = s.ids])
  /\ saves' = saves \ {s} /\ UNCHANGED listing /\ KeepServer

(* A save that fails is reported; its screen may save again.               *)
SaveFails(s) ==
  /\ Here /\ s.kind = "members" /\ saves' = saves \ {s}
  /\ sheet' = IF sheet.on = "members" /\ OnTeam = s.team THEN [sheet EXCEPT !.saving = FALSE] ELSE sheet
  /\ lapsed' = lapsed \cup {s.team} /\ UNCHANGED base /\ KeepBehindSheet

(***************************************************************************)
(* The leader, the settings, creating and deleting a team.                 *)
(***************************************************************************)
ChooseLeader(u) ==
  /\ \/ On("leader") /\ (u \in teamCache[OnTeam] \/ u = Admin)   (* ChangeLeaderScreen *)
     \/ On("create")                                             (* CreateTeamScreen *)
  /\ sheet' = [sheet EXCEPT !.chosen = u]
  /\ UNCHANGED saves /\ KeepBehindSheet /\ KeepServer

handleChangeLeader ==
  /\ On("leader")
  /\ Render(Previous(trail, Len(trail) > 1), [teamRows EXCEPT ![OnTeam] = [leader |-> sheet.chosen]], teamCache)
  /\ Write([kind |-> "leader", team |-> OnTeam, leader |-> sheet.chosen])
  /\ UNCHANGED <<base, listing>>

handleSaveTeamSettings == On("settings") /\ Goto(Previous(trail, Len(trail) > 1))

DeleteTeamScreen == On("delete")

handleDeleteTeam ==
  /\ DeleteTeamScreen
  /\ Render(List, [teamRows EXCEPT ![OnTeam] = NoRow], [teamCache EXCEPT ![OnTeam] = NoCrew])
  /\ Write([kind |-> "delete", team |-> OnTeam])
  /\ UNCHANGED <<base, listing>>

SubmitTeam(t) ==
  /\ On("create") /\ sheet.chosen # NoTeam /\ base[t] = Unborn
  /\ Write([kind |-> "create", team |-> t, leader |-> sheet.chosen, served |-> FALSE])
  /\ UNCHANGED base /\ UNCHANGED listing /\ KeepScreen

handleCreateTeam(s) ==
  /\ Here /\ s.kind = "create" /\ s.served
  /\ Render(<<View("team", s.team)>>, [teamRows EXCEPT ![s.team] = [leader |-> s.leader]], teamCache)
  /\ saves' = saves \ {s} /\ UNCHANGED listing /\ KeepServer

(***************************************************************************)
(* The server answers a write, or refuses it; the screens that do not wait *)
(* never learn.                                                            *)
(***************************************************************************)
Allowed(s) ==
  CASE s.kind = "members" -> Live(s.team) /\ base[s.team].leader \in s.ids
    [] s.kind = "leader"  -> Live(s.team) /\ s.leader \in base[s.team].members \cup {Admin}
    [] s.kind = "delete"  -> Live(s.team)
    [] s.kind = "create"  -> base[s.team] = Unborn

Done(s) ==
  CASE s.kind = "members" -> [base[s.team] EXCEPT !.members = s.ids]
    [] s.kind = "leader"  -> [base[s.team] EXCEPT !.leader = s.leader, !.members = @ \cup {s.leader}]
    [] s.kind = "delete"  -> [base[s.team] EXCEPT !.state = "deleted"]
    [] s.kind = "create"  -> [state |-> "live", leader |-> s.leader, members |-> {s.leader}]

Awaited(s) == s.kind \in {"members", "create"}

WriteServed(s) ==
  /\ Here /\ Allowed(s) /\ (Awaited(s) => ~s.served)
  /\ base' = [base EXCEPT ![s.team] = Done(s)]
  /\ saves' = IF Awaited(s) THEN (saves \ {s}) \cup {[s EXCEPT !.served = TRUE]} ELSE saves \ {s}
  /\ UNCHANGED <<listing, lapsed>> /\ KeepScreen

WriteLost(s) ==
  /\ Here /\ s.kind # "members" /\ saves' = saves \ {s} /\ lapsed' = lapsed \cup {s.team}
  /\ UNCHANGED <<base, listing>> /\ KeepScreen

AdminActs ==
  \/ \E f \in {"all", "other"} : refreshTeams(f)
  \/ \E t \in Teams : SelectTeam(t) \/ SubmitTeam(t)
  \/ \E name \in {"settings", "members", "leader", "delete", "user", "history"} : OpenFromTeam(name)
  \/ OpenCreate \/ OpenFromSettings \/ OpenFromUser \/ goBack
  \/ \E u \in People : Toggle(u) \/ ChooseLeader(u)
  \/ handleSave \/ handleChangeLeader \/ handleSaveTeamSettings \/ handleDeleteTeam

Answers ==
  \/ \E f \in {"all", "other"} : TeamsArrive(f)
  \/ TeamArrives \/ TeamLoadFails
  \/ \E t \in Teams : CrewLoadFails(t) \/ \E m \in SUBSET People : CrewArrives(t, m)
  \/ EditListArrives \/ EditListFails
  \/ \E s \in saves : \/ handleUpdateMembers(s) \/ SaveFails(s) \/ handleCreateTeam(s)
                      \/ WriteServed(s) \/ WriteLost(s)

Next ==
  \/ AdminActs /\ moves < MaxMoves /\ moves' = moves + 1
  \/ Answers /\ UNCHANGED moves

Spec == Init /\ [][Next]_teamVars

TypeOK ==
  /\ \A t \in Teams : /\ base[t].state \in {"none", "live", "deleted"} /\ base[t].members \subseteq People
                      /\ teamCache[t] \subseteq People /\ teamRows[t].leader \in People \cup {NoTeam}
  /\ spinning \subseteq Teams /\ teamCall \in Teams \cup {NoTeam} /\ Len(trail) <= MaxDepth
  /\ sheet.on \in {"none", "members", "leader", "create"} /\ lapsed \subseteq Teams

(***************************************************************************)
(* The members the screens keep are those of the team once its writes are  *)
(* done, although a load that a save overtook answers late.  Excepted are  *)
(* teams of which two writes overlapped or one was lost, and the admin's   *)
(* own account, which the cache does not learn of when it becomes leader.  *)
(***************************************************************************)
MembersAsSaved ==
  \A t \in Teams :
    Live(t) /\ teamCache[t] # NoCrew /\ t \notin lapsed /\ (\A s \in saves : s.team # t)
      => teamCache[t] \ {Admin} = base[t].members \ {Admin}
==============================================================================
