------------------------------- MODULE TeamPages -------------------------------
(***************************************************************************)
(* The pages on which a team's leader manages it (src/FE/src/pages):        *)
(* MyTeamDetailPage with the sheets that add and remove a member, the page *)
(* that hands the team over and the one that changes its colour.  They     *)
(* share one cached query of the team (hooks/queries/useTeamDetail.ts),    *)
(* which the mutations of hooks/mutations/useTeamMutations.ts invalidate.  *)
(*                                                                         *)
(* A user's id stands for the nickname too.                                *)
(***************************************************************************)
EXTENDS Integers, FiniteSets, FiniteSetsExt

CONSTANTS
  Users,      (* those who can be members *)
  Me,         (* who uses the pages, the leader at first *)
  Strangers,  (* nicknames nobody has *)
  Colors,     (* the colours a team can have *)
  MaxWrites,  (* bound: mutations on their way at once *)
  MaxMoves    (* bound: what the leader and others do *)

VARIABLES
  team,       (* on the server: [leader, members, color, ver]; ver counts its changes *)
  shown,      (* what the query holds: such a team, or nothing yet *)
  load,       (* the query's request: none, sent, or the team it is answered with *)
  invalid,    (* isInvalidated *)
  broken,     (* isError: the last load failed *)
  acked,      (* history: the last change that a mutation of mine was told of *)
  settled,    (* history: no mutation invalidated the query while it loaded unseen *)
  teamPage,   (* the page on screen *)
  editMode,   (* isEditMode *)
  removing,   (* removeTarget *)
  invite,     (* the sheet that adds a member *)
  palette,    (* the colour page: the colours it has loaded, and selectedColor *)
  heir,       (* the page that hands over: selectedMemberId, isModalOpen *)
  writes,     (* mutations on their way *)
  moves

teamVars == <<team, shown, load, invalid, broken, acked, settled, teamPage, editMode,
              removing, invite, palette, heir, writes, moves>>

Nobody     == 0
Names      == Users \cup Strangers
NoTeam     == [ver |-> 0]
None       == [state |-> "none"]
SentLoad   == [state |-> "sent"]
NoInvite   == [open |-> FALSE]
NewInvite  == [open |-> TRUE, name |-> Nobody, status |-> "empty", timer |-> FALSE,
               checks |-> {}, verdict |-> Nobody]
NoPalette  == [of |-> Nobody, free |-> {}, loaded |-> FALSE, selected |-> Nobody]
NoHeir     == [picked |-> Nobody, modal |-> FALSE]
Pages      == {"detail", "leader", "color", "home"}

Loaded     == shown # NoTeam
OnDetail   == teamPage = "detail"
IsLeader   == Loaded /\ shown.leader = Me
canEdit    == OnDetail /\ IsLeader /\ editMode
NoOverlay  == removing = Nobody /\ ~invite.open /\ ~heir.modal

KeepServer == UNCHANGED <<team, writes>>
KeepQuery  == UNCHANGED <<shown, load, invalid, broken, acked, settled>>
KeepPage   == UNCHANGED <<teamPage, editMode, removing, invite, palette, heir>>

Init ==
  /\ team = [leader |-> Me, members |-> Users, color |-> Min(Colors), ver |-> 1]
  /\ shown = NoTeam /\ load = SentLoad /\ invalid = FALSE /\ broken = FALSE
  /\ acked = 0 /\ settled = TRUE /\ teamPage = "detail" /\ editMode \in BOOLEAN
  /\ removing = Nobody /\ invite = NoInvite /\ palette = NoPalette /\ heir = NoHeir
  /\ writes = {} /\ moves = 0

(***************************************************************************)
(* The query.  A page that mounts loads what is stale, and waits for the   *)
(* load under way if there is one; a refresh starts over.                  *)
(***************************************************************************)
Mounting(old) == IF load # None \/ (Loaded /\ ~invalid /\ ~old) THEN load ELSE SentLoad

(* Put on screen: its own state is new, the query may be loaded again.     *)
Enter(page, edit) ==
  /\ teamPage' = page /\ editMode' = edit /\ removing' = Nobody /\ invite' = NoInvite /\ heir' = NoHeir
  /\ palette' = IF page = "color" THEN [NoPalette EXCEPT !.of = shown.color] ELSE NoPalette

Goto(page, edit, old) ==
  /\ Enter(page, edit)
  /\ load' = IF page \in {"detail", "leader"} THEN Mounting(old) ELSE load

LoadServed ==
  /\ load = SentLoad /\ load' = [state |-> "got", team |-> team]
  /\ UNCHANGED <<shown, invalid, broken, acked, settled>> /\ KeepServer /\ KeepPage

(* A member who is typed in as the list changes is checked again.          *)
Rechecked == IF invite.open THEN [invite EXCEPT !.timer = @ \/ invite.name # Nobody,
                                                !.checks = {[c EXCEPT !.current = FALSE] : c \in @}]
             ELSE invite

LoadArrives ==
  /\ load.state = "got" /\ load' = None
  /\ shown' = load.team /\ invalid' = FALSE /\ broken' = FALSE
  /\ invite' = Rechecked
  /\ UNCHANGED <<acked, settled, teamPage, editMode, removing, palette, heir>> /\ KeepServer

LoadFails ==
  /\ load # None /\ load' = None /\ broken' = TRUE
  /\ UNCHANGED <<shown, invalid, acked, settled>> /\ KeepServer /\ KeepPage

Refresh ==
  /\ teamPage \in {"detail", "leader"} /\ load = None /\ NoOverlay
  /\ load' = SentLoad /\ UNCHANGED <<shown, invalid, broken, acked, settled>>
  /\ KeepServer /\ KeepPage

(* onSuccess of a mutation: on screen the team is loaded anew, else it is  *)
(* only marked, and a load under way will clear the mark.                  *)
BugJoinRunning(active) == IF active /\ load = None THEN SentLoad ELSE load

LoadAfter(active) == IF active THEN SentLoad ELSE load

Invalidate(ver, active) ==
  /\ acked' = Max({acked, ver})
  /\ invalid' = TRUE /\ load' = LoadAfter(active)
  /\ settled' = (settled /\ (active \/ load = None))

(***************************************************************************)
(* MyTeamDetailPage.                                                       *)
(***************************************************************************)
handleToggleEditMode ==
  /\ OnDetail /\ IsLeader /\ NoOverlay /\ editMode' = ~editMode
  /\ UNCHANGED <<teamPage, removing, invite, palette, heir>> /\ KeepQuery /\ KeepServer

handleOpenRemoveModal(u) ==
  /\ canEdit /\ ~broken /\ NoOverlay /\ u \in shown.members /\ removing' = u
  /\ UNCHANGED <<teamPage, editMode, invite, palette, heir>> /\ KeepQuery /\ KeepServer

handleCloseRemoveModal ==
  /\ OnDetail /\ removing # Nobody /\ removing' = Nobody
  /\ UNCHANGED <<teamPage, editMode, invite, palette, heir>> /\ KeepQuery /\ KeepServer

Busy(kind) == \E w \in writes : w.kind = kind
Write(kind, arg) ==
  /\ Cardinality(writes) < MaxWrites
  /\ writes' = writes \cup {[kind |-> kind, arg |-> arg, done |-> 0]} /\ UNCHANGED team

handleConfirmRemoveMember ==
  /\ OnDetail /\ removing # Nobody /\ IsLeader /\ ~Busy("remove")
  /\ Write("remove", removing) /\ KeepQuery /\ KeepPage

(* TeamEditActions leads to the other two pages, and back.                 *)
Navigate(old) ==
  /\ NoOverlay
  /\ \/ canEdit /\ ~broken /\ \E p \in {"leader", "color"} : Goto(p, FALSE, old)
     \/ teamPage \in {"leader", "color"} /\ \E edit \in BOOLEAN : Goto("detail", edit, old)
  /\ UNCHANGED <<shown, invalid, broken, acked, settled>> /\ KeepServer

(***************************************************************************)
(* AddMemberModal: 350 ms after the last letter the nickname is checked;   *)
(* what a check says counts only for the nickname it was made for.         *)
(***************************************************************************)
Fill(i) == invite' = i /\ UNCHANGED <<teamPage, editMode, removing, palette, heir>>
           /\ KeepQuery /\ KeepServer

OpenAddMember  == canEdit /\ ~broken /\ NoOverlay /\ Fill(NewInvite)
CloseAddMember == invite.open /\ Fill(NoInvite)

TypedStatus(n) ==
  IF n = Nobody THEN "empty" ELSE IF n \in shown.members THEN "alreadyMember" ELSE "typing"

handleChange(n) ==       (* and handleClear *)
  /\ invite.open /\ n # invite.name
  /\ Fill([invite EXCEPT !.name = n, !.status = TypedStatus(n), !.timer = TypedStatus(n) = "typing",
                         !.checks = {[c EXCEPT !.current = FALSE] : c \in @}])

CheckDue ==
  /\ invite.open /\ invite.timer
  /\ IF invite.name \in shown.members
     THEN Fill([invite EXCEPT !.timer = FALSE])
     ELSE Fill([invite EXCEPT !.timer = FALSE, !.status = "checking",
                              !.checks = @ \cup {[name |-> invite.name, current |-> TRUE]}])

BugIsCurrentForgotten(c) == TRUE

isCurrent(c) == c.current

Checked(c) ==
  /\ invite.open /\ c \in invite.checks
  /\ \E status \in {"invalid", IF c.name \in Users THEN "available" ELSE "invalid"} :    (* or it failed *)
       Fill(IF isCurrent(c)
            THEN [invite EXCEPT !.checks = @ \ {c}, !.status = status, !.verdict = c.name]
            ELSE [invite EXCEPT !.checks = @ \ {c}])

handleConfirm ==
  /\ invite.open /\ invite.status = "available"
  /\ IF IsLeader THEN Write("add", invite.name) ELSE KeepServer
  /\ invite' = NoInvite /\ UNCHANGED <<teamPage, editMode, removing, palette, heir>> /\ KeepQuery

(***************************************************************************)
(* TeamLeaderChangePage and TeamColorChangePage.                           *)
(***************************************************************************)
leaderCandidates == shown.members \ {shown.leader}
SelectedHeir ==
  IF heir.picked \in leaderCandidates THEN heir.picked
  ELSE IF leaderCandidates = {} THEN Nobody ELSE Min(leaderCandidates)

OnLeader == teamPage = "leader" /\ Loaded
Heir(h)  == heir' = h /\ UNCHANGED <<teamPage, editMode, removing, invite, palette>>
            /\ KeepQuery /\ KeepServer

handleSelectMember(u) == OnLeader /\ ~broken /\ ~heir.modal /\ u \in leaderCandidates
                         /\ Heir([heir EXCEPT !.picked = u])
handleOpenModal  == /\ OnLeader /\ ~broken /\ ~heir.modal /\ SelectedHeir # Nobody /\ ~Busy("delegate")
                    /\ Heir([heir EXCEPT !.modal = TRUE])
handleCloseModal == OnLeader /\ heir.modal /\ Heir([heir EXCEPT !.modal = FALSE])

handleConfirmChangeLeader ==
  /\ OnLeader /\ heir.modal /\ SelectedHeir # Nobody /\ ~Busy("delegate")
  /\ Write("delegate", SelectedHeir) /\ KeepQuery /\ KeepPage

(* The picker locks the colours of other teams, as far as it knows.        *)
Paint(p) == palette' = p /\ UNCHANGED <<teamPage, editMode, removing, invite, heir>>
            /\ KeepQuery /\ KeepServer

ColorsArrive ==
  /\ teamPage = "color"
  /\ \E free \in SUBSET (Colors \ {palette.of}) :
       Paint([palette EXCEPT !.free = free, !.loaded = TRUE,
                             !.selected = IF palette.loaded THEN @ ELSE palette.of])

handleSelectColor(c) ==
  /\ teamPage = "color" /\ palette.loaded /\ c \in palette.free \cup {palette.of}
  /\ Paint([palette EXCEPT !.selected = c])

handleSubmit ==
  /\ teamPage = "color" /\ palette.selected \notin {Nobody, palette.of} /\ ~Busy("color")
  /\ Write("color", palette.selected) /\ KeepQuery /\ KeepPage

(***************************************************************************)
(* The mutations on the server, of its leader only; and their answers,     *)
(* which bring the user to the team's page from wherever he went.          *)
(***************************************************************************)
Effect(w) ==
  CASE w.kind = "add"      -> [team EXCEPT !.members = @ \cup {w.arg}]
    [] w.kind = "remove"   -> [team EXCEPT !.members = @ \ {w.arg}]
    [] w.kind = "delegate" -> [team EXCEPT !.leader = w.arg]
    [] w.kind = "color"    -> [team EXCEPT !.color = w.arg]

Accepted(w) ==
  /\ team.leader = Me
  /\ CASE w.kind = "add"      -> w.arg \in Users \ team.members
       [] w.kind = "remove"   -> w.arg \in team.members \ {team.leader}
       [] w.kind = "delegate" -> w.arg \in team.members \ {team.leader}
       [] w.kind = "color"    -> TRUE

WriteServed(w) ==
  /\ w.done = 0 /\ Accepted(w)
  /\ team' = [Effect(w) EXCEPT !.ver = @ + 1]
  /\ writes' = (writes \ {w}) \cup {[w EXCEPT !.done = team'.ver]}
  /\ KeepQuery /\ KeepPage

WriteFails(w) ==
  /\ writes' = writes \ {w} /\ UNCHANGED team /\ KeepQuery /\ KeepPage

WriteArrives(w) ==
  LET active == teamPage \in {"detail", "leader"}
  IN  /\ w.done # 0 /\ writes' = writes \ {w} /\ UNCHANGED <<team, shown, broken>>
      /\ Invalidate(w.done, active)
      /\ IF w.kind = "delegate"
         THEN Enter("home", FALSE)                        (* clearAuthSession *)
         ELSE IF OnDetail
         THEN /\ removing' = IF w.kind = "remove" THEN Nobody ELSE removing
              /\ UNCHANGED <<teamPage, editMode, invite, palette, heir>>
         ELSE Enter("away", w.kind = "color")

(* The page that an answer opens mounts after the answer was dealt with.   *)
Dragged ==
  /\ teamPage = "away" /\ Goto("detail", editMode, FALSE)
  /\ UNCHANGED <<shown, invalid, broken, acked, settled>> /\ KeepServer

(* An admin changes the team.                                              *)
OthersAct ==
  /\ \/ \E u \in Users \ {Me} : team' = [team EXCEPT !.leader = u, !.members = @ \cup {u}, !.ver = @ + 1]
     \/ \E u \in team.members \ {team.leader} : team' = [team EXCEPT !.members = @ \ {u}, !.ver = @ + 1]
  /\ UNCHANGED writes /\ KeepQuery /\ KeepPage

UserActs ==
  /\ teamPage \notin {"home", "away"}
  /\ \/ Refresh \/ handleToggleEditMode \/ handleCloseRemoveModal \/ handleConfirmRemoveMember
     \/ OpenAddMember \/ CloseAddMember \/ handleConfirm \/ handleOpenModal \/ handleCloseModal
     \/ handleConfirmChangeLeader \/ handleSubmit \/ OthersAct
     \/ \E old \in BOOLEAN : Navigate(old)
     \/ \E u \in Users : handleOpenRemoveModal(u) \/ handleSelectMember(u)
     \/ \E n \in Names \cup {Nobody} : handleChange(n)
     \/ \E c \in Colors : handleSelectColor(c)

Answers ==
  \/ LoadServed \/ LoadArrives \/ LoadFails \/ CheckDue \/ ColorsArrive \/ Dragged
  \/ (invite.open /\ \E c \in invite.checks : Checked(c))
  \/ \E w \in writes : WriteServed(w) \/ WriteFails(w) \/ WriteArrives(w)

Next ==
  \/ UserActs /\ moves < MaxMoves /\ moves' = moves + 1
  \/ Answers /\ UNCHANGED moves

Spec == Init /\ [][Next]_teamVars

TypeOK ==
  /\ team.members \subseteq Users /\ team.color \in Colors /\ shown.ver \in 0 .. team.ver
  /\ invalid \in BOOLEAN /\ broken \in BOOLEAN /\ editMode \in BOOLEAN /\ removing \in Users \cup {Nobody}
  /\ invite.open => invite.name \in Names \cup {Nobody}
  /\ teamPage \in Pages \cup {"away"} /\ acked <= team.ver /\ palette.selected \in Colors \cup {Nobody}

(***************************************************************************)
(* A nickname can be confirmed only on the verdict of its own check,       *)
(* however late the checks of the nicknames typed before it answer.        *)
(***************************************************************************)
CheckedIsTyped ==
  invite.open /\ invite.status = "available" => invite.verdict = invite.name

(***************************************************************************)
(* Once nothing is on its way, the page shows the team as it was after the *)
(* last change that the user was told of, or later.  It needs that no load *)
(* ran unseen when a mutation was answered: that load, begun before the    *)
(* change, would clear the mark that the change has left.                  *)
(***************************************************************************)
ShownKeepsUp ==
  teamPage \in {"detail", "leader"} /\ load = None /\ ~broken /\ settled => shown.ver >= acked
==============================================================================
