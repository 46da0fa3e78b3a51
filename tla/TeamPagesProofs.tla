--------------------------- MODULE TeamPagesProofs ---------------------------
(***************************************************************************)
(* The pages about teams and users of both clients, for every value of the *)
(* constants, each with an inductive invariant of its own.                 *)
(***************************************************************************)
EXTENDS BookingPagesProofs

(***************************************************************************)
(* The pages of a user's team: what is confirmed was checked, and what is  *)
(* shown keeps up with what its leader was told.                           *)
(***************************************************************************)
TeamRecord  == [leader : Members, members : SUBSET Members, color : Colors, ver : Nat]
WriteRecord == [kind : {"add", "remove", "delegate", "color"},
                arg : Team!Names \cup Colors \cup {Team!Nobody}, done : Nat]
CheckRecord == [name : Team!Names \cup {Team!Nobody}, current : BOOLEAN]
SheetRecord ==
  [open : {TRUE}, name : Team!Names \cup {Team!Nobody},
   status : {"empty", "typing", "alreadyMember", "checking", "available", "invalid"},
   timer : BOOLEAN, checks : SUBSET CheckRecord,
   verdict : Team!Names \cup {Team!Nobody}]

TeamServer ==
  /\ team \in TeamRecord /\ writes \subseteq WriteRecord /\ acked \in Nat /\ acked <= team.ver
  /\ \A w \in writes : w.done <= team.ver /\ (w.kind = "color" => w.arg \in Colors)

TeamQuery ==
  /\ shown = Team!NoTeam \/ shown \in TeamRecord
  /\ shown.ver \in Nat /\ shown.ver <= team.ver
  /\ \/ load = Team!None \/ load = Team!SentLoad
     \/ load \in [state : {"got"}, team : TeamRecord] /\ load.team.ver <= team.ver
  /\ invalid \in BOOLEAN /\ broken \in BOOLEAN /\ settled \in BOOLEAN

TeamPage ==
  /\ teamPage \in Team!Pages \cup {"away"} /\ editMode \in BOOLEAN
  /\ removing \in Members \cup {Team!Nobody}
  /\ palette \in [of : Colors \cup {Team!Nobody}, free : SUBSET Colors, loaded : BOOLEAN,
                  selected : Colors \cup {Team!Nobody}]

(* Checks that still count are of the nickname in the input.               *)
TeamInvite ==
  \/ invite = Team!NoInvite
  \/ /\ invite \in SheetRecord
     /\ \A c \in invite.checks : c.current => c.name = invite.name
     /\ invite.status = "available" => invite.verdict = invite.name

(* A load that is answered, and a query at rest, know of every change that *)
(* the leader was told of, or the query is marked and not on screen.       *)
TeamUpToDate ==
  settled => /\ load.state = "got" => load.team.ver >= acked
             /\ load = Team!None /\ ~broken =>
                  shown.ver >= acked \/ (invalid /\ teamPage \notin {"detail", "leader"})

TeamInv == TeamServer /\ TeamQuery /\ TeamPage /\ TeamInvite /\ TeamUpToDate

(* The checks under way when the input changes no longer count.            *)
LEMMA ChecksDropped ==
  ASSUME NEW C \in SUBSET CheckRecord
  PROVE  \A d \in {[c EXCEPT !.current = FALSE] : c \in C} : d \in CheckRecord /\ d.current = FALSE
<1> SUFFICES ASSUME NEW c \in C
             PROVE  [c EXCEPT !.current = FALSE] \in CheckRecord /\ [c EXCEPT !.current = FALSE].current = FALSE
  OBVIOUS
<1> QED BY DEF CheckRecord

LEMMA SheetKept ==
  ASSUME invite' \in SheetRecord,
         \A c \in invite'.checks : c.current => c.name = invite'.name,
         invite'.status = "available" => invite'.verdict = invite'.name
  PROVE  TeamInvite'
  BY DEF TeamInvite

LEMMA SheetOpen ==
  ASSUME TeamInvite, invite.open
  PROVE  /\ invite \in SheetRecord
         /\ \A c \in invite.checks : c.current => c.name = invite.name
         /\ invite.status = "available" => invite.verdict = invite.name
  BY DEF TeamInvite, Team!NoInvite

LEMMA TeamInviteStep ==
  ASSUME TeamInv, [Team!Next]_(Team!teamVars)
  PROVE  TeamInvite'
<1>0. TeamInvite BY DEF TeamInv
<1>1. ASSUME invite' = invite PROVE TeamInvite'
  BY <1>0, <1>1 DEF TeamInvite
<1>2. ASSUME invite' = Team!NoInvite PROVE TeamInvite'
  BY <1>2 DEF TeamInvite
<1>3. ASSUME invite.open
      PROVE  /\ invite \in SheetRecord
             /\ \A c \in invite.checks : c.current => c.name = invite.name
             /\ invite.status = "available" => invite.verdict = invite.name
  BY <1>0, <1>3, SheetOpen
<1>4. ASSUME Team!LoadArrives, invite.open PROVE TeamInvite'
  <2> DEFINE dropped == {[c EXCEPT !.current = FALSE] : c \in invite.checks}
  <2>1. invite \in SheetRecord /\ invite.checks \in SUBSET CheckRecord BY <1>3, <1>4 DEF SheetRecord
  <2>2. \A d \in dropped : d \in CheckRecord /\ d.current = FALSE BY <2>1, ChecksDropped
  <2>3. PICK b \in BOOLEAN : invite' = [invite EXCEPT !.timer = b, !.checks = dropped]
    BY <1>4, <2>1 DEF Team!LoadArrives, Team!Rechecked, SheetRecord
  <2> HIDE DEF dropped
  <2>4. invite' \in SheetRecord /\ invite'.checks = dropped /\ invite'.status = invite.status
        /\ invite'.verdict = invite.verdict /\ invite'.name = invite.name
    BY <2>1, <2>2, <2>3 DEF SheetRecord
  <2> QED BY <1>3, <1>4, <2>2, <2>4, SheetKept
<1>5. ASSUME Team!OpenAddMember PROVE TeamInvite'
  <2>1. invite' = Team!NewInvite BY <1>5 DEF Team!OpenAddMember, Team!Fill
  <2> QED BY <2>1, SheetKept DEF Team!NewInvite, SheetRecord
<1>6. ASSUME NEW n \in Team!Names \cup {Team!Nobody}, Team!handleChange(n) PROVE TeamInvite'
  <2> DEFINE dropped == {[c EXCEPT !.current = FALSE] : c \in invite.checks}
  <2>1. invite \in SheetRecord /\ invite.checks \in SUBSET CheckRecord
    BY <1>3, <1>6 DEF SheetRecord, Team!handleChange
  <2>2. \A d \in dropped : d \in CheckRecord /\ d.current = FALSE BY <2>1, ChecksDropped
  <2>3. PICK st \in {"empty", "typing", "alreadyMember"}, b \in BOOLEAN :
             invite' = [invite EXCEPT !.name = n, !.status = st, !.timer = b, !.checks = dropped]
    BY <1>6, Zenon DEF Team!handleChange, Team!Fill, Team!TypedStatus
  <2> HIDE DEF dropped
  <2>4. invite' \in SheetRecord /\ invite'.checks = dropped /\ invite'.status # "available"
    BY <2>1, <2>2, <2>3 DEF SheetRecord
  <2> QED BY <2>2, <2>4, SheetKept
<1>7. ASSUME Team!CheckDue PROVE TeamInvite'
  <2>1. /\ invite \in SheetRecord /\ invite.checks \in SUBSET CheckRecord
        /\ [name |-> invite.name, current |-> TRUE] \in CheckRecord
    BY <1>3, <1>7 DEF SheetRecord, CheckRecord, Team!CheckDue
  <2>2. CASE invite' = [invite EXCEPT !.timer = FALSE]
    <3>1. invite' \in SheetRecord /\ invite'.checks = invite.checks /\ invite'.status = invite.status
          /\ invite'.verdict = invite.verdict /\ invite'.name = invite.name
      BY <2>1, <2>2 DEF SheetRecord
    <3> QED BY <1>3, <1>7, <3>1, SheetKept DEF Team!CheckDue
  <2>3. CASE invite' = [invite EXCEPT !.timer = FALSE, !.status = "checking",
                          !.checks = @ \cup {[name |-> invite.name, current |-> TRUE]}]
    <3> DEFINE sent == invite.checks \cup {[name |-> invite.name, current |-> TRUE]}
    <3>1. sent \in SUBSET CheckRecord BY <2>1
    <3>2. \A c \in sent : c.current => c.name = invite.name BY <1>3, <1>7 DEF Team!CheckDue
    <3>3. invite' = [invite EXCEPT !.timer = FALSE, !.status = "checking", !.checks = sent]
      BY <2>3
    <3> HIDE DEF sent
    <3>4. invite' \in SheetRecord /\ invite'.checks = sent /\ invite'.status = "checking"
          /\ invite'.name = invite.name
      BY <2>1, <3>1, <3>3 DEF SheetRecord
    <3> QED BY <3>2, <3>4, SheetKept
  <2> QED BY <1>7, <2>2, <2>3 DEF Team!CheckDue, Team!Fill
<1>8. ASSUME NEW c \in invite.checks, invite.open, Team!Checked(c) PROVE TeamInvite'
  <2> DEFINE rest == invite.checks \ {c}
  <2>1. /\ invite \in SheetRecord /\ invite.checks \in SUBSET CheckRecord /\ c \in CheckRecord
        /\ c.name \in Team!Names \cup {Team!Nobody}
    BY <1>3, <1>8 DEF SheetRecord, CheckRecord
  <2>2. rest \in SUBSET CheckRecord /\ \A d \in rest : d.current => d.name = invite.name
    BY <1>3, <1>8, <2>1
  <2>3. PICK st \in {"available", "invalid"} :
           invite' = IF c.current THEN [invite EXCEPT !.checks = rest, !.status = st, !.verdict = c.name]
                     ELSE [invite EXCEPT !.checks = rest]
    BY <1>8, Zenon DEF Team!Checked, Team!Fill, Team!isCurrent
  <2> HIDE DEF rest
  <2>4. CASE c.current
    <3>1. invite' \in SheetRecord /\ invite'.checks = rest /\ invite'.verdict = c.name
          /\ invite'.name = invite.name
      BY <2>1, <2>2, <2>3, <2>4 DEF SheetRecord
    <3>2. c.name = invite.name BY <1>3, <1>8, <2>4
    <3> QED BY <2>2, <3>1, <3>2, SheetKept
  <2>5. CASE ~c.current
    <3>1. invite' \in SheetRecord /\ invite'.checks = rest /\ invite'.verdict = invite.verdict
          /\ invite'.name = invite.name /\ invite'.status = invite.status
      BY <2>1, <2>2, <2>3, <2>5 DEF SheetRecord
    <3> QED BY <1>3, <1>8, <2>2, <3>1, SheetKept
  <2> QED BY <2>4, <2>5
<1>9. ASSUME Team!LoadArrives PROVE TeamInvite'
  BY <1>1, <1>4, <1>9 DEF Team!LoadArrives, Team!Rechecked
<1>10. ASSUME NEW p, NEW e, Team!Enter(p, e) PROVE invite' = Team!NoInvite
  BY <1>10 DEF Team!Enter
<1>11. CASE Team!UserActs
  <2>1. ASSUME Team!handleConfirm \/ Team!CloseAddMember PROVE TeamInvite'
    BY <1>2, <2>1 DEF Team!handleConfirm, Team!CloseAddMember, Team!Fill
  <2>2. ASSUME NEW old, Team!Navigate(old) PROVE TeamInvite'
    BY <1>2, <1>10, <2>2 DEF Team!Navigate, Team!Goto
  <2>3. ASSUME \/ Team!Refresh \/ Team!handleToggleEditMode \/ Team!handleCloseRemoveModal
               \/ Team!handleConfirmRemoveMember \/ Team!handleOpenModal \/ Team!handleCloseModal
               \/ Team!handleConfirmChangeLeader \/ Team!handleSubmit \/ Team!OthersAct
               \/ \E u : Team!handleOpenRemoveModal(u) \/ Team!handleSelectMember(u)
               \/ \E c : Team!handleSelectColor(c)
        PROVE  invite' = invite
    BY <2>3 DEF Team!Refresh, Team!handleToggleEditMode, Team!handleCloseRemoveModal,
                Team!handleConfirmRemoveMember, Team!handleOpenModal, Team!handleCloseModal,
                Team!handleConfirmChangeLeader, Team!handleSubmit, Team!OthersAct,
                Team!handleOpenRemoveModal, Team!handleSelectMember, Team!handleSelectColor,
                Team!Heir, Team!Paint, Team!KeepPage
  <2> QED BY <1>1, <1>5, <1>6, <1>11, <2>1, <2>2, <2>3 DEF Team!UserActs
<1>12. CASE Team!Answers
  <2>1. ASSUME Team!Dragged PROVE TeamInvite'
    BY <1>2, <1>10, <2>1 DEF Team!Dragged, Team!Goto
  <2>2. ASSUME NEW w \in writes, Team!WriteArrives(w) PROVE TeamInvite'
    BY <1>1, <1>2, <1>10, <2>2 DEF Team!WriteArrives
  <2>3. ASSUME \/ Team!LoadServed \/ Team!LoadFails \/ Team!ColorsArrive
               \/ \E w \in writes : Team!WriteServed(w) \/ Team!WriteFails(w)
        PROVE  invite' = invite
    BY <2>3 DEF Team!LoadServed, Team!LoadFails, Team!ColorsArrive, Team!WriteServed, Team!WriteFails,
                Team!Paint, Team!KeepPage
  <2> QED BY <1>1, <1>7, <1>8, <1>9, <1>12, <2>1, <2>2, <2>3 DEF Team!Answers
<1>13. CASE UNCHANGED Team!teamVars BY <1>1, <1>13 DEF Team!teamVars
<1> QED BY <1>11, <1>12, <1>13 DEF Team!Next

LEMMA LeastMember ==
  ASSUME NEW S \in SUBSET Nat, S # {}
  PROVE  Team!Min(S) \in S /\ \A y \in S : Team!Min(S) <= y
<1>1. PICK x \in S : \A y \in S : x <= y BY NatHasMin
<1> QED BY <1>1, Zenon DEF Team!Min

LEMMA MaxOfTwo ==
  ASSUME NEW a \in Nat, NEW b \in Nat
  PROVE  Team!Max({a, b}) = IF a < b THEN b ELSE a
<1> DEFINE m == IF a < b THEN b ELSE a
<1>1. m \in {a, b} /\ \A y \in {a, b} : m >= y OBVIOUS
<1>2. \A x \in {a, b} : (\A y \in {a, b} : x >= y) => x = m OBVIOUS
<1> QED BY <1>1, <1>2 DEF Team!Max

(* A mutation leaves a team behind, one version further.                   *)
LEMMA EffectTyped ==
  ASSUME team \in TeamRecord, NEW w \in WriteRecord, w.kind = "color" => w.arg \in Colors,
         Team!Accepted(w)
  PROVE  Team!Effect(w) \in TeamRecord /\ Team!Effect(w).ver = team.ver
<1>1. CASE w.kind = "add"
  <2>1. w.arg \in Members BY <1>1 DEF Team!Accepted
  <2> QED BY <1>1, <2>1 DEF Team!Effect, TeamRecord
<1>2. CASE w.kind = "remove" BY <1>2 DEF Team!Effect, TeamRecord
<1>3. CASE w.kind = "delegate"
  <2>1. w.arg \in Members BY <1>3 DEF Team!Accepted, TeamRecord
  <2> QED BY <1>3, <2>1 DEF Team!Effect, TeamRecord
<1>4. CASE w.kind = "color" BY <1>4 DEF Team!Effect, TeamRecord
<1> QED BY <1>1, <1>2, <1>3, <1>4 DEF WriteRecord

(* The heir that the page offers is a member of the team it shows.         *)
LEMMA HeirIsMember ==
  ASSUME TeamQuery, Team!OnLeader, Team!SelectedHeir # Team!Nobody
  PROVE  Team!SelectedHeir \in Members
<1>1. shown \in TeamRecord BY DEF TeamQuery, Team!OnLeader, Team!Loaded
<1>2. Team!leaderCandidates \subseteq Members BY <1>1 DEF Team!leaderCandidates, TeamRecord
<1>3. CASE heir.picked \in Team!leaderCandidates BY <1>2, <1>3 DEF Team!SelectedHeir
<1>4. CASE heir.picked \notin Team!leaderCandidates
  <2>1. Team!leaderCandidates # {} /\ Team!SelectedHeir = Team!Min(Team!leaderCandidates)
    BY <1>4 DEF Team!SelectedHeir
  <2>2. Team!Min(Team!leaderCandidates) \in Team!leaderCandidates
    BY <1>2, <2>1, LeastMember, ScreensAssumption
  <2> QED BY <1>2, <2>1, <2>2
<1> QED BY <1>3, <1>4

LEMMA TeamServerStep ==
  ASSUME TeamInv, [Team!Next]_(Team!teamVars)
  PROVE  TeamServer' /\ team'.ver >= team.ver
<1>0. TeamServer /\ TeamQuery /\ TeamPage /\ TeamInvite /\ team.ver \in Nat
  BY DEF TeamInv, TeamServer, TeamRecord
<1> DEFINE Goal == TeamServer' /\ team'.ver >= team.ver
<1>1. ASSUME UNCHANGED <<team, writes, acked>> PROVE Goal
  BY <1>0, <1>1 DEF TeamServer
<1>2. ASSUME NEW k \in {"add", "remove", "delegate", "color"}, NEW a \in Team!Names \cup Colors \cup {Team!Nobody},
             Team!Write(k, a), k = "color" => a \in Colors, acked' = acked
      PROVE  Goal
  <2> DEFINE new == [kind |-> k, arg |-> a, done |-> 0]
  <2>1. new \in WriteRecord /\ new.done = 0 /\ new.kind = k /\ new.arg = a BY DEF WriteRecord
  <2>2. writes' = writes \cup {new} /\ team' = team BY <1>2 DEF Team!Write
  <2> HIDE DEF new
  <2> QED BY <1>0, <1>2, <2>1, <2>2 DEF TeamServer
<1>3. ASSUME NEW w \in writes, Team!WriteServed(w) PROVE Goal
  <2>1. w \in WriteRecord /\ (w.kind = "color" => w.arg \in Colors) BY <1>0, <1>3 DEF TeamServer
  <2>2. Team!Effect(w) \in TeamRecord /\ Team!Effect(w).ver = team.ver
    BY <1>0, <1>3, <2>1, EffectTyped DEF Team!WriteServed, TeamServer
  <2>3. team' \in TeamRecord /\ team'.ver = team.ver + 1
    BY <1>0, <1>3, <2>2 DEF Team!WriteServed, TeamRecord
  <2> DEFINE told == [w EXCEPT !.done = team'.ver]
  <2>4. told \in WriteRecord /\ told.done = team'.ver /\ (told.kind = "color" => told.arg \in Colors)
    BY <2>1, <2>3, <1>0 DEF WriteRecord
  <2>5. writes' = (writes \ {w}) \cup {told} /\ acked' = acked
    BY <1>3 DEF Team!WriteServed, Team!KeepQuery
  <2> HIDE DEF told
  <2>6. \A x \in writes : x.done \in Nat BY <1>0 DEF TeamServer, WriteRecord
  <2> QED BY <1>0, <2>3, <2>4, <2>5, <2>6 DEF TeamServer
<1>4. ASSUME NEW w \in writes, Team!WriteFails(w) PROVE Goal
  BY <1>0, <1>4 DEF Team!WriteFails, TeamServer, Team!KeepQuery
<1>5. ASSUME NEW w \in writes, Team!WriteArrives(w) PROVE Goal
  <2>1. w.done \in Nat /\ w.done <= team.ver /\ acked \in Nat /\ acked <= team.ver
    BY <1>0, <1>5 DEF TeamServer, WriteRecord
  <2>2. writes' \subseteq writes /\ team' = team /\ acked' = Team!Max({acked, w.done})
    BY <1>5 DEF Team!WriteArrives, Team!Invalidate
  <2>3. acked' \in Nat /\ acked' <= team.ver BY <2>1, <2>2, MaxOfTwo
  <2> QED BY <1>0, <2>2, <2>3 DEF TeamServer
<1>6. ASSUME Team!OthersAct PROVE Goal
  <2>1. team' \in TeamRecord /\ team'.ver = team.ver + 1
    <3>1. team \in TeamRecord BY <1>0 DEF TeamServer
    <3>2. CASE \E u \in Members \ {Leader} :
                 team' = [team EXCEPT !.leader = u, !.members = @ \cup {u}, !.ver = @ + 1]
      <4>1. PICK u \in Members :
                 team' = [team EXCEPT !.leader = u, !.members = team.members \cup {u}, !.ver = team.ver + 1]
        BY <3>2
      <4>2. team.members \cup {u} \in SUBSET Members /\ team.ver + 1 \in Nat BY <3>1 DEF TeamRecord
      <4>3. team' = [leader |-> u, members |-> team.members \cup {u}, color |-> team.color, ver |-> team.ver + 1]
        BY <3>1, <4>1 DEF TeamRecord
      <4> QED BY <3>1, <4>2, <4>3 DEF TeamRecord
    <3>3. CASE \E u \in team.members \ {team.leader} :
                 team' = [team EXCEPT !.members = @ \ {u}, !.ver = @ + 1]
      <4>1. PICK u : team' = [team EXCEPT !.members = team.members \ {u}, !.ver = team.ver + 1]
        BY <3>3
      <4>2. team.members \ {u} \in SUBSET Members /\ team.ver + 1 \in Nat BY <3>1 DEF TeamRecord
      <4>3. team' = [leader |-> team.leader, members |-> team.members \ {u}, color |-> team.color,
                     ver |-> team.ver + 1]
        BY <3>1, <4>1 DEF TeamRecord
      <4> QED BY <3>1, <4>2, <4>3 DEF TeamRecord
    <3> QED BY <1>6, <3>2, <3>3 DEF Team!OthersAct
  <2>2. UNCHANGED <<writes, acked>> BY <1>6 DEF Team!OthersAct, Team!KeepQuery
  <2>3. \A x \in writes : x.done \in Nat BY <1>0 DEF TeamServer, WriteRecord
  <2> QED BY <1>0, <2>1, <2>2, <2>3 DEF TeamServer
<1> SUFFICES Goal OBVIOUS
<1> HIDE DEF Goal
<1>7. CASE Team!UserActs
  <2>1. ASSUME Team!handleConfirmRemoveMember PROVE Goal
    <3>1. Team!Write("remove", removing) /\ acked' = acked
      BY <2>1 DEF Team!handleConfirmRemoveMember, Team!KeepQuery
    <3>2. removing \in Team!Names \cup {Team!Nobody} BY <1>0 DEF TeamPage, Team!Names
    <3> QED BY <1>2, <3>1, <3>2
  <2>2. ASSUME Team!handleConfirm PROVE Goal
    <3>1. acked' = acked BY <2>2 DEF Team!handleConfirm, Team!KeepQuery
    <3>2. CASE Team!IsLeader
      <4>1. Team!Write("add", invite.name) BY <2>2, <3>2 DEF Team!handleConfirm
      <4>2. invite.name \in Team!Names \cup {Team!Nobody}
        BY <1>0, <2>2, SheetOpen DEF SheetRecord, Team!handleConfirm
      <4> QED BY <1>2, <3>1, <4>1, <4>2
    <3>3. CASE ~Team!IsLeader
      BY <1>1, <2>2, <3>1, <3>3 DEF Team!handleConfirm, Team!KeepServer
    <3> QED BY <3>2, <3>3
  <2>3. ASSUME Team!handleConfirmChangeLeader PROVE Goal
    <3>1. Team!Write("delegate", Team!SelectedHeir) /\ acked' = acked
      BY <2>3 DEF Team!handleConfirmChangeLeader, Team!KeepQuery
    <3>2. Team!SelectedHeir \in Members
      BY <1>0, <2>3, HeirIsMember DEF Team!handleConfirmChangeLeader
    <3> QED BY <1>2, <3>1, <3>2 DEF Team!Names
  <2>4. ASSUME Team!handleSubmit PROVE Goal
    <3>1. Team!Write("color", palette.selected) /\ acked' = acked
      BY <2>4 DEF Team!handleSubmit, Team!KeepQuery
    <3>2. palette.selected \in Colors BY <1>0, <2>4 DEF TeamPage, Team!handleSubmit
    <3> QED BY <1>2, <3>1, <3>2
  <2>5. ASSUME \/ Team!Refresh \/ Team!handleToggleEditMode \/ Team!handleCloseRemoveModal
               \/ Team!OpenAddMember \/ Team!CloseAddMember \/ Team!handleOpenModal
               \/ Team!handleCloseModal \/ \E old : Team!Navigate(old)
               \/ \E u : Team!handleOpenRemoveModal(u) \/ Team!handleSelectMember(u)
               \/ \E n : Team!handleChange(n) \/ \E c : Team!handleSelectColor(c)
        PROVE  UNCHANGED <<team, writes, acked>>
    BY <2>5 DEF Team!Refresh, Team!handleToggleEditMode, Team!handleCloseRemoveModal,
                Team!OpenAddMember, Team!CloseAddMember, Team!handleOpenModal, Team!handleCloseModal,
                Team!Navigate, Team!handleOpenRemoveModal, Team!handleSelectMember, Team!handleChange,
                Team!handleSelectColor, Team!Heir, Team!Paint, Team!Fill, Team!KeepServer, Team!KeepQuery
  <2> QED BY <1>1, <1>6, <1>7, <2>1, <2>2, <2>3, <2>4, <2>5 DEF Team!UserActs
<1>8. CASE Team!Answers
  <2>1. ASSUME \/ Team!LoadServed \/ Team!LoadArrives \/ Team!LoadFails \/ Team!CheckDue
               \/ Team!ColorsArrive \/ Team!Dragged \/ \E c : Team!Checked(c)
        PROVE  UNCHANGED <<team, writes, acked>>
    BY <2>1 DEF Team!LoadServed, Team!LoadArrives, Team!LoadFails, Team!CheckDue, Team!ColorsArrive,
                Team!Dragged, Team!Checked, Team!Paint, Team!Fill, Team!KeepServer, Team!KeepQuery
  <2> QED BY <1>1, <1>3, <1>4, <1>5, <1>8, <2>1 DEF Team!Answers
<1>9. CASE UNCHANGED Team!teamVars BY <1>1, <1>9 DEF Team!teamVars
<1> QED BY <1>7, <1>8, <1>9 DEF Team!Next

(* The team as the query answers it is no newer than the server's.         *)
LEMMA TeamQueryStep ==
  ASSUME TeamInv, [Team!Next]_(Team!teamVars)
  PROVE  TeamQuery'
<1>0. /\ TeamServer /\ TeamQuery /\ team.ver \in Nat /\ team'.ver \in Nat /\ team'.ver >= team.ver
      /\ team \in TeamRecord
  <2>1. TeamServer' /\ team'.ver >= team.ver BY TeamServerStep
  <2> QED BY <2>1 DEF TeamInv, TeamServer, TeamRecord
<1>1. ASSUME UNCHANGED <<shown, invalid, broken, settled>>, load' \in {load, Team!SentLoad}
      PROVE  TeamQuery'
  <2>1. \/ load' = Team!None \/ load' = Team!SentLoad
        \/ load' \in [state : {"got"}, team : TeamRecord] /\ load'.team.ver <= team'.ver
    <3>1. CASE load \in [state : {"got"}, team : TeamRecord] /\ load.team.ver <= team.ver
      <4>1. load.team.ver \in Nat BY <3>1 DEF TeamRecord
      <4> QED BY <1>0, <1>1, <3>1, <4>1
    <3> QED BY <1>0, <1>1, <3>1 DEF TeamQuery
  <2>2. shown'.ver \in Nat /\ shown'.ver <= team'.ver BY <1>0, <1>1 DEF TeamQuery
  <2> QED BY <1>0, <1>1, <2>1, <2>2 DEF TeamQuery
<1>2. ASSUME Team!LoadServed PROVE TeamQuery'
  <2>1. load' = [state |-> "got", team |-> team] /\ UNCHANGED <<shown, invalid, broken, settled, team>>
    BY <1>2 DEF Team!LoadServed, Team!KeepServer
  <2>2. load' \in [state : {"got"}, team : TeamRecord] /\ load'.team.ver <= team'.ver
    BY <1>0, <2>1
  <2> QED BY <1>0, <2>1, <2>2 DEF TeamQuery
<1>3. ASSUME Team!LoadArrives PROVE TeamQuery'
  <2>1. load.team \in TeamRecord /\ load.team.ver <= team.ver
    BY <1>0, <1>3 DEF Team!LoadArrives, TeamQuery, Team!None, Team!SentLoad
  <2>2. load' = Team!None /\ shown' = load.team /\ invalid' = FALSE /\ broken' = FALSE
        /\ settled' = settled /\ team' = team
    BY <1>3 DEF Team!LoadArrives, Team!KeepServer
  <2>3. shown'.ver \in Nat BY <2>1, <2>2 DEF TeamRecord
  <2> QED BY <1>0, <2>1, <2>2, <2>3 DEF TeamQuery
<1>4. ASSUME Team!LoadFails PROVE TeamQuery'
  BY <1>0, <1>4 DEF Team!LoadFails, TeamQuery, Team!KeepServer
<1>5. ASSUME NEW page, NEW e, NEW old, Team!Goto(page, e, old) PROVE load' \in {load, Team!SentLoad}
  BY <1>5 DEF Team!Goto, Team!Mounting
<1>6. ASSUME NEW w \in writes, Team!WriteArrives(w) PROVE TeamQuery'
  <2>1. /\ invalid' = TRUE /\ settled' \in BOOLEAN /\ UNCHANGED <<shown, broken, team>>
        /\ load' = load \/ load' = Team!SentLoad
    BY <1>0, <1>6 DEF Team!WriteArrives, Team!Invalidate, Team!LoadAfter, TeamQuery
  <2> QED BY <1>0, <2>1 DEF TeamQuery
<1>7. CASE Team!UserActs
  <2>1. ASSUME NEW old, Team!Navigate(old) PROVE TeamQuery'
    BY <1>1, <1>5, <2>1 DEF Team!Navigate
  <2>2. ASSUME Team!Refresh PROVE TeamQuery'
    BY <1>1, <2>2 DEF Team!Refresh
  <2>3. ASSUME \/ Team!handleToggleEditMode \/ Team!handleCloseRemoveModal \/ Team!handleConfirmRemoveMember
               \/ Team!OpenAddMember \/ Team!CloseAddMember \/ Team!handleConfirm \/ Team!handleOpenModal
               \/ Team!handleCloseModal \/ Team!handleConfirmChangeLeader \/ Team!handleSubmit
               \/ Team!OthersAct
               \/ \E u : Team!handleOpenRemoveModal(u) \/ Team!handleSelectMember(u)
               \/ \E n : Team!handleChange(n) \/ \E c : Team!handleSelectColor(c)
        PROVE  Team!KeepQuery
    BY <2>3 DEF Team!handleToggleEditMode, Team!handleCloseRemoveModal, Team!handleConfirmRemoveMember,
                Team!OpenAddMember, Team!CloseAddMember, Team!handleConfirm, Team!handleOpenModal,
                Team!handleCloseModal, Team!handleConfirmChangeLeader, Team!handleSubmit, Team!OthersAct,
                Team!handleOpenRemoveModal, Team!handleSelectMember, Team!handleChange,
                Team!handleSelectColor, Team!Heir, Team!Paint, Team!Fill
  <2>4. ASSUME Team!KeepQuery PROVE TeamQuery' BY <1>1, <2>4 DEF Team!KeepQuery
  <2> QED BY <1>7, <2>1, <2>2, <2>3, <2>4 DEF Team!UserActs
<1>8. CASE Team!Answers
  <2>1. ASSUME \/ Team!CheckDue \/ Team!ColorsArrive \/ \E c : Team!Checked(c)
               \/ \E w : Team!WriteServed(w) \/ Team!WriteFails(w)
        PROVE  Team!KeepQuery
    BY <2>1 DEF Team!CheckDue, Team!ColorsArrive, Team!Checked, Team!WriteServed, Team!WriteFails,
                Team!Paint, Team!Fill
  <2>2. ASSUME Team!KeepQuery PROVE TeamQuery' BY <1>1, <2>2 DEF Team!KeepQuery
  <2>3. ASSUME Team!Dragged PROVE TeamQuery' BY <1>1, <1>5, <2>3 DEF Team!Dragged
  <2> QED BY <1>2, <1>3, <1>4, <1>6, <1>8, <2>1, <2>2, <2>3 DEF Team!Answers
<1>9. CASE UNCHANGED Team!teamVars BY <1>1, <1>9 DEF Team!teamVars
<1> QED BY <1>7, <1>8, <1>9 DEF Team!Next

LEMMA TeamPageStep ==
  ASSUME TeamInv, [Team!Next]_(Team!teamVars)
  PROVE  TeamPage'
<1>0. TeamQuery /\ TeamPage BY DEF TeamInv
<1>1. ASSUME NEW page \in Team!Pages \cup {"away"}, NEW e \in BOOLEAN, Team!Enter(page, e),
             page = "color" => Team!Loaded
      PROVE  TeamPage'
  <2>1. palette' \in [of : Colors \cup {Team!Nobody}, free : SUBSET Colors, loaded : BOOLEAN,
                      selected : Colors \cup {Team!Nobody}]
    <3>1. Team!NoPalette \in [of : Colors \cup {Team!Nobody}, free : SUBSET Colors, loaded : BOOLEAN,
                              selected : Colors \cup {Team!Nobody}]
      BY DEF Team!NoPalette
    <3>2. CASE page = "color"
      <4>1. shown.color \in Colors BY <1>0, <1>1, <3>2 DEF Team!Loaded, TeamQuery, TeamRecord
      <4>2. palette' = [Team!NoPalette EXCEPT !.of = shown.color] BY <1>1, <3>2 DEF Team!Enter
      <4> QED BY <3>1, <4>1, <4>2
    <3>3. CASE page # "color" BY <1>1, <3>1, <3>3 DEF Team!Enter
    <3> QED BY <3>2, <3>3
  <2>2. teamPage' = page /\ editMode' = e /\ removing' = Team!Nobody BY <1>1 DEF Team!Enter
  <2> QED BY <2>1, <2>2 DEF TeamPage
<1>2. ASSUME NEW p, Team!Paint(p),
             p \in [of : Colors \cup {Team!Nobody}, free : SUBSET Colors, loaded : BOOLEAN,
                    selected : Colors \cup {Team!Nobody}]
      PROVE  TeamPage'
  BY <1>0, <1>2 DEF Team!Paint, TeamPage
<1>3. ASSUME UNCHANGED <<teamPage, palette>>, editMode' \in BOOLEAN, removing' \in Members \cup {Team!Nobody}
      PROVE  TeamPage'
  BY <1>0, <1>3 DEF TeamPage
<1>4. ASSUME NEW old \in BOOLEAN, Team!Navigate(old) PROVE TeamPage'
  <2>1. CASE Team!canEdit /\ \E p \in {"leader", "color"} : Team!Goto(p, FALSE, old)
    BY <1>1, <2>1 DEF Team!canEdit, Team!IsLeader, Team!Goto, Team!Pages
  <2>2. CASE \E edit \in BOOLEAN : Team!Goto("detail", edit, old)
    BY <1>1, <2>2 DEF Team!Goto, Team!Pages
  <2> QED BY <1>4, <2>1, <2>2 DEF Team!Navigate
<1>5. ASSUME Team!Dragged PROVE TeamPage'
  BY <1>0, <1>1, <1>5 DEF Team!Dragged, Team!Goto, Team!Pages, TeamPage
<1>6. ASSUME NEW w \in writes, Team!WriteArrives(w) PROVE TeamPage'
  <2>1. ASSUME Team!Enter("home", FALSE) \/ Team!Enter("away", w.kind = "color") PROVE TeamPage'
    BY <1>1, <2>1 DEF Team!Pages
  <2>2. \/ Team!Enter("home", FALSE) \/ Team!Enter("away", w.kind = "color")
        \/ UNCHANGED <<teamPage, palette, editMode>> /\ removing' \in {removing, Team!Nobody}
    BY <1>6 DEF Team!WriteArrives
  <2> QED BY <1>0, <1>3, <2>1, <2>2 DEF TeamPage
<1>7. ASSUME Team!ColorsArrive PROVE TeamPage'
  <2>1. PICK free \in SUBSET (Colors \ {palette.of}) :
          Team!Paint([palette EXCEPT !.free = free, !.loaded = TRUE,
                        !.selected = IF palette.loaded THEN palette.selected ELSE palette.of])
    BY <1>7 DEF Team!ColorsArrive
  <2>2. (IF palette.loaded THEN palette.selected ELSE palette.of) \in Colors \cup {Team!Nobody}
    BY <1>0 DEF TeamPage
  <2> QED BY <1>0, <1>2, <2>1, <2>2 DEF TeamPage
<1>8. ASSUME NEW c \in Colors, Team!handleSelectColor(c) PROVE TeamPage'
  BY <1>0, <1>2, <1>8 DEF Team!handleSelectColor, TeamPage
<1>9. CASE Team!UserActs
  <2>1. ASSUME Team!handleToggleEditMode PROVE TeamPage'
    BY <1>0, <1>3, <2>1 DEF Team!handleToggleEditMode, TeamPage
  <2>2. ASSUME NEW u \in Members, Team!handleOpenRemoveModal(u) PROVE TeamPage'
    BY <1>0, <1>3, <2>2 DEF Team!handleOpenRemoveModal, TeamPage
  <2>3. ASSUME Team!handleCloseRemoveModal PROVE TeamPage'
    BY <1>0, <1>3, <2>3 DEF Team!handleCloseRemoveModal, TeamPage
  <2>4. ASSUME \/ Team!Refresh \/ Team!handleConfirmRemoveMember
               \/ Team!OpenAddMember \/ Team!CloseAddMember \/ Team!handleConfirm \/ Team!handleOpenModal
               \/ Team!handleCloseModal \/ Team!handleConfirmChangeLeader \/ Team!handleSubmit
               \/ Team!OthersAct \/ \E u : Team!handleSelectMember(u) \/ \E n : Team!handleChange(n)
        PROVE  UNCHANGED <<teamPage, palette, editMode, removing>>
    BY <2>4 DEF Team!Refresh, Team!handleConfirmRemoveMember,
                Team!OpenAddMember, Team!CloseAddMember, Team!handleConfirm, Team!handleOpenModal,
                Team!handleCloseModal, Team!handleConfirmChangeLeader, Team!handleSubmit, Team!OthersAct,
                Team!handleSelectMember, Team!handleChange, Team!Heir, Team!Fill, Team!KeepPage
  <2>5. ASSUME UNCHANGED <<teamPage, palette, editMode, removing>> PROVE TeamPage'
    BY <1>0, <1>3, <2>5 DEF TeamPage
  <2> QED BY <1>4, <1>8, <1>9, <2>1, <2>2, <2>3, <2>4, <2>5 DEF Team!UserActs
<1>10. CASE Team!Answers
  <2>1. ASSUME \/ Team!LoadServed \/ Team!LoadArrives \/ Team!LoadFails \/ Team!CheckDue
               \/ \E c : Team!Checked(c) \/ \E w : Team!WriteServed(w) \/ Team!WriteFails(w)
        PROVE  UNCHANGED <<teamPage, palette, editMode, removing>>
    BY <2>1 DEF Team!LoadServed, Team!LoadArrives, Team!LoadFails, Team!CheckDue, Team!Checked,
                Team!WriteServed, Team!WriteFails, Team!Fill, Team!KeepPage
  <2>2. ASSUME UNCHANGED <<teamPage, palette, editMode, removing>> PROVE TeamPage'
    BY <1>0, <1>3, <2>2 DEF TeamPage
  <2> QED BY <1>5, <1>6, <1>7, <1>10, <2>1, <2>2 DEF Team!Answers
<1>11. CASE UNCHANGED Team!teamVars BY <1>0, <1>3, <1>11 DEF Team!teamVars, TeamPage
<1> QED BY <1>9, <1>10, <1>11 DEF Team!Next

LEMMA TeamUpToDateStep ==
  ASSUME TeamInv, [Team!Next]_(Team!teamVars)
  PROVE  TeamUpToDate'
<1>0. /\ TeamServer /\ TeamQuery /\ TeamUpToDate /\ acked \in Nat /\ shown.ver \in Nat
      /\ team.ver \in Nat /\ acked <= team.ver
  BY DEF TeamInv, TeamServer, TeamQuery, TeamRecord
<1>1. ASSUME UNCHANGED <<acked, settled>>, load' = Team!SentLoad PROVE TeamUpToDate'
  BY <1>1 DEF TeamUpToDate, Team!SentLoad, Team!None
<1>2. ASSUME UNCHANGED <<acked, settled, load, shown, broken, invalid>>,
             teamPage' = teamPage \/ teamPage' \notin {"detail", "leader"}
      PROVE  TeamUpToDate'
  BY <1>0, <1>2 DEF TeamUpToDate
<1>3. ASSUME Team!LoadServed PROVE TeamUpToDate'
  <2>1. load' = [state |-> "got", team |-> team] /\ acked' = acked
    BY <1>3 DEF Team!LoadServed
  <2>2. load'.state = "got" /\ load'.team.ver = team.ver /\ load' # Team!None BY <2>1 DEF Team!None
  <2> QED BY <1>0, <2>1, <2>2 DEF TeamUpToDate
<1>4. ASSUME Team!LoadArrives PROVE TeamUpToDate'
  <2>1. /\ load.state = "got" /\ load' = Team!None /\ shown' = load.team /\ UNCHANGED <<acked, settled>>
    BY <1>4 DEF Team!LoadArrives
  <2> QED BY <1>0, <2>1 DEF TeamUpToDate, Team!None
<1>5. ASSUME Team!LoadFails PROVE TeamUpToDate'
  BY <1>0, <1>5 DEF Team!LoadFails, TeamUpToDate, Team!None
<1>6. ASSUME NEW page, NEW e, NEW old, Team!Goto(page, e, old),
             UNCHANGED <<acked, settled, shown, broken, invalid>>
      PROVE  TeamUpToDate'
  <2>1. CASE load' = Team!SentLoad BY <1>1, <1>6, <2>1
  <2>2. CASE load' = load /\ page \notin {"detail", "leader"}
    BY <1>2, <1>6, <2>2 DEF Team!Goto, Team!Enter
  <2>3. CASE load' = load /\ page \in {"detail", "leader"} /\ load # Team!None
    BY <1>0, <1>6, <2>3 DEF TeamUpToDate
  <2>4. CASE load' = load /\ page \in {"detail", "leader"} /\ ~invalid
    BY <1>0, <1>6, <2>4 DEF TeamUpToDate
  <2> QED BY <1>6, <2>1, <2>2, <2>3, <2>4 DEF Team!Goto, Team!Mounting
<1>7. ASSUME NEW w \in writes, Team!WriteArrives(w) PROVE TeamUpToDate'
  <2>1. CASE teamPage \in {"detail", "leader"}
    <3>1. load' = Team!SentLoad
      BY <1>7, <2>1 DEF Team!WriteArrives, Team!Invalidate, Team!LoadAfter
    <3> QED BY <3>1 DEF TeamUpToDate, Team!SentLoad, Team!None
  <2>2. CASE teamPage \notin {"detail", "leader"}
    <3>1. /\ load' = load /\ invalid' = TRUE /\ (settled' => load = Team!None)
      BY <1>7, <2>2 DEF Team!WriteArrives, Team!Invalidate, Team!LoadAfter
    <3>2. teamPage' \in {"home", "away"}
      BY <1>7, <2>2 DEF Team!WriteArrives, Team!Enter, Team!OnDetail
    <3> QED BY <3>1, <3>2 DEF TeamUpToDate, Team!None
  <2> QED BY <2>1, <2>2
<1>8. CASE Team!UserActs
  <2>1. ASSUME NEW old, Team!Navigate(old) PROVE TeamUpToDate'
    BY <1>6, <2>1 DEF Team!Navigate
  <2>2. ASSUME Team!Refresh PROVE TeamUpToDate'
    BY <1>1, <2>2 DEF Team!Refresh
  <2>3. ASSUME \/ Team!handleToggleEditMode \/ Team!handleCloseRemoveModal \/ Team!handleConfirmRemoveMember
               \/ Team!OpenAddMember \/ Team!CloseAddMember \/ Team!handleConfirm \/ Team!handleOpenModal
               \/ Team!handleCloseModal \/ Team!handleConfirmChangeLeader \/ Team!handleSubmit
               \/ Team!OthersAct
               \/ \E u : Team!handleOpenRemoveModal(u) \/ Team!handleSelectMember(u)
               \/ \E n : Team!handleChange(n) \/ \E c : Team!handleSelectColor(c)
        PROVE  UNCHANGED <<acked, settled, load, shown, broken, invalid, teamPage>>
    BY <2>3 DEF Team!handleToggleEditMode, Team!handleCloseRemoveModal, Team!handleConfirmRemoveMember,
                Team!OpenAddMember, Team!CloseAddMember, Team!handleConfirm, Team!handleOpenModal,
                Team!handleCloseModal, Team!handleConfirmChangeLeader, Team!handleSubmit, Team!OthersAct,
                Team!handleOpenRemoveModal, Team!handleSelectMember, Team!handleChange,
                Team!handleSelectColor, Team!Heir, Team!Paint, Team!Fill, Team!KeepQuery, Team!KeepPage
  <2> QED BY <1>2, <1>8, <2>1, <2>2, <2>3 DEF Team!UserActs
<1>9. CASE Team!Answers
  <2>1. ASSUME \/ Team!CheckDue \/ Team!ColorsArrive \/ \E c : Team!Checked(c)
               \/ \E w : Team!WriteServed(w) \/ Team!WriteFails(w)
        PROVE  UNCHANGED <<acked, settled, load, shown, broken, invalid, teamPage>>
    BY <2>1 DEF Team!CheckDue, Team!ColorsArrive, Team!Checked, Team!WriteServed, Team!WriteFails,
                Team!Paint, Team!Fill, Team!KeepQuery, Team!KeepPage
  <2>2. ASSUME Team!Dragged PROVE TeamUpToDate' BY <1>6, <2>2 DEF Team!Dragged
  <2> QED BY <1>2, <1>3, <1>4, <1>5, <1>7, <1>9, <2>1, <2>2 DEF Team!Answers
<1>10. CASE UNCHANGED Team!teamVars BY <1>2, <1>10 DEF Team!teamVars
<1> QED BY <1>8, <1>9, <1>10 DEF Team!Next

LEMMA TeamStep ==
  ASSUME TeamInv, [Team!Next]_(Team!teamVars)
  PROVE  TeamInv'
BY TeamServerStep, TeamQueryStep, TeamPageStep, TeamInviteStep, TeamUpToDateStep DEF TeamInv

LEMMA TeamFirst ==
  ASSUME Team!Init
  PROVE  TeamInv
<1>1. Team!Min(Colors) \in Colors BY LeastMember, ScreensAssumption
<1>2. team \in TeamRecord /\ team.ver = 1
  BY <1>1, ScreensAssumption DEF Team!Init, TeamRecord
<1>3. TeamServer BY <1>2 DEF Team!Init, TeamServer
<1>4. TeamQuery
  <2>1. shown = Team!NoTeam /\ load = Team!SentLoad /\ invalid = FALSE /\ broken = FALSE /\ settled = TRUE
    BY DEF Team!Init
  <2>2. shown.ver = 0 BY <2>1 DEF Team!NoTeam
  <2>3. shown.ver \in Nat /\ shown.ver <= team.ver BY <1>2, <2>2
  <2>4. invalid \in BOOLEAN /\ broken \in BOOLEAN /\ settled \in BOOLEAN BY <2>1
  <2> QED BY <2>1, <2>3, <2>4, Zenon DEF TeamQuery
<1>5. TeamPage BY DEF Team!Init, TeamPage, Team!Pages, Team!NoPalette
<1>6. TeamInvite BY DEF Team!Init, TeamInvite
<1>7. TeamUpToDate BY DEF Team!Init, TeamUpToDate, Team!SentLoad, Team!None
<1> QED BY <1>3, <1>4, <1>5, <1>6, <1>7 DEF TeamInv

(* Types for the page's own type invariant. *)
LEMMA TeamTypes == TeamInv => Team!TypeOK
<1> SUFFICES ASSUME TeamInv PROVE Team!TypeOK
  OBVIOUS
<1>1. team.members \subseteq Members /\ team.color \in Colors /\ team.ver \in Nat
  BY DEF TeamInv, TeamServer, TeamRecord
<1>2. shown.ver \in 0 .. team.ver /\ invalid \in BOOLEAN /\ broken \in BOOLEAN /\ acked <= team.ver
  BY <1>1 DEF TeamInv, TeamServer, TeamQuery
<1>3. /\ editMode \in BOOLEAN /\ removing \in Members \cup {Team!Nobody}
      /\ teamPage \in Team!Pages \cup {"away"} /\ palette.selected \in Colors \cup {Team!Nobody}
  BY DEF TeamInv, TeamPage
<1>4. invite.open => invite.name \in Team!Names \cup {Team!Nobody}
  BY SheetOpen DEF TeamInv, SheetRecord
<1> QED BY <1>1, <1>2, <1>3, <1>4 DEF Team!TypeOK

LEMMA TeamStays == Spec => [](screen = "team" => TeamInv)
<1>1. Init => (screen = "team" => TeamInv) BY FirstPage, TeamFirst
<1>2. (screen = "team" => TeamInv) /\ [Next]_vars => (screen = "team" => TeamInv)'
  BY PageSteps, TeamStep
<1> QED BY <1>1, <1>2, PTL DEF Spec

(* The leader can type, pause, close the sheet and open it again while     *)
(* checks are on their way: a nickname is confirmed only on the verdict of *)
(* its own check.                                                          *)
THEOREM ConfirmedOnItsOwnCheck == Spec => []CheckedIsTyped
<1>1. (screen = "team" => TeamInv) => CheckedIsTyped
  BY SheetOpen DEF TeamInv, CheckedIsTyped, Team!CheckedIsTyped
<1> QED BY <1>1, TeamStays, PTL

(* However loads, invalidations and mutations overlap: once nothing is on  *)
(* its way, the team on show is not older than the last change that its    *)
(* leader was told of, unless a load ran unseen when one was answered.     *)
THEOREM TeamKeepsUp == Spec => []ShownKeepsUp
<1>1. TeamInv => Team!ShownKeepsUp
  BY DEF TeamInv, TeamUpToDate, Team!ShownKeepsUp, TeamServer, TeamQuery
<1>2. (screen = "team" => TeamInv) => ShownKeepsUp
  BY <1>1 DEF ShownKeepsUp
<1> QED BY <1>2, TeamStays, PTL

(***************************************************************************)
(* The admin's teams: the members kept are those of the last save.         *)
(***************************************************************************)
TeamRecords == {Crews!Unborn} \cup
               [state : {"live", "deleted"}, leader : Crews!People, members : SUBSET Crews!People]
LeaderRows  == [leader : Crews!People \cup {Crews!NoTeam}]
CrewLoads   == {Crews!NoCall} \cup [live : BOOLEAN, seen : SUBSET Crews!People]
TeamStack   == [name : Crews!TeamViews \cup {"user", "history"}, team : Teams] \cup
               [name : {"list", "create", "gone"}, team : {Crews!NoTeam}]

MemberSheets == [on : {"members"}, loaded : BOOLEAN, saving : BOOLEAN, chosen : SUBSET Crews!People,
                 seen : TeamRecords]
ChoiceSheets(name) == [on : {name}, chosen : Crews!People \cup {Crews!NoTeam}]
SheetFits(v, s) ==
  CASE v.name = "members"            -> s \in MemberSheets
    [] v.name \in {"leader", "create"} -> s \in ChoiceSheets(v.name)
    [] OTHER                         -> s = Crews!NoSheet

Writes == [kind : {"members"}, team : Teams, ids : SUBSET Crews!People, deep : BOOLEAN, served : BOOLEAN]
     \cup [kind : {"leader"}, team : Teams, leader : Crews!People \cup {Crews!NoTeam}]
     \cup [kind : {"delete"}, team : Teams]
     \cup [kind : {"create"}, team : Teams, leader : Crews!People, served : BOOLEAN]

BaseOK  == base \in [Teams -> TeamRecords]
CrewsShown ==
  /\ teamRows \in [Teams -> LeaderRows] /\ teamCache \in [Teams -> SUBSET Crews!People]
  /\ spinning \subseteq Teams /\ crewCalls \in [Teams -> CrewLoads]
  /\ teamCall \in Teams \cup {Crews!NoTeam}
TrailOK == /\ trail \in Seq(TeamStack) /\ Len(trail) <= MaxDepth
           /\ SheetFits(Crews!Shown(trail, teamRows), sheet)

(* The members are loaded for the cache while it lacks them only.          *)
LoadsFill == \A t \in Teams : crewCalls[t].live => teamCache[t] = Crews!NoCrew

(* Of a team, one write at a time unless its lapse is remembered.          *)
Alone == /\ saves \subseteq Writes /\ lapsed \subseteq Teams
         /\ \A s, z \in saves : s.team = z.team /\ s.team \notin lapsed => s = z

SavedMembers(s) == s.kind = "members" /\ s.served
Settled(t) == \A s \in saves : ~(s.team = t /\ SavedMembers(s))

(* What a save that was answered left on the server.                       *)
ServedOK ==
  \A s \in saves : SavedMembers(s) =>
    /\ base[s.team] # Crews!Unborn /\ s.ids # Crews!NoCrew
    /\ s.team \notin lapsed => base[s.team].members = s.ids

(* Nobody has seen the members of a team that does not exist yet.          *)
UnbornUnseen ==
  \A t \in Teams : base[t] = Crews!Unborn =>
    teamCache[t] = Crews!NoCrew /\ (crewCalls[t].live => crewCalls[t].seen = Crews!NoCrew)

SameCrew(S, t) == S = Crews!NoCrew \/ S \ {Admin} = base[t].members \ {Admin}
CrewsAgree ==
  \A t \in Teams \ lapsed : Settled(t) =>
    SameCrew(teamCache[t], t) /\ (crewCalls[t].live => SameCrew(crewCalls[t].seen, t))

CrewsInv == BaseOK /\ CrewsShown /\ TrailOK /\ LoadsFill /\ Alone /\ ServedOK /\ UnbornUnseen /\ CrewsAgree

LEMMA CrewsFirst ==
  ASSUME Crews!Init
  PROVE  CrewsInv
<1>1. BaseOK BY DEF Crews!Init, BaseOK, TeamRecords, Crews!People
<1>2. CrewsShown
  BY DEF Crews!Init, CrewsShown, LeaderRows, CrewLoads, Crews!NoRow, Crews!NoCrew, Crews!NoCall
<1>3. trail = <<[name |-> "list", team |-> Crews!NoTeam]>> BY DEF Crews!Init, Crews!List, Crews!View
<1>4. [name |-> "list", team |-> Crews!NoTeam] \in TeamStack BY DEF TeamStack
<1>5. trail \in Seq(TeamStack) /\ Len(trail) <= MaxDepth BY <1>3, <1>4, ScreensAssumption
<1>6. Crews!Shown(trail, teamRows) = [name |-> "list", team |-> Crews!NoTeam]
  BY <1>3 DEF Crews!Shown, Crews!Top, Crews!Last, Crews!TeamViews
<1>7. TrailOK BY <1>5, <1>6 DEF TrailOK, SheetFits, Crews!Init
<1>8. LoadsFill /\ UnbornUnseen /\ CrewsAgree
  BY DEF Crews!Init, LoadsFill, UnbornUnseen, CrewsAgree, SameCrew, Crews!NoCall
<1>9. Alone /\ ServedOK BY DEF Crews!Init, Alone, ServedOK
<1> QED BY <1>1, <1>2, <1>7, <1>8, <1>9 DEF CrewsInv

(* The view on top of a stack.                                             *)
LEMMA TopOfStack ==
  ASSUME NEW stack \in Seq(TeamStack)
  PROVE  /\ Crews!Top(stack) \in TeamStack
         /\ stack # <<>> => Crews!Top(stack) = stack[Len(stack)]
         /\ stack = <<>> => Crews!Top(stack).name = "list"
<1>1. stack # <<>> => stack[Len(stack)] \in TeamStack OBVIOUS
<1> QED BY <1>1 DEF Crews!Top, Crews!Last, Crews!View, TeamStack

LEMMA ShownIsTop ==
  ASSUME NEW stack \in Seq(TeamStack), NEW r, NEW v, v = Crews!Shown(stack, r)
  PROVE  /\ v.name \in Crews!TeamViews \cup {"user", "history"} => v = Crews!Top(stack) /\ v.team \in Teams
         /\ v.name \in Crews!TeamViews => r[v.team] # Crews!NoRow
         /\ v = Crews!Top(stack) \/ v.name = "blank"
<1>1. Crews!Top(stack) \in TeamStack BY TopOfStack
<1>2. v = Crews!Top(stack) \/ v.name = "blank" BY DEF Crews!Shown, Crews!View
<1>3. v.name \in Crews!TeamViews => r[v.team] # Crews!NoRow
  BY DEF Crews!Shown, Crews!View, Crews!TeamViews
<1>4. "blank" \notin Crews!TeamViews \cup {"user", "history"} BY DEF Crews!TeamViews
<1>5. \A x \in TeamStack : x.name \in Crews!TeamViews \cup {"user", "history"} => x.team \in Teams
  BY DEF TeamStack, Crews!TeamViews
<1> QED BY <1>1, <1>2, <1>3, <1>4, <1>5

LEMMA FirstSheetFits ==
  ASSUME BaseOK, NEW stack \in Seq(TeamStack), NEW r \in [Teams -> LeaderRows], NEW v,
         v = Crews!Shown(stack, r)
  PROVE  SheetFits(v, Crews!Mounted(v, r))
<1>1. v.name \in {"members", "leader"} => v.team \in Teams BY ShownIsTop DEF Crews!TeamViews
<1>2. CASE v.name = "members"
  BY <1>1, <1>2 DEF SheetFits, Crews!Mounted, MemberSheets, BaseOK, Crews!NoCrew
<1>3. CASE v.name = "leader"
  BY <1>1, <1>3 DEF SheetFits, Crews!Mounted, ChoiceSheets, LeaderRows
<1>4. CASE v.name = "create" BY <1>4 DEF SheetFits, Crews!Mounted, ChoiceSheets
<1>5. CASE v.name \notin {"members", "leader", "create"} BY <1>5 DEF SheetFits, Crews!Mounted
<1> QED BY <1>2, <1>3, <1>4, <1>5

(* What a render keeps, and what its effects have asked for.               *)
LEMMA RenderFits ==
  ASSUME BaseOK, CrewsShown, TrailOK, LoadsFill,
         NEW stack \in Seq(TeamStack), Len(stack) <= MaxDepth,
         NEW r \in [Teams -> LeaderRows], NEW crews \in [Teams -> SUBSET Crews!People],
         Crews!Render(stack, r, crews)
  PROVE  /\ CrewsShown' /\ TrailOK' /\ LoadsFill'
         /\ \A t \in Teams : crewCalls'[t].live =>
              (crewCalls'[t] = crewCalls[t] /\ teamCache' = teamCache) \/ crewCalls'[t].seen = base[t].members
<1>1. /\ trail' = stack /\ teamRows' = r /\ teamCache' = crews
      /\ sheet' = IF Crews!Shown(stack, r) = Crews!Shown(trail, teamRows) THEN sheet
                 ELSE Crews!Mounted(Crews!Shown(stack, r), r)
  BY DEF Crews!Render, Crews!Screen
<1>2. TrailOK'
  <2>1. PICK v : v = Crews!Shown(stack, r) OBVIOUS
  <2>2. SheetFits(v, Crews!Mounted(v, r)) BY <2>1, FirstSheetFits
  <2>3. SheetFits(v, sheet') BY <1>1, <2>1, <2>2 DEF TrailOK
  <2>4. Crews!Shown(trail', teamRows') = v BY <1>1, <2>1
  <2> QED BY <1>1, <2>3, <2>4 DEF TrailOK
<1>3. teamCall' \in Teams \cup {Crews!NoTeam}
  <2>1. Crews!Top(stack).name \in Crews!TeamViews => Crews!Top(stack).team \in Teams
    BY TopOfStack DEF TeamStack, Crews!TeamViews
  <2> QED BY <2>1 DEF Crews!Render, Crews!Screen, Crews!TeamEffect, CrewsShown
<1>4. PICK v, rerun, wanted :
        /\ v = Crews!Top(stack) /\ rerun = (stack # trail \/ crews # teamCache)
        /\ wanted = (/\ rerun /\ v.name \in Crews!CrewViews /\ crews[v.team] = Crews!NoCrew
                     /\ crewCalls[v.team] = Crews!NoCall)
        /\ crewCalls' = [t \in Teams |->
                          IF wanted /\ t = v.team THEN Crews!Asked(t)
                          ELSE IF rerun /\ crewCalls[t] # Crews!NoCall
                          THEN [crewCalls[t] EXCEPT !.live = FALSE] ELSE crewCalls[t]]
        /\ spinning' = IF wanted THEN spinning \cup {v.team} ELSE spinning
  BY DEF Crews!Render, Crews!CrewEffect
<1>5. wanted => v.team \in Teams BY <1>4, TopOfStack DEF TeamStack, Crews!CrewViews, Crews!TeamViews
<1>6. ASSUME NEW t \in Teams
      PROVE  /\ crewCalls'[t] \in CrewLoads
             /\ crewCalls'[t].live => /\ crews[t] = Crews!NoCrew
                                     /\ \/ crewCalls'[t] = crewCalls[t] /\ crews = teamCache
                                        \/ crewCalls'[t].seen = base[t].members
  <2>0. crewCalls[t] \in CrewLoads BY DEF CrewsShown
  <2>1. CASE wanted /\ t = v.team
    <3>1. crewCalls'[t] = Crews!Asked(t) /\ crews[t] = Crews!NoCrew BY <1>4, <2>1
    <3>2. Crews!Asked(t) \in CrewLoads /\ Crews!Asked(t).seen = base[t].members
      BY DEF Crews!Asked, CrewLoads, BaseOK, TeamRecords, Crews!Unborn
    <3> QED BY <3>1, <3>2
  <2>2. CASE ~(wanted /\ t = v.team) /\ rerun
    <3>1. crewCalls[t] = Crews!NoCall => crewCalls'[t] = Crews!NoCall BY <1>4, <2>2
    <3>2. crewCalls[t] # Crews!NoCall => crewCalls'[t] = [crewCalls[t] EXCEPT !.live = FALSE] BY <1>4, <2>2
    <3>3. Crews!NoCall \in CrewLoads /\ ~Crews!NoCall.live BY DEF CrewLoads, Crews!NoCall
    <3>4. ASSUME NEW c \in [live : BOOLEAN, seen : SUBSET Crews!People]
          PROVE  [c EXCEPT !.live = FALSE] \in CrewLoads /\ ~[c EXCEPT !.live = FALSE].live
      BY DEF CrewLoads
    <3>5. crewCalls[t] = Crews!NoCall \/ crewCalls[t] \in [live : BOOLEAN, seen : SUBSET Crews!People]
      BY <2>0 DEF CrewLoads
    <3>6. crewCalls'[t] \in CrewLoads /\ ~crewCalls'[t].live BY <3>1, <3>2, <3>3, <3>4, <3>5, Zenon
    <3> QED BY <3>6
  <2>3. CASE ~rerun
    <3>1. crewCalls'[t] = crewCalls[t] /\ crews = teamCache BY <1>4, <2>3
    <3> QED BY <2>0, <3>1 DEF LoadsFill
  <2> QED BY <2>1, <2>2, <2>3
<1>7. crewCalls' \in [Teams -> CrewLoads]
  <2>1. crewCalls' = [t \in Teams |-> crewCalls'[t]] BY <1>4
  <2> QED BY <1>6, <2>1
<1>8. CrewsShown' BY <1>1, <1>3, <1>4, <1>5, <1>7 DEF CrewsShown
<1>9. LoadsFill' BY <1>1, <1>6 DEF LoadsFill
<1> QED BY <1>1, <1>2, <1>6, <1>8, <1>9

(* A step that learns of no write, and asks the server or forgets.         *)
LEMMA CrewsStay ==
  ASSUME CrewsInv, base' = base, lapsed \subseteq lapsed',
         CrewsShown', TrailOK', LoadsFill', Alone', ServedOK',
         \A t \in Teams \ lapsed' : Settled(t)' => Settled(t),
         \A t \in Teams : teamCache'[t] \in {teamCache[t], Crews!NoCrew},
         \A t \in Teams : crewCalls'[t].live =>
           crewCalls'[t] = crewCalls[t] \/ crewCalls'[t].seen = base[t].members
  PROVE  CrewsInv'
<1>0. BaseOK /\ UnbornUnseen /\ CrewsAgree BY DEF CrewsInv
<1>1. BaseOK' BY <1>0 DEF BaseOK
<1>2. UnbornUnseen' BY <1>0 DEF UnbornUnseen, Crews!Unborn, Crews!NoCrew
<1>3. CrewsAgree'
  <2> SUFFICES ASSUME NEW t \in Teams \ lapsed', Settled(t)'
               PROVE  /\ SameCrew(teamCache[t], t)'
                      /\ crewCalls'[t].live => SameCrew(crewCalls[t].seen, t)'
    BY DEF CrewsAgree
  <2>1. Settled(t) /\ t \in Teams \ lapsed OBVIOUS
  <2>2. /\ SameCrew(teamCache[t], t)
        /\ crewCalls[t].live => SameCrew(crewCalls[t].seen, t)
    BY <1>0, <2>1 DEF CrewsAgree
  <2> QED BY <2>2 DEF SameCrew
<1> QED BY <1>1, <1>2, <1>3 DEF CrewsInv

(* The same screen, over the same server.                                  *)
LEMMA SameWrites ==
  ASSUME CrewsInv, UNCHANGED <<base, saves, lapsed>>
  PROVE  Alone' /\ ServedOK' /\ \A t \in Teams : Settled(t)' => Settled(t)
  BY DEF CrewsInv, Alone, ServedOK, Settled, SavedMembers

LEMMA OneMoreWrite ==
  ASSUME CrewsInv, base' = base, NEW w \in Writes, ~SavedMembers(w), Crews!Write(w)
  PROVE  /\ Alone' /\ ServedOK' /\ lapsed \subseteq lapsed'
         /\ \A t \in Teams : Settled(t)' => Settled(t)
<1>0. Alone /\ ServedOK BY DEF CrewsInv
<1>1. /\ saves' = saves \cup {w} /\ lapsed \subseteq lapsed' /\ lapsed' \subseteq lapsed \cup {w.team}
      /\ (\E s \in saves : s.team = w.team) => w.team \in lapsed'
  BY DEF Crews!Write
<1>2. w.team \in Teams BY DEF Writes
<1>3. Alone' BY <1>0, <1>1, <1>2 DEF Alone
<1>4. ServedOK' BY <1>0, <1>1 DEF ServedOK, SavedMembers
<1> QED BY <1>1, <1>3, <1>4 DEF Settled, SavedMembers

LEMMA OneWriteLess ==
  ASSUME CrewsInv, base' = base, NEW s \in saves, saves' = saves \ {s},
         lapsed' \in {lapsed, lapsed \cup {s.team}}, SavedMembers(s) => s.team \in lapsed'
  PROVE  /\ Alone' /\ ServedOK' /\ lapsed \subseteq lapsed'
         /\ \A t \in Teams \ lapsed' : Settled(t)' => Settled(t)
<1>0. Alone /\ ServedOK BY DEF CrewsInv
<1>1. s.team \in Teams BY <1>0 DEF Alone, Writes
<1>2. Alone' BY <1>0, <1>1 DEF Alone
<1>3. ServedOK' BY <1>0 DEF ServedOK, SavedMembers
<1> QED BY <1>2, <1>3 DEF Settled, SavedMembers

(* A render that keeps the cache, and what is under the top of a stack.    *)
LEMMA CrewsRender ==
  ASSUME CrewsInv, base' = base, lapsed \subseteq lapsed', Alone', ServedOK',
         \A t \in Teams \ lapsed' : Settled(t)' => Settled(t),
         NEW stack \in Seq(TeamStack), Len(stack) <= MaxDepth, NEW r \in [Teams -> LeaderRows],
         NEW t, Crews!Render(stack, r, teamCache) \/ Crews!Render(stack, r, [teamCache EXCEPT ![t] = Crews!NoCrew])
  PROVE  CrewsInv'
<1>0. BaseOK /\ CrewsShown /\ TrailOK /\ LoadsFill BY DEF CrewsInv
<1>1. PICK crews \in {teamCache, [teamCache EXCEPT ![t] = Crews!NoCrew]} : Crews!Render(stack, r, crews)
  OBVIOUS
<1>2. crews \in [Teams -> SUBSET Crews!People] /\ \A u \in Teams : crews[u] \in {teamCache[u], Crews!NoCrew}
  BY <1>0 DEF CrewsShown, Crews!NoCrew
<1>3. /\ CrewsShown' /\ TrailOK' /\ LoadsFill' /\ teamCache' = crews
      /\ \A u \in Teams : crewCalls'[u].live =>
           crewCalls'[u] = crewCalls[u] \/ crewCalls'[u].seen = base[u].members
  BY <1>0, <1>1, <1>2, RenderFits DEF Crews!Render
<1> QED BY <1>2, <1>3, CrewsStay

LEMMA PreviousIsStack ==
  ASSUME NEW stack \in Seq(TeamStack), Len(stack) <= MaxDepth, NEW deep \in BOOLEAN
  PROVE  Crews!Previous(stack, deep) \in Seq(TeamStack) /\ Len(Crews!Previous(stack, deep)) <= MaxDepth
<1>1. Crews!Gone \in Seq(TeamStack) /\ Len(Crews!Gone) <= MaxDepth
  BY ScreensAssumption DEF Crews!Gone, Crews!View, TeamStack
<1>2. <<>> \in Seq(TeamStack) /\ Len(<<>>) <= MaxDepth BY ScreensAssumption
<1>3. stack # <<>> => Crews!Front(stack) \in Seq(TeamStack) /\ Len(Crews!Front(stack)) <= MaxDepth
  <2> SUFFICES ASSUME stack # <<>>
               PROVE  Crews!Front(stack) \in Seq(TeamStack) /\ Len(Crews!Front(stack)) <= MaxDepth
    OBVIOUS
  <2>1. Len(stack) \in Nat /\ Len(stack) # 0 OBVIOUS
  <2>2. /\ 1 \in Int /\ Len(stack) - 1 \in Int /\ Len(stack) - 1 <= MaxDepth
        /\ \A n \in 1 .. Len(stack) - 1 : n \in 1 .. Len(stack)
    BY <2>1, ScreensAssumption
  <2>3. \A n \in 1 .. Len(stack) - 1 : stack[n] \in TeamStack BY <2>2
  <2>4. PICK f : f = SubSeq(stack, 1, Len(stack) - 1) OBVIOUS
  <2>5. f \in Seq(TeamStack) /\ Len(f) = IF 1 <= Len(stack) - 1 THEN Len(stack) - 1 - 1 + 1 ELSE 0
    BY <2>2, <2>3, <2>4, SubSeqProperties
  <2>6. Len(f) <= MaxDepth BY <2>2, <2>5, ScreensAssumption
  <2> QED BY <2>4, <2>5, <2>6 DEF Crews!Front
<1> QED BY <1>1, <1>2, <1>3 DEF Crews!Previous

LEMMA PreviousIsStackToo ==
  ASSUME NEW stack \in Seq(TeamStack), Len(stack) <= MaxDepth
  PROVE  LET under == Crews!Previous(stack, Len(stack) > 1)
         IN  under \in Seq(TeamStack) /\ Len(under) <= MaxDepth
<1>1. CASE Len(stack) > 1
  <2>1. Crews!Previous(stack, Len(stack) > 1) = Crews!Previous(stack, TRUE) BY <1>1 DEF Crews!Previous
  <2> QED BY <2>1, PreviousIsStack
<1>2. CASE ~(Len(stack) > 1)
  <2>1. Crews!Previous(stack, Len(stack) > 1) = Crews!Previous(stack, FALSE) BY <1>2 DEF Crews!Previous
  <2> QED BY <2>1, PreviousIsStack
<1> QED BY <1>1, <1>2

(* Views, and what the list brings.                                        *)
LEMMA CrewsViews ==
  ASSUME CrewsInv,
         \/ \E f \in {"all", "other"} : Crews!refreshTeams(f) \/ Crews!TeamsArrive(f)
         \/ \E t \in Teams : Crews!SelectTeam(t)
         \/ \E name \in {"settings", "members", "leader", "delete", "user", "history"} : Crews!OpenFromTeam(name)
         \/ Crews!OpenCreate \/ Crews!OpenFromSettings \/ Crews!OpenFromUser \/ Crews!goBack
         \/ Crews!handleSaveTeamSettings \/ Crews!TeamArrives \/ Crews!TeamLoadFails
         \/ UNCHANGED Crews!teamVars
  PROVE  CrewsInv'
<1> USE DEF Crews!KeepServer, Crews!KeepScreen
<1>0. BaseOK /\ CrewsShown /\ TrailOK /\ LoadsFill BY DEF CrewsInv
<1>1. ASSUME UNCHANGED <<base, saves, lapsed, teamRows, teamCache, spinning, crewCalls, trail, sheet>>,
             teamCall' \in {teamCall, Crews!NoTeam}
      PROVE  CrewsInv'
  <2>1. Alone' /\ ServedOK' /\ \A t \in Teams : Settled(t)' => Settled(t) BY <1>1, SameWrites
  <2>2. CrewsShown' /\ TrailOK' /\ LoadsFill' BY <1>0, <1>1 DEF CrewsShown, TrailOK, LoadsFill, Crews!Shown
  <2> QED BY <1>1, <2>1, <2>2, CrewsStay
<1>2. ASSUME UNCHANGED <<base, saves, lapsed>>, NEW stack \in Seq(TeamStack), Len(stack) <= MaxDepth,
             NEW r \in [Teams -> LeaderRows], Crews!Render(stack, r, teamCache)
      PROVE  CrewsInv'
  <2>1. Alone' /\ ServedOK' /\ \A t \in Teams : Settled(t)' => Settled(t) BY <1>2, SameWrites
  <2> QED BY <1>2, <2>1, CrewsRender
<1>3. trail \in Seq(TeamStack) /\ Len(trail) <= MaxDepth /\ teamRows \in [Teams -> LeaderRows]
  BY <1>0 DEF TrailOK, CrewsShown
<1>4. ASSUME NEW f \in {"all", "other"}, Crews!TeamsArrive(f) PROVE CrewsInv'
  <2>1. PICK r : r = [t \in Teams |-> IF f = "all" /\ Crews!Live(t) THEN Crews!Row(t) ELSE Crews!NoRow] OBVIOUS
  <2>2. r \in [Teams -> LeaderRows]
    <3>1. \A t \in Teams : Crews!Row(t) \in LeaderRows /\ Crews!NoRow \in LeaderRows
      BY <1>0 DEF BaseOK, TeamRecords, LeaderRows, Crews!Row, Crews!NoRow, Crews!Unborn
    <3> QED BY <2>1, <3>1
  <2>3. UNCHANGED <<base, saves, lapsed>> /\ Crews!Render(trail, r, teamCache)
    BY <1>4, <2>1 DEF Crews!TeamsArrive
  <2> QED BY <1>2, <1>3, <2>2, <2>3
<1>5. ASSUME Crews!TeamArrives PROVE CrewsInv'
  <2>1. PICK r : r = [teamRows EXCEPT ![teamCall] = Crews!Row(teamCall)] OBVIOUS
  <2>2. teamCall \in Teams BY <1>0, <1>5 DEF Crews!TeamArrives, CrewsShown
  <2>3. Crews!Row(teamCall) \in LeaderRows
    BY <1>0, <2>2 DEF BaseOK, TeamRecords, LeaderRows, Crews!Row, Crews!Unborn
  <2>4. r \in [Teams -> LeaderRows] BY <1>3, <2>1, <2>3
  <2>5. UNCHANGED <<base, saves, lapsed>> /\ Crews!Render(trail, r, teamCache)
    BY <1>5, <2>1 DEF Crews!TeamArrives
  <2> QED BY <1>2, <1>3, <2>4, <2>5
<1>6. ASSUME NEW n, NEW t, [name |-> n, team |-> t] \in TeamStack, Crews!navigate(n, t) PROVE CrewsInv'
  <2>1. PICK stack : stack = Append(trail, [name |-> n, team |-> t]) OBVIOUS
  <2>2. stack \in Seq(TeamStack) /\ Len(stack) = Len(trail) + 1 BY <1>3, <1>6, <2>1
  <2>3. Len(trail) \in Nat /\ Len(trail) < MaxDepth BY <1>3, <1>6 DEF Crews!navigate
  <2>4. Len(stack) <= MaxDepth BY <2>2, <2>3, ScreensAssumption
  <2>5. Crews!Goto(stack) BY <1>6, <2>1 DEF Crews!navigate, Crews!View
  <2>6. UNCHANGED <<base, saves, lapsed>> /\ Crews!Render(stack, teamRows, teamCache) BY <2>5 DEF Crews!Goto
  <2> QED BY <1>2, <1>3, <2>2, <2>4, <2>6
<1>7. ASSUME NEW t \in Teams, Crews!SelectTeam(t) PROVE CrewsInv'
  <2>1. [name |-> "team", team |-> t] \in TeamStack BY DEF TeamStack, Crews!TeamViews
  <2> QED BY <1>6, <1>7, <2>1 DEF Crews!SelectTeam
<1>8. ASSUME Crews!OpenCreate PROVE CrewsInv'
  <2>1. [name |-> "create", team |-> Crews!NoTeam] \in TeamStack BY DEF TeamStack
  <2> QED BY <1>6, <1>8, <2>1 DEF Crews!OpenCreate
<1>9. ASSUME NEW n \in {"team", "settings", "user"}, Crews!On(n) PROVE Crews!OnTeam \in Teams
  <2>1. PICK v : v = Crews!Shown(trail, teamRows) OBVIOUS
  <2>2. v.name = n BY <1>9, <2>1 DEF Crews!On
  <2>3. n \in Crews!TeamViews \cup {"user", "history"} BY DEF Crews!TeamViews
  <2> QED BY <1>3, <2>1, <2>2, <2>3, ShownIsTop DEF Crews!OnTeam
<1>10. ASSUME NEW n \in {"settings", "members", "leader", "delete", "user", "history"}, Crews!OpenFromTeam(n)
       PROVE  CrewsInv'
  <2>1. Crews!OnTeam \in Teams /\ Crews!navigate(n, Crews!OnTeam) BY <1>9, <1>10 DEF Crews!OpenFromTeam
  <2>2. [name |-> n, team |-> Crews!OnTeam] \in TeamStack BY <2>1 DEF TeamStack, Crews!TeamViews
  <2> QED BY <1>6, <2>1, <2>2
<1>11. ASSUME Crews!OpenFromSettings \/ Crews!OpenFromUser PROVE CrewsInv'
  <2>1. PICK n \in {"leader", "team"} : Crews!OnTeam \in Teams /\ Crews!navigate(n, Crews!OnTeam)
    BY <1>9, <1>11 DEF Crews!OpenFromSettings, Crews!OpenFromUser
  <2>2. [name |-> n, team |-> Crews!OnTeam] \in TeamStack BY <2>1 DEF TeamStack, Crews!TeamViews
  <2> QED BY <1>6, <2>1, <2>2
<1>12. ASSUME Crews!goBack \/ Crews!handleSaveTeamSettings PROVE CrewsInv'
  <2>1. PICK stack : stack = Crews!Previous(trail, Len(trail) > 1) OBVIOUS
  <2>2. stack \in Seq(TeamStack) /\ Len(stack) <= MaxDepth BY <1>3, <2>1, PreviousIsStackToo
  <2>3. UNCHANGED <<base, saves, lapsed>> /\ Crews!Render(stack, teamRows, teamCache)
    BY <1>12, <2>1 DEF Crews!goBack, Crews!handleSaveTeamSettings, Crews!Goto
  <2> QED BY <1>2, <1>3, <2>2, <2>3
<1>13. ASSUME (\E f \in {"all", "other"} : Crews!refreshTeams(f)) \/ Crews!TeamLoadFails \/ UNCHANGED Crews!teamVars
       PROVE  CrewsInv'
  BY <1>1, <1>13 DEF Crews!refreshTeams, Crews!TeamLoadFails, Crews!teamVars
<1> QED BY <1>4, <1>5, <1>7, <1>8, <1>10, <1>11, <1>12, <1>13

(* The members of a team: their loads, and the sheet they are chosen on.   *)
LEMMA CrewsSheets ==
  ASSUME CrewsInv,
         \/ Crews!EditListArrives \/ Crews!EditListFails \/ Crews!handleSave
         \/ \E u \in Crews!People : Crews!Toggle(u) \/ Crews!ChooseLeader(u)
         \/ \E s \in saves : Crews!SaveFails(s)
  PROVE  CrewsInv'
<1> USE DEF Crews!KeepServer, Crews!KeepBehindSheet
<1>0. BaseOK /\ CrewsShown /\ TrailOK /\ LoadsFill BY DEF CrewsInv
<1>1. PICK v : v = Crews!Shown(trail, teamRows) OBVIOUS
<1>2. ASSUME UNCHANGED <<base, teamRows, teamCache, spinning, crewCalls, teamCall, trail>>,
             SheetFits(v, sheet'), Alone', ServedOK', lapsed \subseteq lapsed',
             \A t \in Teams \ lapsed' : Settled(t)' => Settled(t)
      PROVE  CrewsInv'
  <2>1. CrewsShown' /\ LoadsFill' BY <1>0, <1>2 DEF CrewsShown, LoadsFill
  <2>2. Crews!Shown(trail', teamRows') = v BY <1>1, <1>2
  <2>3. TrailOK' BY <1>0, <1>2, <2>2 DEF TrailOK
  <2> QED BY <1>2, <2>1, <2>3, CrewsStay
<1>3. SheetFits(v, sheet) BY <1>0, <1>1 DEF TrailOK
<1>4. v.name = "members" => sheet \in MemberSheets /\ Crews!OnTeam \in Teams
  <2>1. trail \in Seq(TeamStack) BY <1>0 DEF TrailOK
  <2> QED BY <1>1, <1>3, <2>1, ShownIsTop DEF SheetFits, Crews!OnTeam, Crews!TeamViews
<1>5. \A e \in MemberSheets : v.name = "members" => SheetFits(v, e) BY DEF SheetFits
<1>6. ASSUME Crews!EditListArrives \/ Crews!EditListFails \/ \E u \in Crews!People : Crews!Toggle(u) PROVE CrewsInv'
  <2>1. /\ v.name = "members" /\ UNCHANGED <<base, saves, lapsed>>
        /\ UNCHANGED <<teamRows, teamCache, spinning, crewCalls, teamCall, trail>>
    BY <1>1, <1>6 DEF Crews!EditListArrives, Crews!EditListFails, Crews!Toggle, Crews!On
  <2>2. sheet' \in MemberSheets
    <3>1. ASSUME NEW a \in TeamRecords
          PROVE  [sheet EXCEPT !.loaded = TRUE, !.chosen = a.members, !.seen = a] \in MemberSheets
      <4>1. a.members \subseteq Crews!People BY DEF TeamRecords, Crews!Unborn
      <4> QED BY <1>4, <2>1, <4>1 DEF MemberSheets
    <3>2. sheet.seen \in TeamRecords /\ base[Crews!OnTeam] \in TeamRecords
      BY <1>0, <1>4, <2>1 DEF MemberSheets, BaseOK
    <3>3. ASSUME NEW S \in SUBSET Crews!People
          PROVE  [sheet EXCEPT !.chosen = S] \in MemberSheets /\ [sheet EXCEPT !.loaded = TRUE] \in MemberSheets
      BY <1>4, <2>1 DEF MemberSheets
    <3>4. \A u \in Crews!People : sheet.chosen \ {u} \subseteq Crews!People /\ sheet.chosen \cup {u} \subseteq Crews!People
      BY <1>4, <2>1 DEF MemberSheets
    <3>5. CASE Crews!EditListArrives BY <3>1, <3>2, <3>5 DEF Crews!EditListArrives
    <3>6. CASE Crews!EditListFails BY <3>3, <3>6 DEF Crews!EditListFails
    <3>7. CASE \E u \in Crews!People : Crews!Toggle(u)
      <4>1. PICK S \in SUBSET Crews!People : sheet' = [sheet EXCEPT !.chosen = S]
        BY <3>4, <3>7 DEF Crews!Toggle
      <4> QED BY <3>3, <4>1
    <3> QED BY <1>6, <3>5, <3>6, <3>7
  <2>3. SheetFits(v, sheet') BY <1>5, <2>1, <2>2
  <2>4. Alone' /\ ServedOK' /\ \A t \in Teams : Settled(t)' => Settled(t) BY <2>1, SameWrites
  <2> QED BY <1>2, <2>1, <2>3, <2>4
<1>7. ASSUME NEW u \in Crews!People, Crews!ChooseLeader(u) PROVE CrewsInv'
  <2>1. /\ v.name \in {"leader", "create"} /\ UNCHANGED <<base, saves, lapsed>>
        /\ UNCHANGED <<teamRows, teamCache, spinning, crewCalls, teamCall, trail>>
        /\ sheet' = [sheet EXCEPT !.chosen = u]
    BY <1>1, <1>7 DEF Crews!ChooseLeader, Crews!On
  <2>2. sheet \in ChoiceSheets(v.name) BY <1>3, <2>1 DEF SheetFits
  <2>3. sheet' \in ChoiceSheets(v.name) BY <2>1, <2>2 DEF ChoiceSheets
  <2>4. SheetFits(v, sheet') BY <2>1, <2>3 DEF SheetFits
  <2>5. Alone' /\ ServedOK' /\ \A t \in Teams : Settled(t)' => Settled(t) BY <2>1, SameWrites
  <2> QED BY <1>2, <2>1, <2>4, <2>5
<1>8. ASSUME Crews!handleSave PROVE CrewsInv'
  <2>1. PICK w : /\ w = [kind |-> "members", team |-> Crews!OnTeam, ids |-> sheet.chosen,
                         deep |-> Len(trail) > 1, served |-> FALSE]
                 /\ v.name = "members" /\ Crews!Write(w) /\ base' = base
                 /\ UNCHANGED <<teamRows, teamCache, spinning, crewCalls, teamCall, trail>>
                 /\ sheet' = [sheet EXCEPT !.saving = TRUE]
    BY <1>1, <1>8 DEF Crews!handleSave, Crews!On
  <2>2. sheet \in MemberSheets /\ sheet' \in MemberSheets BY <1>4, <2>1 DEF MemberSheets
  <2>3. SheetFits(v, sheet') BY <1>5, <2>1, <2>2
  <2>4. w \in Writes /\ ~SavedMembers(w) BY <1>4, <2>1, <2>2 DEF Writes, MemberSheets, SavedMembers
  <2> QED BY <1>2, <2>1, <2>3, <2>4, OneMoreWrite
<1>9. ASSUME NEW s \in saves, Crews!SaveFails(s) PROVE CrewsInv'
  <2>1. /\ UNCHANGED <<base, teamRows, teamCache, spinning, crewCalls, teamCall, trail>>
        /\ saves' = saves \ {s} /\ lapsed' = lapsed \cup {s.team}
        /\ sheet' = sheet \/ (sheet.on = "members" /\ sheet' = [sheet EXCEPT !.saving = FALSE])
    BY <1>9 DEF Crews!SaveFails
  <2>2. sheet.on = "members" => v.name = "members"
    BY <1>3 DEF SheetFits, ChoiceSheets, Crews!NoSheet
  <2>3. SheetFits(v, sheet')
    <3>1. CASE sheet' = sheet BY <1>3, <3>1
    <3>2. CASE sheet.on = "members" /\ sheet' = [sheet EXCEPT !.saving = FALSE]
      <4>1. sheet' \in MemberSheets BY <1>4, <2>2, <3>2 DEF MemberSheets
      <4> QED BY <1>5, <2>2, <3>2, <4>1
    <3> QED BY <2>1, <3>1, <3>2
  <2>4. /\ Alone' /\ ServedOK' /\ lapsed \subseteq lapsed'
        /\ \A t \in Teams \ lapsed' : Settled(t)' => Settled(t)
    BY <2>1, OneWriteLess
  <2> QED BY <1>2, <2>1, <2>3, <2>4
<1> QED BY <1>6, <1>7, <1>8, <1>9

(* The loads of members that the cache takes or drops.                     *)
LEMMA CrewsLoads ==
  ASSUME CrewsInv, NEW t \in Teams,
         Crews!CrewLoadFails(t) \/ \E m \in SUBSET Crews!People : Crews!CrewArrives(t, m)
  PROVE  CrewsInv'
<1> USE DEF Crews!KeepServer
<1>0. BaseOK /\ CrewsShown /\ TrailOK /\ LoadsFill /\ UnbornUnseen /\ CrewsAgree BY DEF CrewsInv
<1>1. PICK m \in SUBSET Crews!People :
        /\ crewCalls[t] # Crews!NoCall /\ crewCalls' = [crewCalls EXCEPT ![t] = Crews!NoCall]
        /\ UNCHANGED <<base, saves, lapsed, teamRows, teamCall, trail, sheet>> /\ spinning' \subseteq spinning
        /\ \/ teamCache' = teamCache
           \/ /\ crewCalls[t].live /\ teamCache' = [teamCache EXCEPT ![t] = m]
              /\ m \in {crewCalls[t].seen, base[t].members} /\ Crews!Live(t)
  <2>1. {} \in SUBSET Crews!People OBVIOUS
  <2> QED BY <2>1 DEF Crews!CrewLoadFails, Crews!CrewArrives, Crews!CacheAfter
<1>2. /\ crewCalls'[t] = Crews!NoCall /\ ~crewCalls'[t].live
      /\ \A u \in Teams : u # t => crewCalls'[u] = crewCalls[u] /\ teamCache'[u] = teamCache[u]
  BY <1>0, <1>1 DEF CrewsShown, Crews!NoCall
<1>3. CrewsShown'
  <2>1. teamCache' \in [Teams -> SUBSET Crews!People] BY <1>0, <1>1 DEF CrewsShown
  <2> QED BY <1>0, <1>1, <2>1 DEF CrewsShown, CrewLoads
<1>4. BaseOK' /\ TrailOK' BY <1>0, <1>1 DEF BaseOK, TrailOK, Crews!Shown
<1>5. LoadsFill'
  <2> SUFFICES ASSUME NEW u \in Teams, crewCalls'[u].live PROVE teamCache'[u] = Crews!NoCrew
    BY DEF LoadsFill
  <2> QED BY <1>0, <1>2 DEF LoadsFill
<1>6. Alone' /\ ServedOK' /\ \A u \in Teams : Settled(u)' => Settled(u) BY <1>1, SameWrites
<1>7. UnbornUnseen'
  <2> SUFFICES ASSUME NEW u \in Teams, base[u] = Crews!Unborn
               PROVE  /\ teamCache'[u] = Crews!NoCrew
                      /\ crewCalls'[u].live => crewCalls'[u].seen = Crews!NoCrew
    BY <1>1 DEF UnbornUnseen
  <2>1. CASE u # t BY <1>0, <1>2, <2>1 DEF UnbornUnseen
  <2>2. CASE u = t
    <3>1. ~Crews!Live(t) BY <2>2 DEF Crews!Live, Crews!Unborn
    <3>2. teamCache' = teamCache BY <1>1, <3>1
    <3> QED BY <1>0, <1>2, <2>2, <3>2 DEF UnbornUnseen
  <2> QED BY <2>1, <2>2
<1>8. CrewsAgree'
  <2> SUFFICES ASSUME NEW u \in Teams \ lapsed, Settled(u)
               PROVE  /\ SameCrew(teamCache[u], u)'
                      /\ crewCalls'[u].live => SameCrew(crewCalls[u].seen, u)'
    BY <1>1, <1>6 DEF CrewsAgree
  <2>1. /\ SameCrew(teamCache[u], u)
        /\ crewCalls[u].live => SameCrew(crewCalls[u].seen, u)
    BY <1>0 DEF CrewsAgree
  <2>2. CASE u # t BY <1>1, <1>2, <2>1, <2>2 DEF SameCrew
  <2>3. CASE u = t
    <3>1. CASE teamCache' = teamCache BY <1>1, <1>2, <2>1, <2>3, <3>1 DEF SameCrew
    <3>2. CASE teamCache' # teamCache
      <4>1. /\ crewCalls[t].live /\ teamCache' = [teamCache EXCEPT ![t] = m]
            /\ m \in {crewCalls[t].seen, base[t].members}
        BY <1>1, <3>2
      <4>2. teamCache'[t] = m BY <1>0, <4>1 DEF CrewsShown
      <4>3. SameCrew(m, t) BY <2>1, <2>3, <4>1 DEF SameCrew
      <4> QED BY <1>1, <1>2, <2>3, <4>2, <4>3 DEF SameCrew
    <3> QED BY <3>1, <3>2
  <2> QED BY <2>2, <2>3
<1> QED BY <1>3, <1>4, <1>5, <1>6, <1>7, <1>8 DEF CrewsInv

(* A team that is led by someone else, deleted or created.                 *)
LEMMA CrewsWrites ==
  ASSUME CrewsInv,
         \/ Crews!handleChangeLeader \/ Crews!handleDeleteTeam
         \/ \E t \in Teams : Crews!SubmitTeam(t)
         \/ \E s \in saves : Crews!handleCreateTeam(s) \/ Crews!WriteLost(s)
  PROVE  CrewsInv'
<1> USE DEF Crews!KeepServer, Crews!KeepScreen
<1>0. CrewsShown /\ TrailOK /\ LoadsFill /\ Alone BY DEF CrewsInv
<1>1. trail \in Seq(TeamStack) /\ Len(trail) <= MaxDepth /\ teamRows \in [Teams -> LeaderRows]
  BY <1>0 DEF TrailOK, CrewsShown
<1>2. PICK v : v = Crews!Shown(trail, teamRows) OBVIOUS
<1>3. SheetFits(v, sheet) BY <1>0, <1>2 DEF TrailOK
<1>4. v.name \in {"leader", "delete"} => Crews!OnTeam \in Teams
  BY <1>1, <1>2, ShownIsTop DEF Crews!OnTeam, Crews!TeamViews
<1>5. ASSUME UNCHANGED <<base, teamRows, teamCache, spinning, crewCalls, teamCall, trail, sheet>>,
             Alone', ServedOK', lapsed \subseteq lapsed', \A t \in Teams \ lapsed' : Settled(t)' => Settled(t)
      PROVE  CrewsInv'
  <2>1. CrewsShown' /\ TrailOK' /\ LoadsFill' BY <1>0, <1>5 DEF CrewsShown, TrailOK, LoadsFill, Crews!Shown
  <2> QED BY <1>5, <2>1, CrewsStay
<1>6. ASSUME Crews!handleChangeLeader PROVE CrewsInv'
  <2>1. PICK stack, r, w :
          /\ stack = Crews!Previous(trail, Len(trail) > 1)
          /\ r = [teamRows EXCEPT ![Crews!OnTeam] = [leader |-> sheet.chosen]]
          /\ w = [kind |-> "leader", team |-> Crews!OnTeam, leader |-> sheet.chosen]
          /\ v.name = "leader" /\ base' = base
          /\ Crews!Render(stack, r, teamCache) /\ Crews!Write(w)
    BY <1>2, <1>6 DEF Crews!handleChangeLeader, Crews!On
  <2>2. sheet \in ChoiceSheets("leader") BY <1>3, <2>1 DEF SheetFits
  <2>3. r \in [Teams -> LeaderRows] BY <1>1, <2>1, <2>2 DEF ChoiceSheets, LeaderRows
  <2>4. w \in Writes /\ ~SavedMembers(w) BY <1>4, <2>1, <2>2 DEF ChoiceSheets, Writes, SavedMembers
  <2>5. stack \in Seq(TeamStack) /\ Len(stack) <= MaxDepth BY <1>1, <2>1, PreviousIsStackToo
  <2> QED BY <2>1, <2>3, <2>4, <2>5, OneMoreWrite, CrewsRender
<1>7. ASSUME Crews!handleDeleteTeam PROVE CrewsInv'
  <2>1. PICK stack, r, w :
          /\ stack = Crews!List
          /\ r = [teamRows EXCEPT ![Crews!OnTeam] = Crews!NoRow]
          /\ w = [kind |-> "delete", team |-> Crews!OnTeam]
          /\ v.name = "delete" /\ base' = base
          /\ Crews!Render(stack, r, [teamCache EXCEPT ![Crews!OnTeam] = Crews!NoCrew]) /\ Crews!Write(w)
    BY <1>2, <1>7 DEF Crews!handleDeleteTeam, Crews!DeleteTeamScreen, Crews!On
  <2>2. r \in [Teams -> LeaderRows] BY <1>1, <2>1 DEF LeaderRows, Crews!NoRow
  <2>3. w \in Writes /\ ~SavedMembers(w) BY <1>4, <2>1 DEF Writes, SavedMembers
  <2>4. stack \in Seq(TeamStack) /\ Len(stack) <= MaxDepth
    BY <2>1, ScreensAssumption DEF Crews!List, Crews!View, TeamStack
  <2> QED BY <2>1, <2>2, <2>3, <2>4, OneMoreWrite, CrewsRender
<1>8. ASSUME NEW t \in Teams, Crews!SubmitTeam(t) PROVE CrewsInv'
  <2>1. PICK w : /\ w = [kind |-> "create", team |-> t, leader |-> sheet.chosen, served |-> FALSE]
                 /\ v.name = "create" /\ sheet.chosen # Crews!NoTeam /\ Crews!Write(w)
                 /\ UNCHANGED <<base, teamRows, teamCache, spinning, crewCalls, teamCall, trail, sheet>>
    BY <1>2, <1>8 DEF Crews!SubmitTeam, Crews!On
  <2>2. sheet \in ChoiceSheets("create") BY <1>3, <2>1 DEF SheetFits
  <2>3. w \in Writes /\ ~SavedMembers(w) BY <2>1, <2>2 DEF ChoiceSheets, Writes, SavedMembers
  <2> QED BY <1>5, <2>1, <2>3, OneMoreWrite
<1>9. ASSUME NEW s \in saves, Crews!handleCreateTeam(s) PROVE CrewsInv'
  <2>1. PICK stack, r :
          /\ stack = <<[name |-> "team", team |-> s.team]>>
          /\ r = [teamRows EXCEPT ![s.team] = [leader |-> s.leader]]
          /\ s.kind = "create" /\ UNCHANGED <<base, lapsed>> /\ saves' = saves \ {s}
          /\ Crews!Render(stack, r, teamCache)
    BY <1>9 DEF Crews!handleCreateTeam, Crews!View
  <2>2. s.team \in Teams /\ s.leader \in Crews!People BY <1>0, <2>1 DEF Alone, Writes
  <2>3. r \in [Teams -> LeaderRows] BY <1>1, <2>1, <2>2 DEF LeaderRows
  <2>4. stack \in Seq(TeamStack) /\ Len(stack) <= MaxDepth
    BY <2>1, <2>2, ScreensAssumption DEF TeamStack, Crews!TeamViews
  <2>5. ~SavedMembers(s) BY <2>1 DEF SavedMembers
  <2> QED BY <2>1, <2>3, <2>4, <2>5, OneWriteLess, CrewsRender
<1>10. ASSUME NEW s \in saves, Crews!WriteLost(s) PROVE CrewsInv'
  <2>1. /\ saves' = saves \ {s} /\ lapsed' = lapsed \cup {s.team}
        /\ UNCHANGED <<base, teamRows, teamCache, spinning, crewCalls, teamCall, trail, sheet>>
    BY <1>10 DEF Crews!WriteLost
  <2> QED BY <1>5, <2>1, OneWriteLess
<1> QED BY <1>6, <1>7, <1>8, <1>9, <1>10

(* The answer of a save: its members are kept and a load is dropped.       *)
LEMMA CrewsSaved ==
  ASSUME CrewsInv, NEW s \in saves, Crews!handleUpdateMembers(s)
  PROVE  CrewsInv'
<1>0. BaseOK /\ CrewsShown /\ TrailOK /\ LoadsFill /\ Alone /\ ServedOK /\ UnbornUnseen /\ CrewsAgree
  BY DEF CrewsInv
<1>1. PICK stack, crews :
        /\ stack = Crews!Previous(trail, s.deep) /\ crews = [teamCache EXCEPT ![s.team] = s.ids]
        /\ Crews!Render(stack, teamRows, crews)
        /\ SavedMembers(s) /\ saves' = saves \ {s} /\ UNCHANGED <<base, lapsed>>
  BY DEF Crews!handleUpdateMembers, Crews!KeepServer, SavedMembers
<1>2. s.team \in Teams /\ s.ids \in SUBSET Crews!People /\ s.deep \in BOOLEAN
  BY <1>0, <1>1 DEF Alone, Writes, SavedMembers
<1>3. crews \in [Teams -> SUBSET Crews!People] /\ crews[s.team] = s.ids
      /\ \A t \in Teams : t # s.team => crews[t] = teamCache[t]
  BY <1>0, <1>1, <1>2 DEF CrewsShown
<1>4. stack \in Seq(TeamStack) /\ Len(stack) <= MaxDepth
  BY <1>0, <1>1, <1>2, PreviousIsStack DEF TrailOK
<1>5. teamRows \in [Teams -> LeaderRows] BY <1>0 DEF CrewsShown
<1>6. /\ CrewsShown' /\ TrailOK' /\ LoadsFill' /\ teamCache' = crews
      /\ \A t \in Teams : crewCalls'[t].live =>
           (crewCalls'[t] = crewCalls[t] /\ teamCache' = teamCache) \/ crewCalls'[t].seen = base[t].members
  BY <1>0, <1>1, <1>3, <1>4, <1>5, RenderFits DEF Crews!Render
<1>7. base[s.team] # Crews!Unborn /\ s.ids # Crews!NoCrew /\ (s.team \notin lapsed => base[s.team].members = s.ids)
  BY <1>0, <1>1 DEF ServedOK
<1>8. BaseOK' BY <1>0, <1>1 DEF BaseOK
<1>9. Alone' BY <1>0, <1>1 DEF Alone
<1>10. ServedOK' BY <1>0, <1>1 DEF ServedOK, SavedMembers
<1>11. UnbornUnseen'
  <2> SUFFICES ASSUME NEW t \in Teams, base[t] = Crews!Unborn
               PROVE  /\ teamCache'[t] = Crews!NoCrew
                      /\ crewCalls'[t].live => crewCalls'[t].seen = Crews!NoCrew
    BY <1>1 DEF UnbornUnseen
  <2>1. t # s.team BY <1>7
  <2>2. base[t].members = Crews!NoCrew BY DEF Crews!Unborn, Crews!NoCrew
  <2> QED BY <1>0, <1>3, <1>6, <2>1, <2>2 DEF UnbornUnseen
<1>12. CrewsAgree'
  <2> SUFFICES ASSUME NEW t \in Teams \ lapsed, Settled(t)'
               PROVE  /\ SameCrew(teamCache[t], t)'
                      /\ crewCalls'[t].live => SameCrew(crewCalls[t].seen, t)'
    BY <1>1 DEF CrewsAgree
  <2>1. CASE t = s.team
    <3>1. teamCache'[t] = base[t].members /\ teamCache'[t] # Crews!NoCrew BY <1>3, <1>6, <1>7, <2>1
    <3>2. ~crewCalls'[t].live BY <1>6, <3>1 DEF LoadsFill
    <3> QED BY <1>1, <3>1, <3>2 DEF SameCrew
  <2>2. CASE t # s.team
    <3>1. Settled(t) BY <1>1, <2>2 DEF Settled
    <3>2. /\ SameCrew(teamCache[t], t)
          /\ crewCalls[t].live => SameCrew(crewCalls[t].seen, t)
      BY <1>0, <3>1 DEF CrewsAgree
    <3> QED BY <1>1, <1>3, <1>6, <2>2, <3>2 DEF SameCrew
  <2> QED BY <2>1, <2>2
<1> QED BY <1>6, <1>8, <1>9, <1>10, <1>11, <1>12 DEF CrewsInv

(* The server does what it is asked.                                       *)
LEMMA CrewsServed ==
  ASSUME CrewsInv, NEW s \in saves, Crews!WriteServed(s)
  PROVE  CrewsInv'
<1>0. BaseOK /\ CrewsShown /\ TrailOK /\ LoadsFill /\ Alone /\ ServedOK /\ UnbornUnseen /\ CrewsAgree
  BY DEF CrewsInv
<1>1. /\ base' = [base EXCEPT ![s.team] = Crews!Done(s)]
      /\ UNCHANGED <<lapsed, teamRows, teamCache, spinning, crewCalls, teamCall, trail, sheet>>
  BY DEF Crews!WriteServed, Crews!KeepScreen
<1>2. s \in Writes /\ s.team \in Teams /\ s.kind \in {"members", "leader", "delete", "create"}
  BY <1>0 DEF Alone, Writes
<1>3. PICK d : d = Crews!Done(s) OBVIOUS
<1>4. base'[s.team] = d /\ \A t \in Teams : t # s.team => base'[t] = base[t]
  BY <1>0, <1>1, <1>2, <1>3 DEF BaseOK
<1>5. /\ d \in TeamRecords /\ d # Crews!Unborn
      /\ s.kind = "members" => base[s.team] # Crews!Unborn /\ d.members = s.ids /\ s.ids # Crews!NoCrew
      /\ s.kind \in {"leader", "delete"} =>
           base[s.team] # Crews!Unborn /\ d.members \ {Admin} = base[s.team].members \ {Admin}
      /\ s.kind = "create" => base[s.team] = Crews!Unborn
  <2>1. base[s.team] \in TeamRecords BY <1>0, <1>2 DEF BaseOK
  <2>2. Crews!Allowed(s) BY DEF Crews!WriteServed
  <2>3. ASSUME s.kind # "create"
        PROVE  /\ base[s.team] # Crews!Unborn
               /\ base[s.team] \in [state : {"live", "deleted"}, leader : Crews!People, members : SUBSET Crews!People]
    <3>1. Crews!Live(s.team) BY <1>2, <2>2, <2>3 DEF Crews!Allowed
    <3>2. base[s.team] # Crews!Unborn BY <3>1 DEF Crews!Live, Crews!Unborn
    <3> QED BY <2>1, <3>2 DEF TeamRecords
  <2>4. \A r \in TeamRecords : r.state \in {"live", "deleted"} => r # Crews!Unborn BY DEF Crews!Unborn
  <2>5. CASE s.kind = "members"
    <3>1. d = [base[s.team] EXCEPT !.members = s.ids] BY <1>3, <2>5 DEF Crews!Done
    <3>2. s.ids \in SUBSET Crews!People BY <1>2, <2>5 DEF Writes
    <3>3. d \in TeamRecords /\ d.state \in {"live", "deleted"} /\ d.members = s.ids
      BY <2>3, <2>5, <3>1, <3>2 DEF TeamRecords
    <3>4. s.ids # Crews!NoCrew BY <2>2, <2>5 DEF Crews!Allowed, Crews!NoCrew
    <3> QED BY <2>3, <2>4, <2>5, <3>3, <3>4
  <2>6. CASE s.kind = "leader"
    <3>1. d = [base[s.team] EXCEPT !.leader = s.leader, !.members = @ \cup {s.leader}]
      BY <1>3, <2>6 DEF Crews!Done
    <3>2. s.leader \in base[s.team].members \cup {Admin} BY <2>2, <2>6 DEF Crews!Allowed
    <3>3. s.leader \in Crews!People BY <2>3, <2>6, <3>2 DEF Crews!People
    <3>4. /\ d \in TeamRecords /\ d.state \in {"live", "deleted"}
          /\ d.members = base[s.team].members \cup {s.leader}
      BY <2>3, <2>6, <3>1, <3>3 DEF TeamRecords
    <3> QED BY <2>3, <2>4, <2>6, <3>2, <3>4
  <2>7. CASE s.kind = "delete"
    <3>1. d = [base[s.team] EXCEPT !.state = "deleted"] BY <1>3, <2>7 DEF Crews!Done
    <3>2. d \in TeamRecords /\ d.state \in {"live", "deleted"} /\ d.members = base[s.team].members
      BY <2>3, <2>7, <3>1 DEF TeamRecords
    <3> QED BY <2>3, <2>4, <2>7, <3>2
  <2>8. CASE s.kind = "create"
    <3>1. d = [state |-> "live", leader |-> s.leader, members |-> {s.leader}] BY <1>3, <2>8 DEF Crews!Done
    <3>2. s.leader \in Crews!People BY <1>2, <2>8 DEF Writes
    <3>3. d \in TeamRecords /\ d.state \in {"live", "deleted"} BY <3>1, <3>2 DEF TeamRecords
    <3>4. base[s.team] = Crews!Unborn BY <2>2, <2>8 DEF Crews!Allowed
    <3> QED BY <2>4, <2>8, <3>3, <3>4
  <2> QED BY <1>2, <2>5, <2>6, <2>7, <2>8
<1>6. BaseOK' BY <1>0, <1>1, <1>2, <1>3, <1>5 DEF BaseOK
<1>7. CrewsShown' /\ TrailOK' /\ LoadsFill' BY <1>0, <1>1 DEF CrewsShown, TrailOK, LoadsFill, Crews!Shown
<1>8. UnbornUnseen' BY <1>0, <1>1, <1>4, <1>5 DEF UnbornUnseen
<1>9. PICK w : w = IF s.kind \in {"members", "create"} THEN [s EXCEPT !.served = TRUE] ELSE s OBVIOUS
<1>10. /\ w \in Writes /\ w.team = s.team /\ w.kind = s.kind /\ saves' \subseteq (saves \ {s}) \cup {w}
       /\ s.kind \in {"members", "create"} => w \in saves' /\ w.served
       /\ s.kind = "members" => w.ids = s.ids
       /\ ~SavedMembers(s) /\ (s.kind # "members" => ~SavedMembers(w))
       /\ saves \ {s} \subseteq saves'
  <2>1. Crews!Awaited(s) <=> s.kind \in {"members", "create"} BY DEF Crews!Awaited
  <2>2. CASE s.kind \in {"members", "create"}
    <3>1. w = [s EXCEPT !.served = TRUE] BY <1>9, <2>2
    <3>2. saves' = (saves \ {s}) \cup {w} /\ ~s.served BY <2>1, <2>2, <3>1 DEF Crews!WriteServed
    <3>3. w \in Writes /\ w.team = s.team /\ w.kind = s.kind /\ w.served
      BY <1>2, <2>2, <3>1 DEF Writes
    <3>4. s.kind = "members" => w.ids = s.ids BY <1>2, <3>1 DEF Writes
    <3> QED BY <2>2, <3>2, <3>3, <3>4 DEF SavedMembers
  <2>3. CASE s.kind \notin {"members", "create"}
    <3>1. w = s /\ saves' = saves \ {s} BY <1>9, <2>1, <2>3 DEF Crews!WriteServed
    <3> QED BY <1>2, <2>3, <3>1 DEF SavedMembers
  <2> QED BY <2>2, <2>3
<1>11. Alone'
  <2>1. saves' \subseteq Writes /\ lapsed' \subseteq Teams BY <1>0, <1>1, <1>10 DEF Alone
  <2>2. ASSUME NEW x \in saves', NEW z \in saves', x.team = z.team, x.team \notin lapsed' PROVE x = z
    BY <1>0, <1>1, <1>10, <2>2 DEF Alone
  <2> QED BY <2>1, <2>2 DEF Alone
(* Of a team without a lapse this is the only write.                       *)
<1>12. ASSUME NEW z \in saves \ {s}, z.team = s.team PROVE s.team \in lapsed
  BY <1>0, <1>12 DEF Alone
<1>13. ServedOK'
  <2> SUFFICES ASSUME NEW z \in saves', SavedMembers(z)
               PROVE  /\ base'[z.team] # Crews!Unborn /\ z.ids # Crews!NoCrew
                      /\ z.team \notin lapsed => base'[z.team].members = z.ids
    BY <1>1 DEF ServedOK, SavedMembers
  <2>1. CASE z = w BY <1>4, <1>5, <1>10, <2>1
  <2>2. CASE z \in saves \ {s}
    <3>1. /\ base[z.team] # Crews!Unborn /\ z.ids # Crews!NoCrew
          /\ z.team \notin lapsed => base[z.team].members = z.ids
      BY <1>0, <2>2 DEF ServedOK
    <3>2. z.team \in Teams BY <1>0, <2>2 DEF Alone, Writes
    <3> QED BY <1>4, <1>5, <1>12, <2>2, <3>1, <3>2
  <2> QED BY <1>10, <2>1, <2>2
<1>14. CrewsAgree'
  <2> SUFFICES ASSUME NEW t \in Teams \ lapsed, Settled(t)'
               PROVE  /\ SameCrew(teamCache[t], t)'
                      /\ crewCalls[t].live => SameCrew(crewCalls[t].seen, t)'
    BY <1>1 DEF CrewsAgree
  <2>1. t = s.team => s.kind # "members" BY <1>10 DEF Settled, SavedMembers
  <2>2. Settled(t)
    <3> SUFFICES ASSUME NEW z \in saves, z.team = t, SavedMembers(z) PROVE FALSE BY DEF Settled
    <3>1. z # s BY <1>10
    <3> QED BY <1>10, <3>1 DEF Settled, SavedMembers
  <2>3. /\ SameCrew(teamCache[t], t)
        /\ crewCalls[t].live => SameCrew(crewCalls[t].seen, t)
    BY <1>0, <2>2 DEF CrewsAgree
  <2>4. CASE base'[t].members \ {Admin} = base[t].members \ {Admin}
    BY <1>1, <2>3, <2>4 DEF SameCrew
  <2>5. CASE base[t] = Crews!Unborn
    <3>1. teamCache[t] = Crews!NoCrew /\ (crewCalls[t].live => crewCalls[t].seen = Crews!NoCrew)
      BY <1>0, <2>5 DEF UnbornUnseen
    <3> QED BY <1>1, <3>1 DEF SameCrew
  <2> QED BY <1>2, <1>4, <1>5, <2>1, <2>4, <2>5
<1> QED BY <1>6, <1>7, <1>8, <1>11, <1>13, <1>14 DEF CrewsInv

LEMMA CrewsStep ==
  ASSUME CrewsInv, [Crews!Next]_(Crews!teamVars)
  PROVE  CrewsInv'
<1>1. CASE UNCHANGED Crews!teamVars BY <1>1, CrewsViews
<1>2. ASSUME Crews!AdminActs PROVE CrewsInv'
  BY <1>2, CrewsViews, CrewsSheets, CrewsWrites DEF Crews!AdminActs
<1>3. ASSUME Crews!Answers PROVE CrewsInv'
  BY <1>3, CrewsViews, CrewsSheets, CrewsWrites, CrewsLoads, CrewsSaved, CrewsServed DEF Crews!Answers
<1> QED BY <1>1, <1>2, <1>3 DEF Crews!Next

LEMMA CrewsTyped ==
  ASSUME CrewsInv
  PROVE  Crews!TypeOK
<1>1. \A t \in Teams : base[t].state \in {"none", "live", "deleted"} /\ base[t].members \subseteq Crews!People
  BY DEF CrewsInv, BaseOK, TeamRecords, Crews!Unborn
<1>2. \A t \in Teams : teamRows[t].leader \in Crews!People \cup {Crews!NoTeam}
  BY DEF CrewsInv, CrewsShown, LeaderRows
<1>3. sheet.on \in {"none", "members", "leader", "create"}
  <2>1. PICK v : v = Crews!Shown(trail, teamRows) OBVIOUS
  <2>2. SheetFits(v, sheet) BY <2>1 DEF CrewsInv, TrailOK
  <2> QED BY <2>2 DEF SheetFits, MemberSheets, ChoiceSheets, Crews!NoSheet
<1>4. /\ \A t \in Teams : teamCache[t] \subseteq Crews!People
      /\ spinning \subseteq Teams /\ teamCall \in Teams \cup {Crews!NoTeam}
      /\ Len(trail) <= MaxDepth /\ lapsed \subseteq Teams
  BY DEF CrewsInv, CrewsShown, TrailOK, Alone
<1> QED BY <1>1, <1>2, <1>3, <1>4 DEF Crews!TypeOK

LEMMA CrewsHold == Spec => [](screen = "teams" => CrewsInv)
<1>1. Init => (screen = "teams" => CrewsInv) BY FirstPage, CrewsFirst
<1>2. (screen = "teams" => CrewsInv) /\ [Next]_vars => (screen = "teams" => CrewsInv)'
  BY PageSteps, CrewsStep
<1> QED BY <1>1, <1>2, PTL DEF Spec

(* The members kept for a team are those of the team once its writes are   *)
(* done, although a load that a save overtook answers late.  Excepted are  *)
(* teams of which two writes overlapped or one was lost, and the admin's   *)
(* own account.                                                            *)
THEOREM KeptMembersAreTheSaved == Spec => []MembersAsSaved
<1>1. CrewsInv => Crews!MembersAsSaved
  <2> SUFFICES ASSUME CrewsInv, NEW t \in Teams, teamCache[t] # Crews!NoCrew, t \notin lapsed,
                      \A s \in saves : s.team # t
               PROVE  teamCache[t] \ {Admin} = base[t].members \ {Admin}
    BY DEF Crews!MembersAsSaved
  <2>1. Settled(t) BY DEF Settled
  <2>2. SameCrew(teamCache[t], t) BY <2>1 DEF CrewsInv, CrewsAgree
  <2> QED BY <2>2 DEF SameCrew
<1>2. (screen = "teams" => CrewsInv) => MembersAsSaved BY <1>1 DEF MembersAsSaved
<1> QED BY <1>2, CrewsHold, PTL

(***************************************************************************)
(* Users and teams to scroll through: no page is left out.                 *)
(***************************************************************************)
UserFilters == [words : BOOLEAN, status : {"all", "normal", "blocked"}]

PeopleTypes ==
  /\ blockedIds \subseteq Ids /\ input \in BOOLEAN /\ looking \in People!Looking
  /\ tabOpen \in People!Lists /\ normalTotal \in Nat /\ orderly \subseteq People!Lists
  /\ sends \subseteq [op : {"block", "unblock"}, user : Ids]

ListTypes ==
  /\ asking \in [People!Lists -> UserFilters]
  /\ listed \in [People!Lists -> [Ids -> {"normal", "blocked", People!Absent}]]
  /\ pageNo \in [People!Lists -> Nat \ {0}]
  /\ fetching \in [People!Lists -> SUBSET {"first", "more"}]
  /\ fetches \subseteq [list : People!Lists \cup {"count"}, filter : UserFilters, page : Nat \ {0}]

(* The rows of a filter that is not by status are the same whoever is      *)
(* blocked.                                                                *)
AllRows(f)     == {i \in Ids : f.words => i \in Found}
AllPages(f, n) == UNION {People!PageOf(AllRows(f), k) : k \in 1 .. n}

NoGap(l) ==
  asking[l].status = "all" =>
    \A i \in AllPages(asking[l], pageNo[l]) : listed[l][i] # People!Absent

InOrder(l) ==
  /\ \A c, d \in fetches : c.list = l /\ d.list = l => c = d
  /\ \A c \in fetches : c.list = l => /\ c.filter = asking[l]
                                      /\ c.page = 1 \/ (c.page = pageNo[l] + 1 /\ NoGap(l))
  /\ (\A c \in fetches : c.list # l) => NoGap(l)

PeopleInv == PeopleTypes /\ ListTypes /\ \A l \in orderly : InOrder(l)

LEMMA RowsOfAll ==
  ASSUME NEW l, NEW f, f.status = "all"
  PROVE  People!Matching(l, f) = AllRows(f)
  BY DEF People!Matching, AllRows

LEMMA MorePages ==
  ASSUME NEW f, NEW n \in Nat
  PROVE  /\ AllPages(f, n) \subseteq Ids
         /\ AllPages(f, n + 1) = AllPages(f, n) \cup People!PageOf(AllRows(f), n + 1)
         /\ AllPages(f, 1) = People!PageOf(AllRows(f), 1)
<1>1. \A k : People!PageOf(AllRows(f), k) \subseteq Ids BY DEF People!PageOf, AllRows
<1>2. 1 .. n + 1 = (1 .. n) \cup {n + 1} /\ 1 .. 1 = {1} OBVIOUS
<1> QED BY <1>1, <1>2 DEF AllPages

LEMMA FewerIsNat ==
  ASSUME NEW n \in Nat
  PROVE  People!Fewer(n) \in Nat
<1>1. \E x \in {n - 1, 0} : \A y \in {n - 1, 0} : x >= y OBVIOUS
<1>2. People!Max({n - 1, 0}) \in {n - 1, 0} /\ \A y \in {n - 1, 0} : People!Max({n - 1, 0}) >= y
  BY <1>1, Zenon DEF People!Max
<1> QED BY <1>2 DEF People!Fewer

LEMMA PeopleCardinality == \A S : People!Cardinality(S) = Cardinality(S)
  BY Zenon DEF People!Cardinality, Cardinality

LEMMA PeopleFirst ==
  ASSUME People!Init
  PROVE  PeopleInv
<1>1. PeopleTypes
  <2>1. looking \in People!Looking BY DEF People!Init, People!Looking
  <2> QED BY <2>1 DEF People!Init, PeopleTypes, People!Lists
<1>2. People!NoFilter \in UserFilters BY DEF People!NoFilter, UserFilters
<1>3. ListTypes BY <1>2 DEF People!Init, ListTypes, People!Absent
<1>4. ASSUME NEW l \in orderly PROVE InOrder(l)
  <2>1. /\ fetches = {[list |-> x, filter |-> People!NoFilter, page |-> 1] : x \in People!Lists \cup {"count"}}
        /\ l \in People!Lists /\ asking[l] = People!NoFilter
    BY <1>4 DEF People!Init
  <2>2. \A c \in fetches : /\ c = [list |-> c.list, filter |-> People!NoFilter, page |-> 1]
                           /\ c.filter = People!NoFilter /\ c.page = 1
    BY <2>1
  <2>3. \A c, d \in fetches : c.list = l /\ d.list = l => c = d
    BY <2>2, Zenon
  <2>4. [list |-> l, filter |-> People!NoFilter, page |-> 1] \in fetches BY <2>1
  <2>5. ~\A c \in fetches : c.list # l BY <2>4
  <2> QED BY <2>1, <2>2, <2>3, <2>5 DEF InOrder
<1> QED BY <1>1, <1>3, <1>4 DEF PeopleInv

(* What does not touch the loading of the lists and hides no row.          *)
LEMMA RowsStay ==
  ASSUME PeopleInv, PeopleTypes', ListTypes', UNCHANGED <<asking, pageNo, fetches, orderly>>,
         \A l \in People!Lists, i \in Ids :
           listed[l][i] # People!Absent => listed'[l][i] # People!Absent
  PROVE  PeopleInv'
<1>1. ASSUME NEW l \in orderly', InOrder(l) PROVE InOrder(l)'
  <2>1. l \in People!Lists BY DEF PeopleInv, PeopleTypes
  <2>2. pageNo[l] \in Nat BY <2>1 DEF PeopleInv, ListTypes
  <2>3. AllPages(asking[l], pageNo[l]) \subseteq Ids BY <2>2, MorePages
  <2>4. NoGap(l) => NoGap(l)' BY <2>1, <2>3 DEF NoGap
  <2> QED BY <1>1, <2>4 DEF InOrder
<1> QED BY <1>1 DEF PeopleInv

(* A load that starts for a list alone, of the filter on show.             *)
LEMMA FetchInOrder ==
  ASSUME PeopleInv, PeopleTypes', ListTypes', UNCHANGED <<listed, pageNo>>,
         NEW l \in People!Lists, NEW f \in UserFilters, NEW n \in Nat \ {0},
         asking' = [asking EXCEPT ![l] = f], People!Fetch(l, f, n),
         n = 1 \/ (n = pageNo[l] + 1 /\ f = asking[l])
  PROVE  PeopleInv'
<1> DEFINE c == [list |-> l, filter |-> f, page |-> n]
<1>1. /\ fetches' = fetches \cup {c} /\ orderly' \subseteq orderly
      /\ l \in orderly' => \A d \in fetches : d.list # l
  BY DEF People!Fetch, People!Of
<1>2. c.list = l /\ c.filter = f /\ c.page = n OBVIOUS
<1> HIDE DEF c
<1>3. ASSUME NEW m \in orderly', m # l PROVE InOrder(m)'
  <2>1. InOrder(m) /\ m \in People!Lists BY <1>1 DEF PeopleInv, PeopleTypes
  <2>2. asking'[m] = asking[m] BY <1>3, <2>1 DEF PeopleInv, ListTypes
  <2>3. NoGap(m)' <=> NoGap(m) BY <2>2 DEF NoGap
  <2> QED BY <1>1, <1>2, <1>3, <2>1, <2>2, <2>3 DEF InOrder
<1>4. ASSUME l \in orderly' PROVE InOrder(l)'
  <2>1. InOrder(l) /\ \A d \in fetches : d.list # l BY <1>1, <1>4 DEF PeopleInv
  <2>2. NoGap(l) BY <2>1 DEF InOrder
  <2>3. asking'[l] = f BY DEF PeopleInv, ListTypes
  <2>4. f = asking[l] => NoGap(l)' BY <2>2, <2>3 DEF NoGap
  <2> QED BY <1>1, <1>2, <2>1, <2>3, <2>4 DEF InOrder
<1> QED BY <1>3, <1>4 DEF PeopleInv

LEMMA PeopleStep ==
  ASSUME PeopleInv, [People!Next]_(People!userVars)
  PROVE  PeopleInv'
<1> USE DEF People!KeepView, People!KeepLists, People!KeepPages, People!KeepLoads
<1>0. /\ PeopleTypes /\ ListTypes /\ \A l \in orderly : InOrder(l)
      /\ \A l \in People!Lists : asking[l] \in UserFilters
      /\ "users" \in People!Lists /\ "teams" \in People!Lists
  BY DEF PeopleInv, ListTypes, People!Lists
(* The three ways a list is asked for another filter.                      *)
<1>1. ASSUME NEW l \in People!Lists, NEW f \in UserFilters, People!Refresh(l, f),
             UNCHANGED <<input, listed, pageNo, hasNext, blockedIds, tabOpen, looking, normalTotal, sends>>
      PROVE  PeopleInv'
  <2>1. /\ asking' = [asking EXCEPT ![l] = f] /\ People!Fetch(l, f, 1)
        /\ fetching' = [fetching EXCEPT ![l] = @ \cup {"first"}]
    BY <1>1 DEF People!Refresh
  <2>2. fetches' = fetches \cup {[list |-> l, filter |-> f, page |-> 1]} /\ orderly' \subseteq orderly
    BY <2>1 DEF People!Fetch
  <2>3. PeopleTypes' BY <1>0, <1>1, <2>2 DEF PeopleTypes
  <2>4. ListTypes' BY <1>0, <1>1, <2>1, <2>2 DEF ListTypes
  <2>5. 1 \in Nat \ {0} OBVIOUS
  <2>6. UNCHANGED <<listed, pageNo>> BY <1>1
  <2> QED BY <2>1, <2>3, <2>4, <2>5, <2>6, FetchInOrder, Zenon
<1>2. ASSUME People!Debounced PROVE PeopleInv'
  <2>1. [asking["users"] EXCEPT !.words = input] \in UserFilters
    BY <1>0 DEF UserFilters, PeopleTypes
  <2> QED BY <1>0, <1>1, <1>2, <2>1 DEF People!Debounced
<1>3. ASSUME NEW s \in {"all", "normal", "blocked"}, People!FilterStatus(s) PROVE PeopleInv'
  <2>1. [asking["users"] EXCEPT !.status = s] \in UserFilters
    BY <1>0 DEF UserFilters
  <2> QED BY <1>0, <1>1, <1>3, <2>1 DEF People!FilterStatus
<1>4. ASSUME People!SearchTeams PROVE PeopleInv'
  <2>1. [asking["teams"] EXCEPT !.words = ~@] \in UserFilters
    BY <1>0 DEF UserFilters
  <2> QED BY <1>0, <1>1, <1>4, <2>1 DEF People!SearchTeams
<1>5. ASSUME NEW l \in People!Lists, People!LoadMore(l) PROVE PeopleInv'
  <2>1. /\ fetching' = [fetching EXCEPT ![l] = {"more"}]
        /\ People!Fetch(l, asking[l], pageNo[l] + 1)
        /\ UNCHANGED <<input, asking, listed, pageNo, hasNext, blockedIds, tabOpen, looking, normalTotal, sends>>
    BY <1>5 DEF People!LoadMore
  <2>2. pageNo[l] + 1 \in Nat \ {0}
    <3>1. pageNo[l] \in Nat BY <1>0 DEF ListTypes
    <3> QED BY <3>1
  <2>3. /\ fetches' = fetches \cup {[list |-> l, filter |-> asking[l], page |-> pageNo[l] + 1]}
        /\ orderly' \subseteq orderly
    BY <2>1 DEF People!Fetch
  <2>4. PeopleTypes' BY <1>0, <2>1, <2>3 DEF PeopleTypes
  <2>5. ListTypes' BY <1>0, <2>1, <2>2, <2>3 DEF ListTypes
  <2>6. asking' = [asking EXCEPT ![l] = asking[l]] BY <1>0, <2>1 DEF ListTypes
  <2> QED BY <1>0, <2>1, <2>2, <2>4, <2>5, <2>6, FetchInOrder
(* A load that ends leaves the other lists as they were.                   *)
<1>6. ASSUME NEW c \in fetches, c.list \in People!Lists, fetches' = fetches \ {c},
             orderly' \subseteq orderly, asking' = asking, PeopleTypes', ListTypes',
             \A m \in People!Lists : m # c.list => listed'[m] = listed[m] /\ pageNo'[m] = pageNo[m],
             c.list \in orderly' => NoGap(c.list)'
      PROVE  PeopleInv'
  <2>1. ASSUME NEW m \in orderly', m # c.list PROVE InOrder(m)'
    <3>1. InOrder(m) /\ m \in People!Lists BY <1>0, <1>6 DEF PeopleTypes
    <3>2. listed'[m] = listed[m] /\ pageNo'[m] = pageNo[m] BY <1>6, <2>1, <3>1
    <3>3. NoGap(m)' <=> NoGap(m) BY <1>6, <3>2 DEF NoGap
    <3> QED BY <1>6, <2>1, <3>1, <3>2, <3>3 DEF InOrder
  <2>2. ASSUME c.list \in orderly' PROVE InOrder(c.list)'
    <3>1. InOrder(c.list) BY <1>0, <1>6, <2>2
    <3>2. \A d \in fetches' : d.list # c.list BY <1>6, <3>1 DEF InOrder
    <3> QED BY <1>6, <2>2, <3>2 DEF InOrder
  <2> QED BY <1>6, <2>1, <2>2 DEF PeopleInv
<1>7. ASSUME NEW c \in fetches, People!Arrives(c) PROVE PeopleInv'
  <2> DEFINE l == c.list
             S == People!PageOf(People!Matching(l, c.filter), c.page)
  <2>1. /\ l \in People!Lists /\ fetches' = fetches \ {c}
        /\ listed' = [listed EXCEPT ![l] =
                        [i \in Ids |-> IF i \in S THEN People!StatusOf(l, i)
                                       ELSE IF c.page = 1 THEN People!Absent ELSE listed[l][i]]]
        /\ pageNo' = [pageNo EXCEPT ![l] = c.page]
        /\ fetching' = [fetching EXCEPT ![l] = @ \ {IF c.page = 1 THEN "first" ELSE "more"}]
        /\ UNCHANGED <<input, asking, orderly, blockedIds, tabOpen, looking, normalTotal, sends>>
    BY <1>7 DEF People!Arrives, People!PageAfter
  <2>2. c.page \in Nat \ {0} /\ c.filter \in UserFilters BY <1>0 DEF ListTypes
  <2>3. PeopleTypes' BY <1>0, <2>1 DEF PeopleTypes
  <2>4. ListTypes'
    <3>1. [i \in Ids |-> IF i \in S THEN People!StatusOf(l, i)
                         ELSE IF c.page = 1 THEN People!Absent ELSE listed[l][i]]
            \in [Ids -> {"normal", "blocked", People!Absent}]
      BY <1>0, <2>1 DEF ListTypes, People!StatusOf
    <3>2. listed' \in [People!Lists -> [Ids -> {"normal", "blocked", People!Absent}]]
      BY <1>0, <2>1, <3>1 DEF ListTypes
    <3>3. fetching' \in [People!Lists -> SUBSET {"first", "more"}] BY <1>0, <2>1 DEF ListTypes
    <3> QED BY <1>0, <2>1, <2>2, <3>2, <3>3 DEF ListTypes
  <2>5. \A m \in People!Lists : m # l => listed'[m] = listed[m] /\ pageNo'[m] = pageNo[m]
    BY <1>0, <2>1 DEF ListTypes
  <2>6. ASSUME l \in orderly', asking[l].status = "all", NEW i \in AllPages(asking[l], c.page)
        PROVE  listed'[l][i] # People!Absent
    <3>1. c.filter = asking[l] /\ (c.page = 1 \/ (c.page = pageNo[l] + 1 /\ NoGap(l)))
      BY <1>0, <2>1, <2>6 DEF InOrder
    <3>2. S = People!PageOf(AllRows(asking[l]), c.page) BY <2>6, <3>1, RowsOfAll
    <3>3. i \in Ids BY <2>2, <2>6, MorePages
    <3>4. listed'[l][i] = (IF i \in S THEN People!StatusOf(l, i)
                           ELSE IF c.page = 1 THEN People!Absent ELSE listed[l][i])
      BY <1>0, <2>1, <3>3 DEF ListTypes
    <3>5. i \in S => listed'[l][i] # People!Absent BY <3>4 DEF People!StatusOf, People!Absent
    <3>6. CASE c.page = 1 BY <2>6, <3>2, <3>5, <3>6, MorePages
    <3>7. CASE c.page # 1
      <4>1. pageNo[l] \in Nat /\ c.page = pageNo[l] + 1 /\ NoGap(l) BY <1>0, <2>1, <3>1, <3>7 DEF ListTypes
      <4>2. AllPages(asking[l], c.page) = AllPages(asking[l], pageNo[l]) \cup S BY <3>2, <4>1, MorePages
      <4>3. i \notin S => listed[l][i] # People!Absent BY <2>6, <4>1, <4>2 DEF NoGap
      <4> QED BY <3>4, <3>5, <3>7, <4>3
    <3> QED BY <3>6, <3>7
  <2>7. pageNo'[l] = c.page BY <1>0, <2>1 DEF ListTypes
  <2>8. l \in orderly' => NoGap(l)' BY <2>1, <2>6, <2>7 DEF NoGap
  <2> HIDE DEF S
  <2> QED BY <1>6, <2>1, <2>3, <2>4, <2>5, <2>8
<1>8. ASSUME NEW c \in fetches, People!FetchFails(c) PROVE PeopleInv'
  <2> DEFINE l == c.list
  <2>1. /\ l \in People!Lists /\ fetches' = fetches \ {c}
        /\ fetching' = [fetching EXCEPT ![l] = @ \ {IF c.page = 1 THEN "first" ELSE "more"}]
        /\ orderly' = IF c.page = 1 THEN orderly \ {l} ELSE orderly
        /\ UNCHANGED <<input, asking, listed, pageNo, blockedIds, tabOpen, looking, normalTotal, sends>>
    BY <1>8 DEF People!FetchFails
  <2>2. PeopleTypes' BY <1>0, <2>1 DEF PeopleTypes
  <2>3. fetching' \in [People!Lists -> SUBSET {"first", "more"}] BY <1>0, <2>1 DEF ListTypes
  <2>4. ListTypes' BY <1>0, <2>1, <2>3 DEF ListTypes
  <2>5. l \in orderly' => NoGap(l) BY <1>0, <2>1 DEF InOrder
  <2>6. l \in orderly' => NoGap(l)' BY <2>1, <2>5 DEF NoGap
  <2> QED BY <1>6, <2>1, <2>2, <2>4, <2>6
<1>9. ASSUME NEW c \in fetches, People!CountArrives(c) PROVE PeopleInv'
  <2>1. /\ c.list = "count" /\ fetches' = fetches \ {c}
        /\ normalTotal' \in {normalTotal, People!Cardinality(Ids \ blockedIds)}
        /\ UNCHANGED <<input, asking, pageNo, hasNext, fetching, orderly,
                       blockedIds, listed, tabOpen, looking, sends>>
    BY <1>9 DEF People!CountArrives
  <2>2. Cardinality(Ids \ blockedIds) \in Nat BY ScreensAssumption, FS_Subset, FS_CardinalityType
  <2>3. PeopleTypes' BY <1>0, <2>1, <2>2, PeopleCardinality DEF PeopleTypes
  <2>4. ListTypes' BY <1>0, <2>1 DEF ListTypes
  <2>5. ASSUME NEW l \in orderly' PROVE InOrder(l)'
    <3>1. InOrder(l) /\ l # "count" BY <1>0, <2>1, <2>5 DEF PeopleTypes, People!Lists
    <3>2. NoGap(l)' <=> NoGap(l) BY <2>1 DEF NoGap
    <3> QED BY <2>1, <3>1, <3>2 DEF InOrder
  <2> QED BY <2>3, <2>4, <2>5 DEF PeopleInv
(* A row is shown as something else, or a user loaded for the detail.      *)
<1>10. ASSUME NEW u \in Ids, NEW s \in {"normal", "blocked"}, PeopleTypes',
              listed' = [listed EXCEPT !["users"][u] = s],
              UNCHANGED <<asking, pageNo, fetches, orderly, hasNext, fetching>>
       PROVE  PeopleInv'
  <2>1. listed["users"] \in [Ids -> {"normal", "blocked", People!Absent}]
    BY <1>0 DEF ListTypes
  <2>2. listed' = [listed EXCEPT !["users"] = [listed["users"] EXCEPT ![u] = s]] BY <1>10
  <2>3. [listed["users"] EXCEPT ![u] = s] \in [Ids -> {"normal", "blocked", People!Absent}] BY <2>1
  <2>4. ListTypes' BY <1>0, <1>10, <2>2, <2>3 DEF ListTypes
  <2>5. \A l \in People!Lists, i \in Ids :
          listed[l][i] # People!Absent => listed'[l][i] # People!Absent
    <3> TAKE l \in People!Lists, i \in Ids
    <3>1. CASE l = "users"
      <4>1. listed'[l] = [listed["users"] EXCEPT ![u] = s] BY <1>0, <2>2, <3>1 DEF ListTypes
      <4> QED BY <2>1, <3>1, <4>1 DEF People!Absent
    <3>2. CASE l # "users" BY <1>0, <2>2, <3>2 DEF ListTypes
    <3> QED BY <3>1, <3>2
  <2> QED BY <1>10, <2>4, <2>5, RowsStay
<1>11. ASSUME NEW u \in Ids, People!UserArrives(u) PROVE PeopleInv'
  <2>1. /\ listed' = [listed EXCEPT !["users"][u] = People!StatusOf("users", u)]
        /\ UNCHANGED <<blockedIds, tabOpen, looking, normalTotal, sends, fetches, input, asking,
                       pageNo, hasNext, fetching, orderly>>
    BY <1>11 DEF People!UserArrives
  <2>2. People!StatusOf("users", u) \in {"normal", "blocked"} BY DEF People!StatusOf
  <2>3. PeopleTypes' BY <1>0, <2>1 DEF PeopleTypes
  <2> QED BY <1>10, <2>1, <2>2, <2>3
<1>12. ASSUME People!handleBlockUser \/ People!handleUnblockUser PROVE PeopleInv'
  <2> DEFINE u == looking.user
  <2>1. PICK s \in {"normal", "blocked"} :
          /\ listed' = [listed EXCEPT !["users"][u] = s]
          /\ looking.name \in {"user-detail", "block-user"}
          /\ sends' = sends \cup {[op |-> IF s = "blocked" THEN "block" ELSE "unblock", user |-> u]}
          /\ normalTotal' \in {People!Fewer(normalTotal), normalTotal + 1}
          /\ \/ looking' = [looking EXCEPT !.name = "user-detail", !.deep = FALSE]
             \/ looking' = looking
          /\ UNCHANGED <<blockedIds, tabOpen, fetches, input, asking, pageNo, hasNext, fetching, orderly>>
    BY <1>12 DEF People!handleBlockUser, People!handleUnblockUser, People!BlockUserScreen,
      People!ShowAs, People!Send
  <2>2. looking \in [name : {"user-detail", "block-user"}, user : Ids, deep : BOOLEAN]
    BY <1>0, <2>1 DEF PeopleTypes, People!Looking, People!AtList, People!Gone
  <2>3. u \in Ids /\ looking' \in People!Looking BY <2>1, <2>2 DEF People!Looking
  <2>4. normalTotal' \in Nat
    <3>1. normalTotal \in Nat BY <1>0 DEF PeopleTypes
    <3> QED BY <2>1, <3>1, FewerIsNat
  <2>5. sends' \subseteq [op : {"block", "unblock"}, user : Ids] BY <1>0, <2>1, <2>3 DEF PeopleTypes
  <2>6. PeopleTypes' BY <1>0, <2>1, <2>3, <2>4, <2>5 DEF PeopleTypes
  <2> HIDE DEF u
  <2> QED BY <1>10, <2>1, <2>3, <2>6
<1>13. ASSUME \/ People!Type \/ People!OpenBlock \/ People!goBack
              \/ \E l \in People!Lists : People!SelectTab(l)
              \/ \E u \in Ids : People!OpenUser(u)
              \/ \E s \in sends : People!SendServed(s)
              \/ UNCHANGED People!userVars
       PROVE  PeopleInv'
  <2>1. UNCHANGED <<listed, asking, pageNo, hasNext, fetching, fetches, orderly, normalTotal>>
    BY <1>13 DEF People!Type, People!OpenBlock, People!goBack, People!SelectTab, People!OpenUser,
      People!SendServed, People!userVars
  <2>2. looking' \in People!Looking
    <3>1. CASE looking' = looking BY <1>0, <3>1 DEF PeopleTypes
    <3>2. CASE \E u \in Ids : People!OpenUser(u)
      BY <3>2 DEF People!OpenUser, People!Looking
    <3>3. CASE People!OpenBlock
      <4>1. looking \in [name : {"user-detail", "block-user"}, user : Ids, deep : BOOLEAN]
        BY <1>0, <3>3 DEF People!OpenBlock, PeopleTypes, People!Looking, People!AtList, People!Gone
      <4> QED BY <3>3, <4>1 DEF People!OpenBlock, People!Looking
    <3>4. CASE People!goBack
      <4>1. looking \in [name : {"user-detail", "block-user"}, user : Ids, deep : BOOLEAN]
        BY <1>0, <3>4 DEF People!goBack, PeopleTypes, People!Looking, People!AtList, People!Gone
      <4> QED BY <3>4, <4>1 DEF People!goBack, People!Looking
    <3> QED BY <1>13, <3>1, <3>2, <3>3, <3>4 DEF People!Type, People!SelectTab, People!SendServed,
          People!userVars
  <2>3. /\ blockedIds' \subseteq Ids /\ input' \in BOOLEAN /\ tabOpen' \in People!Lists
        /\ sends' \subseteq [op : {"block", "unblock"}, user : Ids]
    BY <1>0, <1>13 DEF People!Type, People!OpenBlock, People!goBack, People!SelectTab, People!OpenUser,
      People!SendServed, People!userVars, PeopleTypes
  <2>4. PeopleTypes' BY <1>0, <2>1, <2>2, <2>3 DEF PeopleTypes
  <2>5. ListTypes' BY <1>0, <2>1 DEF ListTypes
  <2> QED BY <2>1, <2>4, <2>5, RowsStay
<1> QED BY <1>2, <1>3, <1>4, <1>5, <1>7, <1>8, <1>9, <1>11, <1>12, <1>13, Zenon
        DEF People!Next, People!AdminActs, People!Answers

LEMMA PeopleTyped ==
  ASSUME PeopleInv
  PROVE  People!TypeOK
  BY DEF PeopleInv, PeopleTypes, ListTypes, UserFilters, People!TypeOK

LEMMA PeopleStays == Spec => [](screen = "users" => PeopleInv)
<1>1. Init => (screen = "users" => PeopleInv) BY FirstPage, PeopleFirst
<1>2. (screen = "users" => PeopleInv) /\ [Next]_vars => (screen = "users" => PeopleInv)'
  BY PageSteps, PeopleStep
<1> QED BY <1>1, <1>2, PTL DEF Spec

(* A list whose loads did not overlap holds every page up to the last one  *)
(* counted, of the filter on show, while users are blocked and unblocked.  *)
THEOREM ScrollingLeavesNoGap == Spec => []PagesAddUp
<1>1. PeopleInv => People!PagesAddUp
  <2> SUFFICES ASSUME PeopleInv, NEW l \in orderly, People!Of(l) = {}, asking[l].status = "all",
                      NEW i \in People!Pages(l, asking[l], pageNo[l])
               PROVE  listed[l][i] # People!Absent
    BY DEF People!PagesAddUp
  <2>1. \A c \in fetches : c.list # l BY DEF People!Of
  <2>2. NoGap(l) BY <2>1 DEF PeopleInv, InOrder
  <2>3. People!Matching(l, asking[l]) = AllRows(asking[l]) BY RowsOfAll
  <2>4. i \in AllPages(asking[l], pageNo[l]) BY <2>3 DEF People!Pages, AllPages
  <2> QED BY <2>2, <2>4 DEF NoGap
<1>2. (screen = "users" => PeopleInv) => PagesAddUp BY <1>1 DEF PagesAddUp
<1> QED BY <1>2, PeopleStays, PTL

==============================================================================
