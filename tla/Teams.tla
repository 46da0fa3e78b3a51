-------------------------------- MODULE Teams --------------------------------
(***************************************************************************)
(* Teams, their members, leaders and colours: TeamCommandService of        *)
(* src/BE/teams/services.py and AdminTeamService of                        *)
(* src/BE/backoffice/services.py.                                          *)
(*                                                                         *)
(* Nothing locks a team or its members: a call that changes them reads in  *)
(* Begin... and writes in Commit..., and other calls run between.  Colours *)
(* are locked with select_for_update, so what is decided from a colour row *)
(* is decided when it is written.                                          *)
(*                                                                         *)
(* Definitions named Bug... are plausible defects of the definition that   *)
(* follows them; nothing uses them but the checks that a property notices. *)
(***************************************************************************)
EXTENDS FiniteSets

CONSTANTS
  TeamIds,    (* team ids                                                  *)
  Users,      (* active users, any of whom may lead or join a team         *)
  Staff,      (* those of them who are administrators                      *)
  Colors,     (* TeamColor rows                                            *)
  Txs,        (* requests that may be in progress at the same time         *)
  NoTeam,     (* team column of a colour nobody holds                      *)
  NoUser,     (* owner of a team that does not exist yet                   *)
  Batches     (* lists of users an administrator may submit                *)

ASSUME TeamAssumption ==
  /\ Staff \subseteq Users
  /\ Batches \subseteq SUBSET Users
  /\ NoTeam \notin TeamIds
  /\ NoUser \notin Users

VARIABLES
  team,      (* team -> its status and owner                               *)
  member,    (* team -> user -> the TeamMember row                         *)
  colorOf,   (* colour -> team column of the TeamColor row                 *)
  tx,        (* request -> what it has read and is about to write          *)
  raced      (* history: teams whose membership two requests changed at once*)

vars == <<team, member, colorOf, tx, raced>>

-------------------------------------------------------------------------------
Roles == {"LEADER", "MEMBER"}

TeamRow   == [status: {"none", "ACTIVE", "DELETED"}, owner: Users \cup {NoUser}]
MemberRow == [status: {"none", "ACTIVE", "LEFT"}, role: Roles]

BugLeftAsDeleted == [status |-> "DELETED", role |-> "MEMBER"]

NoMember     == [status |-> "none",   role |-> "MEMBER"]
ActiveMember == [status |-> "ACTIVE", role |-> "MEMBER"]
LeftMember   == [status |-> "LEFT",   role |-> "MEMBER"]
ActiveLeader == [status |-> "ACTIVE", role |-> "LEADER"]

(* A request that changes members: whom it names, and which of them it      *)
(* found without a row, or with one that is LEFT.                          *)
MemberTx == [op: {"add", "replace", "remove", "delegate", "appoint"}, team: TeamIds,
             actor: Users \cup {NoUser}, targets: SUBSET Users,
             absent: SUBSET Users, left: SUBSET Users]
ColorTx  == [op: {"color"}, team: TeamIds, color: Colors]
Idle     == [op |-> "idle"]

Created(m)     == team[m].status # "none"
ActiveTeam(m)  == team[m].status = "ACTIVE"
IsMember(m, u) == member[m][u].status = "ACTIVE"
Leads(m, u)    == IsMember(m, u) /\ (team[m].owner = u \/ member[m][u].role = "LEADER")

Init ==
  /\ team    = [m \in TeamIds |-> [status |-> "none", owner |-> NoUser]]
  /\ member  = [m \in TeamIds |-> [u \in Users |-> NoMember]]
  /\ colorOf = [c \in Colors |-> NoTeam]
  /\ tx      = [t \in Txs |-> Idle]
  /\ raced   = {}

-------------------------------------------------------------------------------
(* Colours *)

BugAnyColor(c, m) == TRUE

(* _assign_color takes a colour nobody, this team or a deleted team holds. *)
Assignable(c, m) == colorOf[c] \in {NoTeam, m} \cup { x \in TeamIds : ~ActiveTeam(x) }

BugKeepOldColors(c, m) == [colorOf EXCEPT ![c] = m]

(* The team gives up every other colour it held. *)
Assigned(c, m) == [x \in Colors |-> IF x = c THEN m
                                    ELSE IF colorOf[x] = m THEN NoTeam ELSE colorOf[x]]

(* update_config of a leader and update_team of an administrator. *)
BeginColor(t, m, c) ==
  /\ tx[t] = Idle
  /\ ActiveTeam(m)
  /\ tx' = [tx EXCEPT ![t] = [op |-> "color", team |-> m, color |-> c]]
  /\ UNCHANGED <<team, member, colorOf, raced>>

CommitColor(t) ==
  /\ tx[t].op = "color"
  /\ Assignable(tx[t].color, tx[t].team)
  /\ colorOf' = Assigned(tx[t].color, tx[t].team)
  /\ tx' = [tx EXCEPT ![t] = Idle]
  /\ UNCHANGED <<team, member, raced>>

-------------------------------------------------------------------------------
(* Teams *)

CreateTeam(m, leader, c) ==
  /\ ~Created(m)
  /\ Assignable(c, m)
  /\ team' = [team EXCEPT ![m] = [status |-> "ACTIVE", owner |-> leader]]
  /\ member' = [member EXCEPT ![m][leader] = ActiveLeader]
  /\ colorOf' = Assigned(c, m)
  /\ UNCHANGED <<tx, raced>>

(* The members stay, and so does the colour. *)
DeleteTeam(m) ==
  /\ ActiveTeam(m)
  /\ team' = [team EXCEPT ![m].status = "DELETED"]
  /\ UNCHANGED <<member, colorOf, tx, raced>>

-------------------------------------------------------------------------------
(* Reads of the requests that change members *)

Changing(t, m) == tx[t].op \notin {"idle", "color"} /\ tx[t].team = m

BeginMemberTx(t, op, m, actor, targets) ==
  /\ tx[t] = Idle
  /\ ActiveTeam(m)
  /\ tx' = [tx EXCEPT ![t] =
              [op |-> op, team |-> m, actor |-> actor, targets |-> targets,
               absent |-> { u \in targets : member[m][u].status = "none" },
               left   |-> { u \in targets : member[m][u].status = "LEFT" }]]
  /\ raced' = IF \E x \in Txs : Changing(x, m) THEN raced \cup {m} ELSE raced
  /\ UNCHANGED <<team, member, colorOf>>

BeginAddMember(t, m, actor, u) ==
  /\ Leads(m, actor)
  /\ ~IsMember(m, u)
  /\ BeginMemberTx(t, "add", m, actor, {u})

BeginAddMembers(t, m, S) == BeginMemberTx(t, "add", m, NoUser, S)

BeginUpdateMembers(t, m, S) ==
  /\ team[m].owner \in S
  /\ BeginMemberTx(t, "replace", m, NoUser, S)

(* The members are read back for the answer, which fails for an actor who  *)
(* removed himself.                                                        *)
BeginRemoveMember(t, m, actor, u) ==
  /\ Leads(m, actor) /\ actor # u
  /\ team[m].owner # u
  /\ IsMember(m, u)
  /\ BeginMemberTx(t, "remove", m, actor, {u})

BeginDelegateLeader(t, m, actor, u) ==
  /\ Leads(m, actor) /\ actor # u
  /\ IsMember(m, u)
  /\ BeginMemberTx(t, "delegate", m, actor, {u})

(* An administrator appoints a member, or takes over without being one. *)
BeginChangeLeader(t, m, u) ==
  /\ IsMember(m, u) \/ u \in Staff
  /\ BeginMemberTx(t, "appoint", m, NoUser, {u})

-------------------------------------------------------------------------------
(* Their writes *)

(* get_or_create, then a save of the row it got unless that was ACTIVE: a  *)
(* user found LEFT is saved whatever happened since, one found without a   *)
(* row is looked up once more if the insert fails.                         *)
Joined(q, u) ==
  IF \/ u \in q.left
     \/ u \in q.absent /\ ~IsMember(q.team, u)
  THEN ActiveMember ELSE member[q.team][u]

SetMembers(m, row) == member' = [member EXCEPT ![m] = row]

Done(t) == tx' = [tx EXCEPT ![t] = Idle] /\ UNCHANGED <<colorOf, raced>>

CommitAdd(t) ==
  /\ tx[t].op = "add"
  /\ LET q == tx[t]
     IN  SetMembers(q.team, [u \in Users |-> IF u \in q.targets THEN Joined(q, u)
                                             ELSE member[q.team][u]])
  /\ Done(t)
  /\ UNCHANGED team

CommitUpdateMembers(t) ==
  /\ tx[t].op = "replace"
  /\ LET q == tx[t]
     IN  SetMembers(q.team, [u \in Users |-> IF u \in q.targets THEN Joined(q, u)
                                             ELSE IF IsMember(q.team, u) THEN LeftMember
                                             ELSE member[q.team][u]])
  /\ Done(t)
  /\ UNCHANGED team

CommitRemoveMember(t) ==
  /\ tx[t].op = "remove"
  /\ LET q == tx[t]
     IN  SetMembers(q.team, [u \in Users |-> IF u \in q.targets THEN LeftMember
                                             ELSE member[q.team][u]])
  /\ Done(t)
  /\ UNCHANGED team

(* The two roles are saved, not the statuses. *)
CommitDelegateLeader(t) ==
  /\ tx[t].op = "delegate"
  /\ LET q == tx[t]
     IN  /\ SetMembers(q.team,
              [u \in Users |-> IF u = q.actor THEN [member[q.team][u] EXCEPT !.role = "MEMBER"]
                               ELSE IF u \in q.targets
                                    THEN [member[q.team][u] EXCEPT !.role = "LEADER"]
                               ELSE member[q.team][u]])
         /\ \E u \in q.targets : team' = [team EXCEPT ![q.team].owner = u]
  /\ Done(t)

BugLeaderStays(q, u) ==
  IF u \in q.targets THEN [Joined(q, u) EXCEPT !.role = "LEADER"] ELSE member[q.team][u]

Appointed(q, u) ==
  IF u \in q.targets THEN [Joined(q, u) EXCEPT !.role = "LEADER"]
  ELSE IF IsMember(q.team, u) THEN [member[q.team][u] EXCEPT !.role = "MEMBER"]
  ELSE member[q.team][u]

CommitChangeLeader(t) ==
  /\ tx[t].op = "appoint"
  /\ LET q == tx[t]
     IN  /\ SetMembers(q.team, [u \in Users |-> Appointed(q, u)])
         /\ \E u \in q.targets : team' = [team EXCEPT ![q.team].owner = u]
  /\ Done(t)

(* The colour has been taken, or the actor of a user's request no longer    *)
(* belongs to an active team when its members are read back.               *)
RollBack(t) ==
  /\ \/ /\ tx[t].op = "color"
        /\ ~Assignable(tx[t].color, tx[t].team)
     \/ /\ tx[t].op \in {"add", "remove"}
        /\ tx[t].actor # NoUser
        /\ ~ActiveTeam(tx[t].team) \/ ~IsMember(tx[t].team, tx[t].actor)
  /\ tx' = [tx EXCEPT ![t] = Idle]
  /\ UNCHANGED <<team, member, colorOf, raced>>

-------------------------------------------------------------------------------
TeamNext ==
  \/ \E m \in TeamIds, u \in Users, c \in Colors : CreateTeam(m, u, c)
  \/ \E m \in TeamIds : DeleteTeam(m)
  \/ \E t \in Txs, m \in TeamIds, c \in Colors : BeginColor(t, m, c)
  \/ \E t \in Txs : CommitColor(t) \/ RollBack(t)

BeginNext ==
  \/ \E t \in Txs, m \in TeamIds, S \in Batches :
       BeginAddMembers(t, m, S) \/ BeginUpdateMembers(t, m, S)
  \/ \E t \in Txs, m \in TeamIds, u \in Users : BeginChangeLeader(t, m, u)
  \/ \E t \in Txs, m \in TeamIds, actor, u \in Users :
       \/ BeginAddMember(t, m, actor, u)
       \/ BeginRemoveMember(t, m, actor, u)
       \/ BeginDelegateLeader(t, m, actor, u)

CommitNext ==
  \E t \in Txs : \/ CommitAdd(t)
                 \/ CommitUpdateMembers(t)
                 \/ CommitRemoveMember(t)
                 \/ CommitDelegateLeader(t)
                 \/ CommitChangeLeader(t)

Next == TeamNext \/ BeginNext \/ CommitNext

Spec == Init /\ [][Next]_vars

-------------------------------------------------------------------------------
TypeOK ==
  /\ team \in [TeamIds -> TeamRow]
  /\ member \in [TeamIds -> [Users -> MemberRow]]
  /\ colorOf \in [Colors -> TeamIds \cup {NoTeam}]
  /\ tx \in [Txs -> MemberTx \cup ColorTx \cup {Idle}]
  /\ raced \subseteq TeamIds

(* The owner leads alone: an active member, and the only one with the role. *)
LedByOwner(m) ==
  \A u \in Users : /\ member[m][u].role = "LEADER" <=> u = team[m].owner
                   /\ u = team[m].owner => IsMember(m, u)

(* The owner of a team is one of its active members and the only one with   *)
(* the role of a leader, through every order of creating, adding, removing,*)
(* replacing, delegating and appointing, as long as no two requests changed*)
(* the members of that team at once (nothing locks them).                  *)
LeaderSound == \A m \in TeamIds \ raced : Created(m) => LedByOwner(m)

(* Every active team holds one colour, however the requests for colours of  *)
(* several teams interleave with the deletion of teams.                    *)
ActiveTeamsColored ==
  \A m \in TeamIds : ActiveTeam(m) =>
    /\ \E c \in Colors : colorOf[c] = m
    /\ \A c, d \in Colors : colorOf[c] = m /\ colorOf[d] = m => c = d

ColorsNotTaken ==
  \A c \in Colors :
    colorOf[c] # NoTeam /\ ActiveTeam(colorOf[c]) => colorOf'[c] \in {colorOf[c], NoTeam}

(* The colour of an active team never goes from it to another team: it may  *)
(* only be given up, and is then free for a step.                          *)
ColorsAreGivenUp == [][ColorsNotTaken]_vars

-------------------------------------------------------------------------------
(* The inductive invariant behind LeaderSound. *)

(* What a request has read of a team nobody else is changing still holds    *)
(* when it writes.                                                         *)
StillTrue(q) ==
  /\ Created(q.team)
  /\ q.absent = { u \in q.targets : member[q.team][u].status = "none" }
  /\ q.left   = { u \in q.targets : member[q.team][u].status = "LEFT" }
  /\ q.op = "replace"  => team[q.team].owner \in q.targets
  /\ q.op = "remove"   => team[q.team].owner \notin q.targets
  /\ q.op = "delegate" => /\ q.actor = team[q.team].owner
                          /\ \E u \in Users : /\ q.targets = {u} /\ u # q.actor
                                              /\ IsMember(q.team, u)
  /\ q.op = "appoint"  => \E u \in Users : q.targets = {u}

ReadsHold ==
  \A t \in Txs, m \in TeamIds \ raced :
    Changing(t, m) => /\ StillTrue(tx[t])
                      /\ \A x \in Txs : Changing(x, m) => x = t

(* A team that was not created yet has no members, and nobody changes it.   *)
NotYetCreated ==
  \A m \in TeamIds : ~Created(m) => /\ \A u \in Users : member[m][u] = NoMember
                                    /\ \A t \in Txs : ~Changing(t, m)

LeaderInv == TypeOK /\ NotYetCreated /\ LeaderSound /\ ReadsHold

-------------------------------------------------------------------------------
(* A statement of the repository that the code does not keep. *)

(* The leader must remain a member when the members are replaced            *)
(* (src/BE/backoffice/views.py:539) and cannot be removed                  *)
(* (src/BE/teams/services.py:229).                                         *)
OwnerStaysMember ==
  \A m \in TeamIds : ActiveTeam(m) => IsMember(m, team[m].owner)
===============================================================================
