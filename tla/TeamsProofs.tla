----------------------------- MODULE TeamsProofs -----------------------------
(***************************************************************************)
(* Proofs about Teams: types, colours, and the leader of a team whose      *)
(* members one request at a time changes.                                  *)
(***************************************************************************)
EXTENDS Teams, TLAPS

-------------------------------------------------------------------------------
(* Types *)

(* The rows the services write are rows.                                    *)
LEMMA WrittenRows ==
  /\ NoMember \in MemberRow /\ ActiveMember \in MemberRow
  /\ LeftMember \in MemberRow /\ ActiveLeader \in MemberRow
  BY DEF NoMember, ActiveMember, LeftMember, ActiveLeader, MemberRow, Roles

(* A request in progress is of the kind its operation says.                 *)
LEMMA RequestKinds ==
  ASSUME TypeOK, NEW t \in Txs
  PROVE  /\ tx[t].op \in {"add", "replace", "remove", "delegate", "appoint"}
              => tx[t] \in MemberTx
         /\ tx[t].op = "color" => tx[t] \in ColorTx
  BY DEF TypeOK, MemberTx, ColorTx, Idle

(* Setting the role of a row keeps it a row.                                *)
LEMMA RoleSet ==
  ASSUME NEW r \in MemberRow, NEW x \in Roles
  PROVE  /\ [r EXCEPT !.role = x] \in MemberRow
         /\ [r EXCEPT !.role = x].role = x
         /\ [r EXCEPT !.role = x].status = r.status
  BY DEF MemberRow

(* A request to change members leaves the tables alone and is well formed.  *)
LEMMA BeginTyped ==
  ASSUME TypeOK, NEW t \in Txs, NEW m \in TeamIds, NEW S \in SUBSET Users,
         NEW op \in {"add", "replace", "remove", "delegate", "appoint"},
         NEW actor \in Users \cup {NoUser}, BeginMemberTx(t, op, m, actor, S)
  PROVE  TypeOK'
  BY DEF TypeOK, BeginMemberTx, MemberTx

(* Whoever joins gets a row.                                                *)
LEMMA JoinedRow ==
  ASSUME TypeOK, NEW q \in MemberTx, NEW u \in Users
  PROVE  Joined(q, u) \in MemberRow
  BY WrittenRows DEF TypeOK, Joined, MemberTx

(* Each step that begins a request is one BeginMemberTx.                    *)
LEMMA BeginCases ==
  ASSUME BeginNext
  PROVE  \E t \in Txs, m \in TeamIds, S \in SUBSET Users, actor \in Users \cup {NoUser} :
           \/ BeginMemberTx(t, "add", m, actor, S)
           \/ BeginMemberTx(t, "replace", m, actor, S) /\ team[m].owner \in S
           \/ /\ BeginMemberTx(t, "remove", m, actor, S) /\ team[m].owner \notin S
           \/ \E u \in Users : /\ BeginMemberTx(t, "delegate", m, actor, S) /\ S = {u}
                               /\ actor \in Users /\ Leads(m, actor) /\ actor # u
                               /\ IsMember(m, u)
           \/ \E u \in Users : BeginMemberTx(t, "appoint", m, actor, S) /\ S = {u}
<1>1. ASSUME NEW t \in Txs, NEW m \in TeamIds, NEW S \in Batches,
             BeginAddMembers(t, m, S) \/ BeginUpdateMembers(t, m, S)
      PROVE  S \in SUBSET Users /\ NoUser \in Users \cup {NoUser}
  BY <1>1, TeamAssumption
<1>2. ASSUME NEW u \in Users
      PROVE  {u} \in SUBSET Users
  OBVIOUS
<1>3. CASE \E t \in Txs, m \in TeamIds, S \in Batches :
             BeginAddMembers(t, m, S) \/ BeginUpdateMembers(t, m, S)
  BY <1>1, <1>3 DEF BeginAddMembers, BeginUpdateMembers
<1>4. CASE \E t \in Txs, m \in TeamIds, u \in Users : BeginChangeLeader(t, m, u)
  BY <1>2, <1>4 DEF BeginChangeLeader
<1>5. CASE \E t \in Txs, m \in TeamIds, actor, u \in Users : BeginAddMember(t, m, actor, u)
  BY <1>2, <1>5 DEF BeginAddMember
<1>6. CASE \E t \in Txs, m \in TeamIds, actor, u \in Users : BeginRemoveMember(t, m, actor, u)
  BY <1>2, <1>6 DEF BeginRemoveMember
<1>7. CASE \E t \in Txs, m \in TeamIds, actor, u \in Users : BeginDelegateLeader(t, m, actor, u)
  BY <1>2, <1>7 DEF BeginDelegateLeader
<1>. QED  BY <1>3, <1>4, <1>5, <1>6, <1>7 DEF BeginNext

(* Each step that ends one writes rows for the users of its team, and       *)
(* perhaps a new owner.                                                    *)
LEMMA CommitCases ==
  ASSUME TypeOK, NEW t \in Txs,
         \/ CommitAdd(t) \/ CommitUpdateMembers(t) \/ CommitRemoveMember(t)
         \/ CommitDelegateLeader(t) \/ CommitChangeLeader(t)
  PROVE  /\ tx[t] \in MemberTx
         /\ member' \in [TeamIds -> [Users -> MemberRow]]
         /\ \A m \in TeamIds : m # tx[t].team => member'[m] = member[m]
         /\ team' = team \/ \E u \in tx[t].targets : team' = [team EXCEPT ![tx[t].team].owner = u]
         /\ tx' = [tx EXCEPT ![t] = Idle] /\ UNCHANGED <<colorOf, raced>>
<1> DEFINE q == tx[t]
<1>1. q \in MemberTx
  BY RequestKinds DEF CommitAdd, CommitUpdateMembers, CommitRemoveMember, CommitDelegateLeader,
                      CommitChangeLeader
<1>2. q.team \in TeamIds /\ q.targets \subseteq Users
  BY <1>1 DEF MemberTx
<1>3. \A u \in Users : member[q.team][u] \in MemberRow /\ Joined(q, u) \in MemberRow
  BY <1>1, <1>2, JoinedRow DEF TypeOK
<1>4. ASSUME NEW row \in [Users -> MemberRow], SetMembers(q.team, row)
      PROVE  /\ member' \in [TeamIds -> [Users -> MemberRow]]
             /\ \A m \in TeamIds : m # q.team => member'[m] = member[m]
  BY <1>2, <1>4 DEF TypeOK, SetMembers
<1> HIDE DEF q
<1>5. CASE CommitAdd(t)
  <2>1. [u \in Users |-> IF u \in q.targets THEN Joined(q, u) ELSE member[q.team][u]]
          \in [Users -> MemberRow]
    BY <1>3
  <2>. QED  BY <1>1, <1>4, <1>5, <2>1 DEF CommitAdd, Done, q
<1>6. CASE CommitUpdateMembers(t)
  <2>1. [u \in Users |-> IF u \in q.targets THEN Joined(q, u)
                         ELSE IF IsMember(q.team, u) THEN LeftMember ELSE member[q.team][u]]
          \in [Users -> MemberRow]
    BY <1>3, WrittenRows
  <2>. QED  BY <1>1, <1>4, <1>6, <2>1 DEF CommitUpdateMembers, Done, q
<1>7. CASE CommitRemoveMember(t)
  <2>1. [u \in Users |-> IF u \in q.targets THEN LeftMember ELSE member[q.team][u]]
          \in [Users -> MemberRow]
    BY <1>3, WrittenRows
  <2>. QED  BY <1>1, <1>4, <1>7, <2>1 DEF CommitRemoveMember, Done, q
<1>8. CASE CommitDelegateLeader(t)
  <2>1. [u \in Users |-> IF u = q.actor THEN [member[q.team][u] EXCEPT !.role = "MEMBER"]
                         ELSE IF u \in q.targets
                              THEN [member[q.team][u] EXCEPT !.role = "LEADER"]
                         ELSE member[q.team][u]]
          \in [Users -> MemberRow]
    BY <1>3, RoleSet DEF Roles
  <2>. QED  BY <1>1, <1>4, <1>8, <2>1 DEF CommitDelegateLeader, Done, q
<1>9. CASE CommitChangeLeader(t)
  <2>1. [u \in Users |-> Appointed(q, u)] \in [Users -> MemberRow]
    BY <1>3, RoleSet DEF Appointed, Roles
  <2>. QED  BY <1>1, <1>4, <1>9, <2>1 DEF CommitChangeLeader, Done, q
<1>. QED  BY <1>5, <1>6, <1>7, <1>8, <1>9

(* Rows stay well formed.                                                   *)
LEMMA TypeKept == TypeOK /\ [Next]_vars => TypeOK'
<1> SUFFICES ASSUME TypeOK, [Next]_vars PROVE TypeOK'
  OBVIOUS
<1>1. CASE UNCHANGED vars
  BY <1>1 DEF vars, TypeOK
<1>2. CASE TeamNext
  <2>1. ASSUME NEW m \in TeamIds, NEW u \in Users, NEW c \in Colors, CreateTeam(m, u, c)
        PROVE  TypeOK'
    <3>1. member' \in [TeamIds -> [Users -> MemberRow]]
      BY <2>1, WrittenRows DEF CreateTeam, TypeOK
    <3>2. team' \in [TeamIds -> TeamRow]
      BY <2>1 DEF CreateTeam, TypeOK, TeamRow
    <3>3. colorOf' \in [Colors -> TeamIds \cup {NoTeam}]
      BY <2>1 DEF CreateTeam, TypeOK, Assigned
    <3>. QED  BY <2>1, <3>1, <3>2, <3>3 DEF CreateTeam, TypeOK
  <2>2. ASSUME NEW m \in TeamIds, DeleteTeam(m)
        PROVE  TypeOK'
    BY <2>2 DEF DeleteTeam, TypeOK, TeamRow
  <2>3. ASSUME NEW t \in Txs, NEW m \in TeamIds, NEW c \in Colors, BeginColor(t, m, c)
        PROVE  TypeOK'
    BY <2>3 DEF BeginColor, TypeOK, ColorTx
  <2>4. ASSUME NEW t \in Txs, CommitColor(t)
        PROVE  TypeOK'
    <3>1. tx[t] \in ColorTx
      BY <2>4, RequestKinds DEF CommitColor
    <3>2. colorOf' \in [Colors -> TeamIds \cup {NoTeam}]
      BY <2>4, <3>1 DEF CommitColor, TypeOK, Assigned, ColorTx
    <3>. QED  BY <2>4, <3>2 DEF CommitColor, TypeOK
  <2>5. ASSUME NEW t \in Txs, RollBack(t)
        PROVE  TypeOK'
    BY <2>5 DEF RollBack, TypeOK
  <2>. QED  BY <1>2, <2>1, <2>2, <2>3, <2>4, <2>5 DEF TeamNext
<1>3. CASE BeginNext
  BY <1>3, BeginCases, BeginTyped
<1>4. CASE CommitNext
  <2> SUFFICES ASSUME NEW t \in Txs,
                      \/ CommitAdd(t) \/ CommitUpdateMembers(t) \/ CommitRemoveMember(t)
                      \/ CommitDelegateLeader(t) \/ CommitChangeLeader(t)
               PROVE  TypeOK'
    BY <1>4 DEF CommitNext
  <2>1. tx[t] \in MemberTx /\ tx[t].targets \subseteq Users
    BY CommitCases DEF MemberTx
  <2>2. team' \in [TeamIds -> TeamRow]
    <3>1. CASE team' = team
      BY <3>1 DEF TypeOK
    <3>2. ASSUME NEW m \in TeamIds, NEW u \in Users, team' = [team EXCEPT ![m].owner = u]
          PROVE  team' \in [TeamIds -> TeamRow]
      BY <3>2 DEF TypeOK, TeamRow
    <3>3. tx[t].team \in TeamIds
      BY <2>1 DEF MemberTx
    <3>. QED  BY <2>1, <3>1, <3>2, <3>3, CommitCases
  <2>. QED  BY <2>2, CommitCases DEF TypeOK
<1>. QED  BY <1>1, <1>2, <1>3, <1>4 DEF Next

(* Every row of the teams' tables is well formed in every reachable state.  *)
THEOREM TeamTypes == Spec => []TypeOK
<1>1. Init => TypeOK
  BY WrittenRows DEF Init, TypeOK, TeamRow
<1>. QED  BY <1>1, TypeKept, PTL DEF Spec

-------------------------------------------------------------------------------
(* Colours *)

(* What _assign_color writes: the team gets the colour and no other, and no  *)
(* other active team loses any.                                            *)
LEMMA AssignedColors ==
  ASSUME TypeOK, NEW c \in Colors, NEW m \in TeamIds, Assignable(c, m),
         colorOf' = Assigned(c, m)
  PROVE  /\ \A x \in Colors : colorOf'[x] = m <=> x = c
         /\ \A x \in Colors, n \in TeamIds :
              n # m /\ ActiveTeam(n) => (colorOf'[x] = n <=> colorOf[x] = n)
         /\ \A x \in Colors : colorOf[x] = m => colorOf'[x] \in {m, NoTeam}
  BY TeamAssumption DEF TypeOK, Assignable, Assigned

(* Steps that do not assign a colour keep the colours.                      *)
LEMMA ColorStepCases ==
  ASSUME TypeOK, Next
  PROVE  \/ /\ UNCHANGED colorOf
            /\ \A n \in TeamIds : ActiveTeam(n)' => ActiveTeam(n)
         \/ \E c \in Colors, m \in TeamIds :
              /\ Assignable(c, m) /\ colorOf' = Assigned(c, m)
              /\ \A n \in TeamIds : n # m /\ ActiveTeam(n)' => ActiveTeam(n)
<1>1. CASE TeamNext
  <2>1. ASSUME NEW m \in TeamIds, NEW u \in Users, NEW c \in Colors, CreateTeam(m, u, c)
        PROVE  \A n \in TeamIds : n # m /\ ActiveTeam(n)' => ActiveTeam(n)
    BY <2>1 DEF CreateTeam, ActiveTeam, TypeOK
  <2>2. ASSUME NEW m \in TeamIds, DeleteTeam(m)
        PROVE  /\ UNCHANGED colorOf
               /\ \A n \in TeamIds : ActiveTeam(n)' => ActiveTeam(n)
    BY <2>2 DEF DeleteTeam, ActiveTeam, TypeOK, TeamRow
  <2>3. ASSUME NEW t \in Txs, NEW m \in TeamIds, NEW c \in Colors, BeginColor(t, m, c)
        PROVE  UNCHANGED <<team, colorOf>>
    BY <2>3 DEF BeginColor
  <2>4. ASSUME NEW t \in Txs, CommitColor(t)
        PROVE  /\ tx[t].color \in Colors /\ tx[t].team \in TeamIds /\ UNCHANGED team
               /\ Assignable(tx[t].color, tx[t].team)
               /\ colorOf' = Assigned(tx[t].color, tx[t].team)
    BY <2>4, RequestKinds DEF CommitColor, ColorTx
  <2>5. ASSUME NEW t \in Txs, RollBack(t)
        PROVE  UNCHANGED <<team, colorOf>>
    BY <2>5 DEF RollBack
  <2>. QED  BY <1>1, <2>1, <2>2, <2>3, <2>4, <2>5 DEF TeamNext, CreateTeam, ActiveTeam
<1>2. CASE BeginNext
  BY <1>2, BeginCases DEF BeginMemberTx, ActiveTeam
<1>3. CASE CommitNext
  <2> SUFFICES ASSUME NEW t \in Txs,
                      \/ CommitAdd(t) \/ CommitUpdateMembers(t) \/ CommitRemoveMember(t)
                      \/ CommitDelegateLeader(t) \/ CommitChangeLeader(t)
               PROVE  /\ UNCHANGED colorOf
                      /\ \A n \in TeamIds : ActiveTeam(n)' => ActiveTeam(n)
    BY <1>3 DEF CommitNext
  <2>1. CASE team' = team
    BY <2>1, CommitCases DEF ActiveTeam
  <2>2. ASSUME NEW m, NEW u, team' = [team EXCEPT ![m].owner = u]
        PROVE  \A n \in TeamIds : ActiveTeam(n)' => ActiveTeam(n)
    BY <2>2 DEF ActiveTeam, TypeOK, TeamRow
  <2>. QED  BY <2>1, <2>2, CommitCases
<1>. QED  BY <1>1, <1>2, <1>3 DEF Next

(* Every active team holds exactly one colour, for any number of teams,     *)
(* colours and concurrent requests.                                        *)
THEOREM TeamsAreColored == Spec => []ActiveTeamsColored
<1>1. Init => ActiveTeamsColored
  BY DEF Init, ActiveTeamsColored, ActiveTeam
<1>2. TypeOK /\ ActiveTeamsColored /\ [Next]_vars => ActiveTeamsColored'
  <2>1. ASSUME ActiveTeamsColored, UNCHANGED vars
        PROVE  ActiveTeamsColored'
    BY <2>1 DEF vars, ActiveTeamsColored, ActiveTeam
  <2>2. ASSUME TypeOK, ActiveTeamsColored, Next
        PROVE  ActiveTeamsColored'
    <3>1. CASE UNCHANGED colorOf /\ \A n \in TeamIds : ActiveTeam(n)' => ActiveTeam(n)
      BY <2>2, <3>1 DEF ActiveTeamsColored
    <3>2. ASSUME NEW c \in Colors, NEW m \in TeamIds,
                 Assignable(c, m), colorOf' = Assigned(c, m),
                 \A n \in TeamIds : n # m /\ ActiveTeam(n)' => ActiveTeam(n)
          PROVE  ActiveTeamsColored'
      <4> SUFFICES ASSUME NEW n \in TeamIds, ActiveTeam(n)'
                   PROVE  /\ \E x \in Colors : colorOf'[x] = n
                          /\ \A x, y \in Colors : colorOf'[x] = n /\ colorOf'[y] = n => x = y
        BY DEF ActiveTeamsColored
      <4>1. CASE n = m
        BY <2>2, <3>2, <4>1, AssignedColors
      <4>2. CASE n # m
        BY <2>2, <3>2, <4>2, AssignedColors DEF ActiveTeamsColored
      <4>. QED  BY <4>1, <4>2
    <3>. QED  BY <2>2, <3>1, <3>2, ColorStepCases
  <2>. QED  BY <2>1, <2>2
<1>. QED  BY <1>1, <1>2, TeamTypes, PTL DEF Spec

(* No request takes the colour of an active team for another one.           *)
THEOREM ColorsAreSafe == Spec => ColorsAreGivenUp
<1>1. TypeOK /\ [Next]_vars => [ColorsNotTaken]_vars
  <2> SUFFICES ASSUME TypeOK, Next, NEW x \in Colors,
                      colorOf[x] # NoTeam, ActiveTeam(colorOf[x])
               PROVE  colorOf'[x] \in {colorOf[x], NoTeam}
    BY DEF ColorsNotTaken
  <2>1. colorOf[x] \in TeamIds
    BY DEF TypeOK
  <2>2. ASSUME NEW c \in Colors, NEW m \in TeamIds,
               Assignable(c, m), colorOf' = Assigned(c, m)
        PROVE  colorOf'[x] \in {colorOf[x], NoTeam}
    <3>1. CASE colorOf[x] = m
      BY <2>2, <3>1, AssignedColors
    <3>2. CASE colorOf[x] # m
      BY <2>1, <2>2, <3>2, AssignedColors
    <3>. QED  BY <3>1, <3>2
  <2>. QED  BY <2>2, ColorStepCases
<1>. QED  BY <1>1, TeamTypes, PTL DEF Spec, ColorsAreGivenUp

-------------------------------------------------------------------------------
(* Leaders *)

(* What the invariant says of a team depends on its own rows only.          *)
LEMMA SameTeam ==
  ASSUME NEW m \in TeamIds, member'[m] = member[m], team'[m].owner = team[m].owner
  PROVE  LedByOwner(m)' <=> LedByOwner(m)
  BY DEF LedByOwner, IsMember

(* What a request has read holds on while its team's rows stay.             *)
LEMMA SameReads ==
  ASSUME NEW q \in MemberTx, member'[q.team] = member[q.team],
         team'[q.team].owner = team[q.team].owner,
         Created(q.team) => Created(q.team)', StillTrue(q)
  PROVE  StillTrue(q)'
  BY DEF StillTrue, IsMember

(* Steps that touch no member and no owner, nor begin a request that does:  *)
(* at most they end one.                                                   *)
LEMMA UntouchedKeeps ==
  ASSUME LeaderInv, TypeOK', UNCHANGED <<member, raced>>,
         \A m \in TeamIds : /\ team'[m].owner = team[m].owner
                            /\ Created(m)' <=> Created(m),
         \A t \in Txs : tx'[t] = tx[t] \/ tx'[t].op \in {"idle", "color"}
  PROVE  LeaderInv'
<1>1. LeaderSound'
  BY SameTeam DEF LeaderInv, LeaderSound
<1>2. ASSUME NEW t \in Txs, NEW m \in TeamIds \ raced, Changing(t, m)'
      PROVE  tx'[t] = tx[t] /\ Changing(t, m)
  BY <1>2 DEF Changing
<1>3. ASSUME NEW t \in Txs, NEW m \in TeamIds \ raced, Changing(t, m)'
      PROVE  /\ StillTrue(tx[t])'
             /\ \A x \in Txs : Changing(x, m)' => x = t
  <2>1. tx'[t] = tx[t] /\ Changing(t, m)
    BY <1>2, <1>3
  <2>2. tx[t] \in MemberTx /\ tx[t].team = m
    BY <2>1 DEF LeaderInv, TypeOK, Changing, Idle, ColorTx
  <2>3. StillTrue(tx[t]) /\ \A x \in Txs : Changing(x, m) => x = t
    BY <1>3, <2>1 DEF LeaderInv, ReadsHold
  <2>4. PICK q \in MemberTx : q = tx[t] /\ q = tx'[t]
    BY <2>1, <2>2
  <2>5. StillTrue(q)'
    <3>1. StillTrue(q) /\ q.team \in TeamIds
      BY <2>2, <2>3, <2>4
    <3>. QED  BY <3>1, SameReads
  <2>. QED  BY <1>2, <2>3, <2>4, <2>5 DEF StillTrue
<1>4. NotYetCreated'
  BY DEF LeaderInv, NotYetCreated, Changing
<1>. QED  BY <1>1, <1>3, <1>4 DEF LeaderInv, ReadsHold

(* A step that writes the rows of one team and ends the request that did    *)
(* so keeps the invariant if it leaves a sound leader.                     *)
LEMMA WriterKeeps ==
  ASSUME LeaderInv, TypeOK', NEW t \in Txs, NEW n \in TeamIds, Changing(t, n),
         tx' = [tx EXCEPT ![t] = Idle], UNCHANGED raced,
         \A m \in TeamIds \ {n} : /\ member'[m] = member[m]
                                  /\ team'[m].owner = team[m].owner,
         \A m \in TeamIds : Created(m)' <=> Created(m),
         n \notin raced => LedByOwner(n)'
  PROVE  LeaderInv'
<1>1. LeaderSound'
  BY SameTeam DEF LeaderInv, LeaderSound
<1>2. ASSUME NEW x \in Txs, NEW m \in TeamIds \ raced, Changing(x, m)'
      PROVE  x # t /\ tx'[x] = tx[x] /\ Changing(x, m)
  <2>1. x # t
    BY <1>2 DEF LeaderInv, TypeOK, Changing, Idle
  <2>. QED  BY <1>2, <2>1 DEF LeaderInv, TypeOK, Changing
<1>3. ASSUME NEW x \in Txs, NEW m \in TeamIds \ raced, Changing(x, m)'
      PROVE  /\ StillTrue(tx[x])'
             /\ \A y \in Txs : Changing(y, m)' => y = x
  <2>1. x # t /\ tx'[x] = tx[x] /\ Changing(x, m)
    BY <1>2, <1>3
  <2>2. tx[x] \in MemberTx /\ tx[x].team = m
    BY <2>1 DEF LeaderInv, TypeOK, Changing, Idle, ColorTx
  <2>3. StillTrue(tx[x]) /\ \A y \in Txs : Changing(y, m) => y = x
    BY <1>3, <2>1 DEF LeaderInv, ReadsHold
  <2>4. m # n
    BY <2>1, <2>3
  <2>5. PICK q \in MemberTx : q = tx[x] /\ q = tx'[x]
    BY <2>1, <2>2
  <2>6. StillTrue(q)'
    <3>1. StillTrue(q) /\ q.team = m
      BY <2>2, <2>3, <2>5
    <3>. QED  BY <2>4, <3>1, SameReads
  <2>. QED  BY <1>2, <2>3, <2>5, <2>6 DEF StillTrue
<1>4. Created(n)
  BY DEF LeaderInv, NotYetCreated
<1>5. ASSUME NEW x \in Txs, NEW m \in TeamIds, Changing(x, m)'
      PROVE  Changing(x, m)
  BY <1>5 DEF LeaderInv, TypeOK, Changing, Idle
<1>6. NotYetCreated'
  BY <1>4, <1>5 DEF LeaderInv, NotYetCreated
<1>. QED  BY <1>1, <1>3, <1>6 DEF LeaderInv, ReadsHold

(* A team is created with its leader, before anybody can change it.         *)
LEMMA CreateLeads ==
  ASSUME LeaderInv, TypeOK', NEW n \in TeamIds, NEW u \in Users, NEW c \in Colors,
         CreateTeam(n, u, c)
  PROVE  LeaderInv'
<1>0. UNCHANGED <<tx, raced>>
  BY DEF CreateTeam
<1>1. \A m \in TeamIds \ {n} : /\ member'[m] = member[m] /\ team'[m] = team[m]
  BY DEF CreateTeam, LeaderInv, TypeOK
<1>2. LedByOwner(n)'
  <2>1. member'[n][u] = ActiveLeader /\ \A v \in Users \ {u} : member'[n][v] = member[n][v]
    BY DEF CreateTeam, LeaderInv, TypeOK
  <2>2. team'[n].owner = u
    BY DEF CreateTeam, LeaderInv, TypeOK
  <2>3. \A v \in Users : member[n][v].role = "MEMBER"
    BY DEF CreateTeam, LeaderInv, NotYetCreated, NoMember
  <2>. QED  BY <2>1, <2>2, <2>3 DEF LedByOwner, IsMember, ActiveLeader
<1>3. LeaderSound'
  BY <1>1, <1>2, SameTeam DEF LeaderInv, LeaderSound, CreateTeam, Created
<1>4. ASSUME NEW t \in Txs, NEW m \in TeamIds \ raced, Changing(t, m)
      PROVE  StillTrue(tx[t])' /\ \A x \in Txs : Changing(x, m) => x = t
  <2>1. tx[t] \in MemberTx /\ tx[t].team = m
    BY <1>4 DEF LeaderInv, TypeOK, Changing, Idle, ColorTx
  <2>2. StillTrue(tx[t]) /\ \A x \in Txs : Changing(x, m) => x = t
    BY <1>4 DEF LeaderInv, ReadsHold
  <2>3. m # n
    BY <2>1, <2>2 DEF StillTrue, CreateTeam
  <2>4. PICK q \in MemberTx : q = tx[t] /\ q = tx'[t]
    BY <1>0, <2>1
  <2>5. StillTrue(q)'
    <3>1. StillTrue(q) /\ q.team = m
      BY <2>1, <2>2, <2>4
    <3>. QED  BY <1>1, <2>3, <3>1, SameReads DEF Created
  <2>. QED  BY <2>2, <2>4, <2>5 DEF StillTrue
<1>5. NotYetCreated'
  BY <1>0, <1>1 DEF LeaderInv, NotYetCreated, Created, Changing, CreateTeam, TypeOK
<1>. QED  BY <1>0, <1>3, <1>4, <1>5 DEF LeaderInv, ReadsHold, Changing

(* A request to change members remembers what is true when it begins.       *)
LEMMA BeginLeads ==
  ASSUME LeaderInv, TypeOK', NEW t \in Txs, NEW n \in TeamIds, NEW S \in SUBSET Users,
         NEW op \in {"add", "replace", "remove", "delegate", "appoint"},
         NEW actor \in Users \cup {NoUser}, BeginMemberTx(t, op, n, actor, S),
         op = "replace"  => team[n].owner \in S,
         op = "remove"   => team[n].owner \notin S,
         op = "delegate" => \E u \in Users : /\ S = {u} /\ actor \in Users /\ Leads(n, actor)
                                            /\ actor # u /\ IsMember(n, u),
         op = "appoint"  => \E u \in Users : S = {u}
  PROVE  LeaderInv'
<1> DEFINE q == [op |-> op, team |-> n, actor |-> actor, targets |-> S,
                 absent |-> { u \in S : member[n][u].status = "none" },
                 left   |-> { u \in S : member[n][u].status = "LEFT" }]
<1>1. /\ tx' = [tx EXCEPT ![t] = q] /\ UNCHANGED <<team, member, colorOf>>
      /\ ActiveTeam(n) /\ tx[t] = Idle
      /\ raced' = IF \E x \in Txs : Changing(x, n) THEN raced \cup {n} ELSE raced
  BY DEF BeginMemberTx
<1>2. /\ tx'[t] = q
      /\ \A x \in Txs \ {t} : tx'[x] = tx[x]
  BY <1>1 DEF LeaderInv, TypeOK
<1>3. Changing(t, n)' /\ \A m \in TeamIds : Changing(t, m)' => m = n
  BY <1>2 DEF Changing
<1>4. \A x \in Txs \ {t}, m \in TeamIds : Changing(x, m)' <=> Changing(x, m)
  BY <1>2 DEF Changing
<1>5. Created(n)
  BY <1>1 DEF ActiveTeam, Created
<1>6. LeaderSound'
  BY <1>1 DEF LeaderInv, LeaderSound, LedByOwner, Created, IsMember
<1>7. NotYetCreated'
  BY <1>1, <1>3, <1>4, <1>5 DEF LeaderInv, NotYetCreated, Created
<1>8. n \notin raced' => StillTrue(tx[t])'
  <2> SUFFICES ASSUME n \notin raced'
               PROVE  StillTrue(tx[t])'
    OBVIOUS
  <2>1. LedByOwner(n)
    BY <1>1, <1>5 DEF LeaderInv, LeaderSound
  <2>2. op = "delegate" => actor = team[n].owner
    BY <2>1 DEF Leads, LedByOwner
  <2>. QED  BY <1>1, <1>2, <1>5, <2>2 DEF StillTrue, Created, IsMember
<1>9. ASSUME NEW x \in Txs, NEW m \in TeamIds \ raced', Changing(x, m)'
      PROVE  StillTrue(tx[x])' /\ \A y \in Txs : Changing(y, m)' => y = x
  <2>1. CASE x = t
    <3>1. m = n
      BY <1>3, <1>9, <2>1
    <3>2. \A y \in Txs : ~Changing(y, n)
      BY <1>1, <1>9, <3>1
    <3>. QED  BY <1>4, <1>8, <1>9, <2>1, <3>1, <3>2
  <2>2. CASE x # t
    <3>1. Changing(x, m) /\ m \notin raced
      BY <1>1, <1>4, <1>9, <2>2
    <3>2. m # n
      BY <1>1, <1>9, <3>1
    <3>3. StillTrue(tx[x]) /\ \A y \in Txs : Changing(y, m) => y = x
      BY <3>1 DEF LeaderInv, ReadsHold
    <3>4. StillTrue(tx[x])'
      BY <1>1, <1>2, <2>2, <3>3 DEF StillTrue, Created, IsMember
    <3>. QED  BY <1>3, <1>4, <3>2, <3>3, <3>4
  <2>. QED  BY <2>1, <2>2
<1>. QED  BY <1>6, <1>7, <1>9 DEF LeaderInv, ReadsHold

(* Joining a team changes nothing for who is active.                        *)
LEMMA JoinKeepsActive ==
  ASSUME NEW q \in MemberTx, StillTrue(q), NEW u \in q.targets
  PROVE  /\ IsMember(q.team, u) => Joined(q, u) = member[q.team][u]
         /\ ~IsMember(q.team, u) => \/ Joined(q, u) = ActiveMember
                                   \/ Joined(q, u) = member[q.team][u]
  BY DEF StillTrue, Joined, IsMember

(* Every request that changes members leaves a team that nobody else is      *)
(* changing with a sound leader.                                           *)
LEMMA CommitSound ==
  ASSUME LeaderInv, TypeOK', NEW t \in Txs, NEW n \in TeamIds, tx[t] \in MemberTx,
         n = tx[t].team, n \notin raced,
         \/ CommitAdd(t) \/ CommitUpdateMembers(t) \/ CommitRemoveMember(t)
         \/ CommitDelegateLeader(t) \/ CommitChangeLeader(t)
  PROVE  LedByOwner(n)'
<1>1. PICK q \in MemberTx : q = tx[t]
  OBVIOUS
<1>2. n = q.team
  BY <1>1
<1>3. q.targets \subseteq Users
  BY DEF MemberTx
<1>4. Changing(t, n)
  BY <1>1, <1>2 DEF Changing, MemberTx
<1>5. StillTrue(q) /\ n \notin raced
  BY <1>1, <1>2, <1>4 DEF LeaderInv, ReadsHold
<1>6. LedByOwner(n)
  BY <1>2, <1>5 DEF LeaderInv, LeaderSound, StillTrue
<1>7. \A u \in Users : member[n][u] \in MemberRow
  BY DEF LeaderInv, TypeOK
<1>8. ASSUME NEW row, SetMembers(n, row), row \in [Users -> MemberRow]
      PROVE  \A u \in Users : member'[n][u] = row[u]
  BY <1>8 DEF SetMembers, LeaderInv, TypeOK
<1>9. ASSUME NEW row, SetMembers(n, row)
      PROVE  member'[n] = row
  BY <1>9 DEF SetMembers, LeaderInv, TypeOK
<1>10. ASSUME NEW u, team' = [team EXCEPT ![n].owner = u]
       PROVE  team'[n].owner = u
  BY <1>10 DEF LeaderInv, TypeOK, TeamRow
<1>11. CASE CommitAdd(t)
  <2>1. \A u \in Users : member'[n][u] = IF u \in q.targets THEN Joined(q, u) ELSE member[n][u]
    BY <1>1, <1>2, <1>9, <1>11 DEF CommitAdd
  <2>2. team' = team
    BY <1>11 DEF CommitAdd
  <2>. QED  BY <1>2, <1>5, <1>6, <2>1, <2>2, JoinKeepsActive
            DEF LedByOwner, IsMember, ActiveMember
<1>12. CASE CommitUpdateMembers(t)
  <2>1. \A u \in Users : member'[n][u] = IF u \in q.targets THEN Joined(q, u)
                                        ELSE IF IsMember(n, u) THEN LeftMember ELSE member[n][u]
    BY <1>1, <1>2, <1>9, <1>12 DEF CommitUpdateMembers
  <2>2. team' = team /\ team[n].owner \in q.targets
    BY <1>1, <1>2, <1>5, <1>12 DEF CommitUpdateMembers, StillTrue
  <2>. QED  BY <1>2, <1>5, <1>6, <2>1, <2>2, JoinKeepsActive
            DEF LedByOwner, IsMember, ActiveMember, LeftMember
<1>13. CASE CommitRemoveMember(t)
  <2>1. \A u \in Users : member'[n][u] = IF u \in q.targets THEN LeftMember ELSE member[n][u]
    BY <1>1, <1>2, <1>9, <1>13 DEF CommitRemoveMember
  <2>2. team' = team /\ team[n].owner \notin q.targets
    BY <1>1, <1>2, <1>5, <1>13 DEF CommitRemoveMember, StillTrue
  <2>. QED  BY <1>2, <1>6, <2>1, <2>2 DEF LedByOwner, IsMember, LeftMember
<1>14. CASE CommitDelegateLeader(t)
  <2>1. PICK v \in Users : q.targets = {v} /\ v # q.actor /\ IsMember(n, v)
    BY <1>1, <1>2, <1>5, <1>14 DEF CommitDelegateLeader, StillTrue
  <2>2. q.actor = team[n].owner
    BY <1>1, <1>2, <1>5, <1>14 DEF CommitDelegateLeader, StillTrue
  <2>3. \A u \in Users : member'[n][u] =
          IF u = q.actor THEN [member[n][u] EXCEPT !.role = "MEMBER"]
          ELSE IF u \in q.targets THEN [member[n][u] EXCEPT !.role = "LEADER"]
          ELSE member[n][u]
    BY <1>1, <1>2, <1>9, <1>14 DEF CommitDelegateLeader
  <2>4. team'[n].owner = v
    BY <1>1, <1>2, <1>10, <1>14, <2>1 DEF CommitDelegateLeader
  <2>5. ASSUME NEW u \in Users
        PROVE  /\ member'[n][u].role = "LEADER" <=> u = v
               /\ member'[n][u].status = member[n][u].status
    <3>1. CASE u = q.actor
      <4>1. member'[n][u] = [member[n][u] EXCEPT !.role = "MEMBER"]
        BY <2>3, <3>1
      <4>. QED  BY <1>7, <2>1, <3>1, <4>1, RoleSet DEF Roles
    <3>2. CASE u = v
      <4>1. member'[n][u] = [member[n][u] EXCEPT !.role = "LEADER"]
        BY <2>1, <2>3, <3>2
      <4>. QED  BY <1>7, <3>2, <4>1, RoleSet DEF Roles
    <3>3. CASE u # q.actor /\ u # v
      <4>1. member'[n][u] = member[n][u]
        BY <2>1, <2>3, <3>3
      <4>. QED  BY <1>6, <2>2, <3>3, <4>1 DEF LedByOwner
    <3>. QED  BY <3>1, <3>2, <3>3
  <2>. QED  BY <1>2, <2>1, <2>4, <2>5 DEF LedByOwner, IsMember
<1>15. CASE CommitChangeLeader(t)
  <2>1. PICK v \in Users : q.targets = {v}
    BY <1>1, <1>5, <1>15 DEF CommitChangeLeader, StillTrue
  <2>2. \A u \in Users : member'[n][u] = Appointed(q, u)
    BY <1>1, <1>2, <1>9, <1>15 DEF CommitChangeLeader
  <2>3. team'[n].owner = v
    BY <1>1, <1>2, <1>10, <1>15, <2>1 DEF CommitChangeLeader
  <2>4. Joined(q, v) \in MemberRow /\ Joined(q, v).status = "ACTIVE"
    <3>1. Joined(q, v) \in MemberRow
      BY JoinedRow DEF LeaderInv
    <3>2. \/ Joined(q, v) = ActiveMember
          \/ IsMember(n, v) /\ Joined(q, v) = member[n][v]
      <4>1. member[n][v].status \in {"none", "ACTIVE", "LEFT"}
        BY <1>7 DEF MemberRow
      <4>2. CASE IsMember(n, v)
        BY <1>2, <1>5, <2>1, <4>2, JoinKeepsActive
      <4>3. CASE member[n][v].status = "LEFT"
        <5>1. v \in q.left
          BY <1>2, <1>5, <2>1, <4>3 DEF StillTrue
        <5>. QED  BY <5>1 DEF Joined
      <4>4. CASE member[n][v].status = "none"
        <5>1. v \in q.absent /\ ~IsMember(q.team, v)
          BY <1>2, <1>5, <2>1, <4>4 DEF StillTrue, IsMember
        <5>. QED  BY <5>1 DEF Joined
      <4>. QED  BY <4>1, <4>2, <4>3, <4>4 DEF IsMember
    <3>. QED  BY <3>1, <3>2 DEF ActiveMember, IsMember
  <2>5. member'[n][v].role = "LEADER" /\ member'[n][v].status = "ACTIVE"
    <3>1. member'[n][v] = [Joined(q, v) EXCEPT !.role = "LEADER"]
      BY <2>1, <2>2 DEF Appointed
    <3>. QED  BY <2>4, <3>1, RoleSet DEF Roles
  <2>6. \A u \in Users \ {v} : member'[n][u].role = "MEMBER"
    <3> SUFFICES ASSUME NEW u \in Users \ {v}
                 PROVE  member'[n][u].role = "MEMBER"
      OBVIOUS
    <3>1. member'[n][u] = Appointed(q, u) /\ u \notin q.targets
      BY <2>1, <2>2
    <3>2. CASE IsMember(n, u)
      <4>1. Appointed(q, u) = [member[n][u] EXCEPT !.role = "MEMBER"]
        BY <1>2, <3>1, <3>2 DEF Appointed
      <4>. QED  BY <1>7, <3>1, <4>1, RoleSet DEF Roles
    <3>3. CASE ~IsMember(n, u)
      <4>1. Appointed(q, u) = member[n][u]
        BY <1>2, <3>1, <3>3 DEF Appointed
      <4>2. member[n][u].role # "LEADER" /\ member[n][u] \in MemberRow
        BY <1>6, <1>7, <3>3 DEF LedByOwner
      <4>. QED  BY <3>1, <4>1, <4>2 DEF MemberRow, Roles
    <3>. QED  BY <3>2, <3>3
  <2>. QED  BY <1>2, <2>3, <2>5, <2>6 DEF LedByOwner, IsMember
<1>. QED  BY <1>11, <1>12, <1>13, <1>14, <1>15

(* The invariant is inductive.                                              *)
LEMMA LeaderInvKept == LeaderInv /\ [Next]_vars => LeaderInv'
<1> SUFFICES ASSUME LeaderInv, [Next]_vars PROVE LeaderInv'
  OBVIOUS
<1>1. TypeOK'
  BY TypeKept DEF LeaderInv
<1>2. CASE UNCHANGED vars
  <2>1. UNCHANGED <<member, raced>> /\ team' = team /\ tx' = tx
    BY <1>2 DEF vars
  <2>. QED  BY <1>1, <2>1, UntouchedKeeps DEF Created
<1>3. CASE TeamNext
  <2>1. ASSUME NEW m \in TeamIds, NEW u \in Users, NEW c \in Colors, CreateTeam(m, u, c)
        PROVE  LeaderInv'
    BY <1>1, <2>1, CreateLeads
  <2>2. ASSUME NEW n \in TeamIds, DeleteTeam(n)
        PROVE  LeaderInv'
    <3>1. \A m \in TeamIds : team'[m].owner = team[m].owner /\ (Created(m)' <=> Created(m))
      BY <2>2 DEF DeleteTeam, ActiveTeam, Created, LeaderInv, TypeOK, TeamRow
    <3>. QED  BY <1>1, <2>2, <3>1, UntouchedKeeps DEF DeleteTeam
  <2>3. ASSUME NEW t \in Txs, NEW m \in TeamIds, NEW c \in Colors,
               BeginColor(t, m, c) \/ CommitColor(t) \/ RollBack(t)
        PROVE  LeaderInv'
    <3>1. UNCHANGED <<team, member, raced>>
      BY <2>3 DEF BeginColor, CommitColor, RollBack
    <3>2. \A x \in Txs : tx'[x] = tx[x] \/ tx'[x].op \in {"idle", "color"}
      BY <2>3 DEF BeginColor, CommitColor, RollBack, Idle, LeaderInv, TypeOK
    <3>. QED  BY <1>1, <3>1, <3>2, UntouchedKeeps DEF Created
  <2>4. ASSUME NEW t \in Txs, CommitColor(t) \/ RollBack(t)
        PROVE  LeaderInv'
    <3>1. UNCHANGED <<team, member, raced>>
      BY <2>4 DEF CommitColor, RollBack
    <3>2. \A x \in Txs : tx'[x] = tx[x] \/ tx'[x].op \in {"idle", "color"}
      BY <2>4 DEF CommitColor, RollBack, Idle, LeaderInv, TypeOK
    <3>. QED  BY <1>1, <3>1, <3>2, UntouchedKeeps DEF Created
  <2>. QED  BY <1>3, <2>1, <2>2, <2>3, <2>4 DEF TeamNext
<1>4. CASE BeginNext
  <2>1. PICK t \in Txs, m \in TeamIds, S \in SUBSET Users, actor \in Users \cup {NoUser} :
           \/ BeginMemberTx(t, "add", m, actor, S)
           \/ BeginMemberTx(t, "replace", m, actor, S) /\ team[m].owner \in S
           \/ /\ BeginMemberTx(t, "remove", m, actor, S) /\ team[m].owner \notin S
           \/ \E u \in Users : /\ BeginMemberTx(t, "delegate", m, actor, S) /\ S = {u}
                               /\ actor \in Users /\ Leads(m, actor) /\ actor # u
                               /\ IsMember(m, u)
           \/ \E u \in Users : BeginMemberTx(t, "appoint", m, actor, S) /\ S = {u}
    BY <1>4, BeginCases
  <2>2. CASE BeginMemberTx(t, "add", m, actor, S)
    BY <1>1, <2>2, BeginLeads
  <2>3. CASE BeginMemberTx(t, "replace", m, actor, S) /\ team[m].owner \in S
    BY <1>1, <2>3, BeginLeads
  <2>4. CASE BeginMemberTx(t, "remove", m, actor, S) /\ team[m].owner \notin S
    BY <1>1, <2>4, BeginLeads
  <2>5. CASE \E u \in Users : /\ BeginMemberTx(t, "delegate", m, actor, S) /\ S = {u}
                              /\ actor \in Users /\ Leads(m, actor) /\ actor # u
                              /\ IsMember(m, u)
    <3>1. /\ BeginMemberTx(t, "delegate", m, actor, S)
          /\ \E u \in Users : /\ S = {u} /\ actor \in Users /\ Leads(m, actor)
                              /\ actor # u /\ IsMember(m, u)
      BY <2>5
    <3>. QED  BY <1>1, <3>1, BeginLeads
  <2>6. CASE \E u \in Users : BeginMemberTx(t, "appoint", m, actor, S) /\ S = {u}
    <3>1. BeginMemberTx(t, "appoint", m, actor, S) /\ \E u \in Users : S = {u}
      BY <2>6
    <3>. QED  BY <1>1, <3>1, BeginLeads
  <2>. QED  BY <2>1, <2>2, <2>3, <2>4, <2>5, <2>6
<1>5. CASE CommitNext
  <2> SUFFICES ASSUME NEW t \in Txs,
                      \/ CommitAdd(t) \/ CommitUpdateMembers(t) \/ CommitRemoveMember(t)
                      \/ CommitDelegateLeader(t) \/ CommitChangeLeader(t)
               PROVE  LeaderInv'
    BY <1>5 DEF CommitNext
  <2>1. /\ tx[t] \in MemberTx
        /\ \A m \in TeamIds : m # tx[t].team => member'[m] = member[m]
        /\ team' = team \/ \E u \in tx[t].targets : team' = [team EXCEPT ![tx[t].team].owner = u]
        /\ tx' = [tx EXCEPT ![t] = Idle] /\ raced' = raced
    BY CommitCases DEF LeaderInv
  <2>2. PICK n \in TeamIds : n = tx[t].team
    BY <2>1 DEF MemberTx
  <2>3. Changing(t, n)
    BY <2>1, <2>2 DEF MemberTx, Changing
  <2>4. \A m \in TeamIds : /\ m # n => team'[m].owner = team[m].owner
                           /\ Created(m)' <=> Created(m)
    <3>1. ASSUME NEW u, team' = [team EXCEPT ![n].owner = u], NEW m \in TeamIds
          PROVE  /\ m # n => team'[m].owner = team[m].owner
                 /\ team'[m].status = team[m].status
      BY <3>1 DEF LeaderInv, TypeOK, TeamRow
    <3>. QED  BY <2>1, <2>2, <3>1 DEF Created
  <2>5. n \notin raced => LedByOwner(n)'
    BY <1>1, <2>1, <2>2, CommitSound
  <2>. QED  BY <1>1, <2>1, <2>2, <2>3, <2>4, <2>5, WriterKeeps
<1>. QED  BY <1>2, <1>3, <1>4, <1>5 DEF Next

(* The owner of a team is its only leader and an active member, as long as   *)
(* no two requests changed the members of that team at once, whatever went *)
(* on in other teams.                                                      *)
THEOREM OwnersLead == Spec => []LeaderSound
<1>1. Init => LeaderInv
  BY WrittenRows
  DEF Init, LeaderInv, TypeOK, TeamRow, NotYetCreated, LeaderSound, ReadsHold, Created, Changing, Idle
<1>2. LeaderInv => LeaderSound
  BY DEF LeaderInv
<1>. QED  BY <1>1, <1>2, LeaderInvKept, PTL DEF Spec
===============================================================================
