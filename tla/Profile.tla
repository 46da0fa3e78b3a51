-------------------------------- MODULE Profile --------------------------------
(***************************************************************************)
(* A user's own pages (src/FE/src/pages): NicknameEditPage, the page of     *)
(* the external calendar's address and the one that says goodbye.  The     *)
(* user they show is the one kept in the browser's storage, which every    *)
(* answer with the user's data replaces (hooks/useRefreshAuthUser.ts).     *)
(***************************************************************************)
EXTENDS Integers, FiniteSets

CONSTANTS
  Nicks,      (* the nicknames there are, all well formed *)
  MaxInfos,   (* bound: loads of the user on their way at once *)
  MaxMoves    (* bound: what the user and others do *)

VARIABLES
  account,    (* on the server: the user's nickname *)
  others,     (* the nicknames of other users *)
  stored,     (* user.nickname, in the browser's storage *)
  nickname,   (* the input *)
  checkStatus,
  checking,   (* isChecking: the nickname asked about, and the answer *)
  submitting, (* isSubmitting: the nickname sent, and the answer *)
  infos,      (* getMyInfo calls on their way *)
  checkedName,(* history: the nickname of the last check that answered *)
  renamed,    (* history: the stored nickname has changed under the input *)
  ownPage,    (* the page on screen *)
  icsUrl,     (* the subscription that useExternalCalendarSubscription holds *)
  isChecked,  (* WithdrawPage: the box is ticked *)
  moves

profileVars == <<account, others, stored, nickname, checkStatus, checking, submitting, infos,
                 checkedName, renamed, ownPage, icsUrl, isChecked, moves>>

Empty    == 0
Idle     == [name |-> Empty, got |-> Empty, here |-> FALSE]    (* here: its page is still there *)
NoCheck  == [name |-> Empty, got |-> "nothing"]
isBusy   == checking # NoCheck \/ submitting.here
OwnPages == {"nickname", "calendar", "withdraw", "my", "start"}

KeepServer == UNCHANGED <<account, others>>
KeepForm   == UNCHANGED <<nickname, checkStatus, checking, checkedName, renamed>>
KeepRest   == UNCHANGED <<ownPage, icsUrl, isChecked>>

(* useRefreshAuthUser asks when a page mounts; its answer counts while the *)
(* page is there, that of a pull to refresh at any time.                   *)
Info(pull) == [pull |-> pull, page |-> ownPage', got |-> Empty]
Asking(calls, pull) == IF Cardinality(calls) < MaxInfos THEN calls \cup {Info(pull)} ELSE calls

Init ==
  /\ account \in Nicks /\ others \in SUBSET (Nicks \ {account}) /\ stored = account
  /\ nickname = stored /\ checkStatus = "unchecked" /\ checking = NoCheck /\ submitting = Idle
  /\ infos = {[pull |-> FALSE, page |-> "nickname", got |-> Empty]}
  /\ checkedName = Empty /\ renamed = FALSE
  /\ ownPage = "nickname" /\ icsUrl = "none" /\ isChecked = FALSE /\ moves = 0

(* The page copies a stored nickname that has changed into its input, and  *)
(* leaves the verdict of the check.                                        *)
SaveAuthUser(n) ==
  /\ stored' = n
  /\ IF n = stored THEN UNCHANGED <<nickname, renamed>>
     ELSE nickname' = n /\ renamed' = TRUE

BugVerdictStays(n) == checkStatus

StatusTyped(n) == "unchecked"

handleChange(n) ==       (* and handleClear *)
  /\ ownPage = "nickname" /\ ~isBusy /\ n # nickname
  /\ nickname' = n /\ checkStatus' = StatusTyped(n)
  /\ UNCHANGED <<stored, checking, submitting, infos, checkedName, renamed>> /\ KeepServer /\ KeepRest

handleCheckNickname ==
  /\ ownPage = "nickname" /\ nickname # Empty /\ ~isBusy
  /\ checking' = [name |-> nickname, got |-> "nothing"]
  /\ UNCHANGED <<stored, nickname, checkStatus, submitting, infos, checkedName, renamed>>
  /\ KeepServer /\ KeepRest

CheckServed ==           (* checkNicknameAvailability: nobody has it, not even the user *)
  /\ checking # NoCheck /\ checking.got = "nothing"
  /\ checking' = [checking EXCEPT !.got =
                    IF checking.name \in others \cup {account} THEN "unavailable" ELSE "available"]
  /\ UNCHANGED <<stored, nickname, checkStatus, submitting, infos, checkedName, renamed>>
  /\ KeepServer /\ KeepRest

Checked ==
  /\ checking # NoCheck
  /\ checkStatus' = IF checking.got = "nothing" THEN "unchecked" ELSE checking.got
  /\ checkedName' = checking.name /\ checking' = NoCheck
  /\ UNCHANGED <<stored, nickname, submitting, infos, renamed>> /\ KeepServer /\ KeepRest

handleSubmit ==
  /\ ownPage = "nickname" /\ checkStatus = "available" /\ ~isBusy /\ nickname # Empty
  /\ submitting = Idle /\ submitting' = [name |-> nickname, got |-> Empty, here |-> TRUE]
  /\ UNCHANGED <<stored, infos>> /\ KeepForm /\ KeepServer /\ KeepRest

SubmitServed ==          (* updateMyNickname: the user's own nickname will do *)
  /\ submitting # Idle /\ submitting.got = Empty /\ submitting.name \notin others
  /\ account' = submitting.name /\ submitting' = [submitting EXCEPT !.got = account']
  /\ UNCHANGED <<others, stored, infos>> /\ KeepForm /\ KeepRest

(* A page mounts: its state is new, and the user is loaded again.          *)
Mounted(page) ==
  /\ ownPage' = page /\ isChecked' = FALSE
  /\ infos' = IF page \in {"nickname", "my"} THEN Asking(infos, FALSE) ELSE infos
  /\ checkStatus' = "unchecked" /\ checking' = NoCheck /\ checkedName' = Empty /\ renamed' = FALSE

Submitted ==
  /\ submitting # Idle /\ submitting' = Idle
  /\ IF submitting.got = Empty
     THEN /\ checkStatus' = IF submitting.here THEN "unavailable" ELSE checkStatus
          /\ UNCHANGED <<stored, nickname, checking, infos, checkedName, renamed>> /\ KeepRest
     ELSE /\ stored' = submitting.got /\ nickname' = submitting.got
          /\ Mounted("my") /\ UNCHANGED icsUrl
  /\ KeepServer

Pull ==
  /\ ownPage \in {"nickname", "my"} /\ ~\E c \in infos : c.pull
  /\ UNCHANGED ownPage /\ Cardinality(infos) < MaxInfos /\ infos' = Asking(infos, TRUE)
  /\ UNCHANGED <<stored, submitting, icsUrl, isChecked>> /\ KeepForm /\ KeepServer

InfoServed(c) ==         (* getMyInfo *)
  /\ c.got = Empty /\ infos' = (infos \ {c}) \cup {[c EXCEPT !.got = account]}
  /\ UNCHANGED <<stored, submitting>> /\ KeepForm /\ KeepServer /\ KeepRest

InfoArrives(c) ==
  /\ infos' = infos \ {c}
  /\ IF c.got # Empty /\ (c.pull \/ c.page = ownPage) THEN SaveAuthUser(c.got)
     ELSE UNCHANGED <<stored, nickname, renamed>>
  /\ UNCHANGED <<checkStatus, checking, submitting, checkedName>> /\ KeepServer /\ KeepRest

(* The user goes to another page of his; a save goes on.                   *)
Navigate(page) ==
  /\ page # ownPage /\ page # "start" /\ ownPage # "start" /\ Mounted(page)
  /\ nickname' = stored /\ submitting' = [submitting EXCEPT !.here = FALSE]
  /\ UNCHANGED <<stored, icsUrl>> /\ KeepServer

(***************************************************************************)
(* MyInfoExternalCalendarPage: an address that does not change.            *)
(***************************************************************************)
SubscriptionArrives ==
  /\ ownPage = "calendar" /\ icsUrl \in {"none", "failed"} /\ icsUrl' \in {"url", "failed"}
  /\ UNCHANGED <<stored, submitting, infos, ownPage, isChecked>> /\ KeepForm /\ KeepServer

handleCopy ==
  /\ ownPage = "calendar" /\ icsUrl = "url" /\ icsUrl' = "copying"
  /\ UNCHANGED <<stored, submitting, infos, ownPage, isChecked>> /\ KeepForm /\ KeepServer

(* Its toast is shown on the page's own address, wherever the user is now. *)
Copied ==
  /\ icsUrl = "copying" /\ icsUrl' = "url"
  /\ IF ownPage = "calendar" THEN UNCHANGED <<submitting, infos, ownPage, isChecked>> /\ KeepForm
     ELSE /\ Mounted("calendar") /\ nickname' = stored
          /\ submitting' = [submitting EXCEPT !.here = FALSE]
  /\ UNCHANGED stored /\ KeepServer

(***************************************************************************)
(* WithdrawPage: it says goodbye and asks the server for nothing.          *)
(***************************************************************************)
handleToggle ==
  /\ ownPage = "withdraw" /\ isChecked' = ~isChecked
  /\ UNCHANGED <<stored, submitting, infos, ownPage, icsUrl>> /\ KeepForm /\ KeepServer

handleWithdraw ==
  /\ ownPage = "withdraw" /\ isChecked /\ ownPage' = "start" /\ isChecked' = FALSE
  /\ UNCHANGED <<stored, submitting, infos, icsUrl>> /\ KeepForm /\ KeepServer

(* Another user takes or gives up a nickname; the user renames himself on  *)
(* another device.                                                         *)
OthersAct ==
  /\ \/ \E n \in Nicks \ {account} : others' = others \cup {n} /\ UNCHANGED account
     \/ account' \in Nicks \ (others \cup {account}) /\ UNCHANGED others
  /\ UNCHANGED <<stored, submitting, infos>> /\ KeepForm /\ KeepRest

UserActs ==
  \/ \E n \in Nicks \cup {Empty} : handleChange(n)
  \/ \E page \in OwnPages : Navigate(page)
  \/ handleCheckNickname \/ handleSubmit \/ Pull \/ handleCopy \/ handleToggle \/ handleWithdraw
  \/ OthersAct

Answers ==
  \/ CheckServed \/ Checked \/ SubmitServed \/ Submitted \/ SubscriptionArrives \/ Copied
  \/ \E c \in infos : InfoServed(c) \/ InfoArrives(c)

Next ==
  \/ UserActs /\ moves < MaxMoves /\ moves' = moves + 1
  \/ Answers /\ UNCHANGED moves

Spec == Init /\ [][Next]_profileVars

TypeOK ==
  /\ account \in Nicks \ others /\ stored \in Nicks /\ nickname \in Nicks \cup {Empty}
  /\ checkStatus \in {"unchecked", "available", "unavailable"} /\ ownPage \in OwnPages
  /\ submitting.name \in Nicks \cup {Empty} /\ isChecked \in BOOLEAN

(***************************************************************************)
(* Nobody renames himself to what was not checked: the nickname that can   *)
(* be submitted is that of the last check, unless the stored one changed   *)
(* meanwhile, which the page puts in its place.                            *)
(***************************************************************************)
SavedWasChecked ==
  ownPage = "nickname" /\ checkStatus = "available" /\ ~renamed => nickname = checkedName
==============================================================================
