------------------------------- MODULE Joining -------------------------------
(***************************************************************************)
(* Joining the MLS group of a meeting, and finding out whether one is      *)
(* still in it.  A client creates the group, joins it with an external     *)
(* commit, or proposes itself and waits for a member to add it and for the *)
(* Welcome (user_service/join.rs, app/join.rs, mls_service.rs).  Meanwhile *)
(* the websocket handler decides message by message whether the group is   *)
(* ready for it (user_service/messages.rs); what it drops is not sent      *)
(* again, so that the app checks the epoch with the server from time to    *)
(* time (is_mls_up_to_date) and joins again when it has fallen behind.     *)
(*                                                                         *)
(* The history of a group is the sequence of its commits.  The server's is *)
(* log; a client's may be a candidate that the server has yet to accept.   *)
(* Who commits what, and when, is the subject of MlsRoom; here any member  *)
(* that is up to date may commit.  The server and the wire are external.   *)
(*                                                                         *)
(* An operator Mut... is a faulty variant of the operation defined next.   *)
(***************************************************************************)
EXTENDS Integers, Sequences, FiniteSets, SequencesExt

CONSTANTS
  Clients,
  Proposers,   \* the clients that join with join_room_with_proposal or
               \* ..._with_switch_join_type, the others use join_room
  Threshold,   \* JOIN_TYPE_SWITCH_THRESHOLD
  MaxRetries,  \* the retries of a join (2 or 5)
  CheckTries,  \* max_retry_count of is_mls_up_to_date (4)
  Checked,     \* bound: the clients whose checks are followed
  MaxEpoch,    \* bound: no commit but those that join after this epoch
  MaxJoins,    \* bound: joins of all the clients
  MaxFaults    \* bound: requests that fail and connections that break

ASSUME JoiningAssumption ==
  /\ Proposers \subseteq Clients
  /\ {Threshold, MaxRetries, MaxEpoch, MaxJoins, MaxFaults} \subseteq Nat
  /\ CheckTries \in Nat \ {0}
  /\ Checked \subseteq Clients

VARIABLES
  log,        \* the commits the server has accepted
  proposed,   \* the epoch of a client's proposal to be added, 0 if none
  wire,       \* the messages on their way to a client
  conn,       \* is its websocket connected?
  state,      \* mls_group_state
  group,      \* the history of the group in the MLS store, <<>> if none
  cache,      \* the epochs of the commits it keeps for later
  welcome,    \* welcome_info, as the epoch it leads to, 0 if none
  woken,      \* has join_proposal_welcome_notify fired since it listens?
  pc,         \* where its join is
  mode, tries, \* of a join in progress, with info and woken
  info,       \* the epoch of the group info that a proposal is made for,
              \* then of the Welcome that is used
  check,      \* where is_mls_up_to_date is
  sync,       \* mls_sync_state
  joins, faults

server == <<log, proposed>>
net == <<wire, conn>>
mls == <<state, group, cache, welcome>>
join == <<pc, mode, tries, info, woken>>
health == <<check, sync>>
bounds == <<joins, faults>>
vars == <<server, net, mls, join, health, bounds>>

NoCheck == [pc |-> "idle", before |-> 0, server |-> 0, tries |-> 0,
            reconnected |-> FALSE]

Members == UNION {log[i].adds : i \in DOMAIN log}
Joins(c) == [by |-> c, adds |-> {c}]

Init ==
  /\ log = <<>> /\ proposed = [c \in Clients |-> 0]
  /\ wire = [c \in Clients |-> <<>>] /\ conn = [c \in Clients |-> FALSE]
  /\ state = [c \in Clients |-> "Pending"]
  /\ group = [c \in Clients |-> <<>>] /\ cache = [c \in Clients |-> {}]
  /\ welcome = [c \in Clients |-> 0] /\ woken = [c \in Clients |-> FALSE]
  /\ pc = [c \in Clients |-> "out"]
  /\ mode = [c \in Clients |-> "none"]
  /\ tries = [c \in Clients |-> 0] /\ info = [c \in Clients |-> 0]
  /\ check = [c \in Clients |-> NoCheck]
  /\ sync = [c \in Clients |-> "Checking"]
  /\ joins = 0 /\ faults = 0

Fault == faults < MaxFaults /\ faults' = faults + 1

Goto(c, label) == pc' = [pc EXCEPT ![c] = label]

(* The end of a join. *)
Return(c, label) ==
  /\ Goto(c, label)
  /\ mode' = [mode EXCEPT ![c] = "none"] /\ tries' = [tries EXCEPT ![c] = 0]
  /\ info' = [info EXCEPT ![c] = 0] /\ woken' = [woken EXCEPT ![c] = FALSE]

SetState(c, s) == state' = [state EXCEPT ![c] = s]
SetGroup(c, history) == group' = [group EXCEPT ![c] = history]

-----------------------------------------------------------------------------
MutAccept(c, commit) ==
  /\ log' = Append(log, commit)
  /\ wire' = [d \in Clients |->
       IF d = c \/ ~conn[d] THEN wire[d]
       ELSE Append(wire[d], [kind |-> IF d \in commit.adds THEN "welcome"
                                                           ELSE "commit",
                             at |-> Len(log') + 1])]

(* The server takes a commit and sends it to all the others that are       *)
(* connected; those it adds get the Welcome.                               *)
Accept(c, commit) ==
  /\ log' = Append(log, commit)
  /\ wire' = [d \in Clients |->
       IF d = c \/ ~conn[d] THEN wire[d]
       ELSE Append(wire[d], [kind |-> IF d \in commit.adds THEN "welcome"
                                                           ELSE "commit",
                             at |-> Len(log')])]

(* A client's commit follows the newest of the server. *)
UpToDate(c) == group[c] # <<>> /\ Front(group[c]) = log

(* A member commits; proposals are for the epoch they were made in.        *)
(* Bound: MaxEpoch.                                                        *)
MemberCommit(c, adds) ==
  /\ pc[c] = "in"
  /\ group[c] = log
  /\ c \notin adds
  /\ adds = {} => Len(log) < MaxEpoch
  /\ \A d \in adds : proposed[d] = Len(log)
  /\ Accept(c, [by |-> c, adds |-> adds])
  /\ SetGroup(c, log')
  /\ proposed' = [d \in Clients |-> IF d \in adds THEN 0 ELSE proposed[d]]
  /\ UNCHANGED <<conn, state, cache, welcome, join, health, bounds>>

-----------------------------------------------------------------------------
(* The join. *)

(* join_meeting_with_access_token and its variants.  Bound: MaxJoins. *)
Start(c) ==
  /\ pc[c] = "out"
  /\ joins < MaxJoins
  /\ joins' = joins + 1
  /\ \E m \in IF c \in Proposers THEN {"proposal", "switch"} ELSE {"commit"} :
       mode' = [mode EXCEPT ![c] = m]
  /\ Goto(c, "fetch")
  /\ UNCHANGED <<server, net, mls, tries, info, woken, health, faults>>

(* The join failed: services.reset, then the websocket is disconnected. *)
Fail(c) ==
  /\ Return(c, "out")
  /\ SetState(c, "Pending")
  /\ welcome' = [welcome EXCEPT ![c] = 0]
  /\ conn' = [conn EXCEPT ![c] = FALSE]

MutAgain(c, groupInfo) ==
  /\ tries' = [tries EXCEPT ![c] = IF @ < MaxRetries THEN @ + 1 ELSE @]
  /\ Goto(c, "fetch")
  /\ info' = [info EXCEPT ![c] = groupInfo]
  /\ UNCHANGED <<mode, woken, state, welcome, conn>>

(* The service's own loop tries again, with the group info it keeps, or    *)
(* the app does (is_retryable_switch_join), at last with external commits. *)
Again(c, groupInfo) ==
  \/ /\ tries[c] < MaxRetries
     /\ tries' = [tries EXCEPT ![c] = @ + 1]
     /\ Goto(c, "fetch")
     /\ info' = [info EXCEPT ![c] = groupInfo]
     /\ UNCHANGED <<mode, woken, state, welcome, conn>>
  \/ /\ tries[c] = MaxRetries
     /\ mode[c] = "switch"
     /\ mode' = [mode EXCEPT ![c] = "last"]
     /\ Goto(c, "fetch")
     /\ UNCHANGED <<tries, info, woken, state, welcome, conn>>
  \/ /\ tries[c] = MaxRetries
     /\ mode[c] # "switch"
     /\ Fail(c)

(* get_group_info fails. *)
FetchFails(c) ==
  /\ pc[c] = "fetch"
  /\ ~(mode[c] = "proposal" /\ info[c] > 0)
  /\ Fault
  /\ Fail(c)
  /\ UNCHANGED <<server, wire, group, cache, health, joins>>

Proposes(c) ==
  \/ mode[c] = "proposal"
  \/ mode[c] = "switch" /\ Cardinality(Members) >= Threshold

(* No group yet, GroupInfoEmpty: create_mls_group.  It is in the store     *)
(* before the server knows of it.                                          *)
CreateGroup(c) ==
  /\ pc[c] = "fetch"
  /\ log = <<>>
  /\ SetGroup(c, <<Joins(c)>>)
  /\ Goto(c, "upload")
  /\ UNCHANGED <<server, net, state, cache, welcome, mode, tries, info,
                 woken, health, bounds>>

(* join_group_via_external_commit; so is this one. *)
ExternalCommit(c) ==
  /\ pc[c] = "fetch"
  /\ log # <<>>
  /\ ~Proposes(c)
  /\ SetGroup(c, Append(log, Joins(c)))
  /\ Goto(c, "upload")
  /\ UNCHANGED <<server, net, state, cache, welcome, mode, tries, info,
                 woken, health, bounds>>

(* create_proposal_to_join_group.  The service's own loop keeps the group  *)
(* info it has, the app's fetches it again.                                *)
ExternalProposal(c) ==
  /\ pc[c] = "fetch"
  /\ log # <<>>
  /\ Proposes(c)
  /\ info' = [info EXCEPT ![c] =
       IF mode[c] = "proposal" /\ @ > 0 THEN @ ELSE Len(log)]
  /\ Goto(c, "post")
  /\ UNCHANGED <<server, net, mls, mode, tries, woken, health, bounds>>

(* The server answers update_group_info: 422 unless the commit follows the *)
(* newest one.                                                             *)
ServerDecide(c) ==
  /\ pc[c] = "upload"
  /\ \/ /\ UpToDate(c)
        /\ Accept(c, Joins(c))
        /\ \/ Goto(c, "ok") /\ UNCHANGED faults
           \/ Goto(c, "error") /\ Fault
     \/ /\ ~UpToDate(c)
        /\ Goto(c, "conflict")
        /\ UNCHANGED <<log, wire, faults>>
     \/ /\ Goto(c, "error") /\ Fault
        /\ UNCHANGED <<log, wire>>
  /\ UNCHANGED <<proposed, conn, mls, mode, tries, info, woken, health, joins>>

MutUploadDone(c) ==
  /\ pc[c] \in {"ok", "conflict", "error"}
  /\ \/ /\ pc[c] \in {"ok", "conflict"}
        /\ SetState(c, "Success")
        /\ Return(c, "in")
        /\ UNCHANGED <<welcome, conn>>
     \/ pc[c] = "error" /\ Fail(c)
  /\ UNCHANGED <<server, wire, group, cache, health, bounds>>

UploadDone(c) ==
  /\ \/ /\ pc[c] = "ok"
        /\ SetState(c, "Success")
        /\ Return(c, "in")
        /\ UNCHANGED <<welcome, conn>>
     \/ pc[c] = "conflict" /\ Again(c, 0)
     \/ pc[c] = "error" /\ Fail(c)
  /\ UNCHANGED <<server, wire, group, cache, health, bounds>>

(* join_group_by_proposal; the server may refuse a proposal for an epoch   *)
(* that is over.                                                           *)
Post(c) ==
  /\ pc[c] = "post"
  /\ \/ /\ proposed' = [proposed EXCEPT ![c] = info[c]]
        /\ Goto(c, "posted")
        /\ UNCHANGED <<info, woken, state, welcome, conn, mode, tries, faults>>
     \/ /\ info[c] < Len(log)
        /\ Again(c, 0)
        /\ UNCHANGED <<proposed, faults>>
     \/ /\ Fault
        /\ IF mode[c] = "proposal" THEN Again(c, info[c]) ELSE Fail(c)
        /\ UNCHANGED proposed
  /\ UNCHANGED <<log, wire, group, cache, health, joins>>

Posted(c) ==
  /\ pc[c] = "posted"
  /\ SetState(c, "WaitingForJoinProposalWelcome")
  /\ Goto(c, "wait")
  /\ UNCHANGED <<server, net, group, cache, welcome, mode, tries, info, woken,
                 health, bounds>>

(* join_room_with_proposal polls.  It keeps the state locked from the look *)
(* at the Welcome to the end of the join.                                  *)
Poll(c) ==
  /\ pc[c] = "wait" /\ mode[c] = "proposal"
  /\ welcome[c] > 0
  /\ SetGroup(c, SubSeq(log, 1, welcome[c]))
  /\ SetState(c, "Success")
  /\ welcome' = [welcome EXCEPT ![c] = 0]
  /\ Return(c, "in")
  /\ UNCHANGED <<server, net, cache, health, bounds>>

(* The others listen for the notification, look for the Welcome and then   *)
(* sleep.                                                                  *)
Listen(c) ==
  /\ pc[c] = "wait" /\ mode[c] # "proposal"
  /\ woken' = [woken EXCEPT ![c] = FALSE]
  /\ Goto(c, "look")
  /\ UNCHANGED <<server, net, mls, mode, tries, info, health, bounds>>

Look(c) ==
  /\ pc[c] = "look"
  /\ IF welcome[c] > 0 THEN info' = [info EXCEPT ![c] = welcome[c]]
                            /\ Goto(c, "welcomed")
                       ELSE Goto(c, "sleep") /\ UNCHANGED info
  /\ UNCHANGED <<server, net, mls, mode, tries, woken, health, bounds>>

Wake(c) ==
  /\ pc[c] = "sleep"
  /\ woken[c]
  /\ Goto(c, "wait")
  /\ UNCHANGED <<server, net, mls, mode, tries, info, woken, health, bounds>>

(* JOIN_PROPOSAL_TIMEOUT. *)
WelcomeTimeout(c) ==
  /\ \/ pc[c] = "sleep" /\ ~woken[c]
     \/ pc[c] = "wait" /\ mode[c] = "proposal" /\ welcome[c] = 0
  /\ Again(c, info[c])
  /\ UNCHANGED <<server, wire, group, cache, health, bounds>>

(* join_group_via_welcome, without the state locked... *)
JoinViaWelcome(c) ==
  /\ pc[c] = "welcomed"
  /\ SetGroup(c, SubSeq(log, 1, info[c]))
  /\ Goto(c, "joined")
  /\ UNCHANGED <<server, net, state, cache, welcome, mode, tries, info,
                 woken, health, bounds>>

(* ... and then the state is locked for the result. *)
Joined(c) ==
  /\ pc[c] = "joined"
  /\ SetState(c, "Success")
  /\ welcome' = [welcome EXCEPT ![c] = 0]
  /\ Return(c, "in")
  /\ UNCHANGED <<server, net, group, cache, health, bounds>>

-----------------------------------------------------------------------------
(* The websocket handler. *)

Connect(c) ==
  /\ pc[c] # "out"
  /\ ~conn[c]
  /\ conn' = [conn EXCEPT ![c] = TRUE]
  /\ UNCHANGED <<server, wire, mls, join, health, bounds>>

Disconnect(c) ==
  /\ conn[c]
  /\ Fault
  /\ conn' = [conn EXCEPT ![c] = FALSE]
  /\ UNCHANGED <<server, wire, mls, join, health, joins>>

NextMessage(c) ==
  /\ wire[c] # <<>>
  /\ wire' = [wire EXCEPT ![c] = Tail(@)]

(* The message is skipped: the websocket is disconnected, or the group is  *)
(* not ready in time (MLS_STATE_CHECK_TIMEOUT).                            *)
SkipMessage(c) ==
  /\ NextMessage(c)
  /\ ~conn[c] \/ state[c] = "Pending"
  /\ UNCHANGED <<server, conn, mls, join, health, bounds>>

Ready(c) ==
  state[c] \in {"Success", "WaitingForJoinProposalWelcome"}

MutHandleWelcome(c) ==
  /\ NextMessage(c)
  /\ Ready(c)
  /\ wire[c][1].kind = "welcome"
  /\ welcome' = [welcome EXCEPT ![c] = wire[c][1].at]
  /\ UNCHANGED <<server, conn, state, group, cache, join, health, bounds>>

HandleWelcome(c) ==
  /\ NextMessage(c)
  /\ Ready(c)
  /\ wire[c][1].kind = "welcome"
  /\ welcome' = [welcome EXCEPT ![c] = wire[c][1].at]
  /\ woken' = [woken EXCEPT ![c] = pc[c] \in {"look", "sleep"}]
  /\ UNCHANGED <<server, conn, state, group, cache, pc, mode, tries, info,
                 health, bounds>>

(* What c knows after the commit n that follows its own history: that, and *)
(* the commits it has kept for the epochs after it.                        *)
CaughtUp(c, n) ==
  CHOOSE k \in n..Len(log) :
    /\ n + 1..k \subseteq cache[c]
    /\ k + 1 \notin cache[c]

(* handle_commit: without a group the commit is an error; a commit of the  *)
(* past, or of another history, is dropped, one of a later epoch is kept.  *)
HandleCommit(c) ==
  /\ NextMessage(c)
  /\ Ready(c)
  /\ wire[c][1].kind = "commit"
  /\ LET n == wire[c][1].at IN
       \/ /\ group[c] # <<>> /\ group[c] = SubSeq(log, 1, n - 1)
          /\ SetGroup(c, SubSeq(log, 1, CaughtUp(c, n)))
          /\ cache' = [cache EXCEPT ![c] = {e \in @ : e > CaughtUp(c, n)}]
       \/ /\ group[c] # <<>> /\ n > Len(group[c]) + 1
          /\ cache' = [cache EXCEPT ![c] = @ \union {n}]
          /\ UNCHANGED group
       \/ /\ \/ group[c] = <<>>
             \/ n < Len(group[c]) + 1
             \/ n = Len(group[c]) + 1 /\ group[c] # SubSeq(log, 1, n - 1)
          /\ UNCHANGED <<group, cache>>
  /\ UNCHANGED <<server, conn, state, welcome, join, health, bounds>>

-----------------------------------------------------------------------------
(* is_mls_up_to_date, of the app and of the service. *)

SetCheck(c, r) == check' = [check EXCEPT ![c] = r]
SetSync(c, s) == sync' = [sync EXCEPT ![c] = s]

CheckStart(c) ==
  /\ c \in Checked
  /\ pc[c] = "in"
  /\ sync[c] # "Failed"
  /\ check[c].pc = "idle"
  /\ SetCheck(c, [NoCheck EXCEPT !.pc = "epoch"])
  /\ UNCHANGED <<server, net, mls, join, sync, bounds>>

(* The service's verdict is false.  The first time the app reconnects the  *)
(* websocket and checks again; the second time it is told to join again.   *)
OutOfDate(c) ==
  IF check[c].reconnected
    THEN /\ SetSync(c, "Failed") /\ SetCheck(c, NoCheck)
         /\ UNCHANGED conn
    ELSE /\ SetSync(c, "Retrying")
         /\ SetCheck(c, [NoCheck EXCEPT !.pc = "epoch", !.reconnected = TRUE])
         /\ conn' = [conn EXCEPT ![c] = FALSE]

MutCheckEpoch(c) ==
  /\ check[c].pc = "epoch"
  /\ \/ check[c].tries = CheckTries /\ SetCheck(c, NoCheck)
        /\ UNCHANGED <<sync, conn>>
     \/ /\ check[c].tries < CheckTries
        /\ SetCheck(c, [check[c] EXCEPT !.pc = "summary",
                                        !.before = Len(group[c])])
        /\ SetSync(c, "Checking")
        /\ UNCHANGED conn
  /\ UNCHANGED <<server, wire, mls, join, bounds>>

(* The local epoch is read before the server's.  A connection that is not  *)
(* up may be Disconnected or Reconnecting.                                 *)
CheckEpoch(c) ==
  /\ check[c].pc = "epoch"
  /\ \/ check[c].tries = CheckTries /\ OutOfDate(c)
     \/ check[c].tries < CheckTries /\ ~conn[c] /\ OutOfDate(c)
     \/ /\ check[c].tries < CheckTries
        /\ SetCheck(c, [check[c] EXCEPT !.pc = "summary",
                                        !.before = Len(group[c])])
        /\ SetSync(c, IF check[c].reconnected THEN "Retrying" ELSE "Checking")
        /\ UNCHANGED conn
  /\ UNCHANGED <<server, wire, mls, join, bounds>>

NextTry(c) == SetCheck(c, [check[c] EXCEPT !.pc = "epoch", !.tries = @ + 1])

(* get_group_info_summary. *)
CheckSummary(c) ==
  /\ check[c].pc = "summary"
  /\ \/ /\ SetCheck(c, [check[c] EXCEPT !.pc = "compare", !.server = Len(log)])
        /\ UNCHANGED faults
     \/ NextTry(c) /\ Fault
  /\ UNCHANGED <<server, net, mls, join, sync, joins>>

MutCheckCompare(c) ==
  /\ check[c].pc = "compare"
  /\ IF check[c].before <= check[c].server
       THEN SetSync(c, "Success") /\ SetCheck(c, NoCheck)
       ELSE NextTry(c) /\ UNCHANGED sync
  /\ UNCHANGED <<server, net, mls, join, bounds>>

(* After epoch_check_delay_ms.  The group id is always the server's here:  *)
(* the group of a meeting is not created again.                            *)
CheckCompare(c) ==
  /\ check[c].pc = "compare"
  /\ IF check[c].before <= check[c].server
        /\ check[c].server <= Len(group[c])
       THEN SetSync(c, "Success") /\ SetCheck(c, NoCheck)
       ELSE NextTry(c) /\ UNCHANGED sync
  /\ UNCHANGED <<server, net, mls, join, bounds>>

(* StartRejoinMeeting, which leaves and joins again: leave_room resets the *)
(* state and the websocket is closed; the group stays in the store.        *)
Rejoin(c) ==
  /\ pc[c] = "in"
  /\ sync[c] = "Failed"
  /\ Fail(c)
  /\ wire' = [wire EXCEPT ![c] = <<>>]
  /\ SetSync(c, "Checking")
  /\ UNCHANGED <<server, group, cache, check, bounds>>

-----------------------------------------------------------------------------
JoinStep(c) ==
  \/ FetchFails(c) \/ CreateGroup(c) \/ ExternalCommit(c)
  \/ ExternalProposal(c)
  \/ ServerDecide(c) \/ UploadDone(c)
  \/ Post(c) \/ Posted(c) \/ Poll(c)
  \/ Listen(c) \/ Look(c) \/ Wake(c) \/ WelcomeTimeout(c)
  \/ JoinViaWelcome(c) \/ Joined(c)

MessageStep(c) == SkipMessage(c) \/ HandleWelcome(c) \/ HandleCommit(c)

CheckStep(c) ==
  CheckStart(c) \/ CheckEpoch(c) \/ CheckSummary(c) \/ CheckCompare(c)

Next ==
  \/ \E c \in Clients :
       \/ Start(c) \/ JoinStep(c) \/ MessageStep(c) \/ CheckStep(c)
       \/ Rejoin(c) \/ Connect(c) \/ Disconnect(c)
  \/ \E c \in Clients : \E adds \in SUBSET Clients : MemberCommit(c, adds)

Spec == Init /\ [][Next]_vars

(* Every request has a timeout, every wait a deadline, and the app checks  *)
(* the epoch every 5 seconds.  Nobody has to commit, to connect or to join *)
(* again.                                                                  *)
Fairness ==
  \A c \in Clients : WF_vars(JoinStep(c)) /\ WF_vars(CheckStep(c))

FairSpec == Spec /\ Fairness

-----------------------------------------------------------------------------
Labels == {"out", "fetch", "upload", "ok", "conflict", "error", "post",
           "posted", "wait", "look", "sleep", "welcomed", "joined", "in"}

(* Types; what a client was told of the server's epoch is never ahead of   *)
(* the server.                                                             *)
TypeOK ==
  /\ log \in Seq([by : Clients, adds : SUBSET Clients])
  /\ proposed \in [Clients -> 0..Len(log)]
  /\ wire \in [Clients -> Seq([kind : {"commit", "welcome"}, at : 1..Len(log)])]
  /\ conn \in [Clients -> BOOLEAN]
  /\ state \in [Clients -> {"Pending", "WaitingForJoinProposalWelcome",
                            "Success"}]
  /\ \A c \in Clients : Len(group[c]) \in 0..Len(log) + 1
  /\ cache \in [Clients -> SUBSET (1..Len(log))]
  /\ welcome \in [Clients -> 0..Len(log)]
  /\ woken \in [Clients -> BOOLEAN]
  /\ pc \in [Clients -> Labels]
  /\ mode \in [Clients -> {"none", "commit", "proposal", "switch", "last"}]
  /\ tries \in [Clients -> 0..MaxRetries]
  /\ info \in [Clients -> 0..Len(log)]
  /\ \A c \in Clients : check[c].server \in 0..Len(log)
  /\ sync \in [Clients -> {"Checking", "Retrying", "Success", "Failed"}]

(* A client that has joined has a group whose history the server has: a    *)
(* candidate that was refused, the group another client was first to       *)
(* create and what was cached in an earlier session never pass for it      *)
(* (create_mls_group and join_group_via_external_commit store their        *)
(* candidate before it is accepted).                                       *)
JoinedOnLog == \A c \in Clients : pc[c] = "in" => IsPrefix(group[c], log)

(* No lost wake-up: a client that sleeps until it is notified of its       *)
(* Welcome has not got it already (join_proposal_welcome_notify).          *)
WelcomeWakes ==
  \A c \in Clients : pc[c] = "sleep" /\ welcome[c] > 0 => woken[c]

(* When the app is told that its group is up to date the client has every  *)
(* commit that the server had when it was asked (is_mls_up_to_date).       *)
VerdictSound ==
  [][\A c \in Clients : sync[c] # "Success" /\ sync'[c] = "Success" =>
       IsPrefix(SubSeq(log, 1, check[c].server), group[c])]_vars

(* A client that has missed a commit, for whatever reason, catches up or   *)
(* is told to join again.                                                  *)
LaggardFound ==
  \A c \in Checked :
    pc[c] = "in" /\ group[c] # log
      ~> pc[c] # "in" \/ group[c] = log \/ sync[c] = "Failed"

(* A join ends, whatever the server answers and whether or not somebody    *)
(* commits its proposal.                                                   *)
JoinEnds == \A c \in Clients : pc[c] # "out" ~> pc[c] \in {"out", "in"}
=============================================================================
