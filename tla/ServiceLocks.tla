---------------------------- MODULE ServiceLocks ----------------------------
(***************************************************************************)
(* The async locks that the calls of a meeting nest in each other: the app *)
(* state, the user service, the lock of the room, the cache of messages,   *)
(* the MLS group, the service state, the MLS store and the callbacks.  All *)
(* are tokio locks: fair, and a read request waits behind a write request  *)
(* that came first.                                                        *)
(*                                                                         *)
(* A call is modelled by its trace: the guards it holds, one set per await *)
(* that acquires or releases something.  What a call does with the data it *)
(* guards is in MlsRoom, Joining, WaitingRoom and Captions.  Locks whose   *)
(* guard is always dropped before the next lock is acquired (proposal      *)
(* queue, proposal timers, the map of the room locks, captions set) cannot *)
(* be part of a cycle and are left out, and so is the handler's own mutex, *)
(* which is taken together with the callback's.                            *)
(*                                                                         *)
(* An operator named Mut... is a faulty variant of the one after it.  No   *)
(* specification uses it: with it in place a property fails, which shows   *)
(* that the property depends on the code.                                  *)
(***************************************************************************)
EXTENDS Integers, Sequences

CONSTANTS
  Tasks,  \* the tasks of the runtime (futures polled together count as two)
  Calls   \* the calls they may make

App      == "app"       \* App.state, RwLock
User     == "user"      \* ServiceBundle.user_service, RwLock
Room     == "room"      \* Service.room_processing_lock, Mutex
Cache    == "cache"     \* Service.message_cache, Mutex
Group    == "group"     \* the group in MlsStore.group_map, RwLock
State    == "state"     \* Service.state, Mutex
Store    == "store"     \* MlsStore, RwLock
Callback == "callback"  \* the Dart callback of the bridge, Mutex

Locks == {App, User, Room, Cache, Group, State, Store, Callback}

(* The order in which the calls that nest locks correctly take them.  One  *)
(* call takes the cache with the group in its hands: see CommitNotFound.   *)
Rank == [app |-> 1, user |-> 2, room |-> 3, cache |-> 4, group |-> 5,
         state |-> 6, store |-> 7, callback |-> 8]

-----------------------------------------------------------------------------
(* Guards and traces.  A step of a trace waits for the guard take with the *)
(* guards keep in its hands; those of the step before that it does not     *)
(* keep are dropped.  Again is a second guard on a lock that the same task *)
(* has read-locked already.                                                *)

Guard == [lock : Locks, write : BOOLEAN, nth : {1, 2}]

Read(l)  == [lock |-> l, write |-> FALSE, nth |-> 1]
Again(l) == [lock |-> l, write |-> FALSE, nth |-> 2]
Write(l) == [lock |-> l, write |-> TRUE, nth |-> 1]

Take(g) == <<[keep |-> {}, take |-> g]>>

(* The trace that takes g and does body with g in its hands. *)
While(g, body) ==
  Take(g) \o [i \in 1..Len(body) |->
                [keep |-> body[i].keep \union {g}, take |-> body[i].take]]

GetSdKbt        == Take(Read(Store))
GetMeetingId    == Take(Read(Store))
FindGroup       == Take(Read(Store))
GetCurrentEpoch == FindGroup \o Take(Read(Group))

UserGetMeetingId == While(Read(User), GetMeetingId)
UserGetSdKbt     == While(Read(User), GetSdKbt)

CheckHostRole == While(Write(Group), Take(Write(State)))

CheckAndUpdateHostRole == FindGroup \o CheckHostRole \o Take(Write(State))

CommitterRank == While(Read(Group), Take(Write(State)))

-----------------------------------------------------------------------------
(* The calls of the app. *)

(* Service::leave_room reads the store again, inside the leave proposal,   *)
(* while it holds the guard it found the group with.                       *)
LeaveRoom ==
  While(Read(Store), While(Write(Group), Take(Again(Store))))
    \o Take(Write(State))

LeaveMeeting ==
  While(Read(App), UserGetMeetingId)
    \o While(Read(User), LeaveRoom)
    \o While(Write(App), Take(Write(Store)))
    \o While(Read(User), Take(Write(State)))

EndMeeting == While(Read(App), UserGetMeetingId)

KickParticipant ==
  FindGroup \o While(Write(Group), GetSdKbt) \o Take(Write(Callback))

(* App::remove_participant keeps its guard of the app state while it calls *)
(* App::kick_participant, which reads the app state again.                 *)
RemoveParticipant ==
  While(Read(App),
        UserGetMeetingId \o Take(Again(App)) \o UserGetMeetingId
          \o While(Read(User), KickParticipant))

GetGroupKey ==
  While(Read(App), UserGetMeetingId \o While(Read(User), GetCurrentEpoch))

SetHandler == Take(Write(User))

(* The bridge keeps the callback locked while it registers the handler.    *)
SetGroupUpdateCallback == While(Write(Callback), SetHandler)

UpdateLivekitToken == Take(Write(App))

ServicesReset == While(Write(User), Take(Write(State)))

ConnectToWs == While(Read(App), UserGetSdKbt)

CreateMlsClient ==
  Take(Write(App)) \o While(Read(User), Take(Write(Store))) \o Take(Write(App))

(* By external proposal, the longer of the two ways to join. *)
ServiceJoinRoom ==
  GetSdKbt \o Take(Read(Store)) \o Take(Write(State)) \o Take(Write(State))
    \o Take(Write(Store)) \o Take(Write(State))

UpdateHostRole == GetMeetingId \o CheckAndUpdateHostRole

JoinRoom ==
  Take(Read(App)) \o UserGetMeetingId \o While(Read(User), ServiceJoinRoom)
    \o Take(Write(App)) \o While(Read(User), UpdateHostRole)

StoreWelcomeGroup == Take(Read(Store)) \o Take(Write(Store))

(* The state stays locked while the group of the welcome is stored. *)
ServiceJoinWithProposal ==
  GetSdKbt \o Take(Read(Store)) \o Take(Write(State))
    \o While(Write(State), StoreWelcomeGroup)

JoinRoomWithProposal ==
  Take(Read(App)) \o UserGetMeetingId
    \o While(Read(User), ServiceJoinWithProposal) \o Take(Write(App))

ClearPrejoinSession ==
  While(Read(User), Take(Write(State))) \o Take(Read(App))
    \o While(Write(App), Take(Write(Store)))

SetSyncState == Take(Write(State)) \o Take(Write(Callback))

EpochCheck ==
  GetSdKbt \o SetSyncState \o GetCurrentEpoch \o GetCurrentEpoch
    \o Take(Write(State)) \o SetSyncState

IsMlsUpToDate ==
  While(Read(App),
        UserGetMeetingId \o While(Read(User), EpochCheck)
          \o While(Read(User), EpochCheck))

RemoveOfflineMembers ==
  Take(Write(State)) \o Take(Write(State)) \o GetSdKbt \o Take(Write(State))

HandleOfflineMembers ==
  Take(Write(State)) \o FindGroup \o While(Write(Group), RemoveOfflineMembers)

SetActiveUuids ==
  Take(Read(App)) \o UserGetMeetingId
    \o While(Read(User), HandleOfflineMembers)

-----------------------------------------------------------------------------
(* The waiting room, on the guest's side and on the host's. *)

JoinWithWelcome ==
  Take(Write(State)) \o Take(Write(Store)) \o Take(Write(State))

(* The guest waits for its welcome with the user service read-locked. *)
WaitForWelcome ==
  Take(Read(App)) \o Take(Write(App))
    \o While(Read(User), JoinWithWelcome) \o Take(Write(App))

ClearJoinRequest == While(Read(User), Take(Write(State))) \o Take(Write(App))

CancelJoinRequest ==
  Take(Read(App)) \o Take(Read(App)) \o UserGetSdKbt
    \o While(Read(User), Take(Write(State))) \o Take(Write(App))

CommitAdmission == While(Write(Group), Take(Write(State)) \o GetSdKbt)

ServiceAdmit ==
  FindGroup \o CommitAdmission \o Take(Write(State)) \o Take(Write(Callback))

AdmitJoinRequests ==
  Take(Read(App)) \o While(Read(User), Take(Write(State)))
    \o While(Write(User), ServiceAdmit)

PreparePolicy == GetMeetingId \o GetSdKbt

UpdatePolicy == FindGroup \o While(Write(Group), PreparePolicy)

UpdateWaitingRoomSetting == Take(Read(App)) \o While(Read(User), UpdatePolicy)

-----------------------------------------------------------------------------
(* The messages of the server and the timers they start. *)

HandleProposal == GetCurrentEpoch \o FindGroup \o Take(Write(Group))

(* The guard of the room lives to the end of the function. *)
MutLockRoom(body) == Take(Write(Room)) \o body

LockRoom(body) == While(Write(Room), body)

(* The queued proposals, then the cached ones: the temporary that locks    *)
(* the cache in the head of the if let lives as long as its body.          *)
HandleProposals == HandleProposal \o While(Write(Cache), HandleProposal)

ApplyCommit ==
  HandleProposals \o FindGroup \o Take(Write(Group)) \o Take(Write(Callback))
    \o CheckAndUpdateHostRole

ProcessCommit == GetCurrentEpoch \o LockRoom(ApplyCommit)

ProcessProposalMessage == GetCurrentEpoch \o FindGroup \o CommitterRank

UseCache == GetCurrentEpoch \o Take(Write(Cache))

(* One turn of the loop with a cached proposal and a cached commit. *)
ProcessCachedMessages ==
  UseCache \o UseCache \o ProcessProposalMessage \o ProcessCommit
    \o UseCache \o UseCache

HandleCommitMessage == Take(Write(State)) \o ProcessCommit \o ProcessCachedMessages

HandleCommit == While(Read(User), HandleCommitMessage)

(* A commit whose proposal is missing is cached with the group locked, and *)
(* the handler of the error caches it again.                               *)
CacheUnderGroup == While(Write(Group), Take(Write(Cache)))

CommitNotFound ==
  Take(Write(State)) \o GetCurrentEpoch
    \o LockRoom(HandleProposals \o FindGroup \o CacheUnderGroup)
    \o Take(Write(Cache))

DeferCommit == While(Read(User), CommitNotFound)

HandleProposalMessage ==
  Take(Write(State)) \o ProcessProposalMessage \o ProcessCachedMessages

ProcessProposal == While(Read(User), HandleProposalMessage)

(* The timer runs detached, on a clone of the service. *)
CommitBatch ==
  FindGroup \o While(Write(Group), GetSdKbt) \o CheckAndUpdateHostRole
    \o Take(Write(State)) \o Take(Write(Callback)) \o GetCurrentEpoch

ProposalTimer == Take(Write(State)) \o GetCurrentEpoch \o LockRoom(CommitBatch)

-----------------------------------------------------------------------------
(* Captions and their agent. *)

SettleCaptions ==
  GetCurrentEpoch \o FindGroup \o While(Read(User), CommitterRank)

(* The handlers are cloned under the user service's lock, called after it. *)
CommitAgent ==
  Take(Write(Group)) \o Take(Read(User)) \o Take(Write(Callback))

AdmitAgent ==
  FindGroup \o Take(Read(Group)) \o While(Read(User), CommitterRank)
    \o UserGetSdKbt \o Take(Read(Store)) \o Take(Write(Store)) \o CommitAgent

RemoveAgent ==
  FindGroup \o Take(Read(Group)) \o Take(Read(Group))
    \o While(Read(User), Take(Write(State))) \o UserGetSdKbt \o CommitAgent

-----------------------------------------------------------------------------
Trace ==
  [leave_meeting          |-> LeaveMeeting,
   end_meeting            |-> EndMeeting,
   remove_participant     |-> RemoveParticipant,
   get_group_key          |-> GetGroupKey,
   set_handler            |-> SetHandler,
   set_group_callback     |-> SetGroupUpdateCallback,
   update_livekit_token   |-> UpdateLivekitToken,
   services_reset         |-> ServicesReset,
   connect_to_ws          |-> ConnectToWs,
   create_mls_client      |-> CreateMlsClient,
   join_room              |-> JoinRoom,
   join_with_proposal     |-> JoinRoomWithProposal,
   clear_prejoin_session  |-> ClearPrejoinSession,
   is_mls_up_to_date      |-> IsMlsUpToDate,
   set_active_uuids       |-> SetActiveUuids,
   wait_for_welcome       |-> WaitForWelcome,
   clear_join_request     |-> ClearJoinRequest,
   cancel_join_request    |-> CancelJoinRequest,
   admit_join_requests    |-> AdmitJoinRequests,
   update_waiting_setting |-> UpdateWaitingRoomSetting,
   handle_commit          |-> HandleCommit,
   defer_commit           |-> DeferCommit,
   process_proposal       |-> ProcessProposal,
   proposal_timer         |-> ProposalTimer,
   settle_captions        |-> SettleCaptions,
   admit_agent            |-> AdmitAgent,
   remove_agent           |-> RemoveAgent]

(* The calls that take a lock against the order, or one they hold already. *)
Suspects == {"leave_meeting", "remove_participant", "set_group_callback"}

ASSUME CallsAssumption == Calls \subseteq DOMAIN Trace

-----------------------------------------------------------------------------
VARIABLES
  call,     \* the call each task makes, "none" before
  pc,       \* the step of the trace it has done last; beyond the end: returned
  waiting,  \* the tasks that wait for the guard of their next step
  queue     \* the tasks waiting for each lock, the first to be served first

vars == <<call, pc, waiting, queue>>

Steps(t) == Trace[call[t]]

Running(t) == call[t] # "none" /\ pc[t] <= Len(Steps(t)) /\ t \notin waiting
Returned(t) == call[t] # "none" /\ pc[t] = Len(Steps(t)) + 1

Wanted(t) == Steps(t)[pc[t] + 1].take

Held(t) ==
  IF t \in waiting THEN Steps(t)[pc[t] + 1].keep
  ELSE IF Running(t) /\ pc[t] > 0
         THEN Steps(t)[pc[t]].keep \union {Steps(t)[pc[t]].take}
         ELSE {}

(* A guard of u keeps t, which waits for l, from that lock. *)
Blocks(u, t, l) ==
  \E g \in Held(u) : g.lock = l /\ (g.write \/ Wanted(t).write)

Init ==
  /\ call = [t \in Tasks |-> "none"]
  /\ pc = [t \in Tasks |-> 0]
  /\ waiting = {}
  /\ queue = [l \in Locks |-> <<>>]

(* Bound: a task makes one call. *)
Start(t, c) ==
  /\ call[t] = "none"
  /\ call' = [call EXCEPT ![t] = c]
  /\ UNCHANGED <<pc, waiting, queue>>

Request(t) ==
  /\ Running(t)
  /\ pc[t] < Len(Steps(t))
  /\ waiting' = waiting \union {t}
  /\ queue' = [queue EXCEPT ![Wanted(t).lock] = Append(@, t)]
  /\ UNCHANGED <<call, pc>>

MutGrantTwice(l) ==
  /\ queue[l] # <<>>
  /\ LET t == Head(queue[l]) IN
       /\ \A u \in Tasks : ~Blocks(u, t, l)
       /\ pc' = [pc EXCEPT ![t] = @ + 1]
       /\ waiting' = waiting \ {t}
  /\ UNCHANGED <<call, queue>>

(* The first waiter of a lock gets its guard when no guard excludes it.  A *)
(* read request behind a write request waits, although readers hold l.     *)
Grant(l) ==
  /\ queue[l] # <<>>
  /\ LET t == Head(queue[l]) IN
       /\ \A u \in Tasks : ~Blocks(u, t, l)
       /\ pc' = [pc EXCEPT ![t] = @ + 1]
       /\ waiting' = waiting \ {t}
  /\ queue' = [queue EXCEPT ![l] = Tail(@)]
  /\ UNCHANGED call

Return(t) ==
  /\ Running(t)
  /\ pc[t] = Len(Steps(t))
  /\ pc' = [pc EXCEPT ![t] = @ + 1]
  /\ UNCHANGED <<call, waiting, queue>>

(* A failed step or an early return drops every guard. *)
Fail(t) ==
  /\ Running(t)
  /\ pc[t] \in 1..(Len(Steps(t)) - 1)
  /\ pc' = [pc EXCEPT ![t] = Len(Steps(t)) + 1]
  /\ UNCHANGED <<call, waiting, queue>>

Next ==
  \/ \E t \in Tasks : \/ \E c \in Calls : Start(t, c)
                      \/ Request(t)
                      \/ Return(t)
                      \/ Fail(t)
  \/ \E l \in Locks : Grant(l)

Spec == Init /\ [][Next]_vars

(* The runtime polls every task that can go on, and tokio serves the first *)
(* waiter of a lock that is free for it.  Between two steps a call waits   *)
(* only for requests and timers, all of which have a timeout.              *)
Fairness ==
  /\ \A t \in Tasks : WF_vars(Request(t)) /\ WF_vars(Return(t))
  /\ \A l \in Locks : WF_vars(Grant(l))

FairSpec == Spec /\ Fairness

-----------------------------------------------------------------------------
(* Every waiter is in the queue of the lock its next step wants, once, and *)
(* in no other: who is served goes on, and nobody is served twice.         *)
QueuesOK ==
  /\ \A t \in waiting : /\ call[t] # "none"
                        /\ pc[t] < Len(Steps(t))
                        /\ \E i \in DOMAIN queue[Wanted(t).lock] :
                             queue[Wanted(t).lock][i] = t
  /\ \A l \in Locks : \A i \in DOMAIN queue[l] :
       /\ queue[l][i] \in waiting
       /\ Wanted(queue[l][i]).lock = l
       /\ \A j \in DOMAIN queue[l] : i # j => queue[l][i] # queue[l][j]

(* The types, with the queues and the waiting tasks in agreement. *)
TypeOK ==
  /\ call \in [Tasks -> Calls \union {"none"}]
  /\ pc \in [Tasks -> Nat]
  /\ waiting \subseteq Tasks
  /\ queue \in [Locks -> Seq(Tasks)]
  /\ QueuesOK

(* D is a set of locks whose waiters wait for ever: the first waiter of    *)
(* each is kept out by a task that itself waits for a lock of D.           *)
WaitsIn(u, D) == u \in waiting /\ Wanted(u).lock \in D

Deadlock(D) ==
  /\ D # {}
  /\ \A l \in D : /\ queue[l] # <<>>
                  /\ \E u \in Tasks : /\ Blocks(u, Head(queue[l]), l)
                                      /\ WaitsIn(u, D)

(* No set of calls deadlocks unless a suspect takes part: whatever the     *)
(* calls of the app, the messages and the timers do at the same time, the  *)
(* order in which the other calls nest their guards admits no cycle.  Of   *)
(* the cache and the group both orders occur, but only with the room's     *)
(* guard in the hands.                                                     *)
DeadlockNeedsSuspect ==
  \A D \in SUBSET {l \in Locks : queue[l] # <<>>} :
    Deadlock(D) => \E u \in Tasks : call[u] \in Suspects /\ WaitsIn(u, D)

(* While no suspect is called, every call returns: nobody waits for ever   *)
(* for a lock, also not a writer among readers that keep coming.           *)
CallsReturn ==
  [](\A t \in Tasks : call[t] \notin Suspects)
    => \A t \in Tasks : call[t] # "none" ~> Returned(t)

(* What the comment in Service::leave_room says its code avoids: a read    *)
(* that waits behind a writer while its own task holds the guard that      *)
(* keeps the writer waiting.                                               *)
NoSelfDeadlock ==
  \A l \in Locks : \A i, j \in DOMAIN queue[l] :
    i < j /\ Wanted(queue[l][i]).write
      => \A g \in Held(queue[l][j]) : g.lock # l
=============================================================================
