------------------------------ MODULE MlsRoom ------------------------------
(***************************************************************************)
(* One meeting room: the MLS group of every client, the tasks of a client  *)
(* that change it, and the meet server that orders the commits.            *)
(*                                                                         *)
(* Tasks of a client that share its group, queue and cache:                *)
(*   ws    the websocket message handler (commits, proposals, cached ones) *)
(*   tm    the proposal timer, which commits the queue as one batch        *)
(*   kk    kick_participant                                                *)
(*   sweep handle_offline_members (its whole state is the upload it waits) *)
(* A task that uploads a commit holds the group's write lock from the      *)
(* creation of the commit to the server's answer, so that lock is held     *)
(* exactly while up[c] is an upload.                                       *)
(*                                                                         *)
(* Every member is in state Success for the whole run; joining, leaving    *)
(* and the membership a commit changes are not part of this module.        *)
(*                                                                         *)
(* An operator named Mut... is a faulty variant of the one after it.  No   *)
(* specification uses it: with it in place a property fails, which shows   *)
(* that the property depends on the code.                                  *)
(***************************************************************************)
EXTENDS Naturals, Sequences, FiniteSets

CONSTANTS
  Clients,          \* the members of the room
  Kickers,          \* room admins whose user may kick the (outside) target
  Sweepers,         \* room admins that remove offline members
  Proposals,        \* proposals the server relays (Add, Remove, AppDataUpdate)
  SweepUntil,       \* bound: no offline member is detected after this epoch
  KickMaxAttempts,  \* KICK_MAX_ATTEMPTS
  Redelivery,       \* may the server deliver a message more than once?
  CausalDelivery,   \* does a commit arrive after what it was made from?
  RequestLoss,      \* may an upload time out before the server saw it?
  ResponseLoss      \* may it time out after the server accepted it?

ASSUME ConstantsAssumption ==
  /\ Kickers \subseteq Clients
  /\ Sweepers \subseteq Clients
  /\ SweepUntil \in Nat
  /\ KickMaxAttempts \in Nat \ {0}
  /\ {Redelivery, CausalDelivery, RequestLoss, ResponseLoss} \subseteq BOOLEAN

VARIABLES
  log,       \* server: the commits it accepted, in order
  sentAt,    \* epoch at which a proposal was sent, 0 before that
  inbox,     \* messages the server still has to deliver to a client
  hist,      \* client: the commits its group has merged, in order
  pend,      \* proposals its group holds for the current epoch
  queue,     \* proposal_queue
  cache,     \* message_cache
  roomLock,  \* room_processing_lock: who holds it
  timerMap,  \* proposal_timer: the epoch registered, 0 for none
  timers,    \* epochs of the sleeping timer tasks
  handled,   \* last_offline_members_handled_epoch, 0 for none
  ws, tm, kk, \* the tasks
  up         \* the upload (POST /v1/groupInfo) in flight

vars == <<log, sentAt, inbox, hist, pend, queue, cache, roomLock, timerMap,
          timers, handled, ws, tm, kk, up>>

-----------------------------------------------------------------------------
(* A commit made at epoch e becomes the e-th commit of the room; the group
   is created at epoch 1. *)
Commit == [at: Nat \ {0}, by: Clients, kick: BOOLEAN, refs: SUBSET Proposals]
ProposalMsg == [kind: {"proposal"}, p: Proposals]
CommitMsg == [kind: {"commit"}, commit: Commit]
NoMsg == [kind |-> "none"]
NoUpload == [owner |-> "none"]

Epoch(c) == Len(hist[c]) + 1
ServerEpoch == Len(log) + 1

EpochOf(m) == IF m.kind = "commit" THEN m.commit.at ELSE sentAt[m.p]

CachedAt(c, e) == {m \in cache[c] : EpochOf(m) = e}
MutOutdated(c) == {m \in cache[c] : EpochOf(m) <= Epoch(c)}
Outdated(c) == {m \in cache[c] : EpochOf(m) < Epoch(c)}
ProposalsOf(msgs) == {m.p : m \in {n \in msgs : n.kind = "proposal"}}

MutGroupFree(c) == TRUE
GroupFree(c) == up[c] = NoUpload

MutRoomLockFree(c) == TRUE
RoomLockFree(c) == roomLock[c] = "free"

IdleWs == [pc |-> "idle", msg |-> NoMsg, src |-> "wire", batch |-> {}, todo |-> {}]

(* process_cached_messages follows a proposal and an applied commit. *)
MutThenCached == IdleWs
ThenCached == [IdleWs EXCEPT !.pc = "cached"]

IdleTm == [pc |-> "idle", at |-> 0, batch |-> {}]
IdleKk == [pc |-> "idle", attempt |-> 0, batch |-> {}]

Init ==
  /\ log = <<>>
  /\ sentAt = [p \in Proposals |-> 0]
  /\ inbox = [c \in Clients |-> {}]
  /\ hist = [c \in Clients |-> <<>>]
  /\ pend = [c \in Clients |-> {}]
  /\ queue = [c \in Clients |-> {}]
  /\ cache = [c \in Clients |-> {}]
  /\ roomLock = [c \in Clients |-> "free"]
  /\ timerMap = [c \in Clients |-> 0]
  /\ timers = [c \in Clients |-> {}]
  /\ handled = [c \in Clients |-> 0]
  /\ ws = [c \in Clients |-> IdleWs]
  /\ tm = [c \in Clients |-> IdleTm]
  /\ kk = [c \in Clients |-> IdleKk]
  /\ up = [c \in Clients |-> NoUpload]

-----------------------------------------------------------------------------
(* The server and the network. *)

(* A joiner or a leaving member posts a proposal for the epoch it knows; the
   server relays it to every member. *)
Propose(p) ==
  /\ sentAt[p] = 0
  /\ \E e \in {ServerEpoch} \union {Epoch(c) : c \in Clients} :
       sentAt' = [sentAt EXCEPT ![p] = e]
  /\ inbox' = [c \in Clients |-> inbox[c] \union {[kind |-> "proposal", p |-> p]}]
  /\ UNCHANGED <<log, hist, pend, queue, cache, roomLock, timerMap, timers,
                 handled, ws, tm, kk, up>>

(* The server accepts the commit made for its own epoch and relays it to the
   other members; any other commit gets 422. *)
ServerDecide(c) ==
  /\ up[c] # NoUpload
  /\ up[c].status = "sent"
  /\ \/ /\ up[c].commit.at = ServerEpoch
        /\ log' = Append(log, up[c].commit)
        /\ inbox' = [d \in Clients |-> IF d = c THEN inbox[d]
                       ELSE inbox[d] \union {[kind |-> "commit", commit |-> up[c].commit]}]
        /\ up' = [up EXCEPT ![c].status = "ok"]
     \/ /\ up[c].commit.at # ServerEpoch
        /\ up' = [up EXCEPT ![c].status = "conflict"]
        /\ UNCHANGED <<log, inbox>>
  /\ UNCHANGED <<sentAt, hist, pend, queue, cache, roomLock, timerMap, timers,
                 handled, ws, tm, kk>>

(* MLS_REQUEST_TIMEOUT: the request, or the answer to an accepted one, is lost. *)
UploadTimeout(c) ==
  /\ up[c] # NoUpload
  /\ \/ RequestLoss /\ up[c].status = "sent"
     \/ ResponseLoss /\ up[c].status = "ok"
  /\ up' = [up EXCEPT ![c].status = "timeout"]
  /\ UNCHANGED <<log, sentAt, inbox, hist, pend, queue, cache, roomLock,
                 timerMap, timers, handled, ws, tm, kk>>

-----------------------------------------------------------------------------
(* The MLS group of a client. *)

(* decrypt_message of a proposal: accepted for the current epoch, once. *)
Accepted(c, batch) == {p \in batch : sentAt[p] = Epoch(c) /\ p \notin pend[c]}

MutUpload(c, who, refs, isKick) ==
  up' = [up EXCEPT ![c] =
           [owner |-> who, status |-> "sent",
            commit |-> [at |-> Epoch(c) - 1, by |-> c, kick |-> isKick, refs |-> refs]]]
Upload(c, who, refs, isKick) ==
  up' = [up EXCEPT ![c] =
           [owner |-> who, status |-> "sent",
            commit |-> [at |-> Epoch(c), by |-> c, kick |-> isKick, refs |-> refs]]]

(* The answer to an upload: merge_pending_commit when the server accepted it,
   clear_pending_commit and clear_pending_proposals otherwise. *)
Answered(c, who) ==
  /\ up[c] # NoUpload
  /\ up[c].owner = who
  /\ up[c].status \in {"ok", "conflict", "timeout"}

MutAccepting(c) == up[c].status # "sent"
Accepting(c) == up[c].status = "ok"

FinishUpload(c) ==
  /\ up' = [up EXCEPT ![c] = NoUpload]
  /\ pend' = [pend EXCEPT ![c] = {}]
  /\ hist' = IF Accepting(c) THEN [hist EXCEPT ![c] = Append(@, up[c].commit)]
                             ELSE hist

(* restore_to_queue_sync appends to what was queued meanwhile. *)
MutRestored(queued, batch) == batch
Restored(queued, batch) == queued \union batch

TargetGone(c) == \E i \in DOMAIN hist[c] : hist[c][i].kick

(* start_proposal_timer: one timer task per registered epoch. *)
MutTimerRegistered(c) == timerMap[c] <= Epoch(c)
TimerRegistered(c) == timerMap[c] = Epoch(c)

StartTimer(c) ==
  IF TimerRegistered(c)
  THEN UNCHANGED <<timerMap, timers>>
  ELSE /\ timerMap' = [timerMap EXCEPT ![c] = Epoch(c)]
       /\ timers' = [timers EXCEPT ![c] = @ \union {Epoch(c)}]

-----------------------------------------------------------------------------
(* The websocket handler. *)

(* What was relayed to c before m under causal delivery: the earlier commits
   and the proposals a commit refers to. *)
Causes(c, m) ==
  {n \in inbox[c] :
     IF n.kind = "commit" THEN n.commit.at < EpochOf(m)
                          ELSE m.kind = "commit" /\ n.p \in m.commit.refs}

(* A message is compared with the group's epoch: an old one is ignored, a
   future one is cached, a current one is processed. *)
Deliver(c) ==
  /\ ws[c].pc = "idle"
  /\ GroupFree(c)
  /\ \E m \in inbox[c] :
       /\ CausalDelivery => Causes(c, m) \cap inbox[c] = {}
       /\ \/ inbox' = [inbox EXCEPT ![c] = @ \ {m}]
          \/ Redelivery /\ UNCHANGED inbox
       /\ \/ /\ EpochOf(m) < Epoch(c)
             /\ UNCHANGED <<cache, ws>>
          \/ /\ EpochOf(m) > Epoch(c)
             /\ cache' = [cache EXCEPT ![c] = @ \union {m}]
             /\ UNCHANGED ws
          \/ /\ EpochOf(m) = Epoch(c)
             /\ ws' = [ws EXCEPT ![c] =
                         [pc |-> IF m.kind = "commit" THEN "drain" ELSE "push",
                          msg |-> m, src |-> "wire", batch |-> {}, todo |-> {}]]
             /\ UNCHANGED cache
  /\ UNCHANGED <<log, sentAt, hist, pend, queue, roomLock, timerMap, timers,
                 handled, tm, kk, up>>

(* process_proposal_message, from the push onto the queue... *)
ProposalPush(c) ==
  /\ ws[c].pc = "push"
  /\ queue' = [queue EXCEPT ![c] = @ \union {ws[c].msg.p}]
  /\ ws' = [ws EXCEPT ![c].pc = "timer"]
  /\ UNCHANGED <<log, sentAt, inbox, hist, pend, cache, roomLock, timerMap,
                 timers, handled, tm, kk, up>>

(* ...to the timer for the epoch read under the group lock. *)
ProposalTimer(c) ==
  /\ ws[c].pc = "timer"
  /\ GroupFree(c)
  /\ StartTimer(c)
  /\ ws' = [ws EXCEPT ![c] = ThenCached]
  /\ UNCHANGED <<log, sentAt, inbox, hist, pend, queue, cache, roomLock,
                 handled, tm, kk, up>>

(* process_commit_message: take the room lock and drain the queue, *)
CommitDrain(c) ==
  /\ ws[c].pc = "drain"
  /\ RoomLockFree(c)
  /\ roomLock' = [roomLock EXCEPT ![c] = "ws"]
  /\ ws' = [ws EXCEPT ![c].pc = "handle", ![c].batch = queue[c],
       ![c].todo = queue[c] \union ProposalsOf(CachedAt(c, ws[c].msg.commit.at))]
  /\ queue' = [queue EXCEPT ![c] = {}]
  /\ UNCHANGED <<log, sentAt, inbox, hist, pend, cache, timerMap, timers,
                 handled, tm, kk, up>>

(* hand the drained and the cached proposals of the epoch to the group, each
   under the group lock, *)
CommitHandle(c) ==
  /\ ws[c].pc = "handle"
  /\ GroupFree(c)
  /\ \E p \in ws[c].todo :
       /\ pend' = [pend EXCEPT ![c] = @ \union Accepted(c, {p})]
       /\ ws' = [ws EXCEPT ![c].todo = @ \ {p}]
  /\ UNCHANGED <<log, sentAt, inbox, hist, queue, cache, roomLock, timerMap,
                 timers, handled, tm, kk, up>>

(* and decrypt the commit, which needs every proposal it refers to. *)
Decryptable(c, k) == k.at = Epoch(c) /\ k.refs \subseteq pend[c]

CommitApply(c) ==
  LET m == ws[c].msg
      k == m.commit
      fromCache == ws[c].src = "cache"
  IN
  /\ ws[c].pc = "handle" /\ ws[c].todo = {}
  /\ GroupFree(c)
  /\ roomLock' = [roomLock EXCEPT ![c] = "free"]
  /\ \/ /\ Decryptable(c, k)
        /\ hist' = [hist EXCEPT ![c] = Append(@, k)]
        /\ pend' = [pend EXCEPT ![c] = {}]
        /\ cache' = [cache EXCEPT ![c] =
                       IF fromCache THEN @ \ CachedAt(c, k.at) ELSE @]
        /\ ws' = [ws EXCEPT ![c] = ThenCached]
        /\ UNCHANGED queue
     \/ /\ ~Decryptable(c, k)
        /\ queue' = [queue EXCEPT ![c] = Restored(@, ws[c].batch)]
        /\ cache' = [cache EXCEPT ![c] =
                       (IF k.at = Epoch(c) THEN @ \union {m} ELSE @)
                         \ (IF fromCache THEN Outdated(c) ELSE {})]
        /\ ws' = [ws EXCEPT ![c] = IdleWs]
        /\ UNCHANGED <<hist, pend>>
  /\ UNCHANGED <<log, sentAt, inbox, timerMap, timers, handled, tm, kk, up>>

(* process_cached_messages, one iteration.  A cached epoch older than the
   group's is only dropped, and ends the loop; the entries of the current
   epoch are processed like received ones, proposals first.  The loop ends
   with cleanup_old_messages(current epoch, 0). *)
ProcessCached(c) ==
  LET now == CachedAt(c, Epoch(c))
      old == Outdated(c)
      commits == {m \in now : m.kind = "commit"}
  IN
  /\ ws[c].pc = "cached"
  /\ GroupFree(c)
  /\ \/ /\ now = {} \/ old # {}
        /\ cache' = [cache EXCEPT ![c] = @ \ old]
        /\ ws' = [ws EXCEPT ![c] = IdleWs]
        /\ UNCHANGED <<queue, timerMap, timers>>
     \/ /\ now # {} /\ old = {}
        /\ queue' = [queue EXCEPT ![c] = @ \union ProposalsOf(now)]
        /\ IF ProposalsOf(now) = {} THEN UNCHANGED <<timerMap, timers>>
                                    ELSE StartTimer(c)
        /\ \/ /\ commits = {}
              /\ cache' = [cache EXCEPT ![c] = @ \ now]
              /\ ws' = [ws EXCEPT ![c] = IdleWs]
           \/ \E m \in commits :
                /\ ws' = [ws EXCEPT ![c] = [pc |-> "drain", msg |-> m,
                                            src |-> "cache", batch |-> {},
                                            todo |-> {}]]
                /\ UNCHANGED cache
  /\ UNCHANGED <<log, sentAt, inbox, hist, pend, roomLock, handled, tm, kk, up>>

-----------------------------------------------------------------------------
(* The proposal timer. *)

(* A timer wakes, leaves the map and gives up if the epoch has changed. *)
TimerWake(c) ==
  /\ tm[c].pc = "idle"
  /\ GroupFree(c)
  /\ \E e \in timers[c] :
       /\ timers' = [timers EXCEPT ![c] = @ \ {e}]
       /\ timerMap' = [timerMap EXCEPT ![c] = IF @ = e THEN 0 ELSE @]
       /\ tm' = [tm EXCEPT ![c] = IF e = Epoch(c)
                                  THEN [IdleTm EXCEPT !.pc = "lock", !.at = e]
                                  ELSE IdleTm]
  /\ UNCHANGED <<log, sentAt, inbox, hist, pend, queue, cache, roomLock,
                 handled, ws, kk, up>>

TimerDrain(c) ==
  /\ tm[c].pc = "lock"
  /\ RoomLockFree(c)
  /\ queue' = [queue EXCEPT ![c] = {}]
  /\ IF queue[c] = {}
     THEN /\ tm' = [tm EXCEPT ![c] = IdleTm]
          /\ UNCHANGED roomLock
     ELSE /\ tm' = [tm EXCEPT ![c].pc = "batch", ![c].batch = queue[c]]
          /\ roomLock' = [roomLock EXCEPT ![c] = "timer"]
  /\ UNCHANGED <<log, sentAt, inbox, hist, pend, cache, timerMap, timers,
                 handled, ws, kk, up>>

(* handle_batched_proposals: commits if the group accepts at least one
   proposal of the batch; the commit refers to all the group holds. *)
TimerCommit(c) ==
  LET fresh == Accepted(c, tm[c].batch) IN
  /\ tm[c].pc = "batch"
  /\ GroupFree(c)
  /\ IF fresh = {}
     THEN /\ tm' = [tm EXCEPT ![c] = IdleTm]
          /\ roomLock' = [roomLock EXCEPT ![c] = "free"]
          /\ UNCHANGED <<pend, up>>
     ELSE /\ pend' = [pend EXCEPT ![c] = @ \union fresh]
          /\ Upload(c, "timer", pend[c] \union fresh, FALSE)
          /\ tm' = [tm EXCEPT ![c].pc = "upload"]
          /\ UNCHANGED roomLock
  /\ UNCHANGED <<log, sentAt, inbox, hist, queue, cache, timerMap, timers,
                 handled, ws, kk>>

TimerAnswer(c) ==
  /\ tm[c].pc = "upload"
  /\ Answered(c, "timer")
  /\ FinishUpload(c)
  /\ IF Accepting(c)
     THEN /\ tm' = [tm EXCEPT ![c] = IdleTm]
          /\ roomLock' = [roomLock EXCEPT ![c] = "free"]
     ELSE /\ tm' = [tm EXCEPT ![c].pc = "restore"]
          /\ UNCHANGED roomLock
  /\ UNCHANGED <<log, sentAt, inbox, queue, cache, timerMap, timers, handled,
                 ws, kk>>

(* filter_queued_proposals and restore_to_queue_sync; no timer is started. *)
TimerRestore(c) ==
  /\ tm[c].pc = "restore"
  /\ GroupFree(c)
  /\ queue' = [queue EXCEPT ![c] =
                 Restored(@, {p \in tm[c].batch : sentAt[p] >= Epoch(c)})]
  /\ tm' = [tm EXCEPT ![c] = IdleTm]
  /\ roomLock' = [roomLock EXCEPT ![c] = "free"]
  /\ UNCHANGED <<log, sentAt, inbox, hist, pend, cache, timerMap, timers,
                 handled, ws, kk, up>>

-----------------------------------------------------------------------------
(* kick_participant. *)

(* The queue and the timer's registration are taken without the room lock. *)
KickDrain(c) ==
  /\ c \in Kickers
  /\ kk[c].pc \in {"idle", "retry"}
  /\ kk' = [kk EXCEPT ![c].pc = "lock", ![c].batch = queue[c]]
  /\ queue' = [queue EXCEPT ![c] = {}]
  /\ timerMap' = [timerMap EXCEPT ![c] = 0]
  /\ UNCHANGED <<log, sentAt, inbox, hist, pend, cache, roomLock, timers,
                 handled, ws, tm, up>>

KickCommit(c) ==
  LET fresh == Accepted(c, kk[c].batch) IN
  /\ kk[c].pc = "lock"
  /\ GroupFree(c)
  /\ pend' = [pend EXCEPT ![c] = @ \union fresh]
  /\ IF TargetGone(c)
     THEN /\ kk' = [kk EXCEPT ![c] = IdleKk]
          /\ UNCHANGED up
     ELSE /\ Upload(c, "kick", pend[c] \union fresh, TRUE)
          /\ kk' = [kk EXCEPT ![c].pc = "upload"]
  /\ UNCHANGED <<log, sentAt, inbox, hist, queue, cache, roomLock, timerMap,
                 timers, handled, ws, tm>>

(* The errors update_group_info returns are MlsStatusCode and network errors;
   kick_participant retries on HttpClientError::ErrorCode(422). *)
ErrorOf(status) == IF status = "conflict" THEN "MlsStatusCode422"
                                          ELSE "MlsNetworkTimeout"
IsRetryable(err) == err = "ErrorCode422"

KickAnswer(c) ==
  LET again == IsRetryable(ErrorOf(up[c].status))
                 /\ kk[c].attempt + 1 < KickMaxAttempts
  IN
  /\ kk[c].pc = "upload"
  /\ Answered(c, "kick")
  /\ FinishUpload(c)
  /\ kk' = [kk EXCEPT ![c] =
              CASE Accepting(c) -> IdleKk
                [] ~Accepting(c) /\ again ->
                     [pc |-> "retry", attempt |-> @.attempt + 1, batch |-> {}]
                [] OTHER -> [@ EXCEPT !.pc = "restore"]]
  /\ UNCHANGED <<log, sentAt, inbox, queue, cache, roomLock, timerMap, timers,
                 handled, ws, tm>>

(* restore_proposals_to_queue: a detached task that replaces the queue. *)
KickRestore(c) ==
  /\ kk[c].pc = "restore"
  /\ queue' = [queue EXCEPT ![c] = IF kk[c].batch = {} THEN @ ELSE kk[c].batch]
  /\ kk' = [kk EXCEPT ![c] = IdleKk]
  /\ UNCHANGED <<log, sentAt, inbox, hist, pend, cache, roomLock, timerMap,
                 timers, handled, ws, tm, up>>

-----------------------------------------------------------------------------
(* handle_offline_members. *)

SweepCommit(c) ==
  /\ c \in Sweepers
  /\ GroupFree(c)
  /\ handled[c] < Epoch(c)
  /\ Epoch(c) <= SweepUntil
  /\ Upload(c, "sweep", pend[c], FALSE)
  /\ UNCHANGED <<log, sentAt, inbox, hist, pend, queue, cache, roomLock,
                 timerMap, timers, handled, ws, tm, kk>>

SweepAnswer(c) ==
  /\ Answered(c, "sweep")
  /\ FinishUpload(c)
  /\ handled' = IF Accepting(c)
                THEN [handled EXCEPT ![c] = Epoch(c)]
                ELSE handled
  /\ UNCHANGED <<log, sentAt, inbox, queue, cache, roomLock, timerMap, timers,
                 ws, tm, kk>>

-----------------------------------------------------------------------------
WsStep(c) ==
  \/ Deliver(c) \/ ProposalPush(c) \/ ProposalTimer(c)
  \/ CommitDrain(c) \/ CommitHandle(c) \/ CommitApply(c) \/ ProcessCached(c)

TimerStep(c) ==
  TimerWake(c) \/ TimerDrain(c) \/ TimerCommit(c) \/ TimerAnswer(c) \/ TimerRestore(c)

KickStep(c) == KickDrain(c) \/ KickCommit(c) \/ KickAnswer(c) \/ KickRestore(c)

SweepStep(c) == SweepCommit(c) \/ SweepAnswer(c)

Next ==
  \/ \E p \in Proposals : Propose(p)
  \/ \E c \in Clients : \/ ServerDecide(c) \/ UploadTimeout(c)
                        \/ WsStep(c) \/ TimerStep(c) \/ KickStep(c) \/ SweepStep(c)

Spec == Init /\ [][Next]_vars

(* The runtime runs a task that can move, a sleeping timer wakes, the server
   answers, and a message it holds for a connected client is delivered. *)
Fairness ==
  \A c \in Clients :
    /\ WF_vars(WsStep(c))
    /\ WF_vars(TimerWake(c)) /\ WF_vars(TimerDrain(c)) /\ WF_vars(TimerCommit(c))
    /\ WF_vars(TimerAnswer(c)) /\ WF_vars(TimerRestore(c))
    /\ WF_vars(KickCommit(c)) /\ WF_vars(KickAnswer(c)) /\ WF_vars(KickRestore(c))
    /\ WF_vars(SweepAnswer(c))
    /\ WF_vars(ServerDecide(c))

FairSpec == Spec /\ Fairness

-----------------------------------------------------------------------------
(* What is checked. *)

Msgs == ProposalMsg \union CommitMsg
WsRec == [pc: {"idle", "push", "timer", "drain", "handle", "cached"},
          msg: Msgs \union {NoMsg}, src: {"wire", "cache"},
          batch: SUBSET Proposals, todo: SUBSET Proposals]
TmRec == [pc: {"idle", "lock", "batch", "upload", "restore"},
          at: Nat, batch: SUBSET Proposals]
KkRec == [pc: {"idle", "lock", "upload", "retry", "restore"},
          attempt: Nat, batch: SUBSET Proposals]
UploadRec == [owner: {"timer", "kick", "sweep"},
              status: {"sent", "ok", "conflict", "timeout"}, commit: Commit]

(* Type correctness of the server, the network and the tasks' state. *)
TypeOK ==
  /\ log \in Seq(Commit)
  /\ sentAt \in [Proposals -> Nat]
  /\ inbox \in [Clients -> SUBSET Msgs]
  /\ hist \in [Clients -> Seq(Commit)]
  /\ pend \in [Clients -> SUBSET Proposals]
  /\ queue \in [Clients -> SUBSET Proposals]
  /\ cache \in [Clients -> SUBSET Msgs]
  /\ roomLock \in [Clients -> {"free", "ws", "timer"}]
  /\ timerMap \in [Clients -> Nat]
  /\ timers \in [Clients -> SUBSET Nat]
  /\ handled \in [Clients -> Nat]
  /\ ws \in [Clients -> WsRec]
  /\ tm \in [Clients -> TmRec]
  /\ kk \in [Clients -> KkRec]
  /\ up \in [Clients -> UploadRec \union {NoUpload}]

(* No fork: the group of every client is at a prefix of the commits the server
   accepted, whatever commits the client made itself and whatever was lost. *)
HistoryPrefix ==
  \A c \in Clients :
    /\ Len(hist[c]) <= Len(log)
    /\ \A i \in 1..Len(hist[c]) : hist[c][i] = log[i]

(* A client whose commit the server accepted has its group still at the epoch
   it was made for when the answer is merged. *)
AcceptedIsNext ==
  \A c \in Clients :
    up[c] # NoUpload =>
      /\ up[c].commit.at = Epoch(c)
      /\ up[c].status = "ok" => /\ Epoch(c) <= Len(log)
                                /\ log[Epoch(c)] = up[c].commit

(* process_commit_message compares epochs, releases the group and takes it
   again: no other task moves the group on in between. *)
CommitStillCurrent ==
  \A c \in Clients :
    ws[c].pc \in {"drain", "handle"} => ws[c].msg.commit.at = Epoch(c)

(* Every commit a client lacks is on its way to it: still to be delivered,
   cached, in the handler, or its own commit in the answer it waits for. *)
NoCommitLost ==
  \A c \in Clients : \A i \in Epoch(c)..Len(log) :
    LET m == [kind |-> "commit", commit |-> log[i]] IN
    \/ m \in inbox[c] \union cache[c]
    \/ ws[c].pc \in {"drain", "handle"} /\ ws[c].msg = m
    \/ up[c] # NoUpload /\ up[c].commit = log[i]

(* The proposals the next commit of a client refers to are not lost: each is
   still to be delivered, cached, queued, drained by a task that hands it to
   the group or restores it, or held by the group. *)
ProposalsWithin(c) ==
  ProposalsOf(inbox[c] \union cache[c]) \union queue[c] \union pend[c]
    \union ws[c].batch \union tm[c].batch \union kk[c].batch
    \union (IF ws[c].pc = "push" THEN {ws[c].msg.p} ELSE {})

NoProposalLost ==
  \A c \in Clients :
    Epoch(c) <= Len(log) => log[Epoch(c)].refs \subseteq ProposalsWithin(c)

(* When the handler has handed over the proposals it drained, its commit can be
   decrypted: the group is at the commit's epoch and holds all it refers to. *)
CommitDecrypts ==
  \A c \in Clients :
    ws[c].pc = "handle" /\ ws[c].todo = {} => Decryptable(c, ws[c].msg.commit)

(* The tasks that hold proposals they drained from the queue. *)
Draining(c) ==
  {t \in {"ws", "timer", "kick"} :
     \/ t = "ws" /\ ws[c].pc = "handle"
     \/ t = "timer" /\ tm[c].pc \in {"batch", "upload", "restore"}
     \/ t = "kick" /\ kk[c].pc \in {"lock", "upload", "restore"}}

(* room_processing_lock "serializes proposal/commit queue consumption per room
   to avoid cross-task drains": the handler and the timer never hold drained
   proposals at the same time.  The kick drains without the lock, beside either
   of them. *)
SerializedDrain ==
  \A c \in Clients : \A t, u \in Draining(c) : t = u \/ "kick" \in {t, u}

(* kick_participant: "Retryable (422) with attempts remaining - sleep and
   retry".  It does not hold once Kickers has a member: update_group_info
   reports a 422 as another error than the one the retry tests for. *)
ConflictRetries(c) ==
  /\ kk[c].pc = "upload" /\ up[c].owner = "kick" /\ up[c].status = "conflict"
  /\ kk[c].attempt + 1 < KickMaxAttempts
  /\ kk'[c] # kk[c]
  => kk'[c].pc = "retry"

KickRetried == [][\A c \in Clients : ConflictRetries(c)]_vars

Abstract == INSTANCE CommitLog WITH Commits <- Commit

(* The room implements the log of commits: only a client that applied all of
   the log adds to it, and clients apply it in order. *)
ImplementsLog == Abstract!Spec

(* With the fairness of FairSpec every client applies every commit. *)

ImplementsFairLog == Abstract!FairSpec

(* A proposal that reached the server is decided: its epoch ends, in a commit
   of some client. *)
ProposalResolved ==
  \A p \in Proposals : (sentAt[p] # 0) ~> (sentAt[p] # 0 /\ ServerEpoch > sentAt[p])

(* "Cache a commit message for future processing": a commit cached for the
   epoch the group is at moves the group on.  (One commit per proposal, and one
   per epoch with offline members, is the most a room without kicks has.) *)
CachedCommitProcessed ==
  \A c \in Clients : \A e \in 1..(Cardinality(Proposals) + SweepUntil) :
    (\E m \in CachedAt(c, e) : m.kind = "commit") /\ Epoch(c) = e ~> Epoch(c) > e

-----------------------------------------------------------------------------
(* The inductive invariant behind HistoryPrefix, CommitStillCurrent and
   ImplementsLog. *)

(* The i-th commit of the room was made for epoch i. *)
LogEpochs == \A i \in 1..Len(log) : log[i].at = i

(* k was accepted, and made by another client than c. *)
LoggedByOther(c, k) ==
  k.at \in 1..Len(log) /\ log[k.at] = k /\ k.by # c

(* The commits on their way to a client are commits of the log by others. *)
CommitsLogged ==
  \A c \in Clients :
    /\ \A m \in inbox[c] \union cache[c] :
         m.kind = "commit" => LoggedByOther(c, m.commit)
    /\ ws[c].msg.kind = "commit" => LoggedByOther(c, ws[c].msg.commit)

(* What the handler is busy with. *)
HandlerMsg ==
  \A c \in Clients :
    /\ ws[c].pc \in {"drain", "handle"} => ws[c].msg.kind = "commit"
    /\ ws[c].pc = "push" => ws[c].msg.kind = "proposal"

(* A client uploads its own commits. *)
OwnUploads == \A c \in Clients : up[c] # NoUpload => up[c].commit.by = c

IInv ==
  /\ TypeOK /\ LogEpochs /\ HistoryPrefix /\ AcceptedIsNext /\ OwnUploads
  /\ CommitsLogged /\ HandlerMsg /\ CommitStillCurrent
=============================================================================
