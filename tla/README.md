# Verification of the Proton Meet core

TLA+ models of the protocol logic of this application: the Rust crate
`src/rust/crates/meet-core` (called *core* below), which keeps the end-to-end
encrypted group of a meeting (MLS, RFC 9420) in step with the other members over
a websocket. The Dart code is its user interface; the parts of it that drive the
protocol (the waiting-room admission, the live-captions agent, the epoch check
and the rejoin) are modelled with the core. The other crates are codecs, ciphers
and bindings.

1. [The system](#1-the-system)
2. [Modules and how they correspond to the code](#2-modules)
3. [What the runs check](#3-runs)
4. [Bounds and fairness](#4-bounds-and-fairness)
5. [What is proved](#5-what-is-proved)
6. [What the checks found in the code](#6-findings)
7. [What is abstracted or not modelled](#7-limits)
8. [What could come next](#8-what-could-come-next)

Paths are relative to `src/rust/crates/meet-core/src` unless they say otherwise.

## 1. The system

| Component | State it keeps | Operations | Talks to |
|---|---|---|---|
| **MLS room** `service/user_service/{messages,proposals,utils}.rs`, `infra/message_cache.rs`, `service/utils.rs` | group (epoch, pending proposals, pending commit), `proposal_queue`, `message_cache`, `proposal_timer`, `room_processing_lock` | handle a commit, a proposal, a welcome; process the cache; the batch timer; restore a failed batch | websocket client (its message handler), meet server (`POST groupInfo`) |
| **User service** `service/user_service/mod.rs` | the fields above, `last_offline_members_handled_epoch` | `kick_participant`, `handle_offline_members`, `is_mls_up_to_date`, `leave_room` | group, server, app facade |
| **Websocket client** `infra/ws_client.rs` | both halves of the stream, token, `connection_state`, `connect_lock`, `listener_generation`, pings, text requests | `connect`, `reconnect`, `disconnect`, listening task, `trigger_reconnect`, text requests | network, app facade, message handler |
| **Joining and leaving** `app/join.rs`, `service/user_service/join.rs` | `mls_group_state`, welcome, retry counter | external commit, external proposal and welcome, create the group, retry on 422, rejoin, leave | websocket client and server at the same time (`try_join`) |
| **Waiting room** `app/waiting_room.rs`, `service/user_service/join_request.rs`, `src/lib/.../prejoin_bloc.dart` | the guest's pending request (in the app, the app state and the service state), its wait for the welcome; each host's list of requests | ask, leave, wait, decision; admit, reject | server, MLS room, websocket client |
| **MLS service** `service/mls_service.rs` | store of clients and groups | create, join, store a group | join flow |
| **Service state** `service/service_state.rs`, `app_state.rs` | the queue, cache, timer map and flags shared by the tasks | getters, reset | all services |
| **HTTP and MLS API** `infra/http_client.rs`, `infra/mls_api.rs`, `infra/mls_response_ext.rs` | none | requests, timeout, mapping of statuses to errors | server |
| **App facade** `app/*.rs` | active user, services bundle | forwards the bridge's calls | everything |
| **Captions agent** `service/caption.rs`, `src/lib/.../room_bloc_live_captions_agent.dart` | `rooms_awaiting_captions_agent`; summon and teardown timers of the app | summon, dismiss, admit, remove | server, group, LiveKit room |
| **Chat, agent host, room service, storage, session, crypto, calendar, bridge** | own data | see `PROJECT.json` | not modelled, the bridge in part |

How they interact: the server accepts at most one commit per epoch, answers
every other one with 422 and relays proposals and accepted commits over the
websocket. In a client the listening task of the websocket calls the message
handler, one message at a time; timers, `kick_participant` and
`handle_offline_members` run beside it and share the group (an async `RwLock`),
the queue and the cache (one mutex each) with it. The queue is meant to be
consumed under `room_processing_lock`.

What is hard: tasks interleave at every `await`; an upload holds the group's
lock but nothing else; an answer may be lost; messages overtake each other;
batches that fail are put back while new proposals arrive; the epoch that was
compared may not be the epoch that is used; the websocket is replaced under the
feet of its listener; leaving runs next to reconnecting. `PROJECT.json`
("hazards") lists these at their lines.

What makes each part correct:

* MLS room: no fork (every group is at a prefix of the accepted commits); the
  epoch a handler compared still holds when it decrypts; no commit and no
  proposal a commit needs is lost; proposals are decided; everybody follows.
* Websocket client: connected means listening; reconnecting means somebody is at
  it; the client settles; old listeners stop.
* Joining: a client that has joined is on the server's log, a welcome is not
  missed, a join ends; who falls behind is found and is not told it is current.
* Waiting room: concurrent admissions give a guest one leaf; messages of an old
  request never harm the next one; whoever is admitted gets in.
* Captions agent: one leaf; it goes when nobody wants it.
* All services: the guards that the calls nest in each other do not deadlock.

## 2. Modules

| Module | Content |
|---|---|
| `CommitLog` | Abstract specification: one log of commits, appended to only by a member that has applied all of it, applied in order by every member. |
| `MlsRoom` | The room in detail: server, network, and on every client the handler, the timer, the kick and the sweep of offline members. Implements `CommitLog`. |
| `MCMlsRoom` | `MlsRoom` with symmetry. |
| `WsClient` | The websocket client of one meeting: app, monitor, listeners. |
| `Joining` | Joining the group in its three ways, the handler's ready check meanwhile, the periodic epoch check and the rejoin. |
| `WaitingRoom` | A guest that asks to be let in, and the hosts. |
| `MCWaitingRoom` | `WaitingRoom` with its hosts interchangeable. |
| `Captions` | The live-captions agent: asked for, added to the group, dismissed, removed. |
| `ServiceLocks` | The guards that 27 calls take, and tokio's fair locks. |
| `MlsRoom_proofs`, `WsClient_proofs`, `ServiceLocks_proofs`, `Joining_proofs`, `Captions_proofs`, `WaitingRoom_proofs` | Theorems about the module of that name. |
| `MlsDelivery_proofs` | Theorems about `MlsRoom` that depend on the environment: what a client still gets. Extends `MlsRoom_proofs`. |

The modules cut the system by question. `MlsRoom` has all that several tasks do
with one group, and members that stay. `Joining` is about how a client becomes a
member and notices that it no longer follows; there any member that is up to
date commits, without the mechanics of `MlsRoom`. `WaitingRoom` and `Captions`
take from the group what is at stake for them: which epoch a host has processed
and how often a device is in the roster. What the calls of all four do with
locks is `ServiceLocks`. All of them assume the same server: one commit per
epoch, relayed in that order.

Operators whose name begins with `Mut` are faulty variants of the definition
after them. No specification uses them; put in its place, each makes the
property `PROJECT.json` names fail, which shows the property is about the code.

### MlsRoom

State to code: `hist[c]` is what the group of `c` has merged, so `Epoch(c)` is
`group.epoch()`; `pend`, `queue`, `cache`, `timerMap`, `roomLock`, `handled` are
the fields of the same purpose; `timers` are the sleeping tasks of
`start_proposal_timer`; `ws`, `tm`, `kk` say where the handler, the woken timer
and `kick_participant` stand; `up` is the upload in flight. An uploading task
holds the group's write lock, and no other step keeps that lock over an
`await`, so the lock is `up[c] # NoUpload` (`GroupFree`).

Steps to code: one action per stretch between two awaits that can really be
overtaken, that is between two acquisitions of the group or of the room lock.

| Actions | Code |
|---|---|
| `Deliver`, `ProposalPush`, `ProposalTimer` | `handle_websocket_message_impl`, `process_proposal_message` |
| `CommitDrain`, `CommitHandle`, `CommitApply` | `process_commit_message`: drain under the room lock, hand the proposals over, decrypt and merge or restore and cache |
| `ProcessCached` | `process_cached_messages`, one pass |
| `TimerWake`, `TimerDrain`, `TimerCommit`, `TimerAnswer`, `TimerRestore` | `start_proposal_timer`, `handle_batched_proposals`, `filter_queued_proposals`, `restore_to_queue_sync` |
| `KickDrain`, `KickCommit`, `KickAnswer`, `KickRestore` | `kick_participant`, `restore_proposals_to_queue` |
| `SweepCommit`, `SweepAnswer` | `handle_offline_members` |
| `Propose`, `ServerDecide`, `UploadTimeout` | external: other participants, server, lost requests |

### WsClient

Tasks are numbers: `App` (join and leave), `Monitor` (`trigger_reconnect`,
called by `is_mls_up_to_date` of the app facade) and the listener of each
generation. A listener whose stream fails goes on as the reconnecting task, as
in the code, where the listening task awaits `reconnect`. Connections are
numbered; `sender` and `receiver` say which one each half belongs to, which lets
the model see halves of different connections. Every `await` in `connect` and
`disconnect` that may really wait is a step boundary, so a leave can fall
between the stores of `connect`.

### Joining

A group is the history of its commits. `log` is the server's; `group[c]` is the
one in the MLS store of `c`, which may hold a commit the server has yet to
accept, because the code stores the group before it uploads. `state`, `welcome`,
`cache` and `sync` are `mls_group_state`, `welcome_info`, the message cache and
`mls_sync_state`; `pc` says where the join stands and `check` where
`is_mls_up_to_date` stands. `woken` is the permit of the `Notified` future that
the join makes before it looks at the state.

| Actions | Code |
|---|---|
| `Start`, `FetchFails`, `Fail`, `Again` | `join_meeting`, `join_room_with_switch_join_type` and their error paths |
| `CreateGroup`, `ExternalCommit`, `ExternalProposal` | `mls_service.rs` |
| `ServerDecide`, `UploadDone`, `Post`, `Posted` | the upload of a join and its answer, which may be lost or a 422 |
| `Poll` | the polling wait of `join_room_with_proposal_impl` |
| `Listen`, `Look`, `Wake`, `WelcomeTimeout`, `JoinViaWelcome`, `Joined` | the notified wait of `join_room_with_switch_join_type_impl` and its end |
| `Connect`, `Disconnect` | `connect_to_ws`, a websocket that breaks |
| `SkipMessage`, `HandleWelcome`, `HandleCommit` | `handle_websocket_message_impl` with its ready check |
| `CheckStart`, `CheckEpoch`, `NextTry`, `CheckSummary`, `CheckCompare`, `OutOfDate`, `Rejoin` | the connection check of the app, `is_mls_up_to_date`, the rejoin |

### WaitingRoom

Three places remember the guest's request and all three are kept: the app's
`waitingRoomJoinRequestId` (`bid`), the app state's
`pending_waiting_room_join_request_id` (`appId`) and the service state's
`guest_pending_join_request_id` (`pending`). A request has the number of the
call of `createJoinRequest` that makes it. Two handlers make that call: the one
of the user's wish (`Start`), of which one runs at a time because `opener` is the
`_waitingRoomAdmissionCompleter`, and the one of the poll while the host has not
started (`Poll`), which nothing excludes. So `create` and `wait` say of each call
where it and its wait for the welcome are; `cancel` and `rej` say where the
handlers of a leave and of a rejection are suspended.

| Actions | Code |
|---|---|
| `Start`, `Poll`, `Info` | `_onStartWaitingRoomAdmission`, `_onPollGroupInfo`, `_trySubmitWaitingRoomJoinRequest` up to its call |
| `Refresh`, `Post`, `Posted`, `Noted`, `Connect` | `create_join_request`: the session is rebuilt if a pre-join auth is cached, the request is sent, the service state, then the app state is written, the websocket connected or not |
| `Created` | the rest of `_trySubmitWaitingRoomJoinRequest` |
| `Leave`, `CancelDelete`, `CancelReset` | `cancel_waiting_room_join_request` |
| `Welcome`, `Decision`, `Rejected`, `RejectClear` | the guest's message handler, `_onJoinDecisionReceived` |
| `Look`, `Join`, `Wake`, `WaitTimeout` | `wait_for_join_proposal_welcome_and_join` and `_onWaitForWaitingRoomWelcome` |
| `Added`, `Removed`, `Reject`, `Admit`, `Sweep`, `ProcessCommit` | the hosts' handlers and calls |

`pend[h]` is a host's map of requests, `fan[h]` and `net` what the server has
sent to a host and to the guest. `Admit` is one action because the code keeps the
group's write lock from the check of the roster to the server's answer, which
may be lost after the server has accepted the commit; `Added`, `Removed` and
`ProcessCommit` run on other hosts at any time.

### Captions

The group is the sequence of its rosters, of which a host has processed a
prefix. `ask` and `stop` are a host's calls of `settle_closed_captions` around
their requests; `op` is its call of `admit_agent` or `remove_agent`. An admission
takes three steps: it looks at the roster (`Admit`; `seen` keeps the epoch of
that look, for the properties only), notes the epoch in another acquisition of
the group (`NoteEpoch`), and commits under the group's write lock if the epoch
is still the noted one (`OpCommit`). It never looks at the roster again. `due`,
`inflight` and `teardown` are the app's pending evaluation,
`_liveCaptionsAgentSummonInFlight` and the count of dismissals.

### ServiceLocks

A call is its trace: the guards it holds, and the one it asks for, await by
await (`While(g, body)` is "do `body` with `g` in its hands"). `Request`,
`Grant`, `Return` and `Fail` run the traces against tokio's queues, in which a
read behind a waiting write waits as well. Each definition of a trace is the
function of that name; a trace that may stop early is covered by `Fail`, which
drops everything. `Suspects` are the three calls that break the order of the
locks: `leave_meeting` and `remove_participant` read a lock they hold, and
`set_group_callback` asks for the user service with the callback's mutex in its
hands.

The cache of messages is taken in both orders: `process_commit_message` keeps it
locked while it hands a cached proposal to the group (messages.rs:343, the head
of an `if let`), and locks it with the group write-locked when a commit's
proposal is missing (messages.rs:430). Both stand under the room lock, so the two
never meet. `handle_proposal_impl` would lock the cache that its caller holds if
a cached proposal were of a future epoch (proposals.rs:684); the caller takes only
proposals of the epoch of its commit, which is the group's or one that has
passed, so the branch is left out.

## 3. Runs

| Run | Shows |
|---|---|
| `RoomRaces` | Kick, sweep, timers and handlers of two clients race and uploads are lost before or after they are accepted: `TypeOK`, `HistoryPrefix`, `CommitStillCurrent`, the inductive invariant `IInv`, the handler and the timer never hold drained proposals together (`SerializedDrain`), and the refinement of `CommitLog` (`ImplementsLog`). |
| `RoomOrdered` | Two proposals, delivered in causal order, possibly again: the proposals the next commit needs are somewhere (`NoProposalLost`), and the handler decrypts a commit at the first try (`CommitDecrypts`). |
| `RoomLiveness` | Three clients, messages in any order: no commit a client lacks is gone (`NoCommitLost`), every client follows (`ImplementsFairLog`), a commit cached for the current epoch is applied (`CachedCommitProcessed`). |
| `RoomOrderedLive` | Two proposals: each is decided (`ProposalResolved`) and every client follows. |
| `WsMeeting` | A client that joins and stays: `NotDeaf`, `ReconnectingIsActive` and `Settles`. |
| `WsRejoin` | Leave at any time, join again, also while a listener reconnects or a reconnection is triggered: no connect leaves one half of its stream to another's (`OwnHalves`), and old listeners stop (`OldListenersEnd`). |
| `Joining` | A client that joins by commits and one that proposes itself, with lost answers and broken connections: `JoinedOnLog`, `WelcomeWakes`, `VerdictSound`, `LaggardFound`, `JoinEnds`. |
| `WaitingRoom` | A guest that asks twice, before or after the meeting has started, and two hosts, with one rare event: `OneLeaf`, `PendingKept`, `AdmittedGetsIn`, `StaleRejectIgnored`, `NoLostWakeup`. |
| `Captions` | Two hosts, an admin and another participant, with demand that comes and goes: a second leaf for a device only in the one window the code leaves open (`OneLeaf`), and `Dismissed`. |
| `LocksAll` | Every pair of the 27 calls: `DeadlockNeedsSuspect`, `CallsReturn`. |
| `LocksLeave`, `CaptionsBundle` | Violations, see section 6. |

Deadlock is not checked: a meeting in which nobody does anything any more is a
legal end of all of these instances, and in `ServiceLocks` a state in which every
task has returned. Deadlocks of locks are what `DeadlockNeedsSuspect` is about.

Where a property needs a restriction, the run says so in its constants; what
happens without it is in *Variants*, section 6. `NoCommitLost` needs answers that
arrive (`ResponseLoss = FALSE`: a client that never learns its commit was
accepted is not sent that commit); `NoProposalLost` needs no kicks and causal
delivery (with two proposals in any order it fails when a handler stalls for
longer than the timer, two seconds), and so does `CommitDecrypts`. `SerializedDrain`
names the kick, which drains without the room lock, as the exception.
`ReconnectingIsActive` needs a client that stays, `NotDeaf` moreover no triggered
reconnection; the run has both restrictions. `OwnHalves` needs none.
The run `Captions` has `Delays = FALSE`: the replies to one host come in the order
of its requests, and requests and commits arrive within the timers of the app
that follow them (15 s and more). `Dismissed` needs that, `OneLeaf` does not (its
theorem has no such assumption). `StaleRejectIgnored` and `AdmittedGetsIn` need a
guest's app whose local calls end before it asks again (`Prompt = TRUE`), and
`AdmittedGetsIn` is silent while the Welcome of another request of the guest is
about. The other properties of `WaitingRoom` are theorems without `Prompt`.

## 4. Bounds and fairness

Bounds, all CONSTANTS:

* `Clients`, `Hosts`: two suffice for a race of committers, of admissions, of
  captions hosts; three in `RoomLiveness` so that a commit has two receivers, one
  of which may be ahead of the other.
* `Proposals`: one to isolate the handling of a proposal, two so that one is
  queued while the other is committed. Every commit of a timer consumes one, so
  this also bounds the epochs, with `SweepUntil` (no offline member after this
  epoch) and one kick per target.
* `KickMaxAttempts = 2` stands for 4 (utils.rs:15): with two there is a first
  attempt, a retry and an exhausted retry.
* `MaxRetry`, `MaxPingFailures`, `ConnectAttempts` are 2 (code: 5, 2, 3) or 1
  in `WsRejoin`; `Connections`, `Joins`, `Troubles`, `Triggers` bound how often
  the environment acts. `Connections` is above `Joins + Troubles` in
  `WsMeeting` and so never reached there. It binds in `WsRejoin`, where two
  concurrent reconnections can go on replacing each other's connection. That run
  has no `Troubles`: what starts a reconnection there is a listener that outlives
  a leave and finds nothing to ping, a handshake that fails, and the trigger.
  Dropped connects and broken connections next to these, without any bound, are in
  the proof of `OwnHalves` (`ConnectsOwn`).
* `Joining`: three joins (`MaxEpoch = 3` ends the members' own commits, not those
  that join), so that one client joins, falls behind while the
  other joins, and rejoins. `Threshold = 1`: the first attempt of the proposer
  proposes, the second commits. `MaxRetries = 0` stops the retries on 422 inside
  one attempt; the larger `MaxRetries = 1` with two joins, or with three joins
  and no fault, holds too. `CheckTries = 1` (code: 4) keeps the triggered
  reconnection after the last try. Checks of one client are followed.
* `WaitingRoom`: two requests, so that there is an old and a new one, and
  `MaxRare = 1`: one event of the kind that seldom happens, which is a network call
  that fails, an answer to an admission that is lost, a leave while
  `createJoinRequest` runs, a request without a cached pre-join auth, a removal
  that comes without its `request_id`, or a sweep. So each error branch is
  taken, alone. With two of them the properties hold as well, in 7.4 million
  states.
* `Captions`: one agent device, two changes of demand, one failing request, two
  dismissals of a teardown (code: 3), two commits: the agent's and its removal,
  or somebody else's in place of one of them. `MaxToggles` also counts the
  summons that are given up.
* `LocksAll`: two tasks. The proof of `NoDeadlock` covers any number of them.

Fairness of the room: weak fairness of the handler, the timer, the answers of
the uploads, the restores and the server's decisions. They are tasks the
runtime polls, a timer fires, and a request ends in an answer or its timeout.
There is none on what a user or the environment may choose not to do: `Propose`,
`KickDrain`, `SweepCommit`, `UploadTimeout`. Strong fairness is not assumed.

Fairness of the websocket client: each task takes a step when it can
continuously take one; a handshake succeeds or fails, a ping is answered or
times out. None on `Join`, `Leave`, `Break`, `ConnectDropped`,
`TriggerReconnect`.

Fairness of `Joining`: the steps of a join (a task that is polled, whose requests
are answered or time out, and whose wait has a deadline) and of the check, which
the app's periodic timer starts. None on the message handler, the server's
members, and the breaking or the return of a connection: a join ends without
them.

Fairness of `Captions`: timers fire, a host's requests end, commits reach it, and
an agent that has been dismissed leaves. In `CaptionsBundle` also the retries of
`_admitAgentWithRetry`. None on who wants captions or on an agent that comes.

Fairness of `ServiceLocks`: a task that has not returned is polled, and a lock
goes to the head of its queue once it can.

## 5. What is proved

Every safety property that a passing run checks is a theorem, but for two:
`AdmittedGetsIn` and `StaleRejectIgnored` of `WaitingRoom`. The theorems hold for
every value of the constants that size a system or bound its environment; the
assumptions of the modules only type these (`ConstantsAssumption`,
`CallsAssumption`, `CaptionsAssumption`, `WaitingRoomAssumption`,
`JoiningAssumption`). Where a property fails in some environment (*Variants*,
section 6), its theorem names the constant that excludes it:

| Theorem | Assumes |
|---|---|
| `CommitsArrive` | `ResponseLoss = FALSE` |
| `ProposalsKept`, `FirstTry` | `Kickers = {}`, `Sweepers = {}`, `CausalDelivery = TRUE` |
| `Reconnects` | `Leaves = FALSE` |
| `ConnectedListens` | `Leaves = FALSE`, `Triggers = 0` |

All others are unconditional.

### The room

`MlsRoom_proofs` proves, for every set of clients and proposals, every choice of
kickers and sweepers, every bound and every combination of redelivery, order
and loss:

* `Invariance`: `Spec => []IInv`
* `TypeCorrect`: `Spec => []TypeOK`
* `NoFork`: `Spec => []HistoryPrefix`
* `StillCurrent`: `Spec => []CommitStillCurrent`
* `Refinement`: `Spec => ImplementsLog`

`HistoryPrefix` is not inductive. A client appends a commit from two sources:
its own upload that was accepted and a commit the handler decrypted. For the
first `IInv` adds `AcceptedIsNext`: the commit in flight was made for the
client's present epoch, and is the entry of the log there once accepted. This
holds because an upload keeps the group's lock, so the group cannot move before
the answer. For the second it adds `CommitsLogged` (what is on its way to a
client, or with its handler, is in the log and made by another client), `LogEpochs`
(the i-th commit was made for epoch i) and `CommitStillCurrent`. The last one
holds although the handler releases the group between the comparison and the
decryption: any other step that moves the group on is a merge of the client's
own accepted commit for this same epoch, and the epoch already belongs in the
log to the commit in the handler, by another client (`OwnUploads`,
`CommitsLogged`). So the server's epoch check, and not a lock of the client, is
what protects this window.

`MlsRoom_proofs` is laid out by what a step disturbs: `TypeStep` does the types,
`CoreStep` the log and uploads, `HandlerStep` the handler; each has one case per
action. `RefineStep` maps a step to `Publish`, `Learn` or a stutter of
`CommitLog`.

### What a client still gets

`MlsDelivery_proofs`, on top of `IInv`:

* `DrainsSerialized`: `Spec => []SerializedDrain`. `LockHeld` ties the room lock to
  the steps that hold drained proposals, of the handler and of the timer
  (`Locked`), whatever is kicked or swept beside them. The kick drains without it,
  and the property says no more of it than that.
* `CommitsArrive`: `Spec => []NoCommitLost`, with kicks, sweeps, any order and
  redelivery. The invariant `Arrives` says where each commit of the log from a
  client's epoch on is: in the inbox, the cache or the handler, or it is the
  client's own and its answer is on the way (`Reaches`). A commit leaves these
  places only when the group moves past it (`FinishReach`, `ApplyReach`).
* `ProposalsKept`: `Spec => []NoProposalLost`, and `FirstTry`:
  `Spec => []CommitDecrypts`. The invariant `Kept` says that each proposal of an
  epoch a client has not left is in its inbox, its cache, its queue or the batch of
  one of its tasks (`Within`). The group holds proposals only while the handler or
  the timer is about to use them (`OfEpoch`), and these two exclude each other by
  the room lock (`Locked`), so a rejected batch clears nothing of the handler's.
  `Causal` says that what an arrived commit refers to is not still to arrive;
  hence what the handler drained is all its commit needs (`HandedOver`).

### The websocket client

`WsClient_proofs`, for any number of joins, connections, failures and listeners:

* `WsTypeCorrect`: `Spec => []TypeOK`
* `ConnectsOwn`: `Spec => []OwnHalves`. `ConnectExclusive`: a task is between the
  handshake and the mark exactly when it holds `connect_lock`, wherever its
  `connect` is dropped.
* `Reconnects`: `Spec => []ReconnectingIsActive`, by `JoinFirst`: until the app is
  in the meeting nobody else moves, and from then on there is a token; so a
  reconnection finds it at each attempt and ends connected or disconnected.
* `ConnectedListens`: `Spec => []NotDeaf`. `Alone`: every listener but the latest is
  done, so one task moves at a time (`OneMover`), and what it stored is there until
  the listener it starts has taken it.

### The locks

`ServiceLocks_proofs` proves for any number of tasks and any set of the calls

* `LocksTypeCorrect`: `Spec => []TypeOK`
* `NoDeadlock`: `Spec => []DeadlockNeedsSuspect`

The argument is a ranking of the locks (`Rank`: app state, user service, room
lock, message cache, group, service state, store, callback). `Nested(trace, r)`
says that a trace takes every lock above those it keeps, and all of them above
`r`; it is preserved by sequencing (`NestedConcat`) and by doing a body with a
guard in hand (`NestedWhile`), so each call is proved from the calls it makes
(`NestedHelpers` to `NestedCaptions`, gathered in `TraceOrder`). The one step
that takes the cache with the group in its hands (`TakesCache`, `NestedDefer`) is
the exception: it holds the room lock, and so does whoever holds the cache and
asks for more. That a writer holds its lock alone is a lemma about tokio's
queues and the traces (`WritersExclude`, by `Scoped`: no trace keeps a guard it
was not granted). `WaitsHigher`: a waiting task that is no suspect waits for a
lock above all it holds. Along a cycle the rank would grow without end
(`NoCycle`). `TypeOK` is needed for the queues: each holds, once, the tasks that
wait for that lock.

### Joining

`Joining_proofs` proves for any set of clients, however they join, and any
number of refusals, losses and rejoins

* `JoinTypeCorrect`: `Spec => []TypeOK`
* `JoinedSound`: `Spec => []JoinedOnLog`
* `VerdictHolds`: `Spec => VerdictSound`
* `NoLostWakeup`: `Spec => []WelcomeWakes`

`JoinedOnLog` is not inductive, since a candidate is stored before the server has
seen it, and the handler may replace it while the upload is under way. The
invariant `OnLog` adds the upload: the group then is either the client's own
candidate or a prefix of the log (`Candidate`). The server accepts only what
follows its newest commit, and then the group is the log itself; after any other
answer the client is not in the meeting with that group. `CheckInside` adds that
a check runs only in a meeting, so that the two histories `is_mls_up_to_date`
compares by their lengths are prefixes of the same log: no shorter means no
commit is missing (`PrefixesAgree`). For the wake-up, `StepSleeps` says what one
step may do to a client that sleeps. `CaughtUpType` needs the least element of a
set of epochs, from the library's well-founded induction.

### The captions agent and the waiting room

`Captions_proofs`:

* `AgentOneLeaf`: `Spec => OneLeaf`. `LeafInv` has `Noted` (a call that has noted an
  epoch looked at the roster at that one or an earlier one) and `Rested` (what it
  saw there: no leaf of the device). `OpCommit` gives up unless the host is still
  at the noted epoch, and the server unless that is the newest. So a commit that
  finds the device in the roster comes from a call that looked at an epoch before
  the one it noted (`OwnCommit`, `LeafStep`), which is what `SecondLeaf` says. No
  other commit adds a leaf.
* `CaptionsTypeCorrect`: `Spec => []TypeOK`

`WaitingRoom_proofs`:

* `GuestOneLeaf`: `Spec => []OneLeaf`. An admission checks the
  roster and commits in one hold of the group, and only on the newest epoch.
* `RequestsKept`: `Spec => PendingKept`. The server knows no request before its POST
  (`Unasked`), and a removal is under way only for a request that is over
  (`RemovedOver`), which it stays. So a host that drops what a removal names never
  drops what can still be answered.
* `WaitingTypeCorrect`: `Spec => []TypeOK`
* `WakeupsKept`: `Spec => []NoLostWakeup`. A call sleeps only after it has looked,
  under the lock of the state, with its notification already asked for; every step
  that stores a Welcome or resets the state notifies all that wait.

### Only model-checked

The liveness properties: `ImplementsFairLog` (its safety part is `Refinement`),
`CachedCommitProcessed`, `ProposalResolved`, `Settles`, `OldListenersEnd`,
`CallsReturn`, `Dismissed`, `LaggardFound`, `JoinEnds`. They need fairness, and
so `ENABLED`, which is out of the prover's reach. And of `WaitingRoom`,
`AdmittedGetsIn` and `StaleRejectIgnored`.

## 6. Findings

Two are runs, each ended by TLC with the trace.

* `LocksLeave`: `leave_room` keeps the guard of `mls_store` it took first while
  `create_leave_proposal_impl` reads the store again (mod.rs:1992,
  proposals.rs:596). If `admit_agent` asks for its write guard (caption.rs:426)
  in between, the second read waits behind the writer and the writer for the
  first read, for ever. A comment further down (mod.rs:2062) explains this very
  case and that the code there avoids it.
* `CaptionsBundle`: if the push of the agent's bundle fails after its commit was
  accepted, the retry finds the agent "already in roster", returns `Ok` and the
  app counts a success; the agent is in the group and never gets its key. The
  comment at caption.rs:572 says the host can retry.

### Variants

Properties of a passing run that fail when a constant of it is changed, or that
no run checks. Each is a fact about the code, found by TLC in the same way.

| Change | Fails | Why |
|---|---|---|
| `RoomOrdered` without symmetry, with `Kickers = {a}` | `NoProposalLost` | `kick_participant` empties the queue without `room_processing_lock` (mod.rs:1546), whose comment says it serializes the drains (mod.rs:158), and `restore_proposals_to_queue` *replaces* the queue after a failed kick (utils.rs:138); the next commit cannot be decrypted. |
| `RoomRaces`, property `KickRetried` | itself | the retry on 422 tests for `ErrorCode(422)` (mod.rs:1735) while the MLS API reports `MlsStatusCode(422)`; it never happens. |
| `RoomLiveness` with `Sweepers = {b}`, `SweepUntil = 1` | `CachedCommitProcessed` | a rejected sweep clears the proposals the handler handed over; the commit is cached and nothing processes it again (mod.rs:1090). |
| `WsMeeting` with `Leaves = TRUE` | `ReconnectingIsActive` | a leave drops the token under a reconnection, which returns with the state `Reconnecting` (ws_client.rs:660). A leave between the handshake and ws_client.rs:608 is even undone: the token is back and the client connected. |
| `WsMeeting` with `Triggers = 1` | `NotDeaf` | a triggered and the listener's own reconnection: the newest listener finds no receiver, the other is stale, the state stays `Connected`. |
| `WaitingRoom`, property `LeaveCancels` | itself | a guest that leaves before the answer to its request has nothing to cancel (waiting_room.rs:129); the hosts may admit a guest that is gone. |
| `WaitingRoom` with `Prompt = FALSE` | `StaleRejectIgnored` | the app's handler of an old rejection awaits a call (prejoin_bloc.dart:692) and then clears the state of the next request. |
| the same | `AdmittedGetsIn` | a poll that is still in flight submits a second time; its refresh rebuilds the client, and the key of the request that is admitted is gone. |
| `WaitingRoom` with `AdmittedGetsIn` for any Welcome (without `OnlyWelcomeOf`) | itself | the guest's wait times out, it asks again and is admitted; its first request is still pending, and once its leaf is swept another host admits that one: the Welcome overwrites the one that is kept (messages.rs:854) and the guest joins with neither. |
| `Captions`, property "one leaf at most" in place of `OneLeaf` | itself | a commit of another host's admission between the look at the roster (caption.rs:368) and the note of the epoch (caption.rs:386) passes both checks of the epoch: the device gets a second leaf. |
| `Captions` with `Delays = TRUE` | `Dismissed` | the agent asked for is remembered only when the request returns (caption.rs:219). If that takes longer than the app's dismissals, they find nothing to cancel, and the agent stays although nobody wants it. |

## 7. Limits

Abstracted in `MlsRoom`:

* Members are fixed and in state `Success`; what a commit does to the roster,
  the filters for proposals that remove oneself or a member already gone, host
  roles and PSK proposals are left out.
* Messages are records; cryptography is the epoch check and "a commit needs the
  proposals it refers to". The group accepts a proposal of its epoch once.
* Queue and cache are sets: duplicates collapse, and the order in which a batch
  is handed to the group does not matter to the properties.
* Rank and jitter of the timers become "in any order"; timers of one epoch
  collapse, and one woken timer task of a client runs at a time. The timer is
  registered in the step that spawns it.
* `ProcessCached` pushes all cached proposals of the epoch in one step; the cap
  of ten passes is left out.
* A kick fails early with `?` in places that drop the drained batch; only the
  failed upload and the target that is gone are modelled.
* There is one message handler per client, which is what one listener gives;
  after a quick leave and join, or two concurrent reconnections, an old listener
  can still be in the handler.

Abstracted in `WsClient`:

* The native build: no `Connecting` state, no disconnection callback (only the
  web build sets one). Text requests, round-trip times and `has_reconnected` are
  left out.
* A missed pong is counted when it is missed; the code counts it after the check
  at the top of the loop and leaves one message later.
* `disconnect` is in the queue for the lock of the sender as soon as it has set
  the status; tokio's mutex is first in, first out.
* The three reads of `trigger_reconnect` are one step, `reconnect` another.
* A join that fails after its websocket is up is a `Leave`.

Abstracted in `Joining`:

* The group id always matches, and `ServerVersionNotSupported` is left out. The
  branch that creates the group and the one that commits into it retry 5 and 4
  times; both have `MaxRetries`.
* What the server does with a proposal for an epoch that is over is a choice.
* When the join waits for a notified welcome, a commit that follows the welcome
  is dropped by the handler; the check finds it (`LaggardFound`).
* The error path of `trigger_reconnect` inside the check is left out.

Abstracted in `WaitingRoom`:

* One guest, whose requests are for one device. A batch of admissions with the
  same device twice fails in the MLS library and is left out.
* The server's fan-out is a queue per host. A wait that fails does not cancel its
  request, as in the code.
* A guest that was admitted and left keeps its leaf until a sweep removes it;
  meanwhile a host skips its new request as "already in roster" and the guest
  waits for its timeout.
* The rebuild of the guest's session is one step, with its first reset; a leave
  while it runs, whose cancel may find no user, is left out, and so is the
  registration of the callback for decisions.
* A host whose commit was accepted but that got no answer catches up as by a
  rejoin (`ProcessCommit`).
* The web-only paths, the policy of the room and the passcode are left out.

Abstracted in `Captions`: a host does not leave the meeting; the grace period is
the time until the app evaluates; the eleven tries of the summon are not
counted; the check of the epoch after the stagger and the one under the lock are
one. A
commit of somebody else during the stagger makes every host skip the admission,
and the app takes this for a success for 15 s.

Abstracted in `ServiceLocks`: one room and so one group; a guard that is dropped
before the next await is dropped with the next request; what is awaited under a
guard apart from locks (requests, timers) ends. So the length of a hold is not
visible: `is_mls_up_to_date` keeps the app state and the user service for tens
of seconds, and in its error branch the service state over a sleep of 500 ms
(mod.rs:628); the wait for a welcome keeps the user service for up to 300 s
(waiting_room.rs:79), and the web build's removal of the decision handler waits
behind it (waiting_room.rs:199).

Not modelled: the components listed as such in `PROJECT.json`. Chat, agent host
and room service are single requests without state of their own; calendar,
crypto and message formats transform data; storage and session are thin layers
over external libraries and keep nothing of a meeting. The largest file, the
bridge's `frb_generated.rs`, is generated. Screens and native plugins hold no
protocol state. These make up most of the repository's lines.

## 8. What could come next

* `MlsRoom` with a second message handler per client, and the cap of ten passes
  over the cache.
* The text requests of the websocket client: late answers and the set of timed
  out requests.
* Proofs: `ProposalsKept` with sweeps, which clear the group's pending proposals
  when they are rejected, and in any order of delivery for a room whose handler
  is never slower than its timer; that `Joining` and `Captions` use the log of the
  group as `CommitLog` does.
