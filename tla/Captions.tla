------------------------------ MODULE Captions ------------------------------
(***************************************************************************)
(* The live-captions agent of a meeting: who asks meet-server for it, who  *)
(* dismisses it, who adds it to the MLS group and who takes its leaf out   *)
(* again.  Every participant runs the same code (service/caption.rs) and   *)
(* the same lifecycle of the app (room_bloc_live_captions_agent.dart); a   *)
(* staggered wait is all that arbitrates between them.                     *)
(*                                                                         *)
(* The group is its sequence of rosters, one per epoch, of which a host    *)
(* has processed a prefix.  A roster says how many leaves each agent       *)
(* device has.  meet-server and the agent itself are external.             *)
(*                                                                         *)
(* An operator Mut... is a faulty variant of the operation defined next.   *)
(***************************************************************************)
EXTENDS Integers, Sequences, FiniteSets

CONSTANTS
  Hosts,        \* the participants of the meeting
  Admins,       \* those that are room admins
  MaxEpoch,     \* bound: epochs of the group
  MaxAgents,    \* bound: agents that come, one after the other
  MaxToggles,   \* bound: changes of who wants captions
  MaxErrors,    \* bound: requests that fail
  MaxTeardown,  \* bound: dismissals of one teardown (teardownMaxAttempts: 3)
  Delays   \* meet-server's replies to one host may overtake each other

ASSUME CaptionsAssumption ==
  /\ Admins \subseteq Hosts
  /\ MaxEpoch \in Nat \ {0}
  /\ {MaxAgents, MaxToggles, MaxErrors} \subseteq Nat
  /\ MaxTeardown \in Nat \ {0}
  /\ Delays \in BOOLEAN

VARIABLES
  wanted,     \* hasLiveCaptionsWanters: does any host want captions?
  requested,  \* meet-server has been asked for an agent
  agent,      \* the agent device in the LiveKit room, 0 if none
  last,       \* the last device that came
  bundled,    \* the devices that got their bundle, the key of the group
  roster,     \* roster[e][d]: the leaves of device d at epoch e
  view,       \* the epoch each host is at
  awaiting,   \* rooms_awaiting_captions_agent, as the hosts that have the room
  ask,        \* where a host's request for the agent is
  stop,       \* where a host's dismissal of the agent is
  op,         \* a host's call of admit_agent or remove_agent
  due,        \* the hosts about to evaluate the lifecycle
  inflight,   \* _liveCaptionsAgentSummonInFlight
  teardown,   \* _liveCaptionsAgentTeardownAttempts, 0: none pending
  toggles, errors

demand == <<wanted, toggles>>
server == <<requested, agent, last, bundled>>
group == <<roster, view>>
service == <<awaiting, ask, stop>>
app == <<due, inflight, teardown>>
vars == <<demand, server, group, service, op, app, errors>>

Devices == 1..MaxAgents
Idle == [kind |-> "none", dev |-> 0, seen |-> 0, epoch |-> 0]

Newest == Len(roster)
Leaves(e) == {d \in Devices : roster[e][d] > 0}

(* captions_agent_in_group, on the host's own copy of the group. *)
AgentInGroup(h) == Leaves(view[h]) # {}

Init ==
  /\ wanted = FALSE /\ toggles = 0
  /\ requested = FALSE /\ agent = 0 /\ last = 0 /\ bundled = {}
  /\ roster = <<[d \in Devices |-> 0]>> /\ view = [h \in Hosts |-> 1]
  /\ awaiting = {}
  /\ ask = [h \in Hosts |-> "idle"] /\ stop = [h \in Hosts |-> "idle"]
  /\ op = [h \in Hosts |-> Idle]
  /\ due = {} /\ inflight = {}
  /\ teardown = [h \in Hosts |-> 0]
  /\ errors = 0

Error == errors < MaxErrors /\ errors' = errors + 1

-----------------------------------------------------------------------------
(* The service: settle_closed_captions. *)

(* The first part of a request, up to the staggered wait. *)
Request(h) ==
  IF AgentInGroup(h)
    THEN awaiting' = awaiting \ {h} /\ UNCHANGED ask
    ELSE ask' = [ask EXCEPT ![h] = "wait"] /\ UNCHANGED awaiting

(* stagger_then_check_agent, then add_closed_captions_agent. *)
RequestSend(h) ==
  /\ ask[h] = "wait"
  /\ Delays \/ stop[h] # "sent"    \* replies in the order of the requests
  /\ \/ /\ AgentInGroup(h)
        /\ ask' = [ask EXCEPT ![h] = "idle"]
        /\ UNCHANGED <<requested, errors>>
     \/ /\ ~AgentInGroup(h)
        /\ ask' = [ask EXCEPT ![h] = "sent"]
        /\ requested' = TRUE
        /\ UNCHANGED errors
     \/ /\ ~AgentInGroup(h)
        /\ Error
        /\ ask' = [ask EXCEPT ![h] = "idle"]
        /\ UNCHANGED requested
  /\ UNCHANGED <<demand, agent, last, bundled, group, awaiting, stop, op, app>>

RequestDone(h) ==
  /\ ask[h] = "sent"
  /\ ask' = [ask EXCEPT ![h] = "idle"]
  /\ awaiting' = awaiting \union {h}
  /\ UNCHANGED <<demand, server, group, stop, op, app, errors>>

MutStop(h) ==
  stop' = [stop EXCEPT ![h] = IF AgentInGroup(h) THEN "wait" ELSE "idle"]

(* The first part of a dismissal.  A request of its own for an agent that  *)
(* is not in the group is cancelled without a wait; without such a request *)
(* there is nothing to stop.                                               *)
Stop(h) ==
  stop' = [stop EXCEPT ![h] = IF AgentInGroup(h) THEN "wait"
                              ELSE IF h \in awaiting THEN "cancel"
                              ELSE "idle"]

(* stagger_then_check_agent, unless it cancels, then                       *)
(* remove_closed_captions_agent.                                           *)
StopSend(h) ==
  /\ Delays \/ ask[h] # "sent"
  /\ \/ /\ stop[h] = "wait" /\ ~AgentInGroup(h)
        /\ stop' = [stop EXCEPT ![h] = "idle"]
        /\ UNCHANGED <<requested, errors>>
     \/ /\ stop[h] = "cancel" \/ (stop[h] = "wait" /\ AgentInGroup(h))
        /\ \/ /\ requested' = FALSE
              /\ stop' = [stop EXCEPT ![h] = "sent"]
              /\ UNCHANGED errors
           \/ /\ Error
              /\ stop' = [stop EXCEPT ![h] = "idle"]
              /\ UNCHANGED requested
  /\ UNCHANGED <<demand, agent, last, bundled, group, awaiting, ask, op, app>>

StopDone(h) ==
  /\ stop[h] = "sent"
  /\ stop' = [stop EXCEPT ![h] = "idle"]
  /\ awaiting' = awaiting \ {h}
  /\ UNCHANGED <<demand, server, group, ask, op, app, errors>>

-----------------------------------------------------------------------------
(* The lifecycle of the app. *)

(* A host changes its mind, so that all want captions for the first or the *)
(* last time; every host hears of it.  Bound: MaxToggles.                  *)
ToggleWant ==
  /\ toggles < MaxToggles
  /\ toggles' = toggles + 1
  /\ wanted' = ~wanted
  /\ due' = Hosts
  /\ UNCHANGED <<server, group, service, op, inflight, teardown, errors>>

(* Captions are wanted: summon the agent unless it is there to stay. *)
EvaluateWanted(h) ==
  /\ wanted
  /\ IF agent # 0 /\ teardown[h] = 0
       THEN inflight' = inflight \ {h}
       ELSE inflight' = inflight \union {h}
  /\ teardown' = [teardown EXCEPT ![h] = 0]
  /\ UNCHANGED stop

(* They no longer are: cancel a summon at once, dismiss an agent that is   *)
(* there after the grace period, which is the time until h evaluates.      *)
(* Without Delays a request of its own is over by then, as in              *)
(* TeardownCheck.  Bound: one dismissal of a host at a time.               *)
EvaluateUnwanted(h) ==
  /\ ~wanted
  /\ stop[h] = "idle"
  /\ inflight' = inflight \ {h}
  /\ \/ h \in inflight /\ Stop(h) /\ UNCHANGED teardown
     \/ /\ h \notin inflight
        /\ agent # 0 /\ teardown[h] = 0
        /\ Delays \/ ask[h] = "idle"
        /\ Stop(h)
        /\ teardown' = [teardown EXCEPT ![h] = 1]
     \/ /\ h \notin inflight
        /\ agent = 0 \/ teardown[h] > 0
        /\ teardown' = [teardown EXCEPT ![h] = IF agent = 0 THEN 0 ELSE @]
        /\ UNCHANGED stop

Evaluate(h) ==
  /\ h \in due
  /\ due' = due \ {h}
  /\ EvaluateWanted(h) \/ EvaluateUnwanted(h)
  /\ UNCHANGED <<demand, server, group, awaiting, ask, op, errors>>

(* The dismissal is not confirmed in time: another attempt, three in all.  *)
(* Without Delays the commits of the group arrive within that time, 15     *)
(* seconds, and a request of its own is over (it waits for up to 10        *)
(* seconds when the rank is below 6).                                      *)
TeardownCheck(h) ==
  /\ teardown[h] > 0
  /\ stop[h] = "idle"
  /\ Delays \/ (view[h] = Newest /\ ask[h] = "idle")
  /\ IF agent # 0 /\ teardown[h] < MaxTeardown
       THEN teardown' = [teardown EXCEPT ![h] = @ + 1] /\ Stop(h)
       ELSE teardown' = [teardown EXCEPT ![h] = 0] /\ UNCHANGED stop
  /\ UNCHANGED <<demand, server, group, awaiting, ask, op, due, inflight,
                 errors>>

(* _onLiveCaptionsAgentSummonRetry: ask again while the agent is needed.   *)
(* After the last attempt (of 11, which are not counted here) the host     *)
(* gives up wanting captions itself; it may have been the only one.        *)
(* Bound: MaxToggles.                                                      *)
Summon(h) ==
  /\ h \in inflight
  /\ ask[h] = "idle"
  /\ LET needed == wanted /\ (agent = 0 \/ teardown[h] > 0) IN
       \/ /\ ~needed
          /\ inflight' = inflight \ {h}
          /\ UNCHANGED <<awaiting, ask, wanted, due, toggles>>
       \/ /\ needed
          /\ Request(h)
          /\ UNCHANGED <<inflight, wanted, due, toggles>>
       \/ /\ needed
          /\ inflight' = inflight \ {h}
          /\ \/ /\ agent = 0 /\ toggles < MaxToggles /\ toggles' = toggles + 1
                /\ wanted' = FALSE /\ due' = Hosts
             \/ UNCHANGED <<wanted, due, toggles>>
          /\ UNCHANGED <<awaiting, ask>>
  /\ UNCHANGED <<server, group, stop, op, teardown, errors>>

-----------------------------------------------------------------------------
(* The agent (external). *)

(* The app ends a summon when the agent comes.  Bound: MaxAgents. *)
AgentConnects ==
  /\ requested
  /\ agent = 0
  /\ last < MaxAgents
  /\ last' = last + 1
  /\ agent' = last'
  /\ due' = Hosts
  /\ inflight' = {}
  /\ UNCHANGED <<demand, requested, bundled, group, service, op, teardown,
                 errors>>

(* The app clears the teardown when the agent goes.  Without Delays its    *)
(* admission is over by then, and the hosts have heard of it.              *)
AgentDisconnects ==
  /\ ~requested
  /\ agent # 0
  /\ Delays \/ \A h \in Hosts : view[h] = Newest /\ op[h].kind # "admit"
  /\ agent' = 0
  /\ due' = Hosts
  /\ teardown' = [h \in Hosts |-> 0]
  /\ UNCHANGED <<demand, requested, last, bundled, group, service, op,
                 inflight, errors>>

-----------------------------------------------------------------------------
(* The group. *)

(* The server takes a commit of its newest epoch; the committer, which     *)
(* holds the lock of its group, then merges it.                            *)
Commit(h, next) ==
  /\ view[h] = Newest
  /\ Newest < MaxEpoch
  /\ roster' = Append(roster, next)
  /\ view' = [view EXCEPT ![h] = @ + 1]

MutProcessCommit(h) ==
  /\ view[h] > 1 \/ view[h] < Newest
  /\ view' = [view EXCEPT ![h] = @ + 1]
  /\ UNCHANGED <<demand, server, roster, service, op, app, errors>>

ProcessCommit(h) ==
  /\ view[h] < Newest
  /\ view' = [view EXCEPT ![h] = @ + 1]
  /\ UNCHANGED <<demand, server, roster, service, op, app, errors>>

(* A commit that has nothing to do with the agent: a join, a leave. *)
OtherCommit(h) ==
  /\ Commit(h, roster[Newest])
  /\ UNCHANGED <<demand, server, service, op, app, errors>>

Call(h, kind, d) ==
  op' = [op EXCEPT ![h] = [kind |-> kind, dev |-> d, seen |-> view[h],
                           epoch |-> view[h]]]

(* admit_agent, for the notification AgentPending and for the sweep of     *)
(* pending agents: the look at the roster.                                 *)
Admit(h) ==
  /\ op[h] = Idle
  /\ wanted
  /\ agent # 0 /\ agent \notin bundled
  /\ agent \notin Leaves(view[h])
  /\ Call(h, "check", agent)
  /\ UNCHANGED <<demand, server, group, service, app, errors>>

(* The group is locked anew for the rank and the epoch of the call; then   *)
(* comes the staggered wait.  The check of the epoch after the wait is the *)
(* one that OpCommit repeats.                                              *)
NoteEpoch(h) ==
  /\ op[h].kind = "check"
  /\ op' = [op EXCEPT ![h].kind = "admit", ![h].epoch = view[h]]
  /\ UNCHANGED <<demand, server, group, service, app, errors>>

(* remove_agent, for the notification AgentLeft: the leaf and the epoch    *)
(* are read under one guard.                                               *)
Remove(h, d) ==
  /\ op[h] = Idle
  /\ d # agent
  /\ d \in Leaves(view[h])
  /\ Call(h, "remove", d)
  /\ UNCHANGED <<demand, server, group, service, app, errors>>

(* A request of the preparation fails, or the upload does for another      *)
(* reason than the epoch; the pending commit is cleared.                   *)
OpFails(h) ==
  /\ op[h] # Idle
  /\ Error
  /\ op' = [op EXCEPT ![h] = Idle]
  /\ UNCHANGED <<demand, server, group, service, app>>

(* push_bundle, after the merge of an admission. *)
PushBundle(h) ==
  \/ /\ bundled' = IF op[h].kind = "admit" THEN bundled \union {op[h].dev}
                                           ELSE bundled
     /\ UNCHANGED errors
  \/ op[h].kind = "admit" /\ Error /\ UNCHANGED bundled

(* The roster after the commit of h's call. *)
NextRoster(h) ==
  [roster[Newest] EXCEPT ![op[h].dev] =
     IF op[h].kind = "admit" THEN @ + 1 ELSE @ - 1]

MutOpCommit(h) ==
  /\ op[h].kind \in {"admit", "remove"}
  /\ op' = [op EXCEPT ![h] = Idle]
  /\ \/ Commit(h, NextRoster(h)) /\ PushBundle(h)
     \/ /\ view[h] # Newest \/ Newest = MaxEpoch
        /\ UNCHANGED <<group, bundled, errors>>
  /\ UNCHANGED <<demand, requested, agent, last, service, app>>

(* Under the lock of the group: the epoch is checked again, the commit is  *)
(* made and uploaded, then merged, or cleared when the server refuses it.  *)
OpCommit(h) ==
  /\ op[h].kind \in {"admit", "remove"}
  /\ op' = [op EXCEPT ![h] = Idle]
  /\ \/ /\ view[h] = op[h].epoch
        /\ Commit(h, NextRoster(h))
        /\ PushBundle(h)
     \/ /\ \/ view[h] # op[h].epoch
           \/ view[h] # Newest
           \/ Newest = MaxEpoch    \* bound
        /\ UNCHANGED <<group, bundled, errors>>
  /\ UNCHANGED <<demand, requested, agent, last, service, app>>

(* handle_offline_members: a room admin removes the members that are not   *)
(* in the LiveKit room; agents stay as long as any agent is in it.         *)
Sweep(h) ==
  /\ h \in Admins
  /\ agent = 0
  /\ AgentInGroup(h)
  /\ Commit(h, [d \in Devices |-> 0])
  /\ UNCHANGED <<demand, server, service, op, app, errors>>

-----------------------------------------------------------------------------
ServiceStep(h) ==
  \/ RequestSend(h) \/ RequestDone(h)
  \/ StopSend(h) \/ StopDone(h)
  \/ NoteEpoch(h) \/ OpCommit(h) \/ ProcessCommit(h)

AppStep(h) == Evaluate(h) \/ TeardownCheck(h) \/ Summon(h)

Next ==
  \/ \E h \in Hosts :
       \/ ServiceStep(h) \/ AppStep(h)
       \/ OtherCommit(h) \/ Admit(h) \/ OpFails(h) \/ Sweep(h)
       \/ \E d \in Devices : Remove(h, d)
  \/ ToggleWant \/ AgentConnects \/ AgentDisconnects

Spec == Init /\ [][Next]_vars

(* Every wait is a timer, every request has a timeout, and the app handles *)
(* the events it queues; an agent that is dismissed leaves.  Nobody has to *)
(* admit the agent, to remove its leaf or to change his mind.              *)
Fairness ==
  /\ \A h \in Hosts : /\ WF_vars(RequestSend(h)) /\ WF_vars(RequestDone(h))
                      /\ WF_vars(StopSend(h)) /\ WF_vars(StopDone(h))
                      /\ WF_vars(NoteEpoch(h))
                      /\ WF_vars(OpCommit(h)) /\ WF_vars(ProcessCommit(h))
                      /\ WF_vars(Evaluate(h)) /\ WF_vars(TeardownCheck(h))
                      /\ WF_vars(Summon(h))
  /\ WF_vars(AgentDisconnects)

FairSpec == Spec /\ Fairness

(* _admitAgentWithRetry: an admission that failed is tried again. *)
RetrySpec == FairSpec /\ \A h \in Hosts : WF_vars(Admit(h))

-----------------------------------------------------------------------------
(* Types; every host is at an epoch of the group. *)
TypeOK ==
  /\ {wanted, requested} \subseteq BOOLEAN
  /\ agent \in {0, last} /\ last \in 0..MaxAgents
  /\ bundled \subseteq Devices
  /\ roster \in Seq([Devices -> Nat]) /\ Newest \in 1..MaxEpoch
  /\ view \in [Hosts -> 1..Newest]
  /\ awaiting \subseteq Hosts
  /\ ask \in [Hosts -> {"idle", "wait", "sent"}]
  /\ stop \in [Hosts -> {"idle", "wait", "cancel", "sent"}]
  /\ op \in [Hosts -> [kind : {"none", "check", "admit", "remove"},
                       dev : 0..MaxAgents, seen : 0..Newest, epoch : 0..Newest]]
  /\ due \subseteq Hosts /\ inflight \subseteq Hosts
  /\ teardown \in [Hosts -> 0..MaxTeardown]

(* Two hosts may admit the same agent, and admit_agent looks at the roster *)
(* only once.  Of the commits that come between that look and its own, the *)
(* two checks of the epoch catch all but those that the host processes     *)
(* before it notes the epoch: a device gets a second leaf only from a host *)
(* whose epoch moved on between its look at the roster and its note.       *)
SecondLeaf(d) ==
  \E h \in Hosts : /\ op[h].kind = "admit" /\ op[h].dev = d
                   /\ op[h].seen < op[h].epoch /\ op'[h] = Idle

OneLeaf ==
  [][\A d \in Devices :
       roster'[Newest'][d] > 1 /\ roster'[Newest'][d] > roster[Newest][d]
         => SecondLeaf(d)]_vars

(* When nobody wants captions any more the agent leaves, whichever hosts   *)
(* asked for it, admitted it or were about to (stop_closed_captions).      *)
Dismissed ==
  <>[]~wanted => <>[](agent = 0)

(* What the comment in admit_agent says of a bundle that is not delivered: *)
(* the host can retry the admission.                                       *)
BundleRetried ==
  \A d \in Devices :
    agent = d /\ d \in Leaves(Newest)
      ~> d \in bundled \/ agent # d \/ ~wanted \/ d \notin Leaves(Newest)
=============================================================================
