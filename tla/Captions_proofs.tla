--------------------------- MODULE Captions_proofs ---------------------------
(***************************************************************************)
(* The captions agent: types, and what a second leaf of it takes.          *)
(*                                                                         *)
(* However many hosts admit the agent at the same time, it gets a second   *)
(* leaf only from a host whose epoch moved on between its look at the      *)
(* roster and its note of the epoch.  The invariant behind it is Noted: at *)
(* the epoch of that look the agent has no leaf.  A commit at any other    *)
(* epoch than the noted one is given up, and the server takes no second    *)
(* commit of the same epoch.                                               *)
(***************************************************************************)
EXTENDS Captions, TLAPS

(* What a host has read of the group for its call.                         *)
Noted ==
  \A h \in Hosts : op[h].kind # "none" =>
    /\ op[h].dev \in Devices
    /\ op[h].seen \in 1..Newest /\ op[h].seen \leq view[h]
    /\ op[h].epoch \in op[h].seen..Newest
    /\ op[h].kind # "remove" => roster[op[h].seen][op[h].dev] = 0
    /\ op[h].kind = "remove" => roster[op[h].epoch][op[h].dev] > 0

(* The part of the types that the argument needs. *)
Calls == [kind : {"none", "check", "admit", "remove"}, dev : 0..MaxAgents,
          seen : Nat, epoch : Nat]

CoreType ==
  /\ agent \in 0..MaxAgents /\ last \in 0..MaxAgents
  /\ roster \in Seq([Devices -> Nat]) /\ Newest \in Nat \ {0}
  /\ view \in [Hosts -> 1..Newest]
  /\ op \in [Hosts -> Calls]

Rested == \A h \in Hosts : op[h].kind = "none" => op[h] = Idle

LeafInv == CoreType /\ Rested /\ Noted

USE CaptionsAssumption

LEMMA InitInv == Init => LeafInv
  <1> SUFFICES ASSUME Init
               PROVE  LeafInv
    OBVIOUS
  <1>1. [d \in Devices |-> 0] \in [Devices -> Nat]
    OBVIOUS
  <1>2. roster = <<[d \in Devices |-> 0]>> /\ Newest = 1
    BY DEF Init, Newest
  <1>3. roster \in Seq([Devices -> Nat])
    BY <1>1, <1>2
  <1>4. Rested /\ Noted
    BY DEF Init, Idle, Rested, Noted
  <1>5. CoreType
    BY <1>2, <1>3 DEF Init, Idle, CoreType, Calls
  <1> QED
    BY <1>4, <1>5 DEF LeafInv

(* What leaves the group, the calls and the agent alone keeps it all. *)
LEMMA CoreKept ==
  ASSUME LeafInv, UNCHANGED <<roster, view, op, agent, last>>
  PROVE  LeafInv'
  BY DEF LeafInv, CoreType, Rested, Noted, Newest

(* The service's requests, its dismissals and the app's lifecycle. *)
LEMMA OutsideStep ==
  ASSUME LeafInv, NEW h \in Hosts,
         \/ RequestSend(h) \/ RequestDone(h) \/ StopSend(h) \/ StopDone(h)
         \/ AppStep(h) \/ ToggleWant
  PROVE  LeafInv'
  <1>1. UNCHANGED <<roster, view, op, agent, last>>
    BY DEF RequestSend, RequestDone, StopSend, StopDone, AppStep, Evaluate,
           TeardownCheck, Summon, ToggleWant, group, server
  <1> QED
    BY <1>1, CoreKept

(* The agent comes and goes. *)
LEMMA AgentStep ==
  ASSUME LeafInv, AgentConnects \/ AgentDisconnects
  PROVE  LeafInv'
  <1>1. UNCHANGED <<roster, view, op>>
    BY DEF AgentConnects, AgentDisconnects, group
  <1>2. agent' \in 0..MaxAgents /\ last' \in 0..MaxAgents
    BY DEF AgentConnects, AgentDisconnects, LeafInv, CoreType
  <1> QED
    BY <1>1, <1>2 DEF LeafInv, CoreType, Rested, Noted, Newest

(* A host processes the next commit of the group. *)
LEMMA ProcessStep ==
  ASSUME LeafInv, NEW h \in Hosts, ProcessCommit(h)
  PROVE  LeafInv'
  <1>1. UNCHANGED <<roster, op, agent, last>>
    BY DEF ProcessCommit, server
  <1>2. view' \in [Hosts -> 1..Newest] /\ \A g \in Hosts : view[g] \leq view'[g]
    BY DEF ProcessCommit, LeafInv, CoreType
  <1>3. Noted'
    <2>1. ASSUME NEW g \in Hosts, op[g].kind # "none"
          PROVE  op[g].seen \leq view'[g]
      <3>1. op[g].seen \in Nat /\ view[g] \in Nat /\ view'[g] \in Nat
        BY <1>2 DEF LeafInv, CoreType, Calls
      <3> QED
        BY <1>2, <2>1, <3>1 DEF LeafInv, Noted
    <2> QED
      BY <1>1, <2>1 DEF LeafInv, Noted, Newest
  <1> QED
    BY <1>1, <1>2, <1>3 DEF LeafInv, CoreType, Rested, Newest

(* What a call must have read to be made. *)
ReadOK(c, h) ==
  /\ c \in Calls /\ c.kind # "none"
  /\ c.dev \in Devices
  /\ c.seen \in 1..Newest /\ c.seen \leq view[h]
  /\ c.epoch \in c.seen..Newest
  /\ c.kind # "remove" => roster[c.seen][c.dev] = 0
  /\ c.kind = "remove" => roster[c.epoch][c.dev] > 0

(* A call that has read what it should. *)
LEMMA CallMade ==
  ASSUME LeafInv, NEW h \in Hosts, NEW c, ReadOK(c, h),
         op' = [op EXCEPT ![h] = c], UNCHANGED <<roster, view, agent, last>>
  PROVE  LeafInv'
  <1>1. op' \in [Hosts -> Calls]
    BY DEF ReadOK, LeafInv, CoreType
  <1>2. ASSUME NEW g \in Hosts, op'[g].kind # "none"
        PROVE  /\ op'[g].dev \in Devices
               /\ op'[g].seen \in 1..Newest /\ op'[g].seen \leq view[g]
               /\ op'[g].epoch \in op'[g].seen..Newest
               /\ op'[g].kind # "remove" => roster[op'[g].seen][op'[g].dev] = 0
               /\ op'[g].kind = "remove" => roster[op'[g].epoch][op'[g].dev] > 0
    <2>1. CASE g = h
      <3>1. op'[g] = c
        BY <2>1 DEF LeafInv, CoreType
      <3> QED
        BY <2>1, <3>1 DEF ReadOK
    <2>2. CASE g # h
      <3>1. op'[g] = op[g]
        BY <2>2 DEF LeafInv, CoreType
      <3> QED
        BY <1>2, <3>1 DEF LeafInv, Noted
    <2> QED
      BY <2>1, <2>2
  <1>3. Noted'
    BY <1>2 DEF Noted, Newest
  <1>4. Rested'
    BY DEF ReadOK, LeafInv, CoreType, Rested
  <1> QED
    BY <1>1, <1>3, <1>4 DEF LeafInv, CoreType, Newest

(* A call notes the epoch its host is at; admit_agent has just seen that   *)
(* the agent is not in the roster of that epoch, remove_agent that it is.  *)
LEMMA CallStep ==
  ASSUME LeafInv, NEW h \in Hosts, NEW d \in Devices, Admit(h) \/ Remove(h, d)
  PROVE  LeafInv'
  <1>1. UNCHANGED <<roster, view, agent, last>>
    BY DEF Admit, Remove, group, server
  <1>2. view[h] \in 1..Newest /\ view[h] \in Nat
    BY DEF LeafInv, CoreType
  <1>3. roster[view[h]] \in [Devices -> Nat]
    BY <1>2 DEF LeafInv, CoreType, Newest
  <1>4. CASE Admit(h)
    <2>1. agent \in Devices
      BY <1>4 DEF Admit, LeafInv, CoreType, Devices
    <2>2. roster[view[h]][agent] = 0
      BY <1>3, <1>4, <2>1 DEF Admit, Leaves
    <2> DEFINE c == [kind |-> "check", dev |-> agent, seen |-> view[h],
                     epoch |-> view[h]]
    <2>3. ReadOK(c, h)
      BY <1>2, <2>1, <2>2 DEF ReadOK, Calls, Devices
    <2>4. op' = [op EXCEPT ![h] = c]
      BY <1>4 DEF Admit, Call
    <2> HIDE DEF c
    <2> QED
      BY <1>1, <2>3, <2>4, CallMade
  <1>5. CASE Remove(h, d)
    <2>1. roster[view[h]][d] > 0
      BY <1>3, <1>5 DEF Remove, Leaves
    <2> DEFINE c == [kind |-> "remove", dev |-> d, seen |-> view[h],
                     epoch |-> view[h]]
    <2>2. ReadOK(c, h)
      BY <1>2, <2>1 DEF ReadOK, Calls, Devices
    <2>3. op' = [op EXCEPT ![h] = c]
      BY <1>5 DEF Remove, Call
    <2> HIDE DEF c
    <2> QED
      BY <1>1, <2>2, <2>3, CallMade
  <1> QED
    BY <1>4, <1>5

(* An admission notes the epoch: that of its look at the roster or a later *)
(* one.                                                                    *)
LEMMA NoteStep ==
  ASSUME LeafInv, NEW h \in Hosts, NoteEpoch(h)
  PROVE  LeafInv'
  <1>1. UNCHANGED <<roster, view, agent, last>>
    BY DEF NoteEpoch, group, server
  <1>2. /\ view[h] \in 1..Newest /\ view[h] \in Nat
        /\ op[h] \in Calls /\ op[h].kind = "check"
    BY DEF NoteEpoch, LeafInv, CoreType
  <1>3. PICK c \in Calls :
          /\ op' = [op EXCEPT ![h] = c]
          /\ c.kind = "admit" /\ c.epoch = view[h]
          /\ c.dev = op[h].dev /\ c.seen = op[h].seen
    <2> DEFINE b == [op[h] EXCEPT !.kind = "admit"]
               c == [b EXCEPT !.epoch = view[h]]
    <2>1. op' = [op EXCEPT ![h] = c]
      BY DEF NoteEpoch, LeafInv, CoreType
    <2>2. /\ b \in Calls /\ b.kind = "admit"
          /\ b.dev = op[h].dev /\ b.seen = op[h].seen
      BY <1>2 DEF Calls
    <2> HIDE DEF b
    <2>3. /\ c \in Calls /\ c.kind = "admit" /\ c.epoch = view[h]
          /\ c.dev = op[h].dev /\ c.seen = op[h].seen
      BY <1>2, <2>2 DEF Calls
    <2> HIDE DEF c
    <2> QED
      BY <2>1, <2>3
  <1>4. /\ op[h].dev \in Devices
        /\ op[h].seen \in 1..Newest /\ op[h].seen \leq view[h]
        /\ roster[op[h].seen][op[h].dev] = 0
    BY <1>2 DEF LeafInv, Noted
  <1>5. ReadOK(c, h)
    BY <1>2, <1>3, <1>4 DEF ReadOK
  <1> QED
    BY <1>1, <1>3, <1>5, CallMade

LEMMA IdleCall == Idle \in Calls /\ Idle.kind = "none"
  BY DEF Idle, Calls

(* A commit adds one roster. *)
LEMMA CommitStep ==
  ASSUME LeafInv, NEW h \in Hosts, NEW next \in [Devices -> Nat],
         Commit(h, next), UNCHANGED <<agent, last>>,
         \/ op' = op
         \/ op' = [op EXCEPT ![h] = Idle]
  PROVE  LeafInv'
  <1>1. /\ roster \in Seq([Devices -> Nat])
        /\ Newest = Len(roster) /\ Newest \in Nat \ {0}
    BY DEF LeafInv, CoreType, Newest
  <1>2. roster' = Append(roster, next)
    BY DEF Commit
  <1>3. /\ roster' \in Seq([Devices -> Nat])
        /\ Newest' = Newest + 1
        /\ \A e \in 1..Newest : roster'[e] = roster[e]
    BY <1>1, <1>2 DEF Newest
  <1>4. /\ view' \in [Hosts -> 1..(Newest + 1)]
        /\ \A g \in Hosts : view[g] \leq view'[g]
    BY <1>1 DEF Commit, LeafInv, CoreType
  <1>5. op' \in [Hosts -> Calls]
    BY IdleCall DEF LeafInv, CoreType
  <1>6. CoreType'
    BY <1>1, <1>3, <1>4, <1>5 DEF LeafInv, CoreType
  <1>7. Noted'
    <2>1. ASSUME NEW g \in Hosts, op'[g].kind # "none"
          PROVE  op'[g] = op[g]
      BY <2>1, IdleCall DEF LeafInv, CoreType
    <2>2. ASSUME NEW g \in Hosts, op'[g].kind # "none"
          PROVE  /\ op'[g].dev \in Devices
                 /\ op'[g].seen \in 1..(Newest + 1)
                 /\ op'[g].seen \leq view'[g]
                 /\ op'[g].epoch \in op'[g].seen..(Newest + 1)
                 /\ op'[g].kind # "remove" =>
                      roster'[op'[g].seen][op'[g].dev] = 0
                 /\ op'[g].kind = "remove" =>
                      roster'[op'[g].epoch][op'[g].dev] > 0
      <3>1. op'[g] = op[g] /\ op[g].kind # "none"
        BY <2>1, <2>2
      <3>2. /\ op[g].dev \in Devices
            /\ op[g].seen \in 1..Newest /\ op[g].seen \leq view[g]
            /\ op[g].epoch \in op[g].seen..Newest
            /\ op[g].kind # "remove" => roster[op[g].seen][op[g].dev] = 0
            /\ op[g].kind = "remove" => roster[op[g].epoch][op[g].dev] > 0
        BY <3>1 DEF LeafInv, Noted
      <3>3. op[g].epoch \in 1..Newest
        BY <1>1, <3>2
      <3>4. /\ roster'[op[g].seen] = roster[op[g].seen]
            /\ roster'[op[g].epoch] = roster[op[g].epoch]
        BY <1>3, <3>2, <3>3
      <3>5. view[g] \in Nat /\ view'[g] \in Nat /\ view[g] \leq view'[g]
        BY <1>1, <1>4 DEF LeafInv, CoreType
      <3> QED
        BY <1>1, <3>1, <3>2, <3>4, <3>5
    <2> QED
      BY <1>3, <2>2 DEF Noted
  <1>8. Rested'
    BY <1>5 DEF LeafInv, CoreType, Rested
  <1> QED
    BY <1>6, <1>7, <1>8 DEF LeafInv

LEMMA NewestRoster ==
  ASSUME LeafInv
  PROVE  roster[Newest] \in [Devices -> Nat]
  BY DEF LeafInv, CoreType, Newest

(* A commit that has nothing to do with the agent, and the sweep. *)
LEMMA OtherStep ==
  ASSUME LeafInv, NEW h \in Hosts, OtherCommit(h) \/ Sweep(h)
  PROVE  LeafInv'
  <1>1. UNCHANGED <<op, agent, last>>
    BY DEF OtherCommit, Sweep, server
  <1>2. CASE OtherCommit(h)
    BY <1>1, <1>2, NewestRoster, CommitStep DEF OtherCommit
  <1>3. CASE Sweep(h)
    <2>1. [d \in Devices |-> 0] \in [Devices -> Nat]
      OBVIOUS
    <2>2. Commit(h, [d \in Devices |-> 0])
      BY <1>3 DEF Sweep
    <2> QED
      BY <1>1, <2>1, <2>2, CommitStep
  <1> QED
    BY <1>2, <1>3

(* A call that ends without a commit. *)
LEMMA CallEnds ==
  ASSUME LeafInv, NEW h \in Hosts, op' = [op EXCEPT ![h] = Idle],
         UNCHANGED <<roster, view, agent, last>>
  PROVE  LeafInv'
  <1>1. op' \in [Hosts -> Calls]
    BY IdleCall DEF LeafInv, CoreType
  <1>2. \A g \in Hosts : op'[g].kind # "none" => op'[g] = op[g]
    BY DEF LeafInv, CoreType, Idle
  <1>3. Noted'
    BY <1>2 DEF LeafInv, Noted, Newest
  <1>4. Rested'
    BY DEF LeafInv, CoreType, Rested
  <1> QED
    BY <1>1, <1>3, <1>4 DEF LeafInv, CoreType, Newest

(* The commit of an admission or a removal is made at the epoch the call   *)
(* has noted: a removal finds the leaf it takes out, an admission that has *)
(* noted the epoch of its look finds no leaf.                              *)
LEMMA OwnCommit ==
  ASSUME LeafInv, NEW h \in Hosts, op[h].kind \in {"admit", "remove"},
         view[h] = op[h].epoch, view[h] = Newest
  PROVE  /\ op[h].dev \in Devices
         /\ NextRoster(h) \in [Devices -> Nat]
         /\ \A d \in Devices :
              \/ NextRoster(h)[d] \leq roster[Newest][d]
              \/ /\ op[h].kind = "admit" /\ d = op[h].dev
                 /\ NextRoster(h)[d] = roster[Newest][d] + 1
                 /\ op[h].seen < op[h].epoch \/ roster[Newest][d] = 0
  <1>1. PICK r \in [Devices -> Nat] : r = roster[Newest]
    BY NewestRoster
  <1>2. op[h].dev \in Devices
    BY DEF LeafInv, Noted
  <1>3. PICK n \in Nat :
          /\ NextRoster(h) = [r EXCEPT ![op[h].dev] = n]
          /\ op[h].kind = "admit" => n = r[op[h].dev] + 1
          /\ op[h].kind = "remove" => n < r[op[h].dev]
    <2>1. CASE op[h].kind = "admit"
      <3>1. NextRoster(h) = [r EXCEPT ![op[h].dev] = r[op[h].dev] + 1]
        BY <1>1, <2>1, Zenon DEF NextRoster
      <3>2. r[op[h].dev] + 1 \in Nat
        BY <1>1, <1>2
      <3> QED
        BY <2>1, <3>1, <3>2
    <2>2. CASE op[h].kind = "remove"
      <3>1. r[op[h].dev] > 0
        BY <1>1, <2>2 DEF LeafInv, Noted
      <3>2. op[h].kind # "admit"
        BY <2>2
      <3>3. NextRoster(h) = [r EXCEPT ![op[h].dev] = r[op[h].dev] - 1]
        BY <1>1, <3>2, Zenon DEF NextRoster
      <3>4. r[op[h].dev] - 1 \in Nat /\ r[op[h].dev] - 1 < r[op[h].dev]
        BY <1>1, <1>2, <3>1
      <3> QED
        BY <2>2, <3>3, <3>4
    <2> QED
      BY <2>1, <2>2
  <1>4. ASSUME op[h].kind = "admit", ~(op[h].seen < op[h].epoch)
        PROVE  r[op[h].dev] = 0
    <2>1. op[h].seen = Newest
      BY <1>4 DEF LeafInv, CoreType, Noted
    <2> QED
      BY <1>1, <1>4, <2>1 DEF LeafInv, Noted
  <1>5. NextRoster(h) \in [Devices -> Nat]
    BY <1>1, <1>3
  <1>6. ASSUME NEW d \in Devices, d # op[h].dev
        PROVE  NextRoster(h)[d] = r[d]
    BY <1>1, <1>3, <1>6
  <1>7. NextRoster(h)[op[h].dev] = n
    BY <1>1, <1>2, <1>3
  <1>8. \A d \in Devices : r[d] \in Nat
    BY <1>1
  <1> QED
    BY <1>1, <1>2, <1>3, <1>4, <1>5, <1>6, <1>7, <1>8

LEMMA OpCommitStep ==
  ASSUME LeafInv, NEW h \in Hosts, OpCommit(h)
  PROVE  LeafInv'
  <1>1. UNCHANGED <<agent, last>> /\ op' = [op EXCEPT ![h] = Idle]
    BY DEF OpCommit
  <1>2. CASE view[h] = op[h].epoch /\ Commit(h, NextRoster(h))
    <2>1. NextRoster(h) \in [Devices -> Nat]
      BY <1>2, OwnCommit DEF OpCommit, Commit
    <2> QED
      BY <1>1, <1>2, <2>1, CommitStep
  <1>3. CASE UNCHANGED group
    BY <1>1, <1>3, CallEnds DEF group
  <1> QED
    BY <1>2, <1>3 DEF OpCommit

LEMMA NextInv == LeafInv /\ [Next]_vars => LeafInv'
  <1> SUFFICES ASSUME LeafInv, [Next]_vars
               PROVE  LeafInv'
    OBVIOUS
  <1>1. ASSUME NEW h \in Hosts, ServiceStep(h)
        PROVE  LeafInv'
    BY <1>1, OutsideStep, OpCommitStep, NoteStep, ProcessStep
       DEF ServiceStep
  <1>2. ASSUME NEW h \in Hosts, AppStep(h)
        PROVE  LeafInv'
    BY <1>2, OutsideStep
  <1>3. ASSUME NEW h \in Hosts, OtherCommit(h) \/ Sweep(h)
        PROVE  LeafInv'
    BY <1>3, OtherStep
  <1>4. ASSUME NEW h \in Hosts, Admit(h)
        PROVE  LeafInv'
    <2>1. agent \in Devices
      BY <1>4 DEF Admit, LeafInv, CoreType, Devices
    <2> QED
      BY <1>4, <2>1, CallStep
  <1>5. ASSUME NEW h \in Hosts, NEW d \in Devices, Remove(h, d)
        PROVE  LeafInv'
    BY <1>5, CallStep
  <1>6. ASSUME NEW h \in Hosts, OpFails(h)
        PROVE  LeafInv'
    BY <1>6, CallEnds DEF OpFails, group, server
  <1>7. CASE ToggleWant
    <2>1. UNCHANGED <<roster, view, op, agent, last>>
      BY <1>7 DEF ToggleWant, group, server
    <2> QED
      BY <2>1, CoreKept
  <1>8. CASE AgentConnects \/ AgentDisconnects
    BY <1>8, AgentStep
  <1>9. CASE UNCHANGED vars
    BY <1>9, CoreKept DEF vars, group, server
  <1> QED
    BY <1>1, <1>2, <1>3, <1>4, <1>5, <1>6, <1>7, <1>8, <1>9 DEF Next

(* The last roster after a step. *)
LEMMA LastRoster ==
  ASSUME LeafInv, NEW h \in Hosts, NEW next, Commit(h, next)
  PROVE  roster'[Newest'] = next
  BY DEF Commit, Newest, LeafInv, CoreType

(* A step that gives a device a second leaf is a commit of such a host.    *)
LEMMA LeafStep ==
  ASSUME LeafInv, [Next]_vars, NEW d \in Devices,
         roster'[Newest'][d] > 1, roster'[Newest'][d] > roster[Newest][d]
  PROVE  SecondLeaf(d)
  <1>1. roster[Newest][d] \in Nat
    BY NewestRoster
  <1>2. roster' # roster
    BY <1>1 DEF Newest
  <1>3. ASSUME NEW h \in Hosts, OtherCommit(h) \/ Sweep(h)
        PROVE  FALSE
    <2>1. PICK next : Commit(h, next) /\ next[d] \in {0, roster[Newest][d]}
      BY <1>3 DEF OtherCommit, Sweep
    <2>2. roster'[Newest'][d] = next[d]
      BY <2>1, LastRoster
    <2> QED
      BY <1>1, <2>1, <2>2
  <1>4. ASSUME NEW h \in Hosts, OpCommit(h)
        PROVE  SecondLeaf(d)
    <2>1. /\ view[h] = op[h].epoch /\ view[h] = Newest
          /\ Commit(h, NextRoster(h))
          /\ op[h].kind \in {"admit", "remove"}
          /\ op'[h] = Idle
      BY <1>2, <1>4 DEF OpCommit, Commit, group, LeafInv, CoreType
    <2>2. roster'[Newest'][d] = NextRoster(h)[d]
      BY <2>1, LastRoster
    <2>3. /\ NextRoster(h) \in [Devices -> Nat]
          /\ \/ NextRoster(h)[d] \leq roster[Newest][d]
             \/ /\ op[h].kind = "admit" /\ d = op[h].dev
                /\ NextRoster(h)[d] = roster[Newest][d] + 1
                /\ op[h].seen < op[h].epoch \/ roster[Newest][d] = 0
      BY <2>1, OwnCommit
    <2>4. NextRoster(h)[d] \in Nat
      BY <2>3
    <2>5. /\ op[h].kind = "admit" /\ d = op[h].dev
          /\ op[h].seen < op[h].epoch
      BY <1>1, <2>2, <2>3, <2>4
    <2> QED
      BY <2>1, <2>5 DEF SecondLeaf
  <1>5. \A h \in Hosts : ServiceStep(h) => OpCommit(h)
    BY <1>2 DEF ServiceStep, RequestSend, RequestDone, StopSend, StopDone,
                NoteEpoch, ProcessCommit, group
  <1>6. \A h \in Hosts : ~AppStep(h)
    BY <1>2 DEF AppStep, Evaluate, TeardownCheck, Summon, group
  <1>7. \A h \in Hosts : ~Admit(h) /\ ~OpFails(h) /\ \A x : ~Remove(h, x)
    BY <1>2 DEF Admit, OpFails, Remove, group
  <1>8. ~ToggleWant /\ ~AgentConnects /\ ~AgentDisconnects /\ ~UNCHANGED vars
    BY <1>2 DEF ToggleWant, AgentConnects, AgentDisconnects, vars, group
  <1> QED
    BY <1>3, <1>4, <1>5, <1>6, <1>7, <1>8 DEF Next

(* However many hosts admit the same agent at the same time, it gets a     *)
(* second leaf only from a host that noted its epoch after a commit had    *)
(* moved it on from its look at the roster: the check of the epoch under   *)
(* the lock of the group and the server's refusal of a stale commit rule   *)
(* out the rest (admit_agent).                                             *)
THEOREM AgentOneLeaf == Spec => OneLeaf
  <1>1. LeafInv /\ [Next]_vars =>
          [\A d \in Devices :
             roster'[Newest'][d] > 1 /\ roster'[Newest'][d] > roster[Newest][d]
               => SecondLeaf(d)]_vars
    BY LeafStep
  <1> QED
    BY <1>1, InitInv, NextInv, PTL DEF Spec, OneLeaf

-----------------------------------------------------------------------------
(* Types.  Without the places of the group, the calls and the agent, which *)
(* are in CoreType.                                                        *)
RestType ==
  /\ wanted \in BOOLEAN /\ requested \in BOOLEAN
  /\ agent \in {0, last}
  /\ bundled \subseteq Devices
  /\ Newest \leq MaxEpoch
  /\ awaiting \subseteq Hosts
  /\ ask \in [Hosts -> {"idle", "wait", "sent"}]
  /\ stop \in [Hosts -> {"idle", "wait", "cancel", "sent"}]
  /\ \A h \in Hosts : op[h].epoch \leq Newest
  /\ due \subseteq Hosts /\ inflight \subseteq Hosts
  /\ teardown \in [Hosts -> 0..MaxTeardown]

LEMMA InitRest == Init => RestType
  <1> SUFFICES ASSUME Init
               PROVE  RestType
    OBVIOUS
  <1>1. Newest = 1
    BY DEF Init, Newest
  <1>2. \A h \in Hosts : op[h].epoch = 0
    BY DEF Init, Idle
  <1>3. /\ [h \in Hosts |-> "idle"] \in [Hosts -> {"idle", "wait", "sent"}]
        /\ [h \in Hosts |-> "idle"]
             \in [Hosts -> {"idle", "wait", "cancel", "sent"}]
    OBVIOUS
  <1>4. [h \in Hosts |-> 0] \in [Hosts -> 0..MaxTeardown]
    <2>1. 0 \in 0..MaxTeardown
      OBVIOUS
    <2> QED
      BY <2>1
  <1>5. /\ wanted = FALSE /\ requested = FALSE /\ agent = 0 /\ last = 0
        /\ bundled = {} /\ awaiting = {} /\ due = {} /\ inflight = {}
    BY DEF Init
  <1>6. /\ ask = [h \in Hosts |-> "idle"] /\ stop = [h \in Hosts |-> "idle"]
        /\ teardown = [h \in Hosts |-> 0]
    BY DEF Init
  <1>7. 1 \leq MaxEpoch /\ \A h \in Hosts : op[h].epoch \leq 1
    BY <1>2
  <1> QED
    BY <1>1, <1>3, <1>4, <1>5, <1>6, <1>7 DEF RestType

LEMMA OutsideTypes ==
  ASSUME LeafInv, RestType, NEW h \in Hosts,
         \/ RequestSend(h) \/ RequestDone(h) \/ StopSend(h) \/ StopDone(h)
         \/ Evaluate(h) \/ TeardownCheck(h) \/ Summon(h) \/ ToggleWant
  PROVE  RestType'
  <1>1. UNCHANGED <<bundled, roster, agent, last, op>>
    BY DEF RequestSend, RequestDone, StopSend, StopDone, Evaluate,
           TeardownCheck, Summon, ToggleWant, group, server
  <1>2. /\ wanted' \in BOOLEAN /\ requested' \in BOOLEAN
        /\ awaiting' \subseteq Hosts
        /\ ask' \in [Hosts -> {"idle", "wait", "sent"}]
        /\ stop' \in [Hosts -> {"idle", "wait", "cancel", "sent"}]
        /\ due' \subseteq Hosts /\ inflight' \subseteq Hosts
        /\ teardown' \in [Hosts -> 0..MaxTeardown]
    <2>1. CASE RequestSend(h)
      BY <2>1 DEF RequestSend, RestType, demand, app
    <2>2. CASE RequestDone(h)
      BY <2>2 DEF RequestDone, RestType, demand, server, app
    <2>3. CASE StopSend(h)
      BY <2>3 DEF StopSend, RestType, demand, app
    <2>4. CASE StopDone(h)
      BY <2>4 DEF StopDone, RestType, demand, server, app
    <2>5. CASE Evaluate(h)
      <3>1. CASE EvaluateWanted(h)
        BY <2>5, <3>1 DEF Evaluate, EvaluateWanted, RestType, demand, server
      <3>2. CASE EvaluateUnwanted(h)
        <4>1. teardown' \in [Hosts -> 0..MaxTeardown]
          <5>1. \/ UNCHANGED teardown
                \/ \E n \in {0, 1, teardown[h]} :
                     teardown' = [teardown EXCEPT ![h] = n]
            BY <3>2 DEF EvaluateUnwanted
          <5> QED
            BY <5>1 DEF RestType
        <4>2. stop' \in [Hosts -> {"idle", "wait", "cancel", "sent"}]
          BY <3>2 DEF EvaluateUnwanted, Stop, RestType
        <4>3. inflight' \subseteq Hosts
          BY <3>2 DEF EvaluateUnwanted, RestType
        <4> QED
          BY <2>5, <4>1, <4>2, <4>3 DEF Evaluate, RestType, demand, server
      <3> QED
        BY <2>5, <3>1, <3>2 DEF Evaluate
    <2>6. CASE TeardownCheck(h)
      <3>1. teardown' \in [Hosts -> 0..MaxTeardown]
        <4>1. teardown[h] \in 0..MaxTeardown
          BY DEF RestType
        <4>2. \E n \in 0..MaxTeardown :
                teardown' = [teardown EXCEPT ![h] = n]
          <5>1. CASE agent # 0 /\ teardown[h] < MaxTeardown
            <6>1. teardown' = [teardown EXCEPT ![h] = teardown[h] + 1]
              BY <2>6, <5>1 DEF TeardownCheck
            <6>2. teardown[h] + 1 \in 0..MaxTeardown
              BY <4>1, <5>1
            <6> QED
              BY <6>1, <6>2
          <5>2. CASE ~(agent # 0 /\ teardown[h] < MaxTeardown)
            <6>1. teardown' = [teardown EXCEPT ![h] = 0]
              BY <2>6, <5>2 DEF TeardownCheck
            <6>2. 0 \in 0..MaxTeardown
              OBVIOUS
            <6> QED
              BY <6>1, <6>2
          <5> QED
            BY <5>1, <5>2
        <4> QED
          BY <4>2 DEF RestType
      <3>2. stop' \in [Hosts -> {"idle", "wait", "cancel", "sent"}]
        BY <2>6 DEF TeardownCheck, Stop, RestType
      <3> QED
        BY <2>6, <3>1, <3>2 DEF TeardownCheck, RestType, demand, server
    <2>7. CASE Summon(h)
      BY <2>7 DEF Summon, Request, RestType, server
    <2>8. CASE ToggleWant
      BY <2>8 DEF ToggleWant, RestType, server, service
    <2> QED
      BY <2>1, <2>2, <2>3, <2>4, <2>5, <2>6, <2>7, <2>8
  <1> QED
    BY <1>1, <1>2 DEF RestType, Newest

LEMMA AgentTypes ==
  ASSUME LeafInv, RestType, AgentConnects \/ AgentDisconnects
  PROVE  RestType'
  BY DEF AgentConnects, AgentDisconnects, RestType, LeafInv, CoreType, demand,
         group, service, Newest

(* What a step of the group leaves alone. *)
LEMMA GroupTypes ==
  ASSUME RestType, UNCHANGED <<demand, requested, agent, last, service, app>>,
         bundled' \subseteq Devices, Newest' \leq MaxEpoch,
         \A h \in Hosts : op'[h].epoch \leq Newest'
  PROVE  RestType'
  BY DEF RestType, demand, service, app

LEMMA CommitTypes ==
  ASSUME LeafInv, RestType, NEW h \in Hosts, NEW next, Commit(h, next)
  PROVE  /\ Newest' = Newest + 1
         /\ Newest' \leq MaxEpoch
         /\ \A g \in Hosts : op[g].epoch \leq Newest'
  <1>1. Newest' = Newest + 1
    BY DEF Commit, Newest, LeafInv, CoreType
  <1>2. \A g \in Hosts : op[g].epoch \in Nat
    BY DEF LeafInv, CoreType, Calls
  <1> QED
    BY <1>1, <1>2 DEF Commit, RestType, LeafInv, CoreType

LEMMA CallTypes ==
  ASSUME LeafInv, RestType, NEW h \in Hosts
  PROVE  /\ \A d \in Devices : Admit(h) \/ Remove(h, d) => RestType'
         /\ NoteEpoch(h) => RestType'
         /\ OtherCommit(h) \/ Sweep(h) \/ ProcessCommit(h) => RestType'
         /\ OpFails(h) \/ OpCommit(h) => RestType'
  <1>a. /\ op \in [Hosts -> Calls]
        /\ Newest \in Nat /\ Newest \leq MaxEpoch
        /\ view[h] \in 1..Newest
        /\ \A g \in Hosts : op[g].epoch \leq Newest
        /\ bundled \subseteq Devices
    BY DEF LeafInv, CoreType, RestType
  <1>b. Idle.epoch = 0
    BY DEF Idle
  <1>1. ASSUME NEW d \in Devices, Admit(h) \/ Remove(h, d)
        PROVE  RestType'
    <2>1. \E c : c.epoch \leq Newest /\ op' = [op EXCEPT ![h] = c]
      <3>1. CASE Admit(h)
        <4>1. /\ op' = [op EXCEPT ![h] = [kind |-> "check", dev |-> agent,
                                          seen |-> view[h], epoch |-> view[h]]]
              /\ [kind |-> "check", dev |-> agent, seen |-> view[h],
                  epoch |-> view[h]].epoch \leq Newest
          BY <1>a, <3>1 DEF Admit, Call
        <4> QED
          BY <4>1, Zenon
      <3>2. CASE Remove(h, d)
        <4>1. /\ op' = [op EXCEPT ![h] = [kind |-> "remove", dev |-> d,
                                          seen |-> view[h], epoch |-> view[h]]]
              /\ [kind |-> "remove", dev |-> d, seen |-> view[h],
                  epoch |-> view[h]].epoch \leq Newest
          BY <1>a, <3>2 DEF Remove, Call
        <4> QED
          BY <4>1, Zenon
      <3> QED
        BY <1>1, <3>1, <3>2
    <2>2. UNCHANGED <<demand, server, group, service, app>>
      BY <1>1 DEF Admit, Remove
    <2>3. \A g \in Hosts : op'[g].epoch \leq Newest
      BY <1>a, <2>1
    <2> QED
      BY <1>a, <2>2, <2>3, GroupTypes DEF server, group, Newest
  <1>2. ASSUME OtherCommit(h) \/ Sweep(h) \/ ProcessCommit(h)
        PROVE  RestType'
    <2>1. UNCHANGED <<demand, server, service, op, app>>
      BY <1>2 DEF OtherCommit, Sweep, ProcessCommit
    <2>2. CASE ProcessCommit(h)
      BY <1>a, <2>1, <2>2, GroupTypes DEF ProcessCommit, server, Newest
    <2>3. CASE OtherCommit(h) \/ Sweep(h)
      <3>1. \E next : Commit(h, next)
        BY <2>3 DEF OtherCommit, Sweep
      <3> QED
        BY <1>a, <2>1, <3>1, CommitTypes, GroupTypes DEF server
    <2> QED
      BY <1>2, <2>2, <2>3
  <1>3. ASSUME OpCommit(h)
        PROVE  RestType'
    <2>1. /\ UNCHANGED <<demand, requested, agent, last, service, app>>
          /\ op' = [op EXCEPT ![h] = Idle]
      BY <1>3 DEF OpCommit
    <2>2. CASE Commit(h, NextRoster(h)) /\ PushBundle(h)
      <3>1. bundled' \subseteq Devices
        BY <1>3, <1>a, <2>2 DEF OpCommit, PushBundle, LeafInv, Noted
      <3>2. /\ Newest' = Newest + 1 /\ Newest' \leq MaxEpoch
            /\ \A g \in Hosts : op[g].epoch \leq Newest'
        BY <2>2, CommitTypes
      <3>3. \A g \in Hosts : op'[g].epoch \leq Newest'
        BY <1>a, <1>b, <2>1, <3>2
      <3> QED
        BY <2>1, <3>1, <3>2, <3>3, GroupTypes
    <2>3. CASE UNCHANGED <<group, bundled, errors>>
      <3>1. \A g \in Hosts : op'[g].epoch \leq Newest
        BY <1>a, <1>b, <2>1
      <3> QED
        BY <1>a, <2>1, <2>3, <3>1, GroupTypes DEF group, Newest
    <2> QED
      BY <1>3, <2>2, <2>3 DEF OpCommit
  <1>4. ASSUME OpFails(h)
        PROVE  RestType'
    <2>1. \A g \in Hosts : op'[g].epoch \leq Newest
      BY <1>a, <1>b, <1>4 DEF OpFails
    <2> QED
      BY <1>a, <1>4, <2>1, GroupTypes DEF OpFails, server, group, Newest
  <1>5. ASSUME NoteEpoch(h)
        PROVE  RestType'
    <2>1. UNCHANGED <<demand, server, group, service, app>>
      BY <1>5 DEF NoteEpoch
    <2>2. \A g \in Hosts : op'[g].epoch \leq Newest
      <3>1. op' = [op EXCEPT ![h].kind = "admit", ![h].epoch = view[h]]
        BY <1>5 DEF NoteEpoch
      <3>2. op'[h].epoch = view[h] /\ \A g \in Hosts : g # h => op'[g] = op[g]
        BY <1>a, <3>1 DEF Calls
      <3> QED
        BY <1>a, <3>2
    <2> QED
      BY <1>a, <2>1, <2>2, GroupTypes DEF server, group, Newest
  <1> QED
    BY <1>1, <1>2, <1>3, <1>4, <1>5

LEMMA NextRest == LeafInv /\ RestType /\ [Next]_vars => RestType'
  <1> SUFFICES ASSUME LeafInv, RestType, [Next]_vars
               PROVE  RestType'
    OBVIOUS
  <1>1. ASSUME NEW h \in Hosts, ServiceStep(h) \/ AppStep(h)
        PROVE  RestType'
    BY <1>1, OutsideTypes, CallTypes DEF ServiceStep, AppStep
  <1>2. ASSUME NEW h \in Hosts, OtherCommit(h) \/ Sweep(h)
        PROVE  RestType'
    BY <1>2, CallTypes
  <1>3. ASSUME NEW h \in Hosts, Admit(h)
        PROVE  RestType'
    <2>1. agent \in Devices
      BY <1>3 DEF Admit, LeafInv, CoreType, Devices
    <2> QED
      BY <1>3, <2>1, CallTypes
  <1>4. ASSUME NEW h \in Hosts, NEW d \in Devices, Remove(h, d)
        PROVE  RestType'
    BY <1>4, CallTypes
  <1>5. ASSUME NEW h \in Hosts, OpFails(h)
        PROVE  RestType'
    BY <1>5, CallTypes
  <1>6. CASE ToggleWant
    BY <1>6 DEF ToggleWant, RestType, server, group, service, Newest
  <1>7. CASE AgentConnects \/ AgentDisconnects
    BY <1>7, AgentTypes
  <1>8. CASE UNCHANGED vars
    BY <1>8 DEF vars, demand, server, group, service, app, RestType, Newest
  <1> QED
    BY <1>1, <1>2, <1>3, <1>4, <1>5, <1>6, <1>7, <1>8 DEF Next

LEMMA Typed == Spec => [](LeafInv /\ RestType)
  BY InitInv, InitRest, NextInv, NextRest, PTL DEF Spec

LEMMA AllTypes == LeafInv /\ RestType => TypeOK
  <1> SUFFICES ASSUME LeafInv, RestType
               PROVE  TypeOK
    OBVIOUS
  <1>1. op \in [Hosts -> [kind : {"none", "check", "admit", "remove"},
                          dev : 0..MaxAgents, seen : 0..Newest,
                          epoch : 0..Newest]]
    <2>1. ASSUME NEW h \in Hosts
          PROVE  op[h] \in [kind : {"none", "check", "admit", "remove"},
                            dev : 0..MaxAgents, seen : 0..Newest,
                            epoch : 0..Newest]
      <3>1. op[h] \in Calls /\ op[h].epoch \leq Newest /\ Newest \in Nat
        BY DEF LeafInv, CoreType, RestType
      <3>2. op[h].seen \leq Newest
        BY <3>1 DEF LeafInv, CoreType, Rested, Noted, Idle
      <3> QED
        BY <3>1, <3>2 DEF Calls
    <2> QED
      BY <2>1 DEF LeafInv, CoreType
  <1> QED
    BY <1>1 DEF TypeOK, LeafInv, CoreType, RestType

(* Every host is at an epoch of the group, the agent in the LiveKit room   *)
(* is the last that came, and only devices of agents get the bundle.       *)
THEOREM CaptionsTypeCorrect == Spec => []TypeOK
  BY Typed, AllTypes, PTL
=============================================================================
