-------------------------- MODULE WaitingRoom_proofs --------------------------
(***************************************************************************)
(* The waiting room for any number of hosts, requests and failures, and    *)
(* however the guest's calls overlap: the hosts' races leave the guest's   *)
(* device one leaf, no host drops a request that can still be answered,    *)
(* and no waiting call sleeps through what it waits for.                   *)
(*                                                                         *)
(* The first rests on the server's order of commits: a host adds a leaf on *)
(* top of the newest roster only, the one it has checked.  The second      *)
(* rests on RemovedOver: a removal is on its way only for a request that   *)
(* is over, so what drops a request from a host's map is never early.  The *)
(* third is inductive once the types are known.                            *)
(***************************************************************************)
EXTENDS WaitingRoom, TLAPS

USE WaitingRoomAssumption

-----------------------------------------------------------------------------
(* One leaf. *)

LeafInv ==
  /\ roster \in Seq(Seq(Requests)) /\ Newest \in Nat \ {0}
  /\ view \in [Hosts -> 1..Newest]
  /\ OneLeaf

(* The actions that leave the group alone. *)
AskStep(r) ==
  \/ Start(r) \/ Poll(r) \/ Info(r) \/ Refresh(r)
  \/ Post(r) \/ Posted(r) \/ Noted(r) \/ Connect(r) \/ Created(r)

WaitStep(r) == Look(r) \/ Join(r) \/ Wake(r) \/ WaitTimeout(r)

GuestStep ==
  \/ HostStarts
  \/ \E r \in Requests : AskStep(r) \/ Rejected(r) \/ WaitStep(r)
  \/ Leave \/ CancelDelete \/ CancelReset
  \/ Welcome \/ Decision \/ RejectClear

LEMMA GuestGroup ==
  ASSUME GuestStep
  PROVE  UNCHANGED <<roster, view, pend>>
  <1>1. ASSUME NEW r \in Requests, AskStep(r)
        PROVE  UNCHANGED <<roster, view, pend>>
    BY <1>1 DEF AskStep, Start, Poll, Info, Refresh, Post, Posted, Noted, Connect,
       Created, server, host
  <1>2. ASSUME NEW r \in Requests, Rejected(r) \/ WaitStep(r)
        PROVE  UNCHANGED <<roster, view, pend>>
    BY <1>2 DEF Rejected, WaitStep, Look, Join, Wake, WaitTimeout, server, host
  <1>3. CASE HostStarts \/ Leave \/ CancelDelete \/ CancelReset \/ Welcome
             \/ Decision \/ RejectClear
    BY <1>3 DEF HostStarts, Leave, CancelDelete, CancelReset, Welcome, Decision,
       RejectClear, server, host
  <1> QED
    BY <1>1, <1>2, <1>3 DEF GuestStep

LEMMA LeafKept ==
  ASSUME LeafInv, UNCHANGED <<roster, view>>
  PROVE  LeafInv'
  BY DEF LeafInv, OneLeaf, Newest

(* A commit on top of the newest roster. *)
LEMMA LeafCommit ==
  ASSUME LeafInv, NEW h \in Hosts, NEW s \in Seq(Requests), Len(s) <= 1,
         view[h] = Newest,
         roster' = Append(roster, s), view' \in {view, [view EXCEPT ![h] = @ + 1]}
  PROVE  LeafInv'
  <1>1. roster' \in Seq(Seq(Requests)) /\ Newest' = Newest + 1
    BY DEF LeafInv, Newest
  <1>2. roster'[Newest'] = s
    BY <1>1 DEF LeafInv, Newest
  <1>3. view' \in [Hosts -> 1..Newest']
    BY <1>1 DEF LeafInv
  <1> QED
    BY <1>1, <1>2, <1>3 DEF LeafInv, OneLeaf

LEMMA LeafAdmit ==
  ASSUME LeafInv, NEW h \in Hosts, NEW r \in Requests, Admit(h, r)
  PROVE  LeafInv'
  <1>1. CASE UNCHANGED <<roster, view>>
    BY <1>1, LeafKept
  <1>2. CASE /\ roster[view[h]] = <<>> /\ view[h] = Newest
             /\ roster' = Append(roster, Append(roster[Newest], r))
             /\ view' \in {view, [view EXCEPT ![h] = @ + 1]}
    <2>1. roster[Newest] \in Seq(Requests) /\ Len(roster[Newest]) = 0
      BY <1>2 DEF LeafInv, Newest
    <2>2. Append(roster[Newest], r) \in Seq(Requests)
          /\ Len(Append(roster[Newest], r)) <= 1
      BY <2>1
    <2> QED
      BY <1>2, <2>2, LeafCommit
  <1> QED
    BY <1>1, <1>2 DEF Admit, Add, server

LEMMA LeafSweep ==
  ASSUME LeafInv, NEW h \in Hosts, Sweep(h)
  PROVE  LeafInv'
  <1>1. <<>> \in Seq(Requests) /\ Len(<<>>) <= 1
    OBVIOUS
  <1> QED
    BY <1>1, LeafCommit DEF Sweep

LEMMA LeafProcess ==
  ASSUME LeafInv, NEW h \in Hosts, ProcessCommit(h)
  PROVE  LeafInv'
  <1>1. roster' = roster /\ view' = [view EXCEPT ![h] = @ + 1] /\ view[h] < Newest
    BY DEF ProcessCommit, server
  <1> QED
    BY <1>1 DEF LeafInv, OneLeaf, Newest

LEMMA LeafNext ==
  ASSUME LeafInv, [Next]_vars
  PROVE  LeafInv'
  <1>1. CASE GuestStep
    BY <1>1, GuestGroup, LeafKept
  <1>2. ASSUME NEW h \in Hosts, Added(h) \/ Removed(h)
        PROVE  LeafInv'
    BY <1>2, LeafKept DEF Added, Removed
  <1>3. ASSUME NEW h \in Hosts, NEW r \in Requests, Reject(h, r)
        PROVE  LeafInv'
    BY <1>3, LeafKept DEF Reject
  <1>4. CASE UNCHANGED vars
    BY <1>4, LeafKept DEF vars, server, host
  <1> QED
    BY <1>1, <1>2, <1>3, <1>4, LeafAdmit, LeafSweep, LeafProcess DEF Next, GuestStep,
       AskStep, WaitStep

LEMMA LeafInit == Init => LeafInv
  <1> SUFFICES ASSUME Init
               PROVE  LeafInv
    OBVIOUS
  <1>1. <<>> \in Seq(Requests)
    OBVIOUS
  <1>2. roster = << <<>> >> /\ Newest = 1
    BY DEF Init, Newest
  <1> QED
    BY <1>1, <1>2 DEF Init, LeafInv, OneLeaf

(* However many hosts race to admit however many requests of the guest,    *)
(* its device has one leaf at most (admit_waiting_room_join_requests).     *)
THEOREM GuestOneLeaf == Spec => []OneLeaf
  <1>1. LeafInv => OneLeaf
    BY DEF LeafInv
  <1> QED
    BY <1>1, LeafInit, LeafNext, PTL DEF Spec

-----------------------------------------------------------------------------
(* The types. *)

Message == [k : {"added", "removed"}, r : Requests]
NetMessage == [k : {"welcome", "reject"}, r : Requests]
Statuses == {"none", "pending", "admitted", "rejected", "cancelled"}

ServerType ==
  /\ started \in BOOLEAN
  /\ status \in [Requests -> Statuses]
  /\ net \in Seq(NetMessage)
  /\ fan \in [Hosts -> Seq(Message)]
  /\ pend \in [Hosts -> SUBSET Requests]
  /\ rare \in 0..MaxRare

AppType ==
  /\ phase \in {"new", "notStarted", "awaiting", "left", "rejected", "failed", "in"}
  /\ bid \in Ids /\ opener \in Ids /\ rej \in Ids /\ appId \in Ids
  /\ create \in [Requests -> {"idle", "start", "poll", "auth", "post", "posted",
                              "noted", "connect", "created", "done"}]
  /\ cancel \in {"idle", "delete", "reset"}
  /\ told \subseteq Requests

GuestType ==
  /\ kp \subseteq Requests
  /\ mls \in {"Pending", "Waiting", "Success"}
  /\ welcome \in Ids /\ pending \in Ids
  /\ conn \in BOOLEAN /\ woken \in [Requests -> BOOLEAN]
  /\ wait \in [Requests -> {"none", "look", "sleep", "join"}]
  /\ taken \in [Requests -> Ids]
  /\ \A r \in Requests : wait[r] = "join" <=> taken[r] # 0
  /\ \A r \in Requests : wait[r] = "none" \/ create[r] = "done"

Types == LeafInv /\ ServerType /\ AppType /\ GuestType

LEMMA IdsType == 0 \in Ids /\ \A r \in Requests : r \in Ids /\ r # 0
  BY DEF Ids, Requests

LEMMA RareType ==
  ASSUME ServerType, Rare
  PROVE  rare' \in 0..MaxRare
  BY DEF ServerType, Rare

(* The next message to the guest. *)
LEMMA NetHead ==
  ASSUME ServerType, net # <<>>
  PROVE  Head(net) \in NetMessage /\ Head(net).r \in Requests /\ Tail(net) \in Seq(NetMessage)
  <1>1. Head(net) \in NetMessage /\ Tail(net) \in Seq(NetMessage)
    BY DEF ServerType
  <1> QED
    BY <1>1 DEF NetMessage

LEMMA FanType ==
  ASSUME ServerType, NEW m \in Message, Fan(m)
  PROVE  fan' \in [Hosts -> Seq(Message)]
  BY DEF ServerType, Fan

LEMMA OverType ==
  ASSUME ServerType, NEW r \in Requests, NEW how \in Statuses, Over(r, how)
  PROVE  status' \in [Requests -> Statuses] /\ fan' \in [Hosts -> Seq(Message)]
  <1>1. CASE status[r] = "pending"
    <2>1. [k |-> "removed", r |-> r] \in Message
      BY DEF Message
    <2> QED
      BY <1>1, <2>1, FanType DEF Over, ServerType
  <1>2. CASE status[r] # "pending"
    BY <1>2 DEF Over, ServerType
  <1> QED
    BY <1>1, <1>2

LEMMA ServerGuest ==
  ASSUME Types, GuestStep
  PROVE  ServerType'
  <1>1. UNCHANGED pend
    BY GuestGroup
  <1>2. CASE UNCHANGED <<started, status, net, fan>> /\ (UNCHANGED rare \/ Rare)
    BY <1>1, <1>2, RareType DEF Types, ServerType
  <1>3. ASSUME NEW r \in Requests, Refresh(r)
        PROVE  ServerType'
    <2>1. net' \in {net, <<>>} /\ UNCHANGED <<started, status, fan>>
          /\ (UNCHANGED rare \/ Rare)
      BY <1>3 DEF Refresh
    <2>2. <<>> \in Seq(NetMessage)
      OBVIOUS
    <2> QED
      BY <1>1, <2>1, <2>2, RareType DEF Types, ServerType
  <1>4. ASSUME NEW r \in Requests, Post(r)
        PROVE  ServerType'
    <2>1. UNCHANGED <<started, net>> /\ (UNCHANGED rare \/ Rare)
      BY <1>4 DEF Post
    <2>2. CASE UNCHANGED <<status, fan>>
      BY <1>1, <2>1, <2>2, RareType DEF Types, ServerType
    <2>3. CASE /\ status' = [status EXCEPT ![r] = "pending"]
               /\ Fan([k |-> "added", r |-> r])
      <3>1. [k |-> "added", r |-> r] \in Message
        BY DEF Message
      <3>2. fan' \in [Hosts -> Seq(Message)]
        BY <2>3, <3>1, FanType DEF Types
      <3>3. status' \in [Requests -> Statuses]
        BY <2>3 DEF Types, ServerType, Statuses
      <3> QED
        BY <1>1, <2>1, <3>2, <3>3, RareType DEF Types, ServerType
    <2> QED
      BY <1>4, <2>2, <2>3 DEF Post
  <1>5. CASE CancelDelete
    <2>1. UNCHANGED <<started, net>> /\ (UNCHANGED rare \/ Rare)
      BY <1>5 DEF CancelDelete
    <2>2. CASE UNCHANGED <<status, fan>>
      BY <1>1, <2>1, <2>2, RareType DEF Types, ServerType
    <2>3. ASSUME NEW r \in Requests, Over(r, "cancelled")
          PROVE  ServerType'
      <3>1. "cancelled" \in Statuses
        BY DEF Statuses
      <3> QED
        BY <1>1, <2>1, <2>3, <3>1, RareType, OverType DEF Types, ServerType
    <2> QED
      BY <1>5, <2>2, <2>3 DEF CancelDelete
  <1>6. CASE CancelReset
    <2>1. <<>> \in Seq(NetMessage)
      OBVIOUS
    <2> QED
      BY <1>1, <1>6, <2>1 DEF CancelReset, Types, ServerType
  <1>7. CASE Welcome \/ Decision
    BY <1>1, <1>7, NetHead DEF Welcome, Decision, Types, ServerType
  <1>8. CASE HostStarts
    BY <1>1, <1>8 DEF HostStarts, Types, ServerType
  <1>9. ASSUME NEW r \in Requests,
               \/ Start(r) \/ Poll(r) \/ Info(r) \/ Posted(r) \/ Noted(r) \/ Connect(r)
               \/ Created(r) \/ Rejected(r) \/ WaitStep(r)
        PROVE  ServerType'
    BY <1>2, <1>9 DEF Start, Poll, Info, Posted, Noted, Connect, Created, Rejected,
       WaitStep, Look, Join, Wake, WaitTimeout, server
  <1>10. CASE Leave \/ RejectClear
    BY <1>2, <1>10 DEF Leave, RejectClear, server
  <1> QED
    BY <1>3, <1>4, <1>5, <1>6, <1>7, <1>8, <1>9, <1>10 DEF GuestStep, AskStep

LEMMA ServerHost ==
  ASSUME Types, NEW h \in Hosts,
         \/ Added(h) \/ Removed(h) \/ Sweep(h) \/ ProcessCommit(h)
         \/ \E r \in Requests : Reject(h, r) \/ Admit(h, r)
  PROVE  ServerType'
  <1>1. CASE Added(h) \/ Removed(h)
    <2>1. Head(fan[h]) \in Message /\ Tail(fan[h]) \in Seq(Message)
      BY <1>1 DEF Added, Removed, Types, ServerType
    <2>2. Head(fan[h]).r \in Requests
      BY <2>1 DEF Message
    <2>3. UNCHANGED <<started, status, net>> /\ (UNCHANGED rare \/ Rare)
      BY <1>1 DEF Added, Removed
    <2>4. fan' \in [Hosts -> Seq(Message)]
      BY <1>1, <2>1 DEF Added, Removed, Types, ServerType
    <2>5. pend' \in [Hosts -> SUBSET Requests]
      <3>1. pend \in [Hosts -> SUBSET Requests]
        BY DEF Types, ServerType
      <3>2. \/ pend' = pend
            \/ pend' = [pend EXCEPT ![h] = @ \union {Head(fan[h]).r}]
            \/ pend' = [pend EXCEPT ![h] = @ \ {Head(fan[h]).r}]
        BY <1>1 DEF Added, Removed
      <3> QED
        BY <2>2, <3>1, <3>2
    <2> QED
      BY <2>3, <2>4, <2>5, RareType DEF Types, ServerType
  <1>2. CASE Sweep(h) \/ ProcessCommit(h)
    BY <1>2, RareType DEF Sweep, ProcessCommit, server, Types, ServerType
  <1>3. ASSUME NEW r \in Requests, Reject(h, r) \/ Admit(h, r)
        PROVE  ServerType'
    <2>1. /\ pend' \in [Hosts -> SUBSET Requests]
          /\ UNCHANGED started /\ (UNCHANGED rare \/ Rare)
      BY <1>3 DEF Reject, Admit, Add, Forget, server, Types, ServerType
    <2>2. CASE UNCHANGED <<status, net, fan>>
      BY <2>1, <2>2, RareType DEF Types, ServerType
    <2>3. ASSUME NEW how \in {"rejected", "admitted"}, Over(r, how),
                 NEW m \in NetMessage, net' = Append(net, m)
          PROVE  ServerType'
      <3>1. how \in Statuses
        BY DEF Statuses
      <3> QED
        BY <2>1, <2>3, <3>1, RareType, OverType DEF Types, ServerType
    <2>4. [k |-> "reject", r |-> r] \in NetMessage /\ [k |-> "welcome", r |-> r] \in NetMessage
      BY DEF NetMessage
    <2> QED
      BY <1>3, <2>2, <2>3, <2>4 DEF Reject, Admit, Add, server
  <1> QED
    BY <1>1, <1>2, <1>3

LEMMA AppAsk ==
  ASSUME Types, NEW r \in Requests, AskStep(r)
  PROVE  AppType'
  <1> USE IdsType DEF Types, AppType
  <1>1. CASE Start(r)
    BY <1>1 DEF Start, Begin
  <1>2. CASE Poll(r)
    BY <1>2 DEF Poll, Begin
  <1>3. CASE Info(r)
    BY <1>3 DEF Info, Ends
  <1>4. CASE Refresh(r)
    BY <1>4 DEF Refresh, Step
  <1>5. CASE Post(r)
    BY <1>5 DEF Post, Step, Ends, GiveUp
  <1>6. CASE Posted(r)
    BY <1>6 DEF Posted, Step
  <1>7. CASE Noted(r)
    BY <1>7 DEF Noted, Step
  <1>8. CASE Connect(r)
    BY <1>8 DEF Connect, Step, Ends, GiveUp
  <1>9. CASE Created(r)
    BY <1>9 DEF Created, Ends
  <1> QED
    BY <1>1, <1>2, <1>3, <1>4, <1>5, <1>6, <1>7, <1>8, <1>9 DEF AskStep

LEMMA AppNext ==
  ASSUME Types, Next
  PROVE  AppType'
  <1> USE IdsType DEF Types
  <1>1. CASE UNCHANGED app
    BY <1>1 DEF AppType, app
  <1>2. ASSUME NEW r \in Requests, Rejected(r)
        PROVE  AppType'
    BY <1>2 DEF Rejected, AppType
  <1>3. ASSUME NEW r \in Requests, NEW how \in {"in", "cancelled", "failed"},
               Return(r, how), UNCHANGED <<opener, create, cancel, told, rej, appId>>
        PROVE  AppType'
    BY <1>3 DEF Return, AppType
  <1>4. ASSUME NEW r \in Requests, WaitStep(r)
        PROVE  AppType'
    <2>1. UNCHANGED <<opener, create, cancel, told, rej, appId>>
      BY <1>4 DEF WaitStep, Look, Join, Wake, WaitTimeout, app
    <2>2. \/ UNCHANGED <<phase, bid>>
          \/ Return(r, "in") \/ Return(r, "cancelled") \/ Return(r, "failed")
      BY <1>4 DEF WaitStep, Look, Join, Wake, WaitTimeout, app
    <2> QED
      BY <1>3, <2>1, <2>2 DEF AppType
  <1>5. CASE Leave \/ CancelDelete \/ CancelReset \/ RejectClear
    BY <1>5 DEF Leave, CancelDelete, CancelReset, RejectClear, AppType
  <1>6. CASE Decision
    BY <1>6, NetHead DEF Decision, AppType
  <1>7. CASE HostStarts \/ Welcome
    BY <1>1, <1>7 DEF HostStarts, Welcome
  <1>8. ASSUME NEW h \in Hosts, NEW r \in Requests,
               \/ Added(h) \/ Removed(h) \/ Sweep(h) \/ ProcessCommit(h)
               \/ Reject(h, r) \/ Admit(h, r)
        PROVE  AppType'
    BY <1>1, <1>8 DEF Added, Removed, Sweep, ProcessCommit, Reject, Admit
  <1>9. 1 \in Requests
    BY DEF Requests
  <1> QED
    BY <1>2, <1>4, <1>5, <1>6, <1>7, <1>8, <1>9, AppAsk
       DEF Next, AskStep, WaitStep

LEMMA ResetType ==
  ASSUME Types, Reset
  PROVE  /\ mls' \in {"Pending", "Waiting", "Success"}
         /\ welcome' \in Ids /\ pending' \in Ids
         /\ woken' \in [Requests -> BOOLEAN]
  BY IdsType DEF Types, GuestType, Reset

(* A call waits for the Welcome after its call of createJoinRequest. *)
LEMMA GuestAsk ==
  ASSUME Types, NEW r \in Requests, AskStep(r)
  PROVE  GuestType'
  <1> USE IdsType DEF Types
  <1>1. \A q \in Requests : create[q] = "done" => create'[q] = "done"
    BY DEF AppType, AskStep, Start, Poll, Info, Refresh, Post, Posted, Noted, Connect,
       Created, Begin, Step, Ends
  <1>2. CASE UNCHANGED guest
    BY <1>1, <1>2 DEF guest, GuestType
  <1>3. CASE Refresh(r)
    BY <1>1, <1>3, ResetType DEF Refresh, GuestType
  <1>4. CASE Posted(r) \/ Connect(r)
    BY <1>1, <1>4 DEF Posted, Connect, GuestType
  <1>5. CASE Created(r)
    <2>1. /\ UNCHANGED <<kp, mls, welcome, pending, conn, taken, woken>>
          /\ create[r] # "done" /\ create'[r] = "done"
          /\ wait' \in {wait, [wait EXCEPT ![r] = "look"]}
      BY <1>5 DEF Created, Ends, AppType
    <2>2. wait[r] = "none"
      BY <2>1 DEF GuestType
    <2> QED
      BY <1>1, <2>1, <2>2 DEF GuestType
  <1> QED
    BY <1>2, <1>3, <1>4, <1>5 DEF AskStep, Start, Poll, Info, Post, Noted

LEMMA GuestWait ==
  ASSUME Types, NEW r \in Requests, WaitStep(r)
  PROVE  GuestType'
  <1> USE IdsType DEF Types
  <1>1. UNCHANGED <<create, kp, pending, conn>> /\ wait[r] # "none"
    BY DEF WaitStep, Look, Join, Wake, WaitTimeout, app
  <1>2. ASSUME NEW how, Return(r, how), taken' = [taken EXCEPT ![r] = 0],
               mls' \in {mls, "Success"}, welcome' \in {welcome, 0}
        PROVE  GuestType'
    BY <1>1, <1>2 DEF Return, GuestType
  <1>3. CASE Look(r)
    <2>1. taken[r] = 0 /\ taken = [taken EXCEPT ![r] = 0]
      BY <1>3 DEF Look, GuestType
    <2>2. CASE mls = "Waiting"
      BY <1>1, <1>3, <2>1, <2>2 DEF Look, GuestType
    <2>3. CASE mls # "Waiting"
      BY <1>2, <1>3, <2>1, <2>3 DEF Look
    <2> QED
      BY <2>2, <2>3
  <1>4. CASE Join(r)
    BY <1>2, <1>4 DEF Join
  <1>5. CASE Wake(r)
    BY <1>1, <1>5 DEF Wake, GuestType
  <1>6. CASE WaitTimeout(r)
    <2>1. taken = [taken EXCEPT ![r] = 0]
      BY <1>6 DEF WaitTimeout, GuestType
    <2> QED
      BY <1>2, <1>6, <2>1 DEF WaitTimeout
  <1> QED
    BY <1>3, <1>4, <1>5, <1>6 DEF WaitStep

LEMMA GuestNext ==
  ASSUME Types, Next
  PROVE  GuestType'
  <1> USE DEF Types
  <1>1. CASE UNCHANGED <<create, guest>>
    BY <1>1 DEF GuestType, guest
  <1>2. ASSUME NEW r \in Requests, Rejected(r)
        PROVE  GuestType'
    BY <1>1, <1>2 DEF Rejected
  <1>3. CASE CancelReset \/ RejectClear
    BY <1>3, ResetType DEF CancelReset, RejectClear, GuestType
  <1>4. CASE Welcome
    BY <1>4, NetHead, IdsType DEF Welcome, GuestType, app
  <1>5. CASE Decision
    BY <1>5, IdsType DEF Decision, GuestType
  <1>6. CASE HostStarts \/ Leave \/ CancelDelete
    BY <1>1, <1>6 DEF HostStarts, Leave, CancelDelete, app
  <1>7. ASSUME NEW h \in Hosts, NEW r \in Requests,
               \/ Added(h) \/ Removed(h) \/ Sweep(h) \/ ProcessCommit(h)
               \/ Reject(h, r) \/ Admit(h, r)
        PROVE  GuestType'
    BY <1>1, <1>7 DEF Added, Removed, Sweep, ProcessCommit, Reject, Admit, app
  <1>8. 1 \in Requests
    BY DEF Requests
  <1> QED
    BY <1>2, <1>3, <1>4, <1>5, <1>6, <1>7, <1>8, GuestAsk, GuestWait
       DEF Next, AskStep, WaitStep

LEMMA TypesInit == Init => Types
  <1> SUFFICES ASSUME Init
               PROVE  Types
    OBVIOUS
  <1>1. ServerType
    <2>1. /\ started \in BOOLEAN /\ status \in [Requests -> Statuses]
          /\ pend \in [Hosts -> SUBSET Requests]
      BY DEF Init, Statuses
    <2>5. rare \in 0..MaxRare
      BY DEF Init, WaitingRoomAssumption
    <2>2. <<>> \in Seq(NetMessage) /\ <<>> \in Seq(Message)
      OBVIOUS
    <2>3. net = <<>> /\ fan = [h \in Hosts |-> <<>>]
      BY DEF Init
    <2>4. net \in Seq(NetMessage) /\ fan \in [Hosts -> Seq(Message)]
      BY <2>2, <2>3
    <2> QED
      BY <2>1, <2>4, <2>5 DEF ServerType
  <1>2. AppType
    BY IdsType DEF Init, AppType
  <1>3. GuestType
    BY IdsType DEF Init, GuestType
  <1> QED
    BY <1>1, <1>2, <1>3, LeafInit DEF Types

LEMMA TypesNext ==
  ASSUME Types, [Next]_vars
  PROVE  Types'
  <1>1. LeafInv'
    BY LeafNext DEF Types
  <1>2. CASE Next
    <2>1. ServerType'
      BY <1>2, ServerGuest, ServerHost DEF Next, GuestStep, AskStep, WaitStep
    <2> QED
      BY <1>1, <1>2, <2>1, AppNext, GuestNext DEF Types
  <1>3. CASE UNCHANGED vars
    BY <1>1, <1>3 DEF vars, server, app, guest, host, Types, ServerType, AppType,
       GuestType
  <1> QED
    BY <1>2, <1>3

LEMMA TypesAlways == Spec => []Types
  BY TypesInit, TypesNext, PTL DEF Spec

(* Every message, id and epoch that is kept is of a request or an epoch    *)
(* that exists, and a waiting call has a Welcome exactly while it joins.   *)
THEOREM WaitingTypeCorrect == Spec => []TypeOK
  <1>1. Types => TypeOK
    <2> SUFFICES ASSUME Types
                 PROVE  TypeOK
      OBVIOUS
    <2>1. \A i \in DOMAIN net : net[i] \in [k : {"welcome", "reject"}, r : Requests]
      <3>1. \A i \in DOMAIN net : net[i] \in NetMessage
        BY DEF Types, ServerType
      <3> QED
        BY <3>1 DEF NetMessage
    <2>2. \A h \in Hosts : \A i \in DOMAIN fan[h] :
            fan[h][i] \in [k : {"added", "removed"}, r : Requests]
      <3>1. \A h \in Hosts : fan[h] \in Seq(Message)
        BY DEF Types, ServerType
      <3>2. \A h \in Hosts : \A i \in DOMAIN fan[h] : fan[h][i] \in Message
        BY <3>1
      <3> QED
        BY <3>2 DEF Message
    <2>3. \A e \in DOMAIN roster : \A i \in DOMAIN roster[e] :
            roster[e][i] \in Requests
      <3>1. \A e \in DOMAIN roster : roster[e] \in Seq(Requests)
        BY DEF Types, LeafInv
      <3> QED
        BY <3>1
    <2>4. {bid, opener, rej, appId, welcome, pending} \subseteq Ids
      BY DEF Types, AppType, GuestType
    <2> QED
      BY <2>1, <2>2, <2>3, <2>4
         DEF TypeOK, Types, LeafInv, ServerType, AppType, GuestType, Statuses
  <1> QED
    BY <1>1, TypesAlways, PTL

-----------------------------------------------------------------------------
(* No wake-up is lost. *)

LEMMA WakeupReset ==
  ASSUME Types, Reset, UNCHANGED wait
  PROVE  NoLostWakeup'
  BY DEF Reset, NoLostWakeup, Types, GuestType

LEMMA WakeupWait ==
  ASSUME Types, NoLostWakeup, NEW r \in Requests, WaitStep(r)
  PROVE  NoLostWakeup'
  <1> USE DEF Types, GuestType, NoLostWakeup
  <1>1. CASE Look(r)
    BY <1>1 DEF Look, Return
  <1>2. CASE Join(r)
    BY <1>2 DEF Join, Return
  <1>3. CASE Wake(r)
    BY <1>3 DEF Wake
  <1>4. CASE WaitTimeout(r)
    BY <1>4 DEF WaitTimeout, Return
  <1> QED
    BY <1>1, <1>2, <1>3, <1>4 DEF WaitStep

LEMMA WakeupNext ==
  ASSUME Types, NoLostWakeup, [Next]_vars
  PROVE  NoLostWakeup'
  <1>1. CASE UNCHANGED <<wait, woken, mls, welcome>>
    BY <1>1 DEF NoLostWakeup
  <1>2. ASSUME NEW r \in Requests, AskStep(r) \/ Rejected(r)
        PROVE  NoLostWakeup'
    <2>1. CASE Refresh(r)
      BY <2>1, WakeupReset DEF Refresh
    <2>2. CASE Posted(r)
      BY <2>2 DEF Posted, NoLostWakeup
    <2>3. CASE Created(r)
      BY <2>3 DEF Created, NoLostWakeup, Types, GuestType
    <2> QED
      BY <1>1, <1>2, <2>1, <2>2, <2>3
         DEF AskStep, Start, Poll, Info, Post, Noted, Connect, Rejected, guest
  <1>3. CASE CancelReset \/ RejectClear
    BY <1>3, WakeupReset DEF CancelReset, RejectClear
  <1>4. CASE Welcome
    BY <1>4 DEF Welcome, NoLostWakeup, Types, GuestType
  <1>5. CASE HostStarts \/ Leave \/ CancelDelete \/ Decision
    BY <1>1, <1>5 DEF HostStarts, Leave, CancelDelete, Decision, guest
  <1>6. ASSUME NEW h \in Hosts, NEW r \in Requests,
               \/ Added(h) \/ Removed(h) \/ Sweep(h) \/ ProcessCommit(h)
               \/ Reject(h, r) \/ Admit(h, r)
        PROVE  NoLostWakeup'
    BY <1>1, <1>6 DEF Added, Removed, Sweep, ProcessCommit, Reject, Admit, guest
  <1>7. CASE UNCHANGED vars
    BY <1>1, <1>7 DEF vars, guest
  <1>8. 1 \in Requests
    BY DEF Requests
  <1> QED
    BY <1>2, <1>3, <1>4, <1>5, <1>6, <1>7, <1>8, WakeupWait DEF Next, AskStep, WaitStep

(* A call that waits for the Welcome never sleeps through it or through a  *)
(* cancellation, however many wait and whenever the Welcome, a reset or    *)
(* another request comes (wait_for_join_proposal_welcome_and_join).        *)
THEOREM WakeupsKept == Spec => []NoLostWakeup
  <1>1. Init => NoLostWakeup
    BY DEF Init, NoLostWakeup
  <1>2. Types /\ NoLostWakeup /\ [Next]_vars => NoLostWakeup'
    BY WakeupNext
  <1> QED
    BY <1>1, <1>2, TypesAlways, PTL DEF Spec

-----------------------------------------------------------------------------
(* No request is lost. *)

RemovedOver ==
  \A h \in Hosts : \A i \in DOMAIN fan[h] :
    fan[h][i].k = "removed" => status[fan[h][i].r] \notin {"none", "pending"}

(* A request is over for good, and is not pending before it is made. *)
LEMMA StatusKept ==
  ASSUME Types, RemovedOver, UNCHANGED fan,
         \A r \in Requests : status'[r] \in {"none", "pending"} =>
           status[r] \in {"none", "pending"}
  PROVE  RemovedOver'
  <1> SUFFICES ASSUME NEW h \in Hosts, NEW i \in DOMAIN fan[h],
                      fan[h][i].k = "removed"
               PROVE  status'[fan[h][i].r] \notin {"none", "pending"}
    BY DEF RemovedOver
  <1>1. fan[h][i] \in Message
    BY DEF Types, ServerType
  <1>2. fan[h][i].r \in Requests
    BY <1>1 DEF Message
  <1> QED
    BY <1>2 DEF RemovedOver

(* A message more for every host: of a request that begins, or of one that *)
(* is over.                                                                *)
LEMMA FanKept ==
  ASSUME Types, RemovedOver, NEW m \in Message, Fan(m),
         m.k = "removed" => status'[m.r] \notin {"none", "pending"},
         \A r \in Requests : status'[r] \in {"none", "pending"} =>
           status[r] \in {"none", "pending"}
  PROVE  RemovedOver'
  <1> SUFFICES ASSUME NEW h \in Hosts, NEW i \in DOMAIN fan'[h],
                      fan'[h][i].k = "removed"
               PROVE  status'[fan'[h][i].r] \notin {"none", "pending"}
    BY DEF RemovedOver
  <1>1. /\ Len(fan[h]) \in Nat
        /\ DOMAIN fan'[h] = 1..Len(fan[h]) + 1
        /\ DOMAIN fan[h] = 1..Len(fan[h])
        /\ \A j \in DOMAIN fan[h] : fan'[h][j] = fan[h][j] /\ fan[h][j] \in Message
        /\ fan'[h][Len(fan[h]) + 1] = m
    BY DEF Fan, Types, ServerType
  <1>2. CASE i = Len(fan[h]) + 1
    BY <1>1, <1>2
  <1>3. CASE i \in DOMAIN fan[h]
    <2>1. fan'[h][i] = fan[h][i] /\ fan[h][i].r \in Requests
      BY <1>1, <1>3 DEF Message
    <2>2. status[fan[h][i].r] \notin {"none", "pending"}
      BY <2>1, <1>3 DEF RemovedOver
    <2> QED
      BY <2>1, <2>2
  <1> QED
    BY <1>1, <1>2, <1>3

LEMMA OverKept ==
  ASSUME Types, RemovedOver, NEW r \in Requests,
         NEW how \in {"admitted", "rejected", "cancelled"}, Over(r, how)
  PROVE  RemovedOver'
  <1>1. CASE status[r] = "pending"
    <2> DEFINE m == [k |-> "removed", r |-> r]
    <2>1. m \in Message /\ Fan(m) /\ status' = [status EXCEPT ![r] = how]
      BY <1>1 DEF Over, Message
    <2>2. m.r = r
      OBVIOUS
    <2>3. status'[r] = how /\ \A q \in Requests : q # r => status'[q] = status[q]
      BY <2>1 DEF Types, ServerType
    <2> HIDE DEF m
    <2> QED
      BY <2>1, <2>2, <2>3, FanKept
  <1>2. CASE status[r] # "pending"
    BY <1>2, StatusKept DEF Over
  <1> QED
    BY <1>1, <1>2

LEMMA HeardKept ==
  ASSUME Types, RemovedOver, NEW h \in Hosts, fan[h] # <<>>,
         fan' = [fan EXCEPT ![h] = Tail(@)], UNCHANGED status
  PROVE  RemovedOver'
  <1>1. /\ \A g \in Hosts : g # h => fan'[g] = fan[g]
        /\ \A i \in DOMAIN fan'[h] : i + 1 \in DOMAIN fan[h] /\ fan'[h][i] = fan[h][i + 1]
    BY DEF Types, ServerType
  <1> QED
    BY <1>1 DEF RemovedOver

(* The server has not heard of a call's request before its POST. *)
Before == {"idle", "start", "poll", "auth", "post"}
Unasked == \A r \in Requests : create[r] \in Before => status[r] = "none"

LEMMA OverUnasked ==
  ASSUME Types, NEW r \in Requests, NEW how, Over(r, how)
  PROVE  \A q \in Requests : status[q] = "none" => status'[q] = "none"
  BY DEF Over, Types, ServerType

LEMMA UnaskedNext ==
  ASSUME Types, Unasked, [Next]_vars
  PROVE  Unasked'
  <1>1. CASE create' = create
             /\ \A q \in Requests : status[q] = "none" => status'[q] = "none"
    BY <1>1 DEF Unasked
  <1>2. ASSUME NEW r \in Requests, AskStep(r)
        PROVE  Unasked'
    <2>1. CASE Post(r)
      <3>1. /\ create[r] = "post" /\ create'[r] \in {"posted", "done"}
            /\ \A q \in Requests : q # r =>
                 create'[q] = create[q] /\ status'[q] = status[q]
        BY <2>1 DEF Post, Step, Ends, Types, AppType, ServerType
      <3> QED
        BY <3>1 DEF Unasked, Before
    <2>2. CASE ~Post(r)
      <3>1. status' = status
        BY <1>2, <2>2 DEF AskStep, Start, Poll, Info, Refresh, Posted, Noted, Connect,
           Created, server
      <3>2. \A q \in Requests : create'[q] \in Before => create[q] \in Before
        BY <1>2, <2>2 DEF AskStep, Start, Poll, Info, Refresh, Posted, Noted, Connect,
           Created, Begin, Step, Ends, Before, Types, AppType
      <3> QED
        BY <3>1, <3>2 DEF Unasked
    <2> QED
      BY <2>1, <2>2
  <1>3. CASE CancelDelete
    BY <1>1, <1>3, OverUnasked DEF CancelDelete
  <1>4. ASSUME NEW h \in Hosts, NEW r \in Requests, Reject(h, r) \/ Admit(h, r)
        PROVE  Unasked'
    BY <1>1, <1>4, OverUnasked DEF Reject, Admit, Add, server, app
  <1>5. ASSUME NEW r \in Requests, Rejected(r) \/ WaitStep(r)
        PROVE  Unasked'
    BY <1>1, <1>5 DEF Rejected, WaitStep, Look, Join, Wake, WaitTimeout, server, app
  <1>6. CASE HostStarts \/ Leave \/ CancelReset \/ Welcome \/ Decision \/ RejectClear
    BY <1>1, <1>6 DEF HostStarts, Leave, CancelReset, Welcome, Decision, RejectClear,
       server, app
  <1>7. ASSUME NEW h \in Hosts, Added(h) \/ Removed(h) \/ Sweep(h) \/ ProcessCommit(h)
        PROVE  Unasked'
    BY <1>1, <1>7 DEF Added, Removed, Sweep, ProcessCommit, server, app
  <1>8. CASE UNCHANGED vars
    BY <1>1, <1>8 DEF vars, server, app
  <1> QED
    BY <1>2, <1>3, <1>4, <1>5, <1>6, <1>7, <1>8 DEF Next, AskStep, WaitStep

LEMMA RemovedNext ==
  ASSUME Types, Unasked, RemovedOver, [Next]_vars
  PROVE  RemovedOver'
  <1>1. CASE UNCHANGED <<status, fan>>
    BY <1>1 DEF RemovedOver
  <1>2. ASSUME NEW r \in Requests, Post(r)
        PROVE  RemovedOver'
    <2>1. CASE /\ create[r] = "post" /\ status' = [status EXCEPT ![r] = "pending"]
               /\ Fan([k |-> "added", r |-> r])
      <3> DEFINE m == [k |-> "added", r |-> r]
      <3>1. m \in Message /\ Fan(m) /\ m.k # "removed"
        BY <2>1 DEF Message
      <3>2. status[r] = "none"
        BY <2>1 DEF Unasked, Before
      <3>3. \A q \in Requests : status'[q] \in {"none", "pending"} =>
              status[q] \in {"none", "pending"}
        BY <2>1, <3>2 DEF Types, ServerType
      <3> HIDE DEF m
      <3> QED
        BY <3>1, <3>3, FanKept
    <2> QED
      BY <1>1, <1>2, <2>1 DEF Post, Step
  <1>3. CASE CancelDelete
    BY <1>1, <1>3, OverKept DEF CancelDelete
  <1>4. ASSUME NEW h \in Hosts, NEW r \in Requests, Reject(h, r) \/ Admit(h, r)
        PROVE  RemovedOver'
    BY <1>1, <1>4, OverKept DEF Reject, Admit, Add, server
  <1>5. ASSUME NEW h \in Hosts, Added(h) \/ Removed(h)
        PROVE  RemovedOver'
    BY <1>5, HeardKept DEF Added, Removed
  <1>6. ASSUME NEW r \in Requests, Rejected(r) \/ WaitStep(r)
        PROVE  RemovedOver'
    BY <1>1, <1>6 DEF Rejected, WaitStep, Look, Join, Wake, WaitTimeout, server
  <1>7. ASSUME NEW r \in Requests, AskStep(r), ~Post(r)
        PROVE  RemovedOver'
    BY <1>1, <1>7 DEF AskStep, Start, Poll, Info, Refresh, Posted, Noted, Connect,
       Created, server
  <1>8. CASE HostStarts \/ Leave \/ CancelReset \/ Welcome \/ Decision \/ RejectClear
    BY <1>1, <1>8 DEF HostStarts, Leave, CancelReset, Welcome, Decision, RejectClear,
       server
  <1>9. ASSUME NEW h \in Hosts, Sweep(h) \/ ProcessCommit(h)
        PROVE  RemovedOver'
    BY <1>1, <1>9 DEF Sweep, ProcessCommit, server
  <1>10. CASE UNCHANGED vars
    BY <1>1, <1>10 DEF vars, server
  <1> QED
    BY <1>2, <1>3, <1>4, <1>5, <1>6, <1>7, <1>8, <1>9, <1>10
       DEF Next, AskStep, WaitStep

(* What drops a request from a host's list. *)
Drops(h, r) == r \in pend[h] /\ r \notin pend'[h]

LEMMA DropStep ==
  ASSUME Types, RemovedOver, [Next]_vars, NEW h \in Hosts, NEW r \in Requests,
         Drops(h, r)
  PROVE  status'[r] # "pending" \/ roster[view[h]] # <<>>
  <1> USE DEF Types, ServerType
  <1>1. pend' # pend
    BY DEF Drops
  <1>2. ~GuestStep /\ ~UNCHANGED vars
    BY <1>1, GuestGroup DEF vars, host
  <1>3. ASSUME NEW g \in Hosts, Added(g)
        PROVE  FALSE
    BY <1>3 DEF Added, Drops
  <1>4. ASSUME NEW g \in Hosts, Removed(g)
        PROVE  status'[r] # "pending"
    <2>1. /\ status' = status
          /\ pend' = [pend EXCEPT ![g] = @ \ {Head(fan[g]).r}]
          /\ fan[g] # <<>> /\ Head(fan[g]).k = "removed"
      BY <1>1, <1>4 DEF Removed
    <2>2. 1 \in DOMAIN fan[g] /\ fan[g][1] = Head(fan[g])
      BY <2>1
    <2>3. r = Head(fan[g]).r
      BY <2>1 DEF Drops
    <2> QED
      BY <2>1, <2>2, <2>3 DEF RemovedOver
  <1>5. ASSUME NEW g \in Hosts, Sweep(g) \/ ProcessCommit(g)
        PROVE  FALSE
    BY <1>1, <1>5 DEF Sweep, ProcessCommit
  <1>6. ASSUME NEW g \in Hosts, NEW q \in Requests, pend' = [pend EXCEPT ![g] = @ \ {q}]
        PROVE  g = h /\ q = r
    BY <1>6 DEF Drops
  <1>7. ASSUME NEW g \in Hosts, NEW q \in Requests, NEW how \in {"admitted", "rejected"},
               Over(q, how)
        PROVE  status'[q] # "pending"
    BY <1>7 DEF Over
  <1>8. ASSUME NEW g \in Hosts, NEW q \in Requests, Reject(g, q)
        PROVE  status'[r] # "pending"
    BY <1>6, <1>7, <1>8 DEF Reject
  <1>9. ASSUME NEW g \in Hosts, NEW q \in Requests, Admit(g, q)
        PROVE  status'[r] # "pending" \/ roster[view[h]] # <<>>
    BY <1>1, <1>6, <1>7, <1>9 DEF Admit, Add, Forget
  <1> QED
    BY <1>2, <1>3, <1>4, <1>5, <1>8, <1>9 DEF Next, GuestStep, AskStep, WaitStep

(* A removal that is late never drops a newer request of the same guest    *)
(* (handle_join_request_removed), and a host that decides drops what it    *)
(* decided: any number of hosts, requests and failures.                    *)
THEOREM RequestsKept == Spec => PendingKept
  <1>1. Init => Unasked /\ RemovedOver
    BY DEF Init, Unasked, RemovedOver
  <1>2. Types /\ Unasked /\ RemovedOver /\ [Next]_vars => (Unasked /\ RemovedOver)'
    BY UnaskedNext, RemovedNext
  <1>3. Types /\ RemovedOver /\ [Next]_vars =>
          [\A h \in Hosts, r \in Requests :
             r \in pend[h] \ pend'[h] =>
               status'[r] # "pending" \/ roster[view[h]] # <<>>]_vars
    BY DropStep DEF Drops
  <1> QED
    BY <1>1, <1>2, <1>3, TypesAlways, PTL DEF Spec, PendingKept
===============================================================================
