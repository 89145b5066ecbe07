----------------------------- MODULE WaitingRoom -----------------------------
(***************************************************************************)
(* The waiting room: a guest asks to be let in, the hosts admit or reject  *)
(* it, it may leave and ask again.  The guest is its app's handlers        *)
(* (prejoin_bloc.dart), which run concurrently, its service state          *)
(* (service_state.rs) and the call that waits for the Welcome              *)
(* (join_request.rs); a host is the requests it knows and its call of      *)
(* admit.  A request has the number of the call of createJoinRequest that  *)
(* makes it, and a key package of its own; the device is the same.         *)
(*                                                                         *)
(* meet-server is external: it keeps the requests, fans them out to the    *)
(* hosts, orders the commits of the group and delivers to the guest while  *)
(* its websocket is connected.                                             *)
(*                                                                         *)
(* An operator Mut... is a faulty variant of the operation defined next.   *)
(***************************************************************************)
EXTENDS Integers, Sequences, FiniteSets

CONSTANTS
  Hosts,        \* the admins of the room
  MaxRequests,  \* bound: calls of createJoinRequest
  MaxRare,      \* bound: rare events of a behaviour, see Rare
  Prompt        \* the guest's local calls end before it asks again

ASSUME WaitingRoomAssumption ==
  /\ MaxRequests \in Nat \ {0}
  /\ MaxRare \in Nat
  /\ Prompt \in BOOLEAN

VARIABLES
  started,  \* does the server have the group?
  status,   \* the server's view of each request
  net,      \* messages to the guest, in order
  fan,      \* messages to each host, in order
  roster,   \* roster[e]: the key packages of the device's leaves at epoch e
  phase,    \* waitingRoomAdmissionPhase; the inactive ones tell why
  bid,      \* waitingRoomJoinRequestId, 0 if empty
  opener,   \* the call that _waitingRoomAdmissionCompleter waits for, 0 if null
  create,   \* where each call of createJoinRequest is
  cancel,   \* where cancelWaitingRoomJoinRequest is
  told,     \* join decisions on their way to the app
  rej,      \* the rejection that the app is handling, 0 if none
  appId,    \* pending_waiting_room_join_request_id, 0 if none
  kp,       \* the requests whose key package the guest's MLS client has
  mls,      \* mls_group_state
  welcome,  \* welcome_info: the request whose Welcome it is, 0 if none
  pending,  \* guest_pending_join_request_id, 0 if none
  conn,     \* is the guest's websocket connected?
  wait,     \* where each wait_for_join_proposal_welcome_and_join is
  taken,    \* the Welcome that it joins with, 0 if it does not
  woken,    \* its Notified has been notified
  pend,     \* pending_waiting_room_join_requests of each host
  view,     \* the epoch each host is at
  rare

server == <<started, status, net, fan, roster>>
app == <<phase, bid, opener, create, cancel, told, rej, appId>>
guest == <<kp, mls, welcome, pending, conn, wait, taken, woken>>
host == <<pend, view>>
vars == <<server, app, guest, host, rare>>

Requests == 1..MaxRequests
Ids == Requests \union {0}
Newest == Len(roster)
Inactive == phase \notin {"notStarted", "awaiting"}
Calls == \E r \in Requests : create[r] \notin {"idle", "done"}

(* What happens seldom, at most MaxRare times: a call of the network       *)
(* fails, the guest leaves while createJoinRequest runs, it asks without a *)
(* cached pre-join auth, a removal comes without a request_id, the sweep   *)
(* removes a guest.                                                        *)
Rare == rare < MaxRare /\ rare' = rare + 1

Init ==
  /\ started = FALSE /\ status = [r \in Requests |-> "none"]
  /\ net = <<>> /\ fan = [h \in Hosts |-> <<>>] /\ roster = << <<>> >>
  /\ phase = "new" /\ bid = 0 /\ opener = 0
  /\ create = [r \in Requests |-> "idle"]
  /\ cancel = "idle" /\ told = {} /\ rej = 0
  /\ appId = 0 /\ kp = {}
  /\ mls = "Pending" /\ welcome = 0 /\ pending = 0 /\ conn = FALSE
  /\ wait = [r \in Requests |-> "none"] /\ taken = [r \in Requests |-> 0]
  /\ woken = [r \in Requests |-> FALSE]
  /\ pend = [h \in Hosts |-> {}]
  /\ view = [h \in Hosts |-> 1]
  /\ rare = 0

-----------------------------------------------------------------------------
(* The server. *)

HostStarts ==
  /\ ~started /\ started' = TRUE
  /\ UNCHANGED <<status, net, fan, roster, app, guest, host, rare>>

(* A message to every host. *)
Fan(m) == fan' = [h \in Hosts |-> Append(fan[h], m)]

(* The request r is over, if it was pending, and the hosts hear of it.     *)
Over(r, how) ==
  IF status[r] = "pending"
    THEN /\ status' = [status EXCEPT ![r] = how]
         /\ Fan([k |-> "removed", r |-> r])
    ELSE UNCHANGED <<status, fan>>

-----------------------------------------------------------------------------
(* The guest's service state. *)

(* reset_waiting_room_guest_join_state, then notify_waiters. *)
MutReset ==
  /\ IF mls = "Success"
       THEN UNCHANGED <<mls, welcome, pending>>
       ELSE mls' = "Pending" /\ welcome' = 0 /\ pending' = 0
  /\ UNCHANGED woken

Reset ==
  /\ IF mls = "Success"
       THEN UNCHANGED <<mls, welcome, pending>>
       ELSE mls' = "Pending" /\ welcome' = 0 /\ pending' = 0
  /\ woken' = [r \in Requests |-> wait[r] # "none"]

-----------------------------------------------------------------------------
(* The guest asks to be let in.  The handler of the user's wish and the    *)
(* one of a poll for the start of the meeting submit in the same way; r    *)
(* numbers their calls, which may overlap.                                 *)

Step(r, from, to) == create[r] = from /\ create' = [create EXCEPT ![r] = to]

(* The call ends, and with it the handler. *)
Ends(r, as) ==
  /\ create' = [create EXCEPT ![r] = as]
  /\ opener' = IF opener = r THEN 0 ELSE opener

(* The app gives up, unless the admission has ended. *)
GiveUp ==
  IF Inactive THEN UNCHANGED <<phase, bid>> ELSE phase' = "failed" /\ bid' = 0

(* Bounds: MaxRequests, and Prompt, under which the earlier calls, waits   *)
(* and handlers have ended.                                                *)
Begin(r, how) ==
  /\ create[r] = "idle" /\ \A q \in 1..r-1 : create[q] # "idle"
  /\ Prompt => /\ ~Calls /\ \A q \in Requests : wait[q] = "none"
               /\ cancel = "idle" /\ rej = 0
  /\ create' = [create EXCEPT ![r] = how]

(* The handler of PreJoinStartWaitingRoomAdmission; one runs at a time.    *)
Start(r) ==
  /\ Inactive /\ phase # "in" /\ opener = 0
  /\ Begin(r, "start") /\ opener' = r
  /\ UNCHANGED <<server, phase, bid, cancel, told, rej, appId, guest, host, rare>>

(* The timer's PreJoinPollGroupInfo. *)
Poll(r) ==
  /\ phase = "notStarted" /\ Begin(r, "poll")
  /\ UNCHANGED <<server, phase, bid, opener, cancel, told, rej, appId, guest, host,
                 rare>>

(* The answer of hasMlsGroupInfo.  The phase is not read again before the  *)
(* request is submitted.                                                   *)
Info(r) ==
  /\ create[r] \in {"start", "poll"}
  /\ \/ /\ ~started /\ Ends(r, "idle")
        /\ phase' = IF create[r] = "start" THEN "notStarted" ELSE phase
        /\ UNCHANGED <<bid, rare>>
     \/ /\ started /\ bid # 0 /\ Ends(r, "done")
        /\ UNCHANGED <<phase, bid, rare>>
     \/ /\ started /\ bid = 0 /\ create' = [create EXCEPT ![r] = "auth"]
        /\ phase' = "awaiting"
        /\ UNCHANGED <<bid, opener, rare>>
     \/ /\ Rare /\ Ends(r, "idle")
        /\ IF create[r] = "start" THEN phase' = "failed" /\ bid' = 0
                                  ELSE UNCHANGED <<phase, bid>>
  /\ UNCHANGED <<server, cancel, told, rej, appId, guest, host>>

(* With a pre-join auth in the cache the session is rebuilt with a client  *)
(* of its own, unless the guest has joined; what was not delivered on the  *)
(* old connection may be gone.  Then submit_join_request resets.           *)
Refresh(r) ==
  /\ Step(r, "auth", "post")
  /\ \/ /\ (mls = "Success" /\ UNCHANGED rare) \/ Rare
        /\ kp' = kp \union {r} /\ UNCHANGED <<conn, net>>
     \/ /\ mls # "Success"
        /\ kp' = {r} /\ conn' = FALSE
        /\ net' \in IF conn THEN {net, <<>>} ELSE {net}
        /\ UNCHANGED rare
  /\ Reset
  /\ UNCHANGED <<started, status, fan, roster, phase, bid, opener, cancel, told, rej,
                 appId, wait, taken, host>>

(* The server keeps the request, or the call fails. *)
Post(r) ==
  /\ \/ /\ Step(r, "post", "posted")
        /\ status' = [status EXCEPT ![r] = "pending"]
        /\ Fan([k |-> "added", r |-> r])
        /\ UNCHANGED <<phase, bid, opener, rare>>
     \/ /\ create[r] = "post" /\ Rare
        /\ Ends(r, "done") /\ GiveUp
        /\ UNCHANGED <<status, fan>>
  /\ UNCHANGED <<started, net, roster, cancel, told, rej, appId, guest, host>>

(* submit_join_request has the answer. *)
Posted(r) ==
  /\ Step(r, "posted", "noted")
  /\ pending' = r
  /\ mls' = IF mls = "Success" THEN mls ELSE "Waiting"
  /\ UNCHANGED <<server, phase, bid, opener, cancel, told, rej, appId, kp, welcome,
                 conn, wait, taken, woken, host, rare>>

(* create_join_request writes the app state. *)
Noted(r) ==
  /\ Step(r, "noted", "connect")
  /\ appId' = r
  /\ UNCHANGED <<server, phase, bid, opener, cancel, told, rej, guest, host, rare>>

(* connect_to_ws.  When it fails, the request stays where it is. *)
Connect(r) ==
  /\ \/ /\ Step(r, "connect", "created")
        /\ conn' = TRUE
        /\ UNCHANGED <<phase, bid, opener, rare>>
     \/ /\ create[r] = "connect" /\ Rare
        /\ Ends(r, "done") /\ GiveUp
        /\ conn' \in {conn, FALSE}
  /\ UNCHANGED <<server, cancel, told, rej, appId, kp, mls, welcome, pending, wait,
                 taken, woken, host>>

MutCreated(r) ==
  /\ create[r] = "created" /\ Ends(r, "done")
  /\ bid' = IF Inactive THEN bid ELSE r
  /\ wait' = IF phase = "awaiting" THEN [wait EXCEPT ![r] = "look"] ELSE wait
  /\ welcome' = 0
  /\ UNCHANGED <<server, phase, cancel, told, rej, appId, kp, mls, pending, conn,
                 taken, woken, host, rare>>

(* createJoinRequest returns to the app, which starts to wait unless the   *)
(* guest has left meanwhile.                                               *)
Created(r) ==
  /\ create[r] = "created" /\ Ends(r, "done")
  /\ bid' = IF Inactive THEN bid ELSE r
  /\ wait' = IF phase = "awaiting" THEN [wait EXCEPT ![r] = "look"] ELSE wait
  /\ UNCHANGED <<server, phase, cancel, told, rej, appId, kp, mls, welcome, pending,
                 conn, taken, woken, host, rare>>

-----------------------------------------------------------------------------
(* The guest leaves, or its countdown ends. *)

(* should_delete is read before the server is asked. *)
Leave ==
  /\ ~Inactive /\ cancel = "idle"
  /\ IF Calls THEN Rare ELSE UNCHANGED rare
  /\ cancel' = IF appId # 0 THEN "delete" ELSE "reset"
  /\ UNCHANGED <<server, phase, bid, opener, create, told, rej, appId, guest, host>>

(* The server drops the guest's request; a failure is logged only. *)
CancelDelete ==
  /\ cancel = "delete"
  /\ cancel' = "reset"
  /\ \/ /\ \E r \in Requests : status[r] = "pending" /\ Over(r, "cancelled")
        /\ UNCHANGED rare
     \/ /\ \A r \in Requests : status[r] # "pending"
        /\ UNCHANGED <<status, fan, rare>>
     \/ Rare /\ UNCHANGED <<status, fan>>
  /\ UNCHANGED <<started, net, roster, phase, bid, opener, create, told, rej, appId,
                 guest, host>>

(* The local reset, the disconnection and the app's return.  What the      *)
(* server has not delivered may be gone.                                   *)
CancelReset ==
  /\ cancel = "reset"
  /\ cancel' = "idle"
  /\ Reset
  /\ appId' = 0 /\ conn' = FALSE
  /\ net' \in {net, <<>>}
  /\ phase' = "left" /\ bid' = 0
  /\ UNCHANGED <<started, status, fan, roster, opener, create, told, rej, kp, wait,
                 taken, host, rare>>

-----------------------------------------------------------------------------
(* The guest's websocket. *)

Welcome ==
  /\ conn /\ net # <<>> /\ Head(net).k = "welcome"
  /\ net' = Tail(net)
  /\ welcome' = Head(net).r
  /\ woken' = [r \in Requests |-> wait[r] # "none"]
  /\ UNCHANGED <<started, status, fan, roster, app, kp, mls, pending, conn, wait, taken,
                 host, rare>>

(* handle_join_decision: a rejection of the pending request goes to the    *)
(* app, any other is ignored.                                              *)
Decision ==
  /\ conn /\ net # <<>> /\ Head(net).k = "reject"
  /\ net' = Tail(net)
  /\ IF Head(net).r = pending
       THEN pending' = 0 /\ told' = told \union {Head(net).r}
       ELSE UNCHANGED <<pending, told>>
  /\ UNCHANGED <<started, status, fan, roster, phase, bid, opener, create, cancel, rej,
                 appId, kp, mls, welcome, conn, wait, taken, woken, host, rare>>

MutRejected(r) ==
  /\ r \in told
  /\ told' = told \ {r}
  /\ rej' = IF phase = "awaiting" /\ bid # 0 THEN r ELSE rej
  /\ UNCHANGED <<server, phase, bid, opener, create, cancel, appId, guest, host, rare>>

(* _onJoinDecisionReceived, up to its call of clearWaitingRoomJoinRequest. *)
Rejected(r) ==
  /\ r \in told
  /\ told' = told \ {r}
  /\ rej' = IF phase = "awaiting" /\ bid = r THEN r ELSE rej
  /\ UNCHANGED <<server, phase, bid, opener, create, cancel, appId, guest, host, rare>>

(* The call and what the handler does after it. *)
RejectClear ==
  /\ rej # 0
  /\ rej' = 0
  /\ Reset
  /\ appId' = 0
  /\ phase' = "rejected" /\ bid' = 0
  /\ UNCHANGED <<server, opener, create, cancel, told, kp, conn, wait, taken, host,
                 rare>>

-----------------------------------------------------------------------------
(* The calls that wait for the Welcome, one for each request. *)

(* It returns: the app ends the admission, unless that has ended or the    *)
(* wait was cancelled.                                                     *)
Return(r, how) ==
  /\ wait' = [wait EXCEPT ![r] = "none"] /\ woken' = [woken EXCEPT ![r] = FALSE]
  /\ IF Inactive \/ how = "cancelled"
       THEN UNCHANGED <<phase, bid>>
       ELSE phase' = how /\ bid' = IF how = "in" THEN bid ELSE 0

(* One pass of the loop, under the state lock. *)
Look(r) ==
  /\ wait[r] = "look"
  /\ \/ mls = "Success" /\ Return(r, "in") /\ UNCHANGED taken
     \/ mls = "Pending" /\ Return(r, "cancelled") /\ UNCHANGED taken
     \/ /\ mls = "Waiting"
        /\ wait' = [wait EXCEPT ![r] = IF welcome = 0 THEN "sleep" ELSE "join"]
        /\ taken' = [taken EXCEPT ![r] = welcome]
        /\ UNCHANGED <<phase, bid, woken>>
  /\ UNCHANGED <<server, opener, create, cancel, told, rej, appId, kp, mls, welcome,
                 pending, conn, host, rare>>

(* join_group_via_welcome has run with the lock released: it fails for a   *)
(* Welcome that the client has no key for.                                 *)
Join(r) ==
  /\ wait[r] = "join"
  /\ taken' = [taken EXCEPT ![r] = 0]
  /\ IF taken[r] \in kp
       THEN mls' = "Success" /\ welcome' = 0 /\ Return(r, "in")
       ELSE UNCHANGED <<mls, welcome>> /\ Return(r, "failed")
  /\ UNCHANGED <<server, opener, create, cancel, told, rej, appId, kp, pending, conn,
                 host, rare>>

(* The loop asks for the next notification before it looks again. *)
Wake(r) ==
  /\ wait[r] = "sleep" /\ woken[r]
  /\ wait' = [wait EXCEPT ![r] = "look"] /\ woken' = [woken EXCEPT ![r] = FALSE]
  /\ UNCHANGED <<server, app, kp, mls, welcome, pending, conn, taken, host, rare>>

WaitTimeout(r) ==
  /\ wait[r] = "sleep"
  /\ Return(r, "failed")
  /\ UNCHANGED <<server, opener, create, cancel, told, rej, appId, kp, mls, welcome,
                 pending, conn, taken, host, rare>>

-----------------------------------------------------------------------------
(* The hosts. *)

(* handle_join_request *)
Added(h) ==
  /\ fan[h] # <<>> /\ Head(fan[h]).k = "added"
  /\ fan' = [fan EXCEPT ![h] = Tail(@)]
  /\ pend' = [pend EXCEPT ![h] = @ \union {Head(fan[h]).r}]
  /\ UNCHANGED <<started, status, net, roster, app, guest, view, rare>>

MutRemoved(h) ==
  /\ fan[h] # <<>> /\ Head(fan[h]).k = "removed"
  /\ fan' = [fan EXCEPT ![h] = Tail(@)]
  /\ pend' \in {[pend EXCEPT ![h] = {}], [pend EXCEPT ![h] = @ \ {Head(fan[h]).r}]}
  /\ UNCHANGED <<started, status, net, roster, app, guest, view, rare>>

(* handle_join_request_removed: the message may lack the request_id, then  *)
(* it is ignored.                                                          *)
Removed(h) ==
  /\ fan[h] # <<>> /\ Head(fan[h]).k = "removed"
  /\ fan' = [fan EXCEPT ![h] = Tail(@)]
  /\ \/ pend' = [pend EXCEPT ![h] = @ \ {Head(fan[h]).r}] /\ UNCHANGED rare
     \/ Rare /\ UNCHANGED pend
  /\ UNCHANGED <<started, status, net, roster, app, guest, view>>

(* reject_waiting_room_join_request; the server refuses one that is over. *)
Reject(h, r) ==
  /\ r \in pend[h] /\ status[r] = "pending"
  /\ Over(r, "rejected")
  /\ net' = Append(net, [k |-> "reject", r |-> r])
  /\ pend' = [pend EXCEPT ![h] = @ \ {r}]
  /\ UNCHANGED <<started, roster, app, guest, view, rare>>

Forget(h, r) == pend' = [pend EXCEPT ![h] = @ \ {r}]

(* The server takes the commit of h that adds the device. *)
Add(h, r) ==
  /\ view[h] = Newest
  /\ roster' = Append(roster, Append(roster[Newest], r))
  /\ net' = Append(net, [k |-> "welcome", r |-> r])
  /\ Over(r, "admitted")
  /\ UNCHANGED started

MutAdmit(h, r) ==
  /\ r \in pend[h]
  /\ \/ Add(h, r) /\ view' = [view EXCEPT ![h] = @ + 1] /\ Forget(h, r) /\ UNCHANGED rare
     \/ /\ (view[h] # Newest /\ UNCHANGED rare) \/ Rare
        /\ UNCHANGED <<server, pend, view>>
  /\ UNCHANGED <<app, guest>>

(* admit_waiting_room_join_requests: a device of the roster is not added   *)
(* again, the server takes the commit of the newest epoch only, and a      *)
(* failure, of an answer that is lost as well, leaves the request and the  *)
(* epoch with the host.  The request is read before the lock of the group  *)
(* is taken, so that what the host hears in between counts as heard        *)
(* afterwards.  The batch of all requests is left out: it fails when it    *)
(* adds the device twice.                                                  *)
Admit(h, r) ==
  /\ r \in pend[h]
  /\ \/ roster[view[h]] # <<>> /\ Forget(h, r) /\ UNCHANGED <<server, view, rare>>
     \/ /\ roster[view[h]] = <<>> /\ Add(h, r)
        /\ \/ view' = [view EXCEPT ![h] = @ + 1] /\ Forget(h, r) /\ UNCHANGED rare
           \/ Rare /\ UNCHANGED <<pend, view>>
     \/ /\ roster[view[h]] = <<>>
        /\ (view[h] # Newest /\ UNCHANGED rare) \/ Rare
        /\ UNCHANGED <<server, pend, view>>
  /\ UNCHANGED <<app, guest>>

(* The sweep of offline members takes the leaf of a guest that left.       *)
Sweep(h) ==
  /\ phase # "in" /\ roster[view[h]] # <<>>
  /\ view[h] = Newest /\ Rare
  /\ roster' = Append(roster, <<>>)
  /\ view' = [view EXCEPT ![h] = @ + 1]
  /\ UNCHANGED <<started, status, net, fan, app, guest, pend>>

MutProcessCommit(h) ==
  /\ view' = [view EXCEPT ![h] = IF @ <= Newest THEN @ + 1 ELSE @]
  /\ UNCHANGED <<server, app, guest, pend, rare>>

(* The commit of another host, or the rejoin after the answer to its own   *)
(* was lost.                                                               *)
ProcessCommit(h) ==
  /\ view[h] < Newest
  /\ view' = [view EXCEPT ![h] = @ + 1]
  /\ UNCHANGED <<server, app, guest, pend, rare>>
-----------------------------------------------------------------------------
Next ==
  \/ HostStarts
  \/ \E r \in Requests :
       \/ Start(r) \/ Poll(r) \/ Info(r) \/ Refresh(r)
       \/ Post(r) \/ Posted(r) \/ Noted(r) \/ Connect(r) \/ Created(r)
       \/ Rejected(r)
       \/ Look(r) \/ Join(r) \/ Wake(r) \/ WaitTimeout(r)
  \/ Leave \/ CancelDelete \/ CancelReset
  \/ Welcome \/ Decision \/ RejectClear
  \/ \E h \in Hosts :
       \/ Added(h) \/ Removed(h)
       \/ \E r \in Requests : Reject(h, r) \/ Admit(h, r)
       \/ Sweep(h) \/ ProcessCommit(h)

Spec == Init /\ [][Next]_vars

-----------------------------------------------------------------------------
(* The types, and what a host has processed and a guest has taken exist.   *)
TypeOK ==
  /\ started \in BOOLEAN
  /\ status \in [Requests -> {"none", "pending", "admitted", "rejected", "cancelled"}]
  /\ \A i \in DOMAIN net : net[i] \in [k : {"welcome", "reject"}, r : Requests]
  /\ \A h \in Hosts : \A i \in DOMAIN fan[h] :
       fan[h][i] \in [k : {"added", "removed"}, r : Requests]
  /\ \A e \in DOMAIN roster : \A i \in DOMAIN roster[e] : roster[e][i] \in Requests
  /\ phase \in {"new", "notStarted", "awaiting", "left", "rejected", "failed", "in"}
  /\ {bid, opener, rej, appId, welcome, pending} \subseteq Ids
  /\ create \in [Requests -> {"idle", "start", "poll", "auth", "post", "posted",
                              "noted", "connect", "created", "done"}]
  /\ cancel \in {"idle", "delete", "reset"}
  /\ told \subseteq Requests /\ kp \subseteq Requests
  /\ mls \in {"Pending", "Waiting", "Success"}
  /\ conn \in BOOLEAN /\ woken \in [Requests -> BOOLEAN]
  /\ wait \in [Requests -> {"none", "look", "sleep", "join"}]
  /\ taken \in [Requests -> Ids]
  /\ \A r \in Requests : wait[r] = "join" <=> taken[r] # 0
  /\ pend \in [Hosts -> SUBSET Requests]
  /\ view \in [Hosts -> 1..Newest]
  /\ rare \in 0..MaxRare

(* However the hosts race to admit the requests of a guest, the device has *)
(* one leaf at most.                                                       *)
OneLeaf == Len(roster[Newest]) <= 1

(* A host drops a request it knows only when the server no longer holds it *)
(* pending, or when the device is in the group as the host sees it         *)
(* (handle_join_request_removed: a removal without a request_id would drop *)
(* a newer re-request).  In the second case the leaf may be the one of an  *)
(* earlier admission, and a sweep may leave the request with nobody.       *)
PendingKept ==
  [][\A h \in Hosts, r \in Requests :
       r \in pend[h] \ pend'[h] => status'[r] # "pending" \/ roster[view[h]] # <<>>]_vars

(* No Welcome of another request is on its way, kept or in use. *)
OnlyWelcomeOf(r) ==
  /\ \A i \in DOMAIN net : net[i].k = "welcome" => net[i].r = r
  /\ welcome \in {0, r} /\ \A q \in Requests : taken[q] \in {0, r}

(* A guest that waits for a request the hosts have admitted gets in,       *)
(* unless the Welcome of another of its requests is about: it has joined,  *)
(* or it has the request's key package and the request's own Welcome is on *)
(* its way, or kept with the waiting call about to see it, or in use.      *)
AdmittedGetsIn ==
  /\ phase = "awaiting" /\ bid # 0 /\ wait[bid] # "none"
  /\ cancel = "idle" /\ rej = 0
  /\ status[bid] = "admitted" /\ OnlyWelcomeOf(bid)
  => \/ mls = "Success"
     \/ /\ bid \in kp
        /\ \/ \E i \in DOMAIN net : net[i] = [k |-> "welcome", r |-> bid]
           \/ welcome = bid /\ (wait[bid] = "sleep" => woken[bid])
           \/ taken[bid] = bid

(* A rejection ends the admission that was rejected: when the app has      *)
(* handled one, no newer request of the guest goes with it                 *)
(* (handle_join_decision and _onJoinDecisionReceived).                     *)
StaleRejectIgnored ==
  [][rej # 0 /\ rej' = 0 =>
       bid \in {0, rej} /\ ~Calls]_vars

(* A waiting call that sleeps and is not about to be woken has nothing to  *)
(* see: its wait was not cancelled and no Welcome is kept, wherever in its *)
(* loop it was when they came (wait_for_join_proposal_welcome_and_join     *)
(* asks for the notification before it looks).                             *)
NoLostWakeup ==
  \A r \in Requests : wait[r] = "sleep" /\ ~woken[r] => mls # "Pending" /\ welcome = 0

(* A guest that has left has no request at the server (prejoin_bloc.dart:  *)
(* "Cancels an in-flight waiting-room admission on the server").  Not an   *)
(* invariant once a guest may leave while createJoinRequest runs: before    *)
(* the answer to the POST there is no request to delete, and a host may    *)
(* admit a guest that is gone.                                             *)
LeaveCancels ==
  phase = "left" /\ ~Calls => \A r \in Requests : status[r] # "pending"
=============================================================================
