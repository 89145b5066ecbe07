---------------------------- MODULE WsClient_proofs ----------------------------
(***************************************************************************)
(* Proofs about WsClient, for any bounds on connections, joins and         *)
(* troubles.  Where a client that leaves, or a triggered reconnection,     *)
(* breaks a property, its theorem assumes there is none.                   *)
(***************************************************************************)
EXTENDS WsClient, TLAPS

-----------------------------------------------------------------------------
(* Types. *)

TaskRec == [pc: Pcs, tries: Nat, conn: 0..made, fails: Nat]

(* What a step that only moves one task to another place does. *)
LEMMA GotoStep ==
  ASSUME TypeOK, UNCHANGED <<gen, made>>, NEW t \in Tasks, NEW pc \in Pcs, Goto(t, pc)
  PROVE  /\ task' \in [Tasks -> TaskRec]
         /\ task'[t].pc = pc /\ task'[t].conn = task[t].conn
         /\ \A u \in Tasks \ {t} : task'[u] = task[u]
<1>1. task \in [Tasks -> TaskRec]  BY DEF TypeOK, TaskRec
<1>2. [task[t] EXCEPT !.pc = pc] \in TaskRec  BY <1>1 DEF TaskRec
<1> QED BY <1>1, <1>2 DEF Goto, TaskRec

LEMMA TypeStep ==
  ASSUME TypeOK, [Next]_vars
  PROVE  TypeOK'
<1>task. task \in [Tasks -> TaskRec]  BY DEF TypeOK, TaskRec
<1>pcs. Connecting \subseteq Pcs /\ {"out", "in", "start", "begin", "fetch", "sleep",
          "drop", "close", "forget", "done", "spawned", "loop", "select", "handling",
          "exited", "decide", "lock", "handshake", "sender", "receiver", "token",
          "mark"} = Pcs
  BY DEF Pcs, Connecting
<1>app. App \in Tasks /\ Monitor \in Tasks /\ Listeners \subseteq Tasks
  BY DEF Tasks
<1>keep. ASSUME UNCHANGED <<gen, made>>, task' \in [Tasks -> TaskRec],
                {sender', receiver'} \subseteq {sender, receiver} \union {0} \union 0..made,
                live' \subseteq live, lock' \in Tasks \union {Free},
                state' \in {"Disconnected", "Connected", "Reconnecting"},
                {intentional', token'} \subseteq BOOLEAN,
                {joins', troubles', triggers'} \subseteq Nat
         PROVE  TypeOK'
  <2>1. Tasks' = Tasks /\ TaskRec' = TaskRec
    BY <1>keep DEF Tasks, Listeners, TaskRec
  <2> QED BY <1>keep, <2>1 DEF TypeOK, TaskRec
<1>1. ASSUME NEW t \in Tasks, Connect(t)  PROVE TypeOK'
  <2>1. CASE Lock(t)
    <3>1. task' \in [Tasks -> TaskRec]
      BY <2>1, <1>pcs, GotoStep DEF Lock, ConnectFree, stream
    <3> QED BY <2>1, <3>1, <1>keep DEF Lock, ConnectFree, stream, status, bounds, TypeOK
  <2>2. CASE HandshakeDone(t)
    <3>1. made' = made + 1 /\ made' \in Nat /\ made \in Nat /\ UNCHANGED gen
      BY <2>2 DEF HandshakeDone, TypeOK
    <3>2. [task[t] EXCEPT !.pc = "sender", !.conn = made'] \in TaskRec'
      <4>1. task[t].tries \in Nat /\ task[t].fails \in Nat /\ task[t] \in TaskRec
        BY <1>task DEF TaskRec
      <4>2. made' \in 0..made' /\ "sender" \in Pcs  BY <1>pcs, <3>1
      <4> QED BY <4>1, <4>2 DEF TaskRec
    <3>3. TaskRec \subseteq TaskRec'  BY <3>1 DEF TaskRec
    <3>4. task' \in [Tasks -> TaskRec']
      BY <1>task, <2>2, <3>2, <3>3 DEF HandshakeDone
    <3>5. Tasks' = Tasks  BY <3>1 DEF Tasks, Listeners
    <3>6. live' \subseteq 1..made' /\ {sender', receiver'} \subseteq 0..made'
      BY <2>2, <3>1 DEF HandshakeDone, TypeOK
    <3> QED BY <2>2, <3>1, <3>4, <3>5, <3>6
            DEF HandshakeDone, status, bounds, TypeOK, TaskRec
  <2>3. CASE HandshakeFailed(t)
    <3>1. task' \in [Tasks -> TaskRec]
      <4>1. CASE t = App
        BY <1>task, <1>pcs, <2>3, <4>1 DEF HandshakeFailed, TaskRec
      <4>2. CASE t # App
        BY <1>pcs, <2>3, <4>2, GotoStep DEF HandshakeFailed, stream
      <4> QED BY <4>1, <4>2
    <3> QED BY <2>3, <3>1, <1>keep DEF HandshakeFailed, stream, status, bounds, TypeOK
  <2>4. CASE StoreSender(t)
    <3>1. task' \in [Tasks -> TaskRec]  BY <2>4, <1>pcs, GotoStep DEF StoreSender
    <3>2. sender' \in 0..made  BY <1>task, <2>4 DEF StoreSender, TaskRec
    <3> QED BY <2>4, <3>1, <3>2, <1>keep DEF StoreSender, status, bounds, TypeOK
  <2>5. CASE StoreReceiver(t)
    <3>1. task' \in [Tasks -> TaskRec]  BY <2>5, <1>pcs, GotoStep DEF StoreReceiver
    <3>2. receiver' \in 0..made  BY <1>task, <2>5 DEF StoreReceiver, TaskRec
    <3> QED BY <2>5, <3>1, <3>2, <1>keep DEF StoreReceiver, status, bounds, TypeOK
  <2>6. CASE StoreToken(t)
    <3>1. task' \in [Tasks -> TaskRec]  BY <2>6, <1>pcs, GotoStep DEF StoreToken, stream
    <3> QED BY <2>6, <3>1, <1>keep DEF StoreToken, stream, status, bounds, TypeOK
  <2>7. CASE MarkConnected(t)
    <3>1. task' \in [Tasks -> TaskRec]  BY <2>7, <1>pcs, GotoStep DEF MarkConnected, stream
    <3> QED BY <2>7, <3>1, <1>keep DEF MarkConnected, stream, bounds, TypeOK
  <2>8. CASE StartListening(t)
    <3>1. gen \in Nat /\ gen' = gen + 1 /\ UNCHANGED <<made, stream, status, token, lock, bounds>>
      BY <2>8 DEF StartListening, NextGen, stream, TypeOK
    <3>2. Tasks' = Tasks \union {gen + 1} /\ Tasks \subseteq Tasks'
      BY <3>1 DEF Tasks, Listeners
    <3>3. NewTask("spawned") \in TaskRec
      BY <1>pcs DEF NewTask, TaskRec, TypeOK
    <3>4. [task[t] EXCEPT !.pc = IF t = App THEN "in" ELSE "done"] \in TaskRec
      BY <1>task, <1>pcs DEF TaskRec
    <3>5. task' \in [Tasks' -> TaskRec]
      BY <1>task, <2>8, <3>2, <3>3, <3>4 DEF StartListening
    <3>6. TaskRec' = TaskRec  BY <3>1 DEF TaskRec
    <3> QED BY <3>1, <3>2, <3>5, <3>6 DEF stream, status, bounds, TypeOK, TaskRec
  <2> QED BY <1>1, <2>1, <2>2, <2>3, <2>4, <2>5, <2>6, <2>7, <2>8 DEF Connect
<1>2. ASSUME NEW t \in Tasks, Reconnect(t)  PROVE TypeOK'
  <2>1. UNCHANGED <<gen, made>> /\ task' \in [Tasks -> TaskRec]
    <3>1. CASE Begin(t)
      <4>1. [task[t] EXCEPT !.pc = "fetch", !.tries = 1] \in TaskRec
        BY <1>task, <1>pcs DEF TaskRec
      <4> QED BY <1>task, <3>1, <4>1 DEF Begin, stream
    <3>2. CASE Fetch(t)
      <4>1. \E pc \in Pcs : Goto(t, pc)  BY <1>pcs, <3>2 DEF Fetch, GivenUp
      <4> QED BY <3>2, <4>1, GotoStep DEF Fetch, stream
    <3>3. CASE Sleep(t)
      BY <1>task, <1>pcs, <3>3 DEF Sleep, TaskRec, stream
    <3> QED BY <1>2, <3>1, <3>2, <3>3 DEF Reconnect
  <2> QED BY <1>2, <2>1, <1>keep DEF Reconnect, Begin, Fetch, Sleep, stream, status, bounds, TypeOK
<1>3. ASSUME NEW t \in Tasks, Disconnect(t)  PROVE TypeOK'
  <2>1. UNCHANGED <<gen, made>> /\ \E pc \in Pcs : Goto(t, pc)
    BY <1>3, <1>pcs DEF Disconnect, Drop, Close, Forget, stream
  <2>2. task' \in [Tasks -> TaskRec]  BY <2>1, GotoStep
  <2> QED BY <1>3, <2>1, <2>2, <1>keep
          DEF Disconnect, Drop, Close, Forget, stream, status, bounds, TypeOK
<1>4. ASSUME NEW l \in Listeners, Listen(l)  PROVE TypeOK'
  <2>1. UNCHANGED <<gen, made>> /\ task' \in [Tasks -> TaskRec]
    <3>1. CASE TakeReceiver(l)
      BY <1>task, <1>pcs, <1>app, <3>1 DEF TakeReceiver, TaskRec, TypeOK
    <3>2. CASE Pong(l) \/ PongMissed(l) \/ PingFailed(l)
      BY <1>task, <1>pcs, <1>app, <3>2 DEF Pong, PongMissed, PingFailed, TaskRec, stream
    <3>3. CASE \/ Loop(l) \/ Receive(l) \/ Handled(l) \/ StreamEnd(l) \/ Exit(l)
               \/ Decide(l)
      <4>1. UNCHANGED <<gen, made>> /\ \E pc \in Pcs : Goto(l, pc)
        BY <1>pcs, <3>3 DEF Loop, Receive, Handled, StreamEnd, Exit, Decide, stream
      <4> QED BY <1>app, <4>1, GotoStep
    <3> QED BY <1>4, <3>1, <3>2, <3>3 DEF Listen
  <2>2. /\ {joins', troubles', triggers'} \subseteq Nat
        /\ UNCHANGED <<sender, live, token, lock>> /\ receiver' \in {receiver, 0}
    BY <1>4 DEF Listen, TakeReceiver, Loop, Receive, Handled, StreamEnd, Pong,
                PongMissed, PingFailed, Exit, Decide, stream, bounds, TypeOK
  <2>3. \/ UNCHANGED status
        \/ state' = "Disconnected" /\ intentional' = FALSE
    BY <1>4 DEF Listen, TakeReceiver, Loop, Receive, Handled, StreamEnd, Pong,
                PongMissed, PingFailed, Exit, Decide
  <2> QED BY <2>1, <2>2, <2>3, <1>keep DEF status, TypeOK
<1>5. CASE Join
  <2>1. task' \in [Tasks -> TaskRec]
    BY <1>task, <1>pcs, <1>app, <1>5 DEF Join, NewTask, TaskRec, TypeOK
  <2> QED BY <1>5, <2>1, <1>keep DEF Join, stream, status, TypeOK
<1>6. CASE ConnectDropped
  <2>1. task' \in [Tasks -> TaskRec]
    <3>1. CASE Goto(App, "drop")
      BY <1>pcs, <1>app, <1>6, <3>1, GotoStep DEF ConnectDropped, stream
    <3>2. CASE ~Goto(App, "drop")
      BY <1>task, <1>pcs, <1>app, <1>6, <3>2 DEF ConnectDropped, TaskRec
    <3> QED BY <3>1, <3>2
  <2> QED BY <1>6, <2>1, <1>keep DEF ConnectDropped, stream, status, TypeOK
<1>7. CASE Leave
  <2>1. task' \in [Tasks -> TaskRec]
    BY <1>pcs, <1>app, <1>7, GotoStep DEF Leave, stream
  <2> QED BY <1>7, <2>1, <1>keep DEF Leave, stream, status, bounds, TypeOK
<1>8. CASE TriggerReconnect
  <2>1. task' \in [Tasks -> TaskRec]
    BY <1>pcs, <1>app, <1>8, GotoStep DEF TriggerReconnect, stream
  <2> QED BY <1>8, <2>1, <1>keep DEF TriggerReconnect, stream, status, TypeOK
<1>9. CASE Break
  BY <1>9, <1>task, <1>keep DEF Break, status, TypeOK
<1>10. CASE UNCHANGED vars
  BY <1>10, <1>task, <1>keep DEF vars, TypeOK
<1> QED BY <1>1, <1>2, <1>3, <1>4, <1>5, <1>6, <1>7, <1>8, <1>9, <1>10 DEF Next

(* Type correctness: also of a set of tasks that grows with every listener. *)
THEOREM WsTypeCorrect == Spec => []TypeOK
<1>1. Init => TypeOK
  <2> SUFFICES ASSUME Init PROVE TypeOK
    OBVIOUS
  <2>1. Tasks = {App, Monitor}  BY DEF Init, Tasks, Listeners
  <2>2. NewTask("out") \in [pc: Pcs, tries: Nat, conn: 0..made, fails: Nat]
    BY DEF Init, NewTask, Pcs
  <2>3. task \in [Tasks -> [pc: Pcs, tries: Nat, conn: 0..made, fails: Nat]]
    BY <2>1, <2>2 DEF Init
  <2>4. state = "Disconnected" /\ {intentional, token} \subseteq BOOLEAN
    BY DEF Init
  <2>5. /\ {made, gen, joins, troubles, triggers} \subseteq Nat
        /\ {sender, receiver} \subseteq 0..made /\ live \subseteq 1..made
    BY DEF Init
  <2>6. lock \in Tasks \union {Free}  BY DEF Init
  <2> QED BY <2>3, <2>4, <2>5, <2>6 DEF TypeOK
<1> QED BY <1>1, TypeStep, PTL DEF Spec

-----------------------------------------------------------------------------
(* Who moves. *)

(* Whatever a task does, the other tasks stay where they are, and unless it
   starts a listener the tasks stay the same. *)
LEMMA Moves ==
  ASSUME TypeOK, NEW t \in Tasks, ~StartListening(t),
         \/ Connect(t) \/ Reconnect(t) \/ Disconnect(t)
         \/ t \in Listeners /\ Listen(t)
  PROVE  /\ UNCHANGED gen /\ Tasks' = Tasks
         /\ \A u \in Tasks \ {t} : task'[u] = task[u]
<1>1. DOMAIN task = Tasks  BY DEF TypeOK
<1>2. UNCHANGED gen /\ \A u \in Tasks \ {t} : task'[u] = task[u]
  <2>1. CASE Connect(t)
    BY <1>1, <2>1 DEF Connect, Lock, ConnectFree, HandshakeDone, HandshakeFailed, StoreSender,
                      StoreReceiver, StoreToken, MarkConnected, Goto
  <2>2. CASE Reconnect(t)
    BY <1>1, <2>2 DEF Reconnect, Begin, Fetch, Sleep, Goto
  <2>3. CASE Disconnect(t)
    BY <1>1, <2>3 DEF Disconnect, Drop, Close, Forget, Goto
  <2>4. CASE t \in Listeners /\ Listen(t)
    BY <1>1, <2>4 DEF Listen, TakeReceiver, Loop, Receive, Handled, StreamEnd, Pong,
                      PongMissed, PingFailed, Exit, Decide, Goto
  <2> QED BY <2>1, <2>2, <2>3, <2>4
<1> QED BY <1>2 DEF Tasks, Listeners

(* Starting a listener adds one task and ends, or settles, the one that does. *)
LEMMA Spawns ==
  ASSUME TypeOK, NEW t \in Tasks, StartListening(t)
  PROVE  /\ gen' = gen + 1 /\ gen + 1 \notin Tasks
         /\ Tasks' = Tasks \union {gen + 1} /\ Listeners' = Listeners \union {gen + 1}
         /\ task'[gen + 1].pc = "spawned"
         /\ task'[t].pc = (IF t = App THEN "in" ELSE "done")
         /\ \A u \in Tasks \ {t} : task'[u] = task[u]
         /\ UNCHANGED <<state, intentional, receiver, token, lock>>
<1>1. gen \in Nat /\ task \in [Tasks -> TaskRec]  BY DEF TypeOK, TaskRec
<1>2. gen' = gen + 1 /\ UNCHANGED <<state, intentional, receiver, token, lock>>
  BY DEF StartListening, NextGen, status, stream
<1>3. /\ gen + 1 \notin Tasks /\ Tasks' = Tasks \union {gen + 1}
      /\ Listeners' = Listeners \union {gen + 1}
  BY <1>1, <1>2 DEF Tasks, Listeners, App, Monitor
<1>4. task' = [u \in Tasks \union {gen + 1} |->
         CASE u = gen + 1 -> NewTask("spawned")
           [] u = t -> [task[t] EXCEPT !.pc = IF t = App THEN "in" ELSE "done"]
           [] OTHER -> task[u]]
  BY DEF StartListening
<1>5. task'[gen + 1].pc = "spawned"
  <2>1. task'[gen + 1] = NewTask("spawned")  BY <1>4, <1>3
  <2> QED BY <2>1 DEF NewTask
<1>6. task'[t] = [task[t] EXCEPT !.pc = IF t = App THEN "in" ELSE "done"]
  BY <1>3, <1>4
<1>7. task'[t].pc = (IF t = App THEN "in" ELSE "done")
  BY <1>1, <1>6 DEF TaskRec
<1>8. \A u \in Tasks \ {t} : task'[u] = task[u]
  BY <1>3, <1>4
<1> QED BY <1>2, <1>3, <1>5, <1>7, <1>8

-----------------------------------------------------------------------------
(* connect_lock. *)

(* Between the handshake and the mark one task is connecting, the one that holds
   the lock, wherever connect() is dropped. *)
ConnectExclusive ==
  \A t \in Tasks : task[t].pc \in Connecting \ {"lock"} <=> lock = t

LEMMA ExclusiveStep ==
  ASSUME TypeOK, ConnectExclusive, [Next]_vars
  PROVE  ConnectExclusive'
<1>task. task \in [Tasks -> TaskRec] /\ lock \in Tasks \union {Free} /\ gen \in Nat
  BY DEF TypeOK, TaskRec
<1>free. Free \notin Tasks /\ App \in Tasks /\ Monitor \in Tasks /\ App # Monitor
  BY <1>task DEF Tasks, Listeners, Free, App, Monitor
<1>held. Connecting \ {"lock"} = {"handshake", "sender", "receiver", "token", "mark"}
  BY DEF Connecting
<1>keep. ASSUME NEW t \in Tasks, Tasks' = Tasks,
                \A u \in Tasks \ {t} : task'[u] = task[u] /\ (lock' = u <=> lock = u),
                task'[t].pc \in Connecting \ {"lock"} <=> lock' = t
         PROVE  ConnectExclusive'
  BY <1>keep DEF ConnectExclusive, Connecting
<1>1. ASSUME NEW t \in Tasks, Connect(t)  PROVE ConnectExclusive'
  <2>1. CASE StartListening(t)
    <3>1. gen + 1 # lock  BY <1>task, <1>free, <2>1, Spawns DEF Free
    <3>2. lock # t  BY <1>held, <2>1 DEF StartListening, ConnectExclusive
    <3>3. \A u \in Tasks' : task'[u].pc \in {"handshake", "sender", "receiver", "token", "mark"}
                            <=> lock' = u
      BY <3>1, <3>2, <1>held, <2>1, Spawns DEF ConnectExclusive
    <3> QED BY <3>3, <1>held DEF ConnectExclusive, Connecting
  <2>2. CASE ~StartListening(t)
    <3>1. Tasks' = Tasks /\ \A u \in Tasks \ {t} : task'[u] = task[u]
      BY <1>1, <2>2, Moves
    <3>2. \A u \in Tasks \ {t} : lock' = u <=> lock = u
      BY <1>1, <1>held, <1>free, <2>2
         DEF Connect, Lock, ConnectFree, HandshakeDone, HandshakeFailed, StoreSender, StoreReceiver,
             StoreToken, MarkConnected, ConnectExclusive
    <3>3. task'[t].pc \in {"handshake", "sender", "receiver", "token", "mark"} <=> lock' = t
      <4>1. CASE Lock(t) \/ StoreSender(t) \/ StoreReceiver(t) \/ StoreToken(t) \/ MarkConnected(t)
        BY <1>task, <1>held, <1>free, <4>1
           DEF Lock, ConnectFree, StoreSender, StoreReceiver, StoreToken, MarkConnected, Goto,
               TaskRec, ConnectExclusive
      <4>2. CASE HandshakeDone(t)
        BY <1>task, <1>held, <1>free, <4>2 DEF HandshakeDone, TaskRec, ConnectExclusive
      <4>3. CASE HandshakeFailed(t)
        <5>1. lock' = Free  BY <4>3 DEF HandshakeFailed
        <5>2. task'[t].pc \in {"lock", "drop", "sleep"}
          BY <1>task, <4>3 DEF HandshakeFailed, Goto, TaskRec
        <5> QED BY <5>1, <5>2, <1>free
      <4> QED BY <1>1, <2>2, <4>1, <4>2, <4>3 DEF Connect
    <3> QED BY <3>1, <3>2, <3>3, <1>held, <1>keep
  <2> QED BY <2>1, <2>2
<1>2. ASSUME NEW t \in Tasks,
             \/ Reconnect(t) \/ Disconnect(t)
             \/ t \in Listeners /\ Listen(t)
      PROVE  ConnectExclusive'
  <2>1. UNCHANGED lock
    BY <1>2 DEF Reconnect, Begin, Fetch, Sleep, Disconnect, Drop, Close, Forget, Listen,
                TakeReceiver, Loop, Receive, Handled, StreamEnd, Pong, PongMissed,
                PingFailed, Exit, Decide
  <2>2. task[t].pc \notin Connecting
    BY <1>2 DEF Reconnect, Begin, Fetch, Sleep, Disconnect, Drop, Close, Forget, Listen,
                TakeReceiver, Loop, Receive, Handled, StreamEnd, Pong, PongMissed,
                PingFailed, Exit, Decide, Connecting
  <2>3. task'[t].pc \notin {"handshake", "sender", "receiver", "token", "mark"}
    <3>1. CASE Reconnect(t)
      BY <1>task, <3>1 DEF Reconnect, Begin, Fetch, Sleep, Goto, TaskRec, GivenUp
    <3>2. CASE Disconnect(t)
      BY <1>task, <3>2 DEF Disconnect, Drop, Close, Forget, Goto, TaskRec
    <3>3. CASE t \in Listeners /\ Listen(t)
      BY <1>task, <3>3
         DEF Listen, TakeReceiver, Loop, Receive, Handled, StreamEnd, Pong, PongMissed,
             PingFailed, Exit, Decide, Goto, TaskRec
    <3> QED BY <1>2, <3>1, <3>2, <3>3
  <2>4. ~StartListening(t)  BY <2>2, <1>2 DEF StartListening, Reconnect, Begin, Fetch,
                Sleep, Disconnect, Drop, Close, Forget, Listen, TakeReceiver, Loop, Receive,
                Handled, StreamEnd, Pong, PongMissed, PingFailed, Exit, Decide
  <2>5. Tasks' = Tasks /\ \A u \in Tasks \ {t} : task'[u] = task[u]
    BY <1>2, <2>4, Moves
  <2>6. lock # t  BY <2>2 DEF ConnectExclusive
  <2> QED BY <2>1, <2>3, <2>5, <2>6, <1>held, <1>keep
<1>3. CASE Join \/ ConnectDropped \/ Leave \/ TriggerReconnect
  <2>0. UNCHANGED gen
    BY <1>3 DEF Join, ConnectDropped, Leave, TriggerReconnect
  <2>1. Tasks' = Tasks  BY <2>0 DEF Tasks, Listeners
  <2>2. CASE Join
    BY <1>task, <1>free, <1>held, <1>keep, <2>1, <2>2 DEF Join, NewTask, TaskRec, ConnectExclusive
  <2>3. CASE ConnectDropped
    <3>1. task'[App].pc \in {"lock", "drop"}
      BY <1>task, <1>free, <2>3 DEF ConnectDropped, Goto, TaskRec
    <3>2. \A u \in Tasks \ {App} : task'[u] = task[u]
      BY <1>task, <1>free, <2>3 DEF ConnectDropped, Goto
    <3>3. lock' = IF lock = App THEN Free ELSE lock
      BY <2>3 DEF ConnectDropped
    <3> QED BY <1>free, <1>held, <1>keep, <2>1, <3>1, <3>2, <3>3
  <2>4. CASE Leave
    BY <1>task, <1>free, <1>held, <1>keep, <2>1, <2>4 DEF Leave, Goto, TaskRec, ConnectExclusive
  <2>5. CASE TriggerReconnect
    BY <1>task, <1>free, <1>held, <1>keep, <2>1, <2>5
       DEF TriggerReconnect, Goto, TaskRec, ConnectExclusive
  <2> QED BY <1>3, <2>2, <2>3, <2>4, <2>5
<1>4. CASE Break \/ UNCHANGED vars
  BY <1>4 DEF Break, vars, ConnectExclusive, Tasks, Listeners, Connecting
<1> QED BY <1>1, <1>2, <1>3, <1>4 DEF Next, Tasks

(* Only the connecting task stores anything; the others only take away. *)
LEMMA OwnHalvesStep ==
  ASSUME TypeOK, ConnectExclusive, OwnHalves, [Next]_vars
  PROVE  OwnHalves'
<1>task. task \in [Tasks -> TaskRec] /\ gen \in Nat  BY DEF TypeOK, TaskRec
<1>free. App \in Tasks /\ Monitor \in Tasks /\ App # Monitor
  BY DEF Tasks, App, Monitor
<1>held. \A t, u \in Tasks :
           /\ task[t].pc \in {"sender", "receiver", "token", "mark"}
           /\ task[u].pc \in {"sender", "receiver", "token", "mark"}
           => t = u
  BY DEF ConnectExclusive, Connecting
<1>1. ASSUME NEW t \in Tasks,
             \/ Connect(t) \/ Reconnect(t) \/ Disconnect(t)
             \/ t \in Listeners /\ Listen(t)
      PROVE  OwnHalves'
  <2>1. \A u \in Tasks' \ {t} : \/ task'[u].pc = "spawned"
                                \/ u \in Tasks /\ task'[u] = task[u]
    BY <1>1, Moves, Spawns
  <2>2. /\ UNCHANGED sender \/ sender' = 0 \/ task[t].pc = "sender"
        /\ UNCHANGED receiver \/ receiver' = 0 \/ task[t].pc = "receiver"
        /\ task'[t].pc \in {"receiver", "token", "mark"} => sender' \in {0, task'[t].conn}
        /\ task'[t].pc \in {"token", "mark"} => receiver' \in {0, task'[t].conn}
    <3>1. CASE ~Connect(t)
      <4>1. /\ UNCHANGED sender \/ sender' = 0
            /\ UNCHANGED receiver \/ receiver' = 0
        BY <1>1, <3>1
           DEF Reconnect, Begin, Fetch, Sleep, Disconnect, Drop, Close, Forget, Listen,
               TakeReceiver, Loop, Receive, Handled, StreamEnd, Pong, PongMissed, PingFailed,
               Exit, Decide, stream
      <4>2. task'[t].pc \notin {"receiver", "token", "mark"}
        <5>1. CASE Reconnect(t)
          BY <1>task, <5>1 DEF Reconnect, Begin, Fetch, Sleep, Goto, TaskRec, GivenUp
        <5>2. CASE Disconnect(t)
          BY <1>task, <5>2 DEF Disconnect, Drop, Close, Forget, Goto, TaskRec
        <5>3. CASE t \in Listeners /\ Listen(t)
          BY <1>task, <5>3
             DEF Listen, TakeReceiver, Loop, Receive, Handled, StreamEnd, Pong, PongMissed,
                 PingFailed, Exit, Decide, Goto, TaskRec
        <5> QED BY <1>1, <3>1, <5>1, <5>2, <5>3
      <4> QED BY <4>1, <4>2
    <3>2. CASE StartListening(t)
      <4>1. task'[t].pc \in {"in", "done"}  BY <3>2, Spawns
      <4>2. UNCHANGED <<sender, receiver>>  BY <3>2 DEF StartListening, stream
      <4> QED BY <4>1, <4>2
    <3>3. CASE HandshakeFailed(t)
      <4>1. task'[t].pc \in {"lock", "drop", "sleep"}
        BY <1>task, <3>3 DEF HandshakeFailed, Goto, TaskRec
      <4>2. UNCHANGED <<sender, receiver>>  BY <3>3 DEF HandshakeFailed, stream
      <4> QED BY <4>1, <4>2
    <3>4. CASE Lock(t) \/ HandshakeDone(t)
      <4>1. task'[t].pc \in {"handshake", "sender"}
        BY <1>task, <3>4 DEF Lock, HandshakeDone, Goto, TaskRec
      <4>2. UNCHANGED <<sender, receiver>>  BY <3>4 DEF Lock, HandshakeDone, stream
      <4> QED BY <4>1, <4>2
    <3>5. CASE StoreSender(t)
      <4>1. /\ task[t].pc = "sender" /\ UNCHANGED receiver
            /\ task'[t].pc = "receiver" /\ sender' = task'[t].conn
        BY <1>task, <3>5 DEF StoreSender, Goto, TaskRec
      <4> QED BY <4>1
    <3>6. CASE StoreReceiver(t)
      <4>1. /\ task[t].pc = "receiver" /\ UNCHANGED sender /\ task'[t].conn = task[t].conn
            /\ task'[t].pc = "token" /\ receiver' = task'[t].conn
        BY <1>task, <3>6 DEF StoreReceiver, Goto, TaskRec
      <4>2. sender \in {0, task'[t].conn}  BY <4>1 DEF OwnHalves
      <4> QED BY <4>1, <4>2
    <3>7. CASE StoreToken(t) \/ MarkConnected(t)
      <4>1. /\ task[t].pc \in {"token", "mark"} /\ UNCHANGED <<sender, receiver>>
            /\ task'[t].conn = task[t].conn
        BY <1>task, <3>7 DEF StoreToken, MarkConnected, stream, Goto, TaskRec
      <4>2. sender \in {0, task'[t].conn} /\ receiver \in {0, task'[t].conn}
        BY <4>1 DEF OwnHalves
      <4> QED BY <4>1, <4>2
    <3> QED BY <1>1, <3>1, <3>2, <3>3, <3>4, <3>5, <3>6, <3>7 DEF Connect
  <2>3. ASSUME NEW u \in Tasks', u # t
        PROVE  /\ task'[u].pc \in {"receiver", "token", "mark"} => sender' \in {0, task'[u].conn}
               /\ task'[u].pc \in {"token", "mark"} => receiver' \in {0, task'[u].conn}
    <3>1. CASE task'[u].pc = "spawned"  BY <3>1
    <3>2. CASE u \in Tasks /\ task'[u] = task[u]
      BY <1>held, <2>2, <2>3, <3>2 DEF OwnHalves
    <3> QED BY <2>1, <2>3, <3>1, <3>2
  <2> QED BY <2>2, <2>3 DEF OwnHalves
<1>2. CASE Join \/ ConnectDropped \/ Leave
  <2>1. Tasks' = Tasks /\ UNCHANGED <<sender, receiver>>
    BY <1>2 DEF Join, ConnectDropped, Leave, stream, Tasks, Listeners
  <2>2. \A u \in Tasks \ {App} : task'[u] = task[u]
    BY <1>2, <1>task DEF Join, ConnectDropped, Leave, Goto
  <2>3. task'[App].pc \in {"lock", "drop"}
    <3>1. CASE Join  BY <3>1, <1>task, <1>free DEF Join, NewTask
    <3>2. CASE ConnectDropped \/ Leave
      BY <3>2, <1>task, <1>free DEF ConnectDropped, Leave, Goto, TaskRec
    <3> QED BY <1>2, <3>1, <3>2
  <2> QED BY <1>free, <2>1, <2>2, <2>3 DEF OwnHalves
<1>3. CASE TriggerReconnect
  <2>1. Tasks' = Tasks /\ UNCHANGED <<sender, receiver>>
    BY <1>3 DEF TriggerReconnect, stream, Tasks, Listeners
  <2>2. task'[Monitor].pc = "begin" /\ \A u \in Tasks \ {Monitor} : task'[u] = task[u]
    BY <1>3, <1>task, <1>free DEF TriggerReconnect, Goto, TaskRec
  <2> QED BY <1>free, <2>1, <2>2 DEF OwnHalves
<1>4. CASE Break \/ UNCHANGED vars
  BY <1>4 DEF Break, vars, OwnHalves, Tasks, Listeners
<1>5. ASSUME NEW l \in Listeners, Listen(l)
      PROVE  OwnHalves'
  <2>1. l \in Tasks  BY DEF Tasks
  <2> QED BY <1>1, <1>5, <2>1
<1> QED BY <1>1, <1>2, <1>3, <1>4, <1>5 DEF Next

(* A connect() that is dropped, refused or overtaken by a disconnect never leaves
   its halves for another one to be marked with. *)
THEOREM ConnectsOwn == Spec => []OwnHalves
<1>1. Init => ConnectExclusive /\ OwnHalves
  BY DEF Init, ConnectExclusive, OwnHalves, Tasks, Listeners, NewTask, Connecting, App,
         Monitor, Free
<1> QED BY <1>1, WsTypeCorrect, ExclusiveStep, OwnHalvesStep, PTL DEF Spec

-----------------------------------------------------------------------------
(* A client that does not leave. *)

(* Until the app is in the meeting nobody but the app does anything; from then
   on it has a token, and it never gives the token back. *)
JoinFirst ==
  /\ task[App].pc \in Connecting \union {"out", "start", "in", "drop", "close", "forget"}
  /\ task[App].pc # "in" => gen = 0 /\ task[Monitor].pc = "out"
  /\ \A t \in Tasks \ {App} : task[t].pc \notin {"forget", "in"}
  /\ task[App].pc \in {"mark", "start", "in"} => token
  /\ task[App].pc = "out" => ~token

(* When somebody else moves, the app is in the meeting. *)
LEMMA OthersLater ==
  ASSUME TypeOK, JoinFirst, NEW t \in Tasks, t # App, task[t].pc # "out"
  PROVE  task[App].pc = "in" /\ token
<1>1. t = Monitor \/ (t \in Listeners /\ gen # 0)
  BY DEF Tasks, Listeners, TypeOK
<1> QED BY <1>1 DEF JoinFirst

LEMMA JoinFirstStep ==
  ASSUME Leaves = FALSE, TypeOK, JoinFirst, [Next]_vars
  PROVE  JoinFirst'
<1>task. task \in [Tasks -> TaskRec] /\ gen \in Nat  BY DEF TypeOK, TaskRec
<1>free. App \in Tasks /\ Monitor \in Tasks /\ App # Monitor
  BY DEF Tasks, App, Monitor
<1>pcs. Connecting = {"lock", "handshake", "sender", "receiver", "token", "mark"}
  BY DEF Connecting
<1>keep. ASSUME task[App].pc = "in", task'[App].pc = "in", UNCHANGED token,
                \A t \in Tasks' \ {App} : task'[t].pc \notin {"forget", "in"}
         PROVE  JoinFirst'
  BY <1>keep DEF JoinFirst, Connecting
<1>app. ASSUME UNCHANGED gen, Tasks' = Tasks, \A u \in Tasks \ {App} : task'[u] = task[u],
               task[App].pc # "in",
               task'[App].pc \in Connecting \union {"out", "start", "drop", "close", "forget"},
               task'[App].pc \in {"mark", "start"} => token',
               task'[App].pc = "out" => ~token'
        PROVE  JoinFirst'
  <2>1. gen' = 0 /\ task'[Monitor].pc = "out"  BY <1>app, <1>free DEF JoinFirst
  <2>2. \A t \in Tasks' \ {App} : task'[t].pc \notin {"forget", "in"}
    BY <1>app DEF JoinFirst
  <2>3. task'[App].pc # "in"  BY <1>app, <1>pcs
  <2> QED BY <1>app, <2>1, <2>2, <2>3 DEF JoinFirst, Connecting
<1>1. ASSUME Connect(App) \/ Reconnect(App) \/ Disconnect(App), ~StartListening(App)
      PROVE  JoinFirst'
  <2>0. ~Reconnect(App)
    BY <1>pcs DEF JoinFirst, Reconnect, Begin, Fetch, Sleep
  <2>1. UNCHANGED gen /\ Tasks' = Tasks /\ \A u \in Tasks \ {App} : task'[u] = task[u]
    BY <1>1, <1>free, Moves
  <2>2. /\ task[App].pc # "in"
        /\ task'[App].pc \in Connecting \union {"out", "start", "drop", "close", "forget"}
        /\ task'[App].pc \in {"mark", "start"} => token'
        /\ task'[App].pc = "out" => ~token'
    <3>1. CASE \/ Lock(App) \/ StoreSender(App) \/ StoreReceiver(App)
               \/ StoreToken(App) \/ MarkConnected(App)
      BY <1>task, <1>free, <1>pcs, <3>1
         DEF Lock, ConnectFree, StoreSender, StoreReceiver, StoreToken, MarkConnected, Goto, TaskRec,
             JoinFirst
    <3>2. CASE HandshakeDone(App)
      BY <1>task, <1>free, <1>pcs, <3>2 DEF HandshakeDone, TaskRec
    <3>3. CASE HandshakeFailed(App)
      BY <1>task, <1>free, <1>pcs, <3>3 DEF HandshakeFailed, TaskRec
    <3>4. CASE Disconnect(App)
      BY <1>task, <1>free, <1>pcs, <3>4
         DEF Disconnect, Drop, Close, Forget, Goto, TaskRec
    <3> QED BY <1>1, <2>0, <3>1, <3>2, <3>3, <3>4 DEF Connect
  <2> QED BY <2>1, <2>2, <1>app
<1>2. CASE StartListening(App)
  <2>1. token  BY <1>2 DEF StartListening, JoinFirst
  <2>2. task'[App].pc = "in" /\ UNCHANGED token  BY <1>2, <1>free, Spawns
  <2>3. \A t \in Tasks' \ {App} : task'[t].pc \notin {"forget", "in"}
    BY <1>2, <1>free, Spawns DEF JoinFirst
  <2> QED BY <2>1, <2>2, <2>3 DEF JoinFirst, Connecting
<1>3. ASSUME NEW t \in Tasks, t # App,
             \/ Connect(t) \/ Reconnect(t) \/ Disconnect(t)
             \/ t \in Listeners /\ Listen(t)
      PROVE  JoinFirst'
  <2>1. task[t].pc # "out"
    BY <1>3 DEF Connect, Lock, ConnectFree, HandshakeDone, HandshakeFailed, StoreSender, StoreReceiver,
             StoreToken, MarkConnected, StartListening, Reconnect, Begin, Fetch, Sleep,
             Disconnect, Drop, Close, Forget, Listen, TakeReceiver, Loop, Receive, Handled,
             StreamEnd, Pong, PongMissed, PingFailed, Exit, Decide
  <2>2. task[App].pc = "in" /\ token  BY <1>3, <2>1, OthersLater
  <2>3. CASE StartListening(t)
    <3>1. UNCHANGED token /\ task'[App].pc = "in"  BY <1>3, <2>2, <2>3, <1>free, Spawns
    <3>2. \A u \in Tasks' \ {App} : task'[u].pc \notin {"forget", "in"}
      BY <1>3, <2>3, Spawns DEF JoinFirst
    <3> QED BY <2>2, <3>1, <3>2, <1>keep
  <2>4. CASE ~StartListening(t)
    <3>1. Tasks' = Tasks /\ \A u \in Tasks \ {t} : task'[u] = task[u]
      BY <1>3, <2>4, Moves
    <3>2. task[t].pc # "forget"  BY <1>3 DEF JoinFirst
    <3>3. token' /\ task'[t].pc \notin {"forget", "in"}
      <4>1. CASE Connect(t)
        <5>1. CASE HandshakeDone(t)
          BY <1>task, <2>2, <5>1 DEF HandshakeDone, TaskRec
        <5>2. CASE HandshakeFailed(t)
          <6>1. \E pc \in {"sleep", "drop"} : Goto(t, pc)
            BY <1>3, <5>2 DEF HandshakeFailed
          <6> QED BY <1>task, <2>2, <5>2, <6>1 DEF HandshakeFailed, Goto, TaskRec
        <5>3. CASE \/ Lock(t) \/ StoreSender(t) \/ StoreReceiver(t) \/ StoreToken(t)
                   \/ MarkConnected(t)
          BY <1>task, <2>2, <5>3
             DEF Lock, ConnectFree, StoreSender, StoreReceiver, StoreToken, MarkConnected, Goto, TaskRec
        <5> QED BY <2>4, <4>1, <5>1, <5>2, <5>3 DEF Connect
      <4>2. CASE Reconnect(t)
        BY <1>task, <2>2, <4>2 DEF Reconnect, Begin, Fetch, Sleep, Goto, TaskRec, GivenUp
      <4>3. CASE Disconnect(t)
        BY <1>task, <1>3, <2>2, <3>2, <4>3
           DEF Disconnect, Drop, Close, Forget, Goto, TaskRec
      <4>4. CASE t \in Listeners /\ Listen(t)
        BY <1>task, <2>2, <4>4
           DEF Listen, TakeReceiver, Loop, Receive, Handled, StreamEnd, Pong, PongMissed,
               PingFailed, Exit, Decide, Goto, TaskRec
      <4> QED BY <1>3, <4>1, <4>2, <4>3, <4>4
    <3>4. \A u \in Tasks' \ {App} : task'[u].pc \notin {"forget", "in"}
      BY <3>1, <3>3 DEF JoinFirst
    <3> QED BY <1>3, <1>free, <2>2, <3>1, <3>3, <3>4, <1>keep
  <2> QED BY <2>3, <2>4
<1>4. CASE Join
  <2>1. UNCHANGED gen /\ Tasks' = Tasks  BY <1>4 DEF Join, Tasks, Listeners
  <2>2. \A u \in Tasks \ {App} : task'[u] = task[u]  BY <1>4, <1>task DEF Join
  <2>3. task'[App].pc = "lock" /\ task[App].pc = "out"
    BY <1>4, <1>task, <1>free DEF Join, NewTask
  <2> QED BY <2>1, <2>2, <2>3, <1>pcs, <1>app
<1>5. CASE ConnectDropped
  <2>1. UNCHANGED gen /\ Tasks' = Tasks  BY <1>5 DEF ConnectDropped, Tasks, Listeners
  <2>2. \A u \in Tasks \ {App} : task'[u] = task[u]
    BY <1>5, <1>task DEF ConnectDropped, Goto
  <2>3. task'[App].pc \in {"lock", "drop"} /\ task[App].pc # "in"
    BY <1>5, <1>task, <1>free, <1>pcs DEF ConnectDropped, Goto, TaskRec
  <2> QED BY <2>1, <2>2, <2>3, <1>pcs, <1>app
<1>6. CASE Leave
  BY <1>6 DEF Leave
<1>7. CASE TriggerReconnect
  <2>1. Tasks' = Tasks /\ UNCHANGED token /\ task[App].pc = "in"
    BY <1>7 DEF TriggerReconnect, Tasks, Listeners
  <2>2. task'[Monitor].pc = "begin" /\ \A u \in Tasks \ {Monitor} : task'[u] = task[u]
    BY <1>7, <1>task, <1>free DEF TriggerReconnect, Goto, TaskRec
  <2> QED BY <1>free, <2>1, <2>2, <1>keep DEF JoinFirst
<1>8. CASE Break \/ UNCHANGED vars
  BY <1>8 DEF Break, vars, JoinFirst, Tasks, Listeners, Connecting
<1>9. ASSUME NEW t \in Tasks, Connect(t) \/ Reconnect(t) \/ Disconnect(t)
      PROVE  JoinFirst'
  BY <1>1, <1>2, <1>3, <1>9
<1>10. ASSUME NEW l \in Listeners, Listen(l)
       PROVE  JoinFirst'
  <2>1. l \in Tasks /\ l # App  BY <1>10, <1>task DEF Tasks, Listeners, App
  <2> QED BY <1>3, <1>10, <2>1
<1> QED BY <1>4, <1>5, <1>6, <1>7, <1>8, <1>9, <1>10 DEF Next

LEMMA InitJoinFirst == Init => JoinFirst
<1> SUFFICES ASSUME Init PROVE JoinFirst
  OBVIOUS
<1>1. App \in Tasks /\ Monitor \in Tasks /\ Tasks = {App, Monitor} /\ App # Monitor
  BY DEF Init, Tasks, Listeners, App, Monitor
<1>2. \A t \in Tasks : task[t].pc = "out"
  BY <1>1 DEF Init, NewTask
<1> QED BY <1>1, <1>2 DEF Init, JoinFirst

-----------------------------------------------------------------------------
(* The state Reconnecting. *)

LEMMA ReconnectingStep ==
  ASSUME Leaves = FALSE, TypeOK, JoinFirst, ReconnectingIsActive, [Next]_vars
  PROVE  ReconnectingIsActive'
<1> SUFFICES ASSUME state' = "Reconnecting"
             PROVE  \E t \in Tasks' : Reconnecting(t)'
  BY DEF ReconnectingIsActive
<1>task. task \in [Tasks -> TaskRec] /\ gen \in Nat  BY DEF TypeOK, TaskRec
<1>free. App \in Tasks /\ Monitor \in Tasks /\ App # Monitor
  BY DEF Tasks, App, Monitor
<1>pcs. Connecting = {"lock", "handshake", "sender", "receiver", "token", "mark"}
  BY DEF Connecting
<1>here. ASSUME NEW t \in Tasks', t # App,
                task'[t].pc \in Connecting \union {"fetch", "sleep", "drop"}
         PROVE  Reconnecting(t)'
  BY <1>here DEF Reconnecting, Connecting
<1>1. ASSUME NEW t \in Tasks, state = "Reconnecting",
             \/ Connect(t) \/ Reconnect(t) \/ Disconnect(t)
             \/ t \in Listeners /\ Listen(t)
      PROVE  \E u \in Tasks' : Reconnecting(u)'
  <2>1. PICK r \in Tasks : Reconnecting(r)
    BY <1>1 DEF ReconnectingIsActive
  <2>2. r # App /\ task[r].pc \in Connecting \union {"fetch", "sleep", "drop"}
    BY <2>1 DEF Reconnecting
  <2>3. token  BY <1>pcs, <2>2, OthersLater
  <2>4. CASE r # t
    <3>1. r \in Tasks' /\ task'[r] = task[r]
      BY <1>1, <2>4, Moves, Spawns
    <3> QED BY <2>2, <3>1, <1>here
  <2>5. CASE r = t
    <3>0. ~StartListening(t)  BY <1>pcs, <2>2, <2>5 DEF StartListening
    <3>1. r \in Tasks'  BY <1>1, <2>5, <3>0, Moves
    <3>2. task'[t].pc \in Connecting \union {"fetch", "sleep", "drop"}
      <4>1. CASE Lock(t) \/ StoreSender(t) \/ StoreReceiver(t) \/ StoreToken(t)
        BY <1>task, <1>pcs, <4>1
           DEF Lock, ConnectFree, StoreSender, StoreReceiver, StoreToken, Goto, TaskRec
      <4>2. CASE HandshakeDone(t)
        BY <1>task, <1>pcs, <4>2 DEF HandshakeDone, TaskRec
      <4>3. CASE HandshakeFailed(t)
        <5>1. \E pc \in {"sleep", "drop"} : Goto(t, pc)
          BY <2>2, <2>5, <4>3 DEF HandshakeFailed
        <5> QED BY <1>task, <5>1 DEF Goto, TaskRec
      <4>4. CASE MarkConnected(t)
        BY <4>4 DEF MarkConnected
      <4>5. CASE Begin(t) \/ Sleep(t)
        BY <1>task, <4>5 DEF Begin, Sleep, TaskRec
      <4>6. CASE Fetch(t)
        <5>1. \/ task[t].tries > MaxRetry
              \/ task[t].tries <= MaxRetry
          BY <1>task, WsConstantsAssumption DEF TaskRec
        <5>2. Goto(t, "drop") \/ Goto(t, "lock")
          BY <2>3, <4>6, <5>1, WsConstantsAssumption DEF Fetch, GivenUp
        <5> QED BY <1>task, <1>pcs, <5>2 DEF Goto, TaskRec
      <4>7. CASE Disconnect(t)
        BY <1>pcs, <2>2, <2>5, <4>7 DEF Disconnect, Drop, Close, Forget
      <4>8. CASE Listen(t)
        BY <1>pcs, <2>2, <2>5, <4>8
           DEF Listen, TakeReceiver, Loop, Receive, Handled, StreamEnd, Pong, PongMissed,
               PingFailed, Exit, Decide
      <4> QED BY <1>1, <3>0, <4>1, <4>2, <4>3, <4>4, <4>5, <4>6, <4>7, <4>8
              DEF Connect, Reconnect
    <3> QED BY <2>2, <2>5, <3>1, <3>2, <1>here
  <2> QED BY <2>4, <2>5
<1>2. ASSUME NEW t \in Tasks, state # "Reconnecting",
             \/ Connect(t) \/ Reconnect(t) \/ Disconnect(t)
             \/ t \in Listeners /\ Listen(t)
      PROVE  \E u \in Tasks' : Reconnecting(u)'
  <2>1. Begin(t)
    BY <1>2 DEF Connect, Lock, ConnectFree, HandshakeDone, HandshakeFailed, StoreSender, StoreReceiver,
           StoreToken, MarkConnected, StartListening, Reconnect, Fetch, Sleep,
           Disconnect, Drop, Close, Forget, Listen, TakeReceiver, Loop, Receive, Handled,
           StreamEnd, Pong, PongMissed, PingFailed, Exit, Decide, status
  <2>2. t # App  BY <1>pcs, <2>1 DEF Begin, JoinFirst
  <2>3. t \in Tasks'  BY <2>1 DEF Begin, Tasks, Listeners
  <2>4. task'[t].pc = "fetch"  BY <1>task, <2>1 DEF Begin, TaskRec
  <2> QED BY <2>2, <2>3, <2>4, <1>here
<1>3. CASE Join \/ ConnectDropped \/ TriggerReconnect \/ Break \/ UNCHANGED vars
  <2>1. state = "Reconnecting" /\ Tasks' = Tasks
    BY <1>3 DEF Join, ConnectDropped, TriggerReconnect, Break, vars, status, Tasks, Listeners
  <2>2. PICK r \in Tasks : Reconnecting(r)
    BY <2>1 DEF ReconnectingIsActive
  <2>3. r # App /\ task[r].pc \in Connecting \union {"fetch", "sleep", "drop"}
    BY <2>2 DEF Reconnecting
  <2>4. ~TriggerReconnect  BY <2>1 DEF TriggerReconnect
  <2>5. task'[r] = task[r]
    BY <1>3, <1>task, <2>3, <2>4 DEF Join, ConnectDropped, Break, vars, Goto
  <2> QED BY <2>1, <2>3, <2>5, <1>here
<1>4. ~Leave  BY DEF Leave
<1>5. ASSUME NEW l \in Listeners, Listen(l)
      PROVE  \E u \in Tasks' : Reconnecting(u)'
  <2>1. l \in Tasks  BY DEF Tasks
  <2> QED BY <1>1, <1>2, <1>5, <2>1
<1> QED BY <1>1, <1>2, <1>3, <1>4, <1>5 DEF Next

(* trigger_reconnect is never switched off by a state nobody is working on. *)
THEOREM Reconnects ==
  ASSUME Leaves = FALSE
  PROVE  Spec => []ReconnectingIsActive
<1>1. Init => ReconnectingIsActive  BY DEF Init, ReconnectingIsActive
<1> QED BY <1>1, InitJoinFirst, WsTypeCorrect, JoinFirstStep, ReconnectingStep, PTL DEF Spec

-----------------------------------------------------------------------------
(* A client that does not leave, and whose reconnection nobody triggers. *)

(* One listener at a time is not done; whoever connects keeps what it stored
   until the listener it starts has taken it; and a listener only ends, and the
   app is only marked as gone, when the state says so. *)
Alone ==
  /\ task[Monitor].pc = "out"
  /\ \A l \in Listeners : l # gen => task[l].pc = "done"
  /\ \A t \in Tasks :
       /\ task[t].pc \in {"sender", "receiver", "token", "mark", "start"} => task[t].conn # 0
       /\ task[t].pc \in {"token", "mark", "start", "spawned"} => receiver # 0
  /\ task[App].pc \in {"start", "in"} => ~intentional
  /\ gen > 0 /\ task[gen].pc \in {"close", "done"} => state = "Disconnected"

(* So there is one task that can move: the app, until it is in the meeting, and
   then the latest listener. *)
LEMMA OneMover ==
  ASSUME TypeOK, JoinFirst, Alone, NEW t \in Tasks, task[t].pc \notin {"out", "done"}
  PROVE  \/ t = App
         \/ t = gen /\ gen > 0 /\ t \in Listeners /\ t # App /\ task[App].pc = "in" /\ token
<1>1. CASE t \in Listeners
  <2>1. t = gen /\ gen > 0 /\ t # App  BY <1>1 DEF Alone, Listeners, TypeOK, App
  <2> QED BY <1>1, <2>1, OthersLater
<1>2. t # Monitor  BY DEF Alone
<1> QED BY <1>1, <1>2 DEF Tasks

LEMMA AloneStep ==
  ASSUME Leaves = FALSE, Triggers = 0, TypeOK, JoinFirst, Alone, [Next]_vars
  PROVE  Alone'
<1>task. task \in [Tasks -> TaskRec] /\ gen \in Nat /\ made \in Nat
  BY DEF TypeOK, TaskRec
<1>free. /\ App \in Tasks /\ Monitor \in Tasks /\ App # Monitor
         /\ \A l \in Listeners : l \in Tasks /\ l # App /\ l # Monitor
  BY <1>task DEF Tasks, Listeners, App, Monitor
<1>pcs. Connecting = {"lock", "handshake", "sender", "receiver", "token", "mark"}
  BY DEF Connecting
<1>first. ASSUME task[App].pc # "in"
          PROVE  gen = 0 /\ Listeners = {} /\ Tasks = {App, Monitor}
  BY <1>first DEF JoinFirst, Tasks, Listeners
(* A step of the app before it is in the meeting. *)
<1>app. ASSUME task[App].pc # "in", UNCHANGED gen, Tasks' = Tasks,
               \A u \in Tasks \ {App} : task'[u] = task[u],
               task'[App].pc \in {"sender", "receiver", "token", "mark", "start"}
                 => task'[App].conn # 0,
               task'[App].pc \in {"token", "mark", "start"} => receiver' # 0,
               task'[App].pc \in {"start", "in"} => ~intentional',
               task'[App].pc # "spawned"
        PROVE  Alone'
  <2>1. gen' = 0 /\ Listeners' = {} /\ Tasks' = {App, Monitor}
    BY <1>app, <1>first DEF Listeners
  <2>2. task'[Monitor].pc = "out"  BY <1>app, <1>free DEF Alone
  <2> QED BY <1>app, <2>1, <2>2, <1>free DEF Alone
(* A step of the latest listener. *)
<1>gen. ASSUME gen > 0, task[App].pc = "in", UNCHANGED <<gen, intentional>> \/ ~intentional',
               UNCHANGED gen, Tasks' = Tasks,
               \A u \in Tasks \ {gen} : task'[u] = task[u],
               task'[gen].pc \in {"sender", "receiver", "token", "mark", "start"}
                 => task'[gen].conn # 0,
               task'[gen].pc \in {"token", "mark", "start", "spawned"} => receiver' # 0,
               task'[gen].pc \in {"close", "done"} => state' = "Disconnected"
        PROVE  Alone'
  <2>1. gen \in Listeners /\ gen \in Tasks /\ gen # App /\ gen # Monitor
    BY <1>gen, <1>task DEF Listeners, Tasks, App, Monitor
  <2>2. Listeners' = Listeners  BY <1>gen DEF Listeners
  <2>3. task'[App] = task[App] /\ task'[Monitor] = task[Monitor]
    BY <1>gen, <1>free, <2>1
  <2>4. \A l \in Listeners' : l # gen' => task'[l].pc = "done"
    BY <1>gen, <1>free, <2>2 DEF Alone
  <2>5. ASSUME NEW u \in Tasks'
        PROVE  /\ task'[u].pc \in {"sender", "receiver", "token", "mark", "start"}
                    => task'[u].conn # 0
               /\ task'[u].pc \in {"token", "mark", "start", "spawned"} => receiver' # 0
    <3>1. CASE u = gen  BY <3>1, <1>gen
    <3>2. CASE u # gen
      <4>1. task'[u].pc \in {"in", "out", "done"}
        BY <1>gen, <3>2 DEF Alone, Tasks
      <4> QED BY <4>1
    <3> QED BY <3>1, <3>2
  <2> QED BY <1>gen, <2>3, <2>4, <2>5 DEF Alone
<1>1. ASSUME Connect(App) \/ Disconnect(App), ~StartListening(App)
      PROVE  Alone'
  <2>0. UNCHANGED gen /\ Tasks' = Tasks /\ \A u \in Tasks \ {App} : task'[u] = task[u]
    BY <1>1, <1>free, Moves
  <2>1. task[App].pc # "in" /\ task[App].conn \in 0..made
    BY <1>1, <1>task, <1>free
       DEF Connect, Lock, ConnectFree, HandshakeDone, HandshakeFailed, StoreSender, StoreReceiver,
           StoreToken, MarkConnected, Disconnect, Drop, Close, Forget, TaskRec
  <2>2. /\ task'[App].pc \in {"sender", "receiver", "token", "mark", "start"}
             => task'[App].conn # 0
        /\ task'[App].pc \in {"token", "mark", "start"} => receiver' # 0
        /\ task'[App].pc \in {"start", "in"} => ~intentional'
        /\ task'[App].pc # "spawned"
    <3>1. CASE Lock(App) \/ HandshakeFailed(App)
      <4>1. task'[App].pc \in {"handshake", "lock", "drop"}
        BY <1>task, <1>free, <3>1 DEF Lock, ConnectFree, HandshakeFailed, Goto, TaskRec
      <4> QED BY <4>1
    <3>2. CASE HandshakeDone(App)
      BY <1>task, <1>free, <3>2 DEF HandshakeDone, TaskRec
    <3>3. CASE StoreSender(App)
      BY <1>task, <1>free, <3>3 DEF StoreSender, Goto, TaskRec, Alone
    <3>4. CASE StoreReceiver(App)
      BY <1>task, <1>free, <3>4 DEF StoreReceiver, Goto, TaskRec, Alone
    <3>5. CASE StoreToken(App)
      BY <1>task, <1>free, <3>5 DEF StoreToken, stream, Goto, TaskRec, Alone
    <3>6. CASE MarkConnected(App)
      BY <1>task, <1>free, <3>6 DEF MarkConnected, stream, Goto, TaskRec, Alone
    <3>7. CASE Disconnect(App)
      <4>1. task'[App].pc \in {"close", "forget", "out", "done"}
        BY <1>task, <1>free, <3>7 DEF Disconnect, Drop, Close, Forget, Goto, TaskRec
      <4> QED BY <4>1
    <3> QED BY <1>1, <3>1, <3>2, <3>3, <3>4, <3>5, <3>6, <3>7 DEF Connect
  <2> QED BY <2>0, <2>1, <2>2, <1>app
<1>2. CASE StartListening(App)
  <2>1. task[App].pc = "start"  BY <1>2 DEF StartListening
  <2>2. gen = 0 /\ Listeners = {} /\ Tasks = {App, Monitor}  BY <2>1, <1>first
  <2>3. /\ gen' = 1 /\ Listeners' = {1} /\ Tasks' = {App, Monitor, 1}
        /\ task'[1].pc = "spawned" /\ task'[App].pc = "in" /\ task'[Monitor].pc = "out"
        /\ UNCHANGED <<intentional, receiver>>
    BY <1>2, <1>free, <2>2, Spawns DEF Alone
  <2>4. receiver # 0 /\ ~intentional  BY <2>1, <1>free DEF Alone
  <2> QED BY <2>3, <2>4 DEF Alone
<1>3. ASSUME task[gen].pc \notin {"out", "done"}, gen \in Tasks, gen > 0, gen # App,
             task[App].pc = "in", token, ~StartListening(gen),
             \/ Connect(gen) \/ Reconnect(gen) \/ Disconnect(gen)
             \/ gen \in Listeners /\ Listen(gen)
      PROVE  Alone'
  <2>0. UNCHANGED gen /\ Tasks' = Tasks /\ \A u \in Tasks \ {gen} : task'[u] = task[u]
    BY <1>3, Moves
  <2>1. task[gen] \in TaskRec /\ task[gen].pc \notin {"in", "forget"} /\ ~intentional
    BY <1>3, <1>task DEF JoinFirst, Alone
  <2>2. PICK r \in TaskRec : r = task[gen]  BY <2>1
  <2>3. ASSUME UNCHANGED intentional \/ ~intentional',
               task'[gen].pc \in {"sender", "receiver", "token", "mark", "start"}
                 => task'[gen].conn # 0,
               task'[gen].pc \in {"token", "mark", "start", "spawned"} => receiver' # 0,
               task'[gen].pc \in {"close", "done"} => state' = "Disconnected"
        PROVE  Alone'
    BY <2>3, <2>0, <1>3, <1>gen
  <2>4. CASE Connect(gen)
    <3>1. UNCHANGED intentional \/ ~intentional'
      BY <2>4, <1>3 DEF Connect, Lock, ConnectFree, HandshakeDone, HandshakeFailed, StoreSender,
             StoreReceiver, StoreToken, MarkConnected, status
    <3>2. CASE Lock(gen) \/ HandshakeFailed(gen)
      <4>1. task'[gen].pc \in {"handshake", "sleep", "drop"}
        BY <1>task, <1>3, <3>2 DEF Lock, ConnectFree, HandshakeFailed, Goto, TaskRec
      <4> QED BY <3>1, <4>1, <2>3
    <3>3. CASE HandshakeDone(gen)
      <4>1. task'[gen].pc = "sender" /\ task'[gen].conn = made + 1
        BY <1>task, <1>3, <3>3 DEF HandshakeDone, TaskRec
      <4> QED BY <3>1, <4>1, <2>3, <1>task
    <3>4. CASE StoreSender(gen)
      <4>1. task'[gen].pc = "receiver" /\ task'[gen].conn # 0
        BY <1>task, <1>3, <3>4 DEF StoreSender, Goto, TaskRec, Alone
      <4> QED BY <3>1, <4>1, <2>3
    <3>5. CASE StoreReceiver(gen)
      <4>1. task'[gen].pc = "token" /\ task'[gen].conn # 0 /\ receiver' # 0
        BY <1>task, <1>3, <3>5 DEF StoreReceiver, Goto, TaskRec, Alone
      <4> QED BY <3>1, <4>1, <2>3
    <3>6. CASE StoreToken(gen)
      <4>1. task'[gen].pc = "mark" /\ task'[gen].conn # 0 /\ receiver' # 0
        BY <1>task, <1>3, <3>6 DEF StoreToken, stream, Goto, TaskRec, Alone
      <4> QED BY <3>1, <4>1, <2>3
    <3>7. CASE MarkConnected(gen)
      <4>1. task'[gen].pc = "start" /\ task'[gen].conn # 0 /\ receiver' # 0
        BY <1>task, <1>3, <3>7 DEF MarkConnected, stream, Goto, TaskRec, Alone
      <4> QED BY <3>1, <4>1, <2>3
    <3> QED BY <1>3, <2>4, <3>2, <3>3, <3>4, <3>5, <3>6, <3>7 DEF Connect
  <2>5. CASE Reconnect(gen)
    <3>1. UNCHANGED intentional \/ ~intentional'
      BY <2>5 DEF Reconnect, Begin, Fetch, Sleep, status
    <3>2. task'[gen].pc \in {"fetch", "drop", "lock"}
      <4>1. CASE Begin(gen) \/ Sleep(gen)
        BY <1>task, <1>3, <4>1 DEF Begin, Sleep, TaskRec
      <4>2. CASE Fetch(gen)
        <5>1. task[gen].tries > MaxRetry \/ task[gen].tries <= MaxRetry
          BY <2>1, WsConstantsAssumption DEF TaskRec
        <5>2. Goto(gen, "drop") \/ Goto(gen, "lock")
          BY <1>3, <4>2, <5>1, WsConstantsAssumption DEF Fetch, GivenUp
        <5> QED BY <1>task, <1>3, <5>2 DEF Goto, TaskRec
      <4> QED BY <2>5, <4>1, <4>2 DEF Reconnect
    <3> QED BY <3>1, <3>2, <2>3
  <2>6. CASE Disconnect(gen)
    <3>1. UNCHANGED intentional \/ ~intentional'
      BY <2>6, <1>3 DEF Disconnect, Drop, Close, Forget, status
    <3>2. task'[gen].pc \in {"close", "done"}
      BY <1>task, <1>3, <2>1, <2>6 DEF Disconnect, Drop, Close, Forget, Goto, TaskRec
    <3>3. state' = "Disconnected"
      BY <1>3, <2>1, <2>6 DEF Disconnect, Drop, Close, Forget, status, Alone
    <3> QED BY <3>1, <3>2, <3>3, <2>3
  <2>7. CASE gen \in Listeners /\ Listen(gen)
    <3>1. UNCHANGED intentional \/ ~intentional'
      BY <2>7 DEF Listen, TakeReceiver, Loop, Receive, Handled, StreamEnd, Pong,
                  PongMissed, PingFailed, Exit, Decide, status
    <3>2. task'[gen].pc \in {"loop", "exited", "select", "handling", "decide", "begin"}
      <4>1. CASE TakeReceiver(gen)
        BY <1>task, <1>3, <4>1 DEF TakeReceiver, TaskRec, Alone
      <4>2. CASE Decide(gen)
        BY <1>task, <1>3, <2>1, <4>2 DEF Decide, Wanted, Goto, TaskRec
      <4>3. CASE Exit(gen)
        BY <1>task, <1>3, <4>3 DEF Exit, Stale, Goto, TaskRec
      <4>4. CASE Pong(gen) \/ PongMissed(gen) \/ PingFailed(gen)
        <5>1. CASE Pong(gen)
          BY <1>task, <1>3, <5>1 DEF Pong, TaskRec
        <5>2. CASE PongMissed(gen)
          BY <1>task, <1>3, <5>2 DEF PongMissed, TaskRec
        <5>3. CASE PingFailed(gen)
          BY <1>task, <1>3, <5>3 DEF PingFailed, TaskRec
        <5> QED BY <4>4, <5>1, <5>2, <5>3
      <4>5. CASE Loop(gen) \/ Receive(gen) \/ Handled(gen) \/ StreamEnd(gen)
        <5>1. \E pc \in {"loop", "exited", "select", "handling"} : Goto(gen, pc)
          BY <4>5 DEF Loop, Receive, Handled, StreamEnd
        <5> QED BY <1>task, <1>3, <5>1 DEF Goto, TaskRec
      <4> QED BY <2>7, <4>1, <4>2, <4>3, <4>4, <4>5 DEF Listen
    <3> QED BY <3>1, <3>2, <2>3
  <2> QED BY <1>3, <2>4, <2>5, <2>6, <2>7
<1>4. ASSUME gen \in Tasks, gen > 0, gen # App, task[App].pc = "in", StartListening(gen)
      PROVE  Alone'
  <2>0. gen \in Listeners /\ gen # Monitor  BY <1>4, <1>task DEF Listeners, Monitor
  <2>1. task[gen].pc = "start" /\ receiver # 0 /\ ~intentional
    BY <1>4 DEF StartListening, Alone
  <2>2. /\ gen' = gen + 1 /\ Tasks' = Tasks \union {gen + 1} /\ gen + 1 \notin Tasks
        /\ Listeners' = Listeners \union {gen + 1}
        /\ task'[gen + 1].pc = "spawned" /\ task'[gen].pc = "done"
        /\ \A u \in Tasks \ {gen} : task'[u] = task[u]
        /\ UNCHANGED <<intentional, receiver>>
    BY <1>4, Spawns
  <2>3. task'[App].pc = "in" /\ task'[Monitor].pc = "out"
    BY <1>4, <1>free, <2>0, <2>2 DEF Alone
  <2>4. ASSUME NEW l \in Listeners', l # gen'
        PROVE  task'[l].pc = "done"
    <3>1. CASE l = gen  BY <2>2, <3>1
    <3>2. CASE l # gen
      <4>1. l \in Listeners /\ l \in Tasks  BY <2>2, <2>4, <1>free
      <4>2. task'[l] = task[l]  BY <2>2, <3>2, <4>1
      <4> QED BY <3>2, <4>1, <4>2 DEF Alone
    <3> QED BY <3>1, <3>2
  <2>5. \A u \in Tasks' : task'[u].pc \in {"in", "out", "done", "spawned"}
    BY <2>2, <2>3, <2>4 DEF Tasks
  <2>6. task'[gen'].pc \notin {"close", "done"} /\ receiver' # 0 /\ ~intentional'
    BY <2>1, <2>2
  <2> QED BY <2>3, <2>4, <2>5, <2>6 DEF Alone
<1>5. ASSUME NEW t \in Tasks,
             \/ Connect(t) \/ Reconnect(t) \/ Disconnect(t)
             \/ t \in Listeners /\ Listen(t)
      PROVE  Alone'
  <2>1. task[t].pc \notin {"out", "done"}
    BY <1>5 DEF Connect, Lock, ConnectFree, HandshakeDone, HandshakeFailed, StoreSender, StoreReceiver,
           StoreToken, MarkConnected, StartListening, Reconnect, Begin, Fetch, Sleep,
           Disconnect, Drop, Close, Forget, Listen, TakeReceiver, Loop, Receive, Handled,
           StreamEnd, Pong, PongMissed, PingFailed, Exit, Decide
  <2>2. CASE t = App
    <3>1. ~Reconnect(App) /\ App \notin Listeners
      BY <1>free, <1>pcs DEF JoinFirst, Reconnect, Begin, Fetch, Sleep
    <3> QED BY <1>1, <1>2, <1>5, <2>2, <3>1
  <2>3. CASE t # App
    <3>1. t = gen /\ gen > 0 /\ task[App].pc = "in" /\ token
      BY <2>1, <2>3, OneMover
    <3> QED BY <1>3, <1>4, <1>5, <2>1, <2>3, <3>1
  <2> QED BY <2>2, <2>3
<1>6. CASE Join
  <2>1. UNCHANGED gen /\ Tasks' = Tasks  BY <1>6 DEF Join, Tasks, Listeners
  <2>2. \A u \in Tasks \ {App} : task'[u] = task[u]  BY <1>6, <1>task DEF Join
  <2>3. task'[App].pc = "lock" /\ task[App].pc = "out"
    BY <1>6, <1>task, <1>free DEF Join, NewTask
  <2> QED BY <2>1, <2>2, <2>3, <1>app
<1>7. CASE ConnectDropped
  <2>1. UNCHANGED gen /\ Tasks' = Tasks  BY <1>7 DEF ConnectDropped, Tasks, Listeners
  <2>2. \A u \in Tasks \ {App} : task'[u] = task[u]
    BY <1>7, <1>task DEF ConnectDropped, Goto
  <2>3. task'[App].pc \in {"lock", "drop"} /\ task[App].pc # "in"
    BY <1>7, <1>task, <1>free, <1>pcs DEF ConnectDropped, Goto, TaskRec
  <2> QED BY <2>1, <2>2, <2>3, <1>app
<1>8. CASE Leave \/ TriggerReconnect
  BY <1>8 DEF Leave, TriggerReconnect, TypeOK
<1>9. CASE Break \/ UNCHANGED vars
  BY <1>9 DEF Break, vars, status, Alone, Tasks, Listeners
<1>10. ASSUME NEW l \in Listeners, Listen(l)
       PROVE  Alone'
  BY <1>5, <1>10, <1>free
<1> QED BY <1>5, <1>6, <1>7, <1>8, <1>9, <1>10 DEF Next

(* A connected client listens: for a client that neither leaves nor is
   reconnected from outside. *)
THEOREM ConnectedListens ==
  ASSUME Leaves = FALSE, Triggers = 0
  PROVE  Spec => []NotDeaf
<1>1. Init => Alone
  <2> SUFFICES ASSUME Init PROVE Alone
    OBVIOUS
  <2>1. /\ App \in Tasks /\ Monitor \in Tasks /\ Tasks = {App, Monitor} /\ Listeners = {}
        /\ gen = 0
    BY DEF Init, Tasks, Listeners
  <2>2. \A t \in Tasks : task[t].pc = "out"
    BY <2>1 DEF Init, NewTask
  <2> QED BY <2>1, <2>2 DEF Alone
<1>2. Alone => NotDeaf  BY DEF Alone, NotDeaf
<1> QED BY <1>1, <1>2, InitJoinFirst, WsTypeCorrect, JoinFirstStep, AloneStep, PTL DEF Spec
=============================================================================
