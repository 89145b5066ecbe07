------------------------------ MODULE WsClient ------------------------------
(***************************************************************************)
(* The websocket client of a meeting: connecting, listening, the ping that *)
(* notices a dead connection, reconnecting and leaving.                    *)
(*                                                                         *)
(* The tasks share the status, the two halves of the stream, the token and *)
(* the listener generation; only connect() is exclusive (connect_lock).    *)
(*   App         join (connect, start_listening_task) and leave            *)
(*   Monitor     trigger_reconnect, called by the check of the MLS epoch   *)
(*   1, 2, ...   the listening task of each generation; it goes on as the  *)
(*               reconnection when its stream fails                        *)
(* A step is what a task does between two awaits that may really wait: a   *)
(* handshake, a lock another task holds, a message, a timer.               *)
(*                                                                         *)
(* An operator named Mut... is a faulty variant of the one after it.  No   *)
(* specification uses it: with it in place a property fails, which shows   *)
(* that the property depends on the code.                                  *)
(***************************************************************************)
EXTENDS Integers

CONSTANTS
  MaxRetry,         \* MAX_RETRY_COUNT of reconnect
  MaxPingFailures,  \* DEFAULT_MAX_PING_FAILURES
  ConnectAttempts,  \* MAX_RETRIES of connect_to_ws
  Connections,      \* bound: handshakes that succeed
  Joins,            \* bound: how often the app joins
  Troubles,         \* bound: connections that break, pongs that are late
  Triggers,         \* bound: calls of trigger_reconnect
  Leaves            \* may the app leave the meeting?

ASSUME WsConstantsAssumption ==
  /\ {MaxRetry, MaxPingFailures, ConnectAttempts} \subseteq Nat \ {0}
  /\ {Connections, Joins, Troubles, Triggers} \subseteq Nat
  /\ Leaves \in BOOLEAN

VARIABLES
  state,        \* connection_state
  intentional,  \* intentional_disconnection
  sender,       \* ws_sender: the connection it writes to, 0 for None
  receiver,     \* ws_receiver: the connection it reads from, 0 for None
  token,        \* is a token kept for reconnecting?
  lock,         \* connect_lock: the task that holds it
  gen,          \* listener_generation
  task,         \* the tasks
  made,         \* connections made so far; they are numbered
  live,         \* connections the network still carries
  joins, troubles, triggers  \* how often each has happened

vars == <<state, intentional, sender, receiver, token, lock, gen, task, made,
          live, joins, troubles, triggers>>

App == -1
Monitor == 0
Free == -2
Listeners == 1..gen
Tasks == {App, Monitor} \union Listeners

NewTask(pc) == [pc |-> pc, tries |-> 0, conn |-> 0, fails |-> 0]

Goto(t, pc) == task' = [task EXCEPT ![t].pc = pc]

Init ==
  /\ state = "Disconnected"
  /\ intentional = FALSE
  /\ sender = 0
  /\ receiver = 0
  /\ token = FALSE
  /\ lock = Free
  /\ gen = 0
  /\ task = [t \in {App, Monitor} |-> NewTask("out")]
  /\ made = 0
  /\ live = {}
  /\ joins = 0
  /\ troubles = 0
  /\ triggers = 0

stream == <<sender, receiver, live, made>>
status == <<state, intentional>>
bounds == <<joins, troubles, triggers>>

-----------------------------------------------------------------------------
(* connect, called by the app and by a reconnecting task. *)

MutConnectFree == TRUE
ConnectFree == lock = Free

Lock(t) ==
  /\ task[t].pc = "lock"
  /\ ConnectFree
  /\ lock' = t
  /\ Goto(t, "handshake")
  /\ UNCHANGED <<status, stream, token, gen, bounds>>

HandshakeDone(t) ==
  /\ task[t].pc = "handshake"
  /\ made < Connections
  /\ made' = made + 1
  /\ live' = live \union {made'}
  /\ task' = [task EXCEPT ![t].pc = "sender", ![t].conn = made']
  /\ UNCHANGED <<status, sender, receiver, token, lock, gen, bounds>>

(* disconnect asks for the lock of ws_sender once it has set the status, and
   keeps it to its end. *)
SenderFree == \A t \in Tasks : task[t].pc \notin {"close", "forget"}

(* A failed attempt: the app tries again or gives the join up; a reconnecting
   task sleeps, or stops when the server refused it with a 4xx. *)
HandshakeFailed(t) ==
  /\ task[t].pc = "handshake"
  /\ lock' = Free
  /\ IF t = App
     THEN task' = [task EXCEPT ![t].pc = IF task[t].tries < ConnectAttempts
                                         THEN "lock" ELSE "drop",
                               ![t].tries = @ + 1]
     ELSE \E pc \in {"sleep", "drop"} : Goto(t, pc)
  /\ UNCHANGED <<status, stream, token, gen, bounds>>

StoreSender(t) ==
  /\ task[t].pc = "sender"
  /\ SenderFree
  /\ sender' = task[t].conn
  /\ Goto(t, "receiver")
  /\ UNCHANGED <<status, receiver, live, made, token, lock, gen, bounds>>

StoreReceiver(t) ==
  /\ task[t].pc = "receiver"
  /\ receiver' = task[t].conn
  /\ Goto(t, "token")
  /\ UNCHANGED <<status, sender, live, made, token, lock, gen, bounds>>

StoreToken(t) ==
  /\ task[t].pc = "token"
  /\ token' = TRUE
  /\ Goto(t, "mark")
  /\ UNCHANGED <<status, stream, lock, gen, bounds>>

MarkConnected(t) ==
  /\ task[t].pc = "mark"
  /\ state' = "Connected"
  /\ intentional' = FALSE
  /\ lock' = Free
  /\ Goto(t, "start")
  /\ UNCHANGED <<stream, token, gen, bounds>>

(* start_listening_task: the generation moves on before the task runs. *)
MutNextGen == gen
NextGen == gen + 1

StartListening(t) ==
  /\ task[t].pc = "start"
  /\ gen' = NextGen
  /\ task' = [u \in Tasks \union {gen + 1} |->
       CASE u = gen + 1 -> NewTask("spawned")
         [] u = t -> [task[t] EXCEPT !.pc = IF t = App THEN "in" ELSE "done"]
         [] OTHER -> task[u]]
  /\ UNCHANGED <<status, stream, token, lock, bounds>>

-----------------------------------------------------------------------------
(* reconnect: the rest of a listening task, or the whole of a trigger. *)

Begin(t) ==
  /\ task[t].pc = "begin"
  /\ state' = "Reconnecting"
  /\ intentional' = FALSE
  /\ task' = [task EXCEPT ![t].pc = "fetch", ![t].tries = 1]
  /\ UNCHANGED <<stream, token, lock, gen, bounds>>

MutGivenUp == "done"
GivenUp == "drop"

(* Too many retries disconnect; without a token the task ends at once. *)
Fetch(t) ==
  /\ task[t].pc = "fetch"
  /\ Goto(t, CASE task[t].tries > MaxRetry -> GivenUp
               [] task[t].tries <= MaxRetry /\ token -> "lock"
               [] OTHER -> "done")
  /\ UNCHANGED <<status, stream, token, lock, gen, bounds>>

Sleep(t) ==
  /\ task[t].pc = "sleep"
  /\ task' = [task EXCEPT ![t].pc = "fetch", ![t].tries = @ + 1]
  /\ UNCHANGED <<status, stream, token, lock, gen, bounds>>

-----------------------------------------------------------------------------
(* disconnect: Some(true) from the app, None from reconnect. *)

Drop(t) ==
  /\ task[t].pc = "drop"
  /\ state' = "Disconnected"
  /\ intentional' = (t = App)
  /\ Goto(t, "close")
  /\ UNCHANGED <<stream, token, lock, gen, bounds>>

(* Only Some(true), the app's, goes on to clear the token. *)
Close(t) ==
  /\ task[t].pc = "close"
  /\ live' = live \ {sender}
  /\ sender' = 0
  /\ receiver' = 0
  /\ Goto(t, IF t = App THEN "forget" ELSE "done")
  /\ UNCHANGED <<status, made, token, lock, gen, bounds>>

Forget(t) ==
  /\ task[t].pc = "forget"
  /\ token' = FALSE
  /\ Goto(t, "out")
  /\ UNCHANGED <<status, stream, lock, gen, bounds>>

-----------------------------------------------------------------------------
(* The listening task. *)

TakeReceiver(l) ==
  /\ task[l].pc = "spawned"
  /\ receiver' = 0
  /\ task' = [task EXCEPT ![l].pc = IF receiver = 0 THEN "done" ELSE "loop",
                          ![l].conn = receiver]
  /\ UNCHANGED <<status, sender, live, made, token, lock, gen, bounds>>

MutStale(l) == FALSE
Stale(l) == gen # l

Loop(l) ==
  /\ task[l].pc = "loop"
  /\ Goto(l, IF Stale(l) \/ state = "Disconnected"
                         \/ task[l].fails >= MaxPingFailures
             THEN "exited" ELSE "select")
  /\ UNCHANGED <<status, stream, token, lock, gen, bounds>>

Receive(l) ==
  /\ task[l].pc = "select"
  /\ task[l].conn \in live
  /\ Goto(l, "handling")
  /\ UNCHANGED <<status, stream, token, lock, gen, bounds>>

Handled(l) ==
  /\ task[l].pc = "handling"
  /\ Goto(l, "loop")
  /\ UNCHANGED <<status, stream, token, lock, gen, bounds>>

StreamEnd(l) ==
  /\ task[l].pc = "select"
  /\ task[l].conn \notin live
  /\ Goto(l, "exited")
  /\ UNCHANGED <<status, stream, token, lock, gen, bounds>>

(* A ping goes out on ws_sender, and its pong comes back on that connection. *)
Pong(l) ==
  /\ task[l].pc = "select"
  /\ SenderFree
  /\ sender = task[l].conn /\ sender \in live
  /\ task' = [task EXCEPT ![l].pc = "loop", ![l].fails = 0]
  /\ UNCHANGED <<status, stream, token, lock, gen, bounds>>

(* No pong within the timeout.  It is counted when the loop starts again, after
   the check of the count: the code leaves the loop one message later. *)
PongMissed(l) ==
  /\ task[l].pc = "select"
  /\ SenderFree
  /\ sender # 0
  /\ IF sender = task[l].conn /\ sender \in live
     THEN troubles < Troubles /\ troubles' = troubles + 1
     ELSE UNCHANGED troubles
  /\ task' = [task EXCEPT ![l].pc = "loop", ![l].fails = @ + 1]
  /\ UNCHANGED <<status, stream, token, lock, gen, joins, triggers>>

(* The ping cannot be sent, or not in time; the last failure disconnects. *)
PingFailed(l) ==
  /\ task[l].pc = "select"
  /\ SenderFree
  /\ IF sender \in live THEN troubles < Troubles /\ troubles' = troubles + 1
                       ELSE UNCHANGED troubles
  /\ task' = [task EXCEPT
       ![l].pc = IF task[l].fails + 1 >= MaxPingFailures THEN "exited" ELSE "loop",
       ![l].fails = @ + 1]
  /\ IF task[l].fails + 1 >= MaxPingFailures
     THEN state' = "Disconnected" /\ intentional' = FALSE
     ELSE UNCHANGED status
  /\ UNCHANGED <<stream, token, lock, gen, joins, triggers>>

(* Only the latest listener goes on; it reconnects unless the app left. *)
Exit(l) ==
  /\ task[l].pc = "exited"
  /\ Goto(l, IF Stale(l) THEN "done" ELSE "decide")
  /\ UNCHANGED <<status, stream, token, lock, gen, bounds>>

MutWanted == state = "Disconnected" /\ ~intentional
Wanted == ~intentional

Decide(l) ==
  /\ task[l].pc = "decide"
  /\ Goto(l, IF Wanted THEN "begin" ELSE "done")
  /\ UNCHANGED <<status, stream, token, lock, gen, bounds>>

-----------------------------------------------------------------------------
(* The app. *)

Join ==
  /\ task[App].pc = "out"
  /\ joins < Joins
  /\ joins' = joins + 1
  /\ task' = [task EXCEPT ![App] = [NewTask("lock") EXCEPT !.tries = 1]]
  /\ UNCHANGED <<status, stream, token, lock, gen, troubles, triggers>>

Connecting == {"lock", "handshake", "sender", "receiver", "token", "mark"}

(* connect() is dropped at whatever it waits for: by its timeout, which counts
   as a failed attempt, or because joining the room failed. *)
ConnectDropped ==
  /\ task[App].pc \in Connecting
  /\ troubles < Troubles
  /\ troubles' = troubles + 1
  /\ lock' = IF lock = App THEN Free ELSE lock
  /\ \/ /\ task[App].tries < ConnectAttempts
        /\ task' = [task EXCEPT ![App].pc = "lock", ![App].tries = @ + 1]
     \/ Goto(App, "drop")
  /\ UNCHANGED <<status, stream, token, gen, joins, triggers>>

Leave ==
  /\ Leaves
  /\ task[App].pc = "in"
  /\ Goto(App, "drop")
  /\ UNCHANGED <<status, stream, token, lock, gen, bounds>>

(* trigger_reconnect, up to its call of reconnect. *)
TriggerReconnect ==
  /\ triggers < Triggers
  /\ task[App].pc = "in"
  /\ task[Monitor].pc \in {"out", "done"}
  /\ state = "Disconnected" /\ ~intentional /\ token
  /\ triggers' = triggers + 1
  /\ Goto(Monitor, "begin")
  /\ UNCHANGED <<status, stream, token, lock, gen, joins, troubles>>

(* The network drops a connection. *)
Break ==
  /\ troubles < Troubles
  /\ troubles' = troubles + 1
  /\ \E c \in live : live' = live \ {c}
  /\ UNCHANGED <<status, sender, receiver, made, token, lock, gen, task, joins,
                 triggers>>

-----------------------------------------------------------------------------
Connect(t) ==
  \/ Lock(t) \/ HandshakeDone(t) \/ HandshakeFailed(t) \/ StoreSender(t)
  \/ StoreReceiver(t) \/ StoreToken(t) \/ MarkConnected(t) \/ StartListening(t)

Reconnect(t) == Begin(t) \/ Fetch(t) \/ Sleep(t)

Disconnect(t) == Drop(t) \/ Close(t) \/ Forget(t)

Listen(l) ==
  \/ TakeReceiver(l) \/ Loop(l) \/ Receive(l) \/ Handled(l) \/ StreamEnd(l)
  \/ Pong(l) \/ PongMissed(l) \/ PingFailed(l) \/ Exit(l) \/ Decide(l)

Next ==
  \/ \E t \in Tasks : Connect(t) \/ Reconnect(t) \/ Disconnect(t)
  \/ \E l \in Listeners : Listen(l)
  \/ Join \/ ConnectDropped \/ Leave \/ TriggerReconnect \/ Break

Spec == Init /\ [][Next]_vars

(* A task that can move is run: handshakes end one way or the other, a pong or
   its timeout comes.  There are no more listeners than connections. *)
Step(t) ==
  /\ t \in Tasks
  /\ Connect(t) \/ Reconnect(t) \/ Disconnect(t) \/ (t \in Listeners /\ Listen(t))

Fairness == \A t \in App..Connections : WF_vars(Step(t))

FairSpec == Spec /\ Fairness

-----------------------------------------------------------------------------
(* What is checked. *)

Pcs == {"out", "in", "start", "begin", "fetch", "sleep", "drop", "close",
        "forget", "done", "spawned", "loop", "select", "handling", "exited",
        "decide"} \union Connecting

TypeOK ==
  /\ state \in {"Disconnected", "Connected", "Reconnecting"}
  /\ {intentional, token} \subseteq BOOLEAN
  /\ {made, gen, joins, troubles, triggers} \subseteq Nat
  /\ {sender, receiver} \subseteq 0..made
  /\ live \subseteq 1..made
  /\ lock \in Tasks \union {Free}
  /\ task \in [Tasks -> [pc: Pcs, tries: Nat, conn: 0..made, fails: Nat]]

(* Two connects never mix their streams: what a connect() has stored is of its
   own connection until it marks the client connected, or a disconnect or a
   listener has taken it. *)
OwnHalves ==
  \A t \in Tasks :
    /\ task[t].pc \in {"receiver", "token", "mark"} => sender \in {0, task[t].conn}
    /\ task[t].pc \in {"token", "mark"} => receiver \in {0, task[t].conn}

(* trigger_reconnect does nothing while the state is Reconnecting: some task
   then really is reconnecting, or giving up. *)
Reconnecting(t) ==
  /\ t # App
  /\ task[t].pc \in Connecting \union {"fetch", "sleep", "drop"}

ReconnectingIsActive ==
  state = "Reconnecting" => \E t \in Tasks : Reconnecting(t)

(* A connected client listens: the listener of the latest generation has not
   ended, unless another one is about to start or the client to disconnect. *)
NotDeaf ==
  state = "Connected" /\ gen > 0 /\ task[gen].pc = "done" =>
    \E t \in Tasks : task[t].pc \in Connecting \union {"start", "drop", "close"}

(* Whatever breaks, the client ends up listening to a connection that works,
   or disconnected. *)
Settled ==
  \/ state = "Disconnected"
  \/ /\ state = "Connected" /\ gen > 0
     /\ task[gen].pc \in {"loop", "select", "handling"}
     /\ task[gen].conn \in live /\ sender = task[gen].conn

Settles == []<>Settled

(* A listener that is no longer the latest one stops, whoever started the next
   one, and so does the reconnection it may have begun. *)
OldListenersEnd ==
  \A l \in 1..Connections :
    gen > l ~> (l \in Tasks /\ task[l].pc = "done")
=============================================================================
