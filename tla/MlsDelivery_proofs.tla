-------------------------- MODULE MlsDelivery_proofs --------------------------
(***************************************************************************)
(* Proofs about what a client of MlsRoom still gets: the commits it lacks, *)
(* the proposals these refer to, and one drain of the queue at a time.     *)
(* Unlike those of MlsRoom_proofs, most of these facts depend on the       *)
(* environment: a theorem names the constants it needs.                    *)
(***************************************************************************)
EXTENDS MlsRoom_proofs

-----------------------------------------------------------------------------
(* A step of a client leaves the others alone. *)
Still(d) ==
  /\ inbox'[d] = inbox[d] /\ hist'[d] = hist[d] /\ pend'[d] = pend[d]
  /\ queue'[d] = queue[d] /\ cache'[d] = cache[d] /\ roomLock'[d] = roomLock[d]
  /\ ws'[d] = ws[d] /\ tm'[d] = tm[d] /\ kk'[d] = kk[d] /\ up'[d] = up[d]

ClientStep(c) ==
  UploadTimeout(c) \/ WsStep(c) \/ TimerStep(c) \/ KickStep(c) \/ SweepStep(c)

LEMMA OthersStill ==
  ASSUME TypeOK, NEW c \in Clients, ClientStep(c), NEW d \in Clients \ {c}
  PROVE  Still(d) /\ UNCHANGED <<log, sentAt>>
<1>1. CASE UploadTimeout(c)  BY <1>1 DEF UploadTimeout, Still, TypeOK
<1>2. CASE WsStep(c)
  <2>1. CASE Deliver(c)  BY <2>1 DEF Deliver, Still, TypeOK
  <2>2. CASE ProposalPush(c)  BY <2>2 DEF ProposalPush, Still, TypeOK
  <2>3. CASE ProposalTimer(c)  BY <2>3 DEF ProposalTimer, Still, TypeOK
  <2>4. CASE CommitDrain(c)  BY <2>4 DEF CommitDrain, Still, TypeOK
  <2>5. CASE CommitHandle(c)  BY <2>5 DEF CommitHandle, Still, TypeOK
  <2>6. CASE CommitApply(c)  BY <2>6 DEF CommitApply, Still, TypeOK
  <2>7. CASE ProcessCached(c)  BY <2>7 DEF ProcessCached, Still, TypeOK
  <2> QED BY <1>2, <2>1, <2>2, <2>3, <2>4, <2>5, <2>6, <2>7 DEF WsStep
<1>3. CASE TimerStep(c)
  <2>1. CASE TimerWake(c)  BY <2>1 DEF TimerWake, Still, TypeOK
  <2>2. CASE TimerDrain(c)  BY <2>2 DEF TimerDrain, Still, TypeOK
  <2>3. CASE TimerCommit(c)  BY <2>3 DEF TimerCommit, Upload, Still, TypeOK
  <2>4. CASE TimerAnswer(c)  BY <2>4 DEF TimerAnswer, FinishUpload, Still, TypeOK
  <2>5. CASE TimerRestore(c)  BY <2>5 DEF TimerRestore, Still, TypeOK
  <2> QED BY <1>3, <2>1, <2>2, <2>3, <2>4, <2>5 DEF TimerStep
<1>4. CASE KickStep(c)
  <2>1. CASE KickDrain(c)  BY <2>1 DEF KickDrain, Still, TypeOK
  <2>2. CASE KickCommit(c)  BY <2>2 DEF KickCommit, Upload, Still, TypeOK
  <2>3. CASE KickAnswer(c)  BY <2>3 DEF KickAnswer, FinishUpload, Still, TypeOK
  <2>4. CASE KickRestore(c)  BY <2>4 DEF KickRestore, Still, TypeOK
  <2> QED BY <1>4, <2>1, <2>2, <2>3, <2>4 DEF KickStep
<1>5. CASE SweepStep(c)
  <2>1. CASE SweepCommit(c)  BY <2>1 DEF SweepCommit, Upload, Still, TypeOK
  <2>2. CASE SweepAnswer(c)  BY <2>2 DEF SweepAnswer, FinishUpload, Still, TypeOK
  <2> QED BY <1>5, <2>1, <2>2 DEF SweepStep
<1> QED BY <1>1, <1>2, <1>3, <1>4, <1>5 DEF ClientStep

-----------------------------------------------------------------------------
(* The holder of the room lock. *)

(* A task that drained the queue for a commit holds the room lock. *)
LockHeld(c) ==
  /\ ws[c].pc = "handle" <=> roomLock[c] = "ws"
  /\ tm[c].pc \in {"batch", "upload", "restore"} <=> roomLock[c] = "timer"

LEMMA LockStep ==
  ASSUME TypeOK, NEW d \in Clients, LockHeld(d), Next
  PROVE  LockHeld(d)'
<1>ws. ws \in [Clients -> WsRec]  BY DEF TypeOK
<1>tm. tm \in [Clients -> TmRec]  BY DEF TypeOK
<1>lock. roomLock \in [Clients -> {"free", "ws", "timer"}]  BY DEF TypeOK
<1>1. ASSUME NEW p \in Proposals, Propose(p)  PROVE LockHeld(d)'
  BY <1>1 DEF Propose, LockHeld
<1>2. ASSUME NEW c \in Clients, c # d, ClientStep(c)  PROVE LockHeld(d)'
  BY <1>2, OthersStill DEF Still, LockHeld
<1>3. ASSUME NEW c \in Clients,
             ServerDecide(c) \/ UploadTimeout(c) \/ KickStep(c) \/ SweepStep(c)
      PROVE  LockHeld(d)'
  <2>1. UNCHANGED <<ws, tm, roomLock>>
    BY <1>3 DEF ServerDecide, UploadTimeout, KickStep, KickDrain, KickCommit,
                KickAnswer, KickRestore, SweepStep, SweepCommit, SweepAnswer
  <2> QED BY <2>1 DEF LockHeld
<1>4. CASE WsStep(d)
  <2>1. CASE Deliver(d)
    <3>1. /\ UNCHANGED <<tm, roomLock>> /\ ws[d].pc = "idle"
          /\ ws'[d] = ws[d] \/ ws'[d].pc \in {"drain", "push"}
      BY <1>ws, <2>1 DEF Deliver
    <3> QED BY <3>1 DEF LockHeld
  <2>2. CASE ProposalPush(d) \/ ProposalTimer(d)
    <3>1. /\ UNCHANGED <<tm, roomLock>> /\ ws[d].pc \in {"push", "timer"}
          /\ ws'[d].pc \in {"timer", "cached"}
      BY <1>ws, <2>2 DEF ProposalPush, ProposalTimer, ThenCached, IdleWs, WsRec
    <3> QED BY <3>1 DEF LockHeld
  <2>3. CASE CommitDrain(d)
    <3>1. /\ UNCHANGED tm /\ roomLock[d] = "free" /\ roomLock'[d] = "ws"
          /\ ws'[d].pc = "handle"
      BY <1>ws, <1>lock, <2>3 DEF CommitDrain, RoomLockFree, WsRec
    <3> QED BY <3>1 DEF LockHeld
  <2>4. CASE CommitHandle(d)
    <3>1. UNCHANGED <<tm, roomLock>> /\ ws'[d].pc = ws[d].pc
      BY <1>ws, <2>4 DEF CommitHandle, WsRec
    <3> QED BY <3>1 DEF LockHeld
  <2>5. CASE CommitApply(d)
    <3>1. /\ UNCHANGED tm /\ ws[d].pc = "handle" /\ roomLock'[d] = "free"
          /\ ws'[d].pc \in {"idle", "cached"}
      BY <1>ws, <1>lock, <2>5 DEF CommitApply, ThenCached, IdleWs
    <3> QED BY <3>1 DEF LockHeld
  <2>6. CASE ProcessCached(d)
    <3>1. /\ UNCHANGED <<tm, roomLock>> /\ ws[d].pc = "cached"
          /\ ws'[d].pc \in {"idle", "drain"}
      BY <1>ws, <2>6 DEF ProcessCached, IdleWs
    <3> QED BY <3>1 DEF LockHeld
  <2> QED BY <1>4, <2>1, <2>2, <2>3, <2>4, <2>5, <2>6 DEF WsStep
<1>5. CASE TimerStep(d)
  <2>1. CASE TimerWake(d)
    <3>1. /\ UNCHANGED <<ws, roomLock>> /\ tm[d].pc = "idle"
          /\ tm'[d].pc \in {"idle", "lock"}
      BY <1>tm, <2>1 DEF TimerWake, IdleTm
    <3> QED BY <3>1 DEF LockHeld
  <2>2. CASE TimerDrain(d)
    <3>1. /\ UNCHANGED ws /\ tm[d].pc = "lock" /\ roomLock[d] = "free"
          /\ \/ tm'[d].pc = "idle" /\ UNCHANGED roomLock
             \/ tm'[d].pc = "batch" /\ roomLock'[d] = "timer"
      BY <1>tm, <1>lock, <2>2 DEF TimerDrain, RoomLockFree, IdleTm, TmRec
    <3> QED BY <3>1 DEF LockHeld
  <2>3. CASE TimerCommit(d) \/ TimerAnswer(d) \/ TimerRestore(d)
    <3>1. /\ UNCHANGED ws /\ tm[d].pc \in {"batch", "upload", "restore"}
          /\ \/ tm'[d].pc = "idle" /\ roomLock'[d] = "free"
             \/ tm'[d].pc \in {"upload", "restore"} /\ UNCHANGED roomLock
      <4>1. CASE TimerCommit(d)
        <5>1. /\ UNCHANGED ws /\ tm[d].pc = "batch"
              /\ \/ /\ tm' = [tm EXCEPT ![d] = IdleTm]
                    /\ roomLock' = [roomLock EXCEPT ![d] = "free"]
                 \/ tm' = [tm EXCEPT ![d].pc = "upload"] /\ UNCHANGED roomLock
          BY <4>1 DEF TimerCommit
        <5> QED BY <1>tm, <1>lock, <5>1 DEF IdleTm, TmRec
      <4>2. CASE TimerAnswer(d)
        BY <1>tm, <1>lock, <4>2 DEF TimerAnswer, IdleTm, TmRec
      <4>3. CASE TimerRestore(d)
        BY <1>tm, <1>lock, <4>3 DEF TimerRestore, IdleTm, TmRec
      <4> QED BY <2>3, <4>1, <4>2, <4>3
    <3> QED BY <3>1 DEF LockHeld
  <2> QED BY <1>5, <2>1, <2>2, <2>3 DEF TimerStep
<1> QED BY <1>1, <1>2, <1>3, <1>4, <1>5 DEF Next, ClientStep

Locked == \A c \in Clients : LockHeld(c)

LEMMA LockInvariance == Spec => []Locked
<1>1. Init => Locked
  BY DEF Init, Locked, LockHeld, IdleWs, IdleTm
<1>2. IInv /\ Locked /\ [Next]_vars => Locked'
  <2> SUFFICES ASSUME IInv, Locked, [Next]_vars PROVE Locked'
    OBVIOUS
  <2>1. CASE Next
    BY <2>1, LockStep DEF Locked, IInv
  <2>2. CASE UNCHANGED vars  BY <2>2 DEF vars, Locked, LockHeld
  <2> QED BY <2>1, <2>2
<1> QED BY <1>1, <1>2, Invariance, PTL DEF Spec

(* "Serializes proposal/commit queue consumption per room": whatever admins
   kick beside them, the handler and the timer of a client never hold drained
   proposals at the same time, for any number of clients, proposals, kicks and
   sweeps. *)
THEOREM DrainsSerialized == Spec => []SerializedDrain
<1>1. Locked => SerializedDrain
  <2> SUFFICES ASSUME Locked, NEW c \in Clients,
                      NEW t \in Draining(c), NEW u \in Draining(c), t # u
               PROVE  "kick" \in {t, u}
    BY DEF SerializedDrain
  <2>1. ~({"ws", "timer"} \subseteq Draining(c))
    BY DEF Draining, Locked, LockHeld
  <2>2. t \in {"ws", "timer", "kick"} /\ u \in {"ws", "timer", "kick"}
    BY DEF Draining
  <2> QED BY <2>1, <2>2
<1> QED BY <1>1, LockInvariance, PTL

-----------------------------------------------------------------------------
(* The commits a client lacks. *)

CMsg(k) == [kind |-> "commit", commit |-> k]

(* k is on its way to c.  Of an upload only an accepted one counts: a commit
   that has been refused and one whose answer is lost do not reach c. *)
Reaches(c, k) ==
  \/ CMsg(k) \in inbox[c] \union cache[c]
  \/ ws[c].pc \in {"drain", "handle"} /\ ws[c].msg = CMsg(k)
  \/ up[c] # NoUpload /\ up[c].status = "ok" /\ up[c].commit = k

Arrives == \A c \in Clients : \A i \in Epoch(c)..Len(log) : Reaches(c, log[i])

(* The end of an upload takes away only the commit it merges. *)
LEMMA FinishReach ==
  ASSUME IInv, NEW d \in Clients, up[d] # NoUpload, FinishUpload(d),
         up[d].status # "sent", UNCHANGED <<inbox, cache, ws>>,
         NEW k \in Commit, k.at >= Epoch(d)', Reaches(d, k)
  PROVE  Reaches(d, k)'
<1>1. CASE Accepting(d)
  <2>1. hist[d] \in Seq(Commit) /\ hist'[d] = Append(hist[d], up[d].commit)
    BY <1>1 DEF FinishUpload, IInv, TypeOK
  <2>2. Epoch(d)' = Epoch(d) + 1 /\ Epoch(d) \in Nat
    BY <2>1 DEF Epoch
  <2>3. up[d].commit.at = Epoch(d)  BY DEF IInv, AcceptedIsNext
  <2>4. up[d].commit # k  BY <2>2, <2>3
  <2> QED BY <2>4 DEF Reaches
<1>2. CASE ~Accepting(d)  BY <1>2 DEF Accepting, Reaches
<1> QED BY <1>1, <1>2

(* Decrypting a commit takes away only that one; failing to, none. *)
LEMMA ApplyReach ==
  ASSUME IInv, NEW d \in Clients, CommitApply(d),
         NEW k \in Commit, k.at >= Epoch(d)', Reaches(d, k)
  PROVE  Reaches(d, k)'
<1> DEFINE m == ws[d].msg
<1>1. /\ ws[d].pc = "handle" /\ m.kind = "commit" /\ m.commit.at = Epoch(d)
      /\ UNCHANGED <<inbox, up>> /\ up[d] = NoUpload
  BY DEF CommitApply, GroupFree, IInv, HandlerMsg, CommitStillCurrent
<1>2. hist[d] \in Seq(Commit) /\ cache \in [Clients -> SUBSET Msgs]
  BY DEF IInv, TypeOK
<1>3. Epoch(d) \in Nat  BY <1>2 DEF Epoch
<1>4. EpochOf(CMsg(k)) = k.at /\ k.at \in Nat  BY DEF EpochOf, CMsg, Commit
<1>5. CASE Decryptable(d, m.commit)
  <2>1. hist'[d] = Append(hist[d], m.commit)
    BY <1>5 DEF CommitApply, IInv, TypeOK
  <2>2. Epoch(d)' = Epoch(d) + 1  BY <1>2, <2>1 DEF Epoch
  <2>3. m # CMsg(k)  BY <1>1, <1>3, <2>2 DEF CMsg
  <2>4. cache'[d] = cache[d] \/ cache'[d] = cache[d] \ CachedAt(d, m.commit.at)
    BY <1>2, <1>5 DEF CommitApply
  <2>5. CMsg(k) \notin CachedAt(d, m.commit.at)
    BY <1>1, <1>3, <1>4, <2>2 DEF CachedAt
  <2> QED BY <1>1, <2>3, <2>4, <2>5 DEF Reaches
<1>6. CASE ~Decryptable(d, m.commit)
  <2>1. UNCHANGED hist  BY <1>6 DEF CommitApply
  <2>2. CMsg(k) \notin Outdated(d)  BY <1>3, <1>4, <2>1 DEF Outdated, Epoch
  <2>3. \/ cache'[d] = cache[d] \union {m}
        \/ cache'[d] = (cache[d] \union {m}) \ Outdated(d)
    BY <1>1, <1>2, <1>6 DEF CommitApply
  <2> QED BY <1>1, <2>2, <2>3 DEF Reaches
<1> QED BY <1>5, <1>6

(* What is on its way to a client and not merged by its step stays so. *)
LEMMA ReachStep ==
  ASSUME IInv, ResponseLoss = FALSE, NEW d \in Clients, ClientStep(d),
         NEW k \in Commit, k.at >= Epoch(d)', Reaches(d, k)
  PROVE  Reaches(d, k)'
<1>types. /\ ws \in [Clients -> WsRec]
          /\ inbox \in [Clients -> SUBSET Msgs] /\ cache \in [Clients -> SUBSET Msgs]
          /\ up \in [Clients -> MaybeUpload]
  BY DEF IInv, TypeOK, MaybeUpload
<1>epoch. Epoch(d) \in Nat  BY EpochType DEF IInv, TypeOK
<1>msg. EpochOf(CMsg(k)) = k.at /\ CMsg(k).kind = "commit" /\ k.at \in Nat
  BY DEF EpochOf, CMsg, Commit
<1>1. CASE UploadTimeout(d)
  <2>1. UNCHANGED <<inbox, cache, ws>> /\ up[d].status = "sent"
    BY <1>1 DEF UploadTimeout
  <2> QED BY <2>1 DEF Reaches
<1>2. CASE Deliver(d)
  <2>1. UNCHANGED <<up, hist>> /\ ws[d].pc = "idle"  BY <1>2 DEF Deliver
  <2>2. PICK m \in inbox[d] :
          /\ inbox' = [inbox EXCEPT ![d] = @ \ {m}] \/ UNCHANGED inbox
          /\ \/ EpochOf(m) < Epoch(d) /\ UNCHANGED <<cache, ws>>
             \/ /\ EpochOf(m) > Epoch(d) /\ UNCHANGED ws
                /\ cache' = [cache EXCEPT ![d] = @ \union {m}]
             \/ /\ EpochOf(m) = Epoch(d) /\ UNCHANGED cache
                /\ ws' = [ws EXCEPT ![d] =
                            [pc |-> IF m.kind = "commit" THEN "drain" ELSE "push",
                             msg |-> m, src |-> "wire", batch |-> {}, todo |-> {}]]
    BY <1>2 DEF Deliver
  <2>3. k.at >= Epoch(d)  BY <2>1 DEF Epoch
  <2>4. CASE m = CMsg(k)
    <3>1. ~(EpochOf(m) < Epoch(d))  BY <1>epoch, <1>msg, <2>3, <2>4
    <3> QED BY <1>types, <1>msg, <2>2, <2>4, <3>1 DEF Reaches
  <2>5. CASE m # CMsg(k)
    <3>1. CMsg(k) \in inbox[d] => CMsg(k) \in inbox'[d]
      BY <1>types, <2>2, <2>5
    <3>2. cache[d] \subseteq cache'[d]  BY <1>types, <2>2
    <3> QED BY <2>1, <3>1, <3>2 DEF Reaches
  <2> QED BY <2>4, <2>5
<1>3. CASE ProposalPush(d) \/ ProposalTimer(d)
  <2>1. UNCHANGED <<inbox, cache, up>> /\ ws[d].pc \notin {"drain", "handle"}
    BY <1>3 DEF ProposalPush, ProposalTimer
  <2> QED BY <2>1 DEF Reaches
<1>4. CASE CommitDrain(d) \/ CommitHandle(d)
  <2>1. UNCHANGED <<inbox, cache, up>>  BY <1>4 DEF CommitDrain, CommitHandle
  <2>2. ws'[d].pc = "handle" /\ ws'[d].msg = ws[d].msg
    <3>1. CASE CommitDrain(d)  BY <1>types, <3>1 DEF CommitDrain, WsRec
    <3>2. CASE CommitHandle(d)  BY <1>types, <3>2 DEF CommitHandle, WsRec
    <3> QED BY <1>4, <3>1, <3>2
  <2>3. ws[d].pc \in {"drain", "handle"}  BY <1>4 DEF CommitDrain, CommitHandle
  <2> QED BY <2>1, <2>2, <2>3 DEF Reaches
<1>5. CASE CommitApply(d)  BY <1>5, ApplyReach
<1>6. CASE ProcessCached(d)
  <2> DEFINE now == CachedAt(d, Epoch(d))
  <2>1. UNCHANGED <<inbox, up, hist>> /\ ws[d].pc = "cached"  BY <1>6 DEF ProcessCached
  <2>2. \/ cache'[d] = cache[d] \ Outdated(d)
        \/ cache'[d] = cache[d] \ now /\ \A m \in now : m.kind # "commit"
        \/ cache'[d] = cache[d]
    BY <1>types, <1>6 DEF ProcessCached
  <2>3. CMsg(k) \notin Outdated(d)
    BY <1>epoch, <1>msg, <2>1 DEF Outdated, Epoch
  <2>4. CMsg(k) \in cache[d] => CMsg(k) \in cache'[d]  BY <1>msg, <2>2, <2>3
  <2> QED BY <2>1, <2>4 DEF Reaches
<1>7. CASE \/ TimerWake(d) \/ TimerDrain(d) \/ TimerRestore(d)
           \/ KickDrain(d) \/ KickRestore(d)
  <2>1. UNCHANGED <<inbox, cache, ws, up>>
    BY <1>7 DEF TimerWake, TimerDrain, TimerRestore, KickDrain, KickRestore
  <2> QED BY <2>1 DEF Reaches
<1>8. CASE TimerCommit(d) \/ KickCommit(d) \/ SweepCommit(d)
  <2>1. UNCHANGED <<inbox, cache, ws>> /\ up[d] = NoUpload
    BY <1>8 DEF TimerCommit, KickCommit, SweepCommit, GroupFree
  <2> QED BY <2>1 DEF Reaches
<1>9. CASE TimerAnswer(d) \/ KickAnswer(d) \/ SweepAnswer(d)
  <2>1. /\ UNCHANGED <<inbox, cache, ws>> /\ up[d] # NoUpload /\ FinishUpload(d)
        /\ up[d].status # "sent"
    BY <1>9 DEF TimerAnswer, KickAnswer, SweepAnswer, Answered
  <2> QED BY <2>1, FinishReach
<1> QED BY <1>1, <1>2, <1>3, <1>4, <1>5, <1>6, <1>7, <1>8, <1>9
        DEF ClientStep, WsStep, TimerStep, KickStep, SweepStep

(* An accepted commit is relayed to every other client and answered to its own. *)
LEMMA DecideReach ==
  ASSUME IInv, Arrives, NEW c \in Clients, ServerDecide(c)
  PROVE  Arrives'
<1>types. /\ inbox \in [Clients -> SUBSET Msgs] /\ log \in Seq(Commit)
          /\ hist \in [Clients -> Seq(Commit)] /\ up \in [Clients -> MaybeUpload]
  BY DEF IInv, TypeOK, MaybeUpload
<1>1. /\ up[c] \in UploadRec /\ up[c] # NoUpload /\ up[c].status = "sent"
      /\ UNCHANGED <<hist, cache, ws>>
  BY <1>types DEF ServerDecide, MaybeUpload
<1>2. \A d \in Clients \ {c} : up'[d] = up[d]  BY <1>types DEF ServerDecide
<1>3. \A d \in Clients : inbox[d] \subseteq inbox'[d]  BY <1>types DEF ServerDecide
<1>4. ASSUME NEW d \in Clients, NEW k, Reaches(d, k)  PROVE Reaches(d, k)'
  <2>1. CASE d = c  BY <1>1, <1>3, <1>4, <2>1 DEF Reaches
  <2>2. CASE d # c  BY <1>1, <1>2, <1>3, <1>4, <2>2 DEF Reaches
  <2> QED BY <2>1, <2>2
<1>5. \A d \in Clients : Epoch(d)' = Epoch(d) /\ Epoch(d) \in Nat \ {0}
  BY <1>types, <1>1, EpochType DEF Epoch
<1>6. CASE UNCHANGED log  BY <1>4, <1>5, <1>6 DEF Arrives
<1>7. CASE ~UNCHANGED log
  <2>k. PICK k : k = up[c].commit  OBVIOUS
  <2>1. /\ log' = Append(log, k)
        /\ inbox' = [d \in Clients |-> IF d = c THEN inbox[d]
                       ELSE inbox[d] \union {[kind |-> "commit", commit |-> k]}]
        /\ up' = [up EXCEPT ![c].status = "ok"]
    BY <1>7, <2>k DEF ServerDecide
  <2>2. k \in Commit /\ up'[c].status = "ok" /\ up'[c].commit = k /\ up'[c] # NoUpload
    BY <1>types, <1>1, <2>k, <2>1 DEF UploadRec, NoUpload
  <2>3. \A d \in Clients : Reaches(d, k)'
    BY <2>1, <2>2 DEF Reaches, CMsg
  <2>4. /\ Len(log) \in Nat /\ Len(log') = Len(log) + 1 /\ log'[Len(log) + 1] = k
        /\ \A i \in 1..Len(log) : log'[i] = log[i]
    BY <1>types, <2>1, <2>2
  <2>5. ASSUME NEW d \in Clients, NEW i \in Epoch(d)..Len(log')
        PROVE  Reaches(d, log[i])'
    <3>1. CASE i = Len(log) + 1
      <4>1. log'[i] = k  BY <2>4, <3>1
      <4> QED BY <2>3, <4>1 DEF Reaches
    <3>2. CASE i # Len(log) + 1
      <4>1. i \in 1..Len(log) /\ i \in Epoch(d)..Len(log)  BY <1>5, <2>4, <2>5, <3>2
      <4>k. PICK j : j = log[i]  OBVIOUS
      <4>2. Reaches(d, j)  BY <4>k, <4>1 DEF Arrives
      <4>3. Reaches(d, j)'  BY <1>4, <4>2
      <4>4. log'[i] = j  BY <2>4, <4>k, <4>1
      <4> QED BY <4>3, <4>4 DEF Reaches
    <3> QED BY <3>1, <3>2
  <2> QED BY <1>5, <2>5 DEF Arrives
<1> QED BY <1>6, <1>7

(* A client's step never takes its group back. *)
LEMMA EpochGrows ==
  ASSUME IInv, NEW d \in Clients, ClientStep(d)
  PROVE  Epoch(d)' \in Nat /\ Epoch(d)' >= Epoch(d)
<1>1. hist \in [Clients -> Seq(Commit)]  BY DEF IInv, TypeOK
<1>2. hist' \in [Clients -> Seq(Commit)]
  BY NextInv DEF IInv, TypeOK, Next, ClientStep
<1>3. \/ UNCHANGED hist
      \/ \E k : hist' = [hist EXCEPT ![d] = Append(@, k)]
  BY DEF ClientStep, UploadTimeout, WsStep, TimerStep, KickStep, SweepStep,
         Deliver, ProposalPush, ProposalTimer, CommitDrain, CommitHandle,
         CommitApply, ProcessCached, TimerWake, TimerDrain, TimerCommit,
         TimerAnswer, TimerRestore, KickDrain, KickCommit, KickAnswer,
         KickRestore, SweepCommit, SweepAnswer, FinishUpload
<1>4. Len(hist'[d]) \in Nat /\ Len(hist[d]) \in Nat /\ Len(hist'[d]) >= Len(hist[d])
  <2>1. CASE UNCHANGED hist  BY <1>1, <2>1
  <2>2. ASSUME NEW k, hist' = [hist EXCEPT ![d] = Append(@, k)]
        PROVE  Len(hist'[d]) = Len(hist[d]) + 1
    BY <1>1, <2>2
  <2> QED BY <1>1, <1>2, <1>3, <2>1, <2>2
<1> QED BY <1>4 DEF Epoch

LEMMA ArrivesStep ==
  ASSUME IInv, Arrives, ResponseLoss = FALSE, Next
  PROVE  Arrives'
<1>1. ASSUME NEW p \in Proposals, Propose(p)  PROVE Arrives'
  <2>1. /\ UNCHANGED <<log, hist, cache, ws, up>>
        /\ \A c \in Clients : inbox[c] \subseteq inbox'[c]
    BY <1>1 DEF Propose, IInv, TypeOK
  <2>2. \A c \in Clients : \A k : Reaches(c, k) => Reaches(c, k)'
    BY <2>1 DEF Reaches
  <2> QED BY <2>1, <2>2 DEF Arrives, Epoch
<1>2. ASSUME NEW c \in Clients, ServerDecide(c)  PROVE Arrives'
  BY <1>2, DecideReach
<1>3. ASSUME NEW c \in Clients, ClientStep(c)  PROVE Arrives'
  <2>0. UNCHANGED log
    BY <1>3 DEF ClientStep, UploadTimeout, WsStep, TimerStep, KickStep, SweepStep,
         Deliver, ProposalPush, ProposalTimer, CommitDrain, CommitHandle,
         CommitApply, ProcessCached, TimerWake, TimerDrain, TimerCommit,
         TimerAnswer, TimerRestore, KickDrain, KickCommit, KickAnswer,
         KickRestore, SweepCommit, SweepAnswer
  <2>1. ASSUME NEW d \in Clients \ {c}, NEW i \in (Epoch(d)..Len(log))'
        PROVE  Reaches(d, log[i])'
    BY <1>3, <2>0, <2>1, OthersStill DEF Still, Epoch, Reaches, Arrives, IInv
  <2>2. ASSUME NEW i \in (Epoch(c)..Len(log))'  PROVE Reaches(c, log[i])'
    <3>1. Epoch(c)' \in Nat /\ Epoch(c)' >= Epoch(c) /\ Epoch(c) \in Nat \ {0}
      BY <1>3, EpochGrows, EpochType DEF IInv, TypeOK
    <3>2. Len(log) \in Nat  BY DEF IInv, TypeOK
    <3>3. i \in Epoch(c)..Len(log) /\ i \in 1..Len(log) /\ i >= Epoch(c)'
      BY <2>0, <2>2, <3>1, <3>2
    <3>4. Reaches(c, log[i]) /\ log[i].at >= Epoch(c)'
      BY <3>3 DEF Arrives, IInv, LogEpochs
    <3>k. PICK k : k = log[i]  OBVIOUS
    <3>5. k \in Commit /\ log'[i] = k  BY <2>0, <3>k, <3>3 DEF IInv, TypeOK
    <3>6. Reaches(c, k) /\ k.at >= Epoch(c)'  BY <3>k, <3>4
    <3>7. Reaches(c, k)'  BY <1>3, <3>5, <3>6, ReachStep
    <3> QED BY <3>5, <3>7 DEF Reaches
  <2> QED BY <2>1, <2>2 DEF Arrives
<1> QED BY <1>1, <1>2, <1>3 DEF Next, ClientStep

(* No commit is lost: as long as the answers to accepted uploads arrive, every
   commit a client lacks is still to be delivered, cached, in its handler, or
   its own in the answer it waits for, for any number of clients, kicks and
   sweeps, with messages reordered and repeated and requests lost. *)
THEOREM CommitsArrive == ASSUME ResponseLoss = FALSE PROVE Spec => []NoCommitLost
<1>1. Init => Arrives
  BY DEF Init, Arrives, Epoch
<1>2. IInv /\ Arrives /\ [Next]_vars => Arrives'
  <2> SUFFICES ASSUME IInv, Arrives, [Next]_vars PROVE Arrives'
    OBVIOUS
  <2>1. CASE Next  BY <2>1, ArrivesStep
  <2>2. CASE UNCHANGED vars  BY <2>2 DEF vars, Arrives, Reaches, Epoch
  <2> QED BY <2>1, <2>2
<1>3. Arrives => NoCommitLost
  BY DEF Arrives, Reaches, CMsg, NoCommitLost
<1> QED BY <1>1, <1>2, <1>3, Invariance, PTL DEF Spec

-----------------------------------------------------------------------------
(* The proposals the next commit refers to, in a room without kicks and sweeps
   whose server delivers a commit after what it was made from. *)

PMsg(p) == [kind |-> "proposal", p |-> p]

(* c, which drained or queued p or is about to, has p in its hands... *)
InHand(c, p) ==
  \/ p \in queue[c] \union ws[c].batch \union tm[c].batch
  \/ ws[c].pc = "push" /\ ws[c].msg = PMsg(p)

(* ...or will get it. *)
Holds(c, p) == PMsg(p) \in inbox[c] \union cache[c] \/ InHand(c, p)

(* Only the timer commits, and a batch is held only between the drain and the
   end of what it was drained for. *)
Quiet(c) ==
  /\ kk[c] = IdleKk
  /\ up[c] # NoUpload => up[c].owner = "timer" /\ tm[c].pc = "upload"
  /\ ws[c].pc # "handle" => ws[c].batch = {}
  /\ tm[c].pc \notin {"batch", "upload", "restore"} => tm[c].batch = {}

(* A proposal of an epoch c has not left is not gone. *)
Within(c) == \A p \in Proposals : sentAt[p] >= Epoch(c) => Holds(c, p)

(* What c has was sent, and what it queued not for a later epoch. *)
Sent(c) ==
  \A p \in Proposals :
    /\ PMsg(p) \in inbox[c] \union cache[c] => sentAt[p] > 0
    /\ InHand(c, p) => sentAt[p] > 0 /\ sentAt[p] <= Epoch(c)

(* A group holds proposals of its epoch, and only while somebody is about to
   use them; a commit refers to proposals of its own epoch. *)
OfEpoch(c) ==
  /\ \A p \in pend[c] : sentAt[p] = Epoch(c)
  /\ pend[c] # {} => ws[c].pc = "handle" \/ tm[c].pc = "upload"
  /\ up[c] # NoUpload => \A p \in up[c].commit.refs : sentAt[p] = up[c].commit.at

LogOfEpoch == \A i \in 1..Len(log) : \A p \in log[i].refs : sentAt[p] = i

(* When a commit has arrived, what it refers to is not still to arrive. *)
Causal(c) ==
  /\ \A k \in Commit : CMsg(k) \in cache[c] => \A p \in k.refs : PMsg(p) \notin inbox[c]
  /\ ws[c].pc \in {"drain", "handle"} =>
       \A p \in ws[c].msg.commit.refs : PMsg(p) \notin inbox[c]

(* The handler has handed over, or is about to, what its commit refers to. *)
HandedOver(c) ==
  ws[c].pc = "handle" => ws[c].msg.commit.refs \subseteq pend[c] \union ws[c].todo

Kept(c) ==
  Quiet(c) /\ Within(c) /\ Sent(c) /\ OfEpoch(c) /\ Causal(c) /\ HandedOver(c)

(* A message is a commit or a proposal, and is given by what it carries. *)
LEMMA MessageShapes ==
  /\ \A m \in Msgs : \/ m.kind = "commit" /\ m = CMsg(m.commit) /\ m.commit \in Commit
                     \/ m.kind = "proposal" /\ m = PMsg(m.p) /\ m.p \in Proposals
  /\ \A k : CMsg(k).kind = "commit" /\ CMsg(k).commit = k /\ EpochOf(CMsg(k)) = k.at
  /\ \A p : PMsg(p).kind = "proposal" /\ PMsg(p).p = p /\ EpochOf(PMsg(p)) = sentAt[p]
  /\ \A p, q : PMsg(p) = PMsg(q) => p = q
  /\ \A k, j : CMsg(k) = CMsg(j) => k = j
  /\ \A p, k : PMsg(p) # CMsg(k)
<1>1. \A m \in Msgs : \/ m.kind = "commit" /\ m = CMsg(m.commit) /\ m.commit \in Commit
                      \/ m.kind = "proposal" /\ m = PMsg(m.p) /\ m.p \in Proposals
  BY DEF Msgs, CommitMsg, ProposalMsg, CMsg, PMsg
<1>2. \A k : CMsg(k).kind = "commit" /\ CMsg(k).commit = k /\ EpochOf(CMsg(k)) = k.at
  BY DEF CMsg, EpochOf
<1>3. \A p : PMsg(p).kind = "proposal" /\ PMsg(p).p = p /\ EpochOf(PMsg(p)) = sentAt[p]
  BY DEF PMsg, EpochOf
<1> QED BY <1>1, <1>2, <1>3

(* The commit in the handler is the log's for the epoch of the group, and the
   proposals it refers to are of that epoch. *)
LEMMA HandlerRefs ==
  ASSUME IInv, LogOfEpoch, NEW c \in Clients, ws[c].pc \in {"drain", "handle"}
  PROVE  /\ ws[c].msg.commit \in Commit
         /\ ws[c].msg.commit.at = Epoch(c)
         /\ \A p \in ws[c].msg.commit.refs : p \in Proposals /\ sentAt[p] = Epoch(c)
<1>1. ws[c].msg.kind = "commit" /\ ws[c].msg \in Msgs \union {NoMsg}
  BY DEF IInv, HandlerMsg, TypeOK, WsRec
<1>2. ws[c].msg \in Msgs  BY <1>1 DEF NoMsg
<1> DEFINE k == ws[c].msg.commit
<1>3. k \in Commit  BY <1>1, <1>2, MessageShapes
<1>4. k.at = Epoch(c) /\ LoggedByOther(c, k)
  BY <1>1 DEF IInv, CommitStillCurrent, CommitsLogged
<1>5. \A p \in k.refs : sentAt[p] = k.at
  BY <1>4 DEF LoggedByOther, LogOfEpoch
<1> QED BY <1>3, <1>4, <1>5 DEF Commit

-----------------------------------------------------------------------------
(* The steps of the server and the network. *)

LEMMA ProposeKeeps ==
  ASSUME IInv, LogOfEpoch, NEW p \in Proposals, Propose(p)
  PROVE  LogOfEpoch' /\ \A c \in Clients : Kept(c) => Kept(c)'
<1>types. /\ sentAt \in [Proposals -> Nat] /\ inbox \in [Clients -> SUBSET Msgs]
          /\ cache \in [Clients -> SUBSET Msgs] /\ log \in Seq(Commit)
          /\ hist \in [Clients -> Seq(Commit)] /\ up \in [Clients -> MaybeUpload]
          /\ pend \in [Clients -> SUBSET Proposals]
  BY DEF IInv, TypeOK, MaybeUpload
<1>1. /\ UNCHANGED <<log, hist, pend, queue, cache, ws, tm, kk, up>>
      /\ sentAt[p] = 0
      /\ \A c \in Clients : inbox'[c] = inbox[c] \union {PMsg(p)}
  BY DEF Propose, PMsg
<1>2. /\ \A q \in Proposals \ {p} : sentAt'[q] = sentAt[q]
      /\ sentAt'[p] \in Nat \ {0}
  <2>1. ServerEpoch \in Nat \ {0}
    <3>1. Len(log) \in Nat  BY <1>types
    <3> QED BY <3>1 DEF ServerEpoch
  <2>2. \A c \in Clients : Epoch(c) \in Nat \ {0}  BY <1>types, EpochType
  <2> QED BY <1>types, <2>1, <2>2 DEF Propose
<1>3. \A c \in Clients : Epoch(c)' = Epoch(c) /\ Epoch(c) \in Nat \ {0}
  BY <1>types, <1>1, EpochType DEF Epoch
<1>4. \A k \in Commit : k.at > 0 /\ k.refs \subseteq Proposals  BY DEF Commit
<1>5. LogOfEpoch'
  <2>1. \A i \in 1..Len(log) : log[i] \in Commit  BY <1>types
  <2> QED BY <1>1, <1>2, <1>4, <2>1 DEF LogOfEpoch
<1>6. ASSUME NEW c \in Clients, Kept(c)  PROVE Kept(c)'
  <2>1. Quiet(c)' /\ HandedOver(c)'
    BY <1>1, <1>6 DEF Kept, Quiet, HandedOver
  <2>2. \A q \in Proposals : InHand(c, q)' <=> InHand(c, q)
    BY <1>1 DEF InHand
  <2>3. Within(c)'
    BY <1>1, <1>2, <1>3, <1>6, <2>2 DEF Kept, Within, Holds
  <2>4. Sent(c)'
    <3>1. ASSUME NEW q \in Proposals, q # p, PMsg(q) \in inbox'[c]
          PROVE  PMsg(q) \in inbox[c]
      BY <1>1, <3>1, MessageShapes
    <3>2. ~InHand(c, p)  BY <1>1, <1>6 DEF Kept, Sent
    <3> QED BY <1>1, <1>2, <1>3, <1>6, <2>2, <3>1, <3>2 DEF Kept, Sent
  <2>5. OfEpoch(c)'
    <3>1. p \notin pend[c] /\ pend[c] \subseteq Proposals
      BY <1>types, <1>1, <1>3, <1>6 DEF Kept, OfEpoch
    <3>2. up[c] # NoUpload => up[c].commit \in Commit
      BY <1>types DEF MaybeUpload, UploadRec
    <3>3. up[c] # NoUpload => p \notin up[c].commit.refs
      BY <1>1, <1>4, <1>6, <3>2 DEF Kept, OfEpoch
    <3> QED BY <1>1, <1>2, <1>3, <1>4, <1>6, <3>1, <3>2, <3>3 DEF Kept, OfEpoch
  <2>6. Causal(c)'
    <3>1. ASSUME NEW k \in Commit, LoggedByOther(c, k)  PROVE p \notin k.refs
      BY <1>1, <3>1 DEF LoggedByOther, LogOfEpoch
    <3>2. ASSUME NEW k \in Commit, CMsg(k) \in cache[c]  PROVE p \notin k.refs
      BY <3>1, <3>2, MessageShapes DEF IInv, CommitsLogged
    <3>3. ws[c].pc \in {"drain", "handle"} => p \notin ws[c].msg.commit.refs
      BY <1>1, <1>3, HandlerRefs
    <3>4. \A q : q # p /\ PMsg(q) \notin inbox[c] => PMsg(q) \notin inbox'[c]
      BY <1>1, MessageShapes
    <3> QED BY <1>1, <1>6, <3>2, <3>3, <3>4 DEF Kept, Causal
  <2> QED BY <2>1, <2>3, <2>4, <2>5, <2>6 DEF Kept
<1> QED BY <1>5, <1>6

LEMMA DecideKeeps ==
  ASSUME IInv, LogOfEpoch, NEW c \in Clients, ServerDecide(c),
         OfEpoch(c)
  PROVE  LogOfEpoch' /\ \A d \in Clients : Kept(d) => Kept(d)'
<1>types. /\ inbox \in [Clients -> SUBSET Msgs] /\ log \in Seq(Commit)
          /\ hist \in [Clients -> Seq(Commit)] /\ up \in [Clients -> MaybeUpload]
  BY DEF IInv, TypeOK, MaybeUpload
<1>1. /\ up[c] # NoUpload /\ up[c] \in UploadRec
      /\ UNCHANGED <<sentAt, hist, pend, queue, cache, roomLock, ws, tm, kk>>
      /\ \A d \in Clients \ {c} : up'[d] = up[d]
  BY <1>types DEF ServerDecide, MaybeUpload
<1>k. PICK k : k = up[c].commit  OBVIOUS
<1>2. k \in Commit /\ \A p \in k.refs : sentAt[p] = k.at
  BY <1>1, <1>k DEF UploadRec, OfEpoch
<1>3. up'[c] # NoUpload /\ up'[c].owner = up[c].owner /\ up'[c].commit = up[c].commit
  BY <1>types, <1>1 DEF ServerDecide, UploadRec, NoUpload
<1>4. \A d \in Clients : inbox'[d] = inbox[d] \/ inbox'[d] = inbox[d] \union {CMsg(k)}
  BY <1>types, <1>k DEF ServerDecide, CMsg
<1>5. \A d \in Clients : \A p : PMsg(p) \in inbox'[d] <=> PMsg(p) \in inbox[d]
  BY <1>4, MessageShapes
<1>6. LogOfEpoch'
  <2>1. CASE UNCHANGED log  BY <1>1, <2>1 DEF LogOfEpoch
  <2>2. CASE log' = Append(log, k) /\ k.at = Len(log) + 1
    <3>1. /\ Len(log) \in Nat /\ Len(log') = Len(log) + 1 /\ log'[Len(log) + 1] = k
          /\ \A i \in 1..Len(log) : log'[i] = log[i]
      BY <1>types, <1>2, <2>2
    <3>2. ASSUME NEW i \in 1..Len(log'), NEW p \in log'[i].refs  PROVE sentAt[p] = i
      <4>1. CASE i = Len(log) + 1  BY <1>2, <2>2, <3>1, <3>2, <4>1
      <4>2. CASE i # Len(log) + 1
        <5>1. i \in 1..Len(log)  BY <3>1, <3>2, <4>2
        <5> QED BY <3>1, <3>2, <5>1 DEF LogOfEpoch
      <4> QED BY <4>1, <4>2
    <3> QED BY <1>1, <3>2 DEF LogOfEpoch
  <2> QED BY <1>k, <2>1, <2>2 DEF ServerDecide, ServerEpoch
<1>7. ASSUME NEW d \in Clients, Kept(d)  PROVE Kept(d)'
  <2>1. Quiet(d)' /\ HandedOver(d)' /\ OfEpoch(d)'
    <3>1. CASE d = c
      BY <1>1, <1>3, <1>7, <3>1 DEF Kept, Quiet, HandedOver, OfEpoch, Epoch
    <3>2. CASE d # c
      BY <1>1, <1>7, <3>2 DEF Kept, Quiet, HandedOver, OfEpoch, Epoch
    <3> QED BY <3>1, <3>2
  <2>2. Within(d)' /\ Sent(d)' /\ Causal(d)'
    BY <1>1, <1>5, <1>7 DEF Kept, Within, Holds, InHand, Sent, Causal, Epoch
  <2> QED BY <2>1, <2>2 DEF Kept
<1> QED BY <1>6, <1>7

LEMMA StillKeeps ==
  ASSUME NEW d \in Clients, Still(d), UNCHANGED sentAt, Kept(d)
  PROVE  Kept(d)'
<1>1. Epoch(d)' = Epoch(d)  BY DEF Still, Epoch
<1>2. \A p : (InHand(d, p)' <=> InHand(d, p)) /\ (Holds(d, p)' <=> Holds(d, p))
  BY DEF Still, InHand, Holds
<1> QED BY <1>1, <1>2
        DEF Still, Kept, Quiet, Within, Sent, OfEpoch, Causal, HandedOver

-----------------------------------------------------------------------------
(* The steps of the handler. *)

LEMMA DeliverKeeps ==
  ASSUME IInv, CausalDelivery = TRUE, NEW c \in Clients, Kept(c), Deliver(c)
  PROVE  Kept(c)'
<1>types. /\ ws \in [Clients -> WsRec] /\ inbox \in [Clients -> SUBSET Msgs]
          /\ cache \in [Clients -> SUBSET Msgs] /\ sentAt \in [Proposals -> Nat]
  BY DEF IInv, TypeOK
<1>epoch. Epoch(c) \in Nat \ {0}  BY EpochType DEF IInv, TypeOK
<1>1. /\ UNCHANGED <<sentAt, hist, pend, queue, tm, kk, up>> /\ ws[c].pc = "idle"
      /\ Epoch(c)' = Epoch(c)
  BY DEF Deliver, Epoch
<1>2. PICK m \in inbox[c] :
        /\ Causes(c, m) \cap inbox[c] = {}
        /\ inbox' = [inbox EXCEPT ![c] = @ \ {m}] \/ UNCHANGED inbox
        /\ \/ EpochOf(m) < Epoch(c) /\ UNCHANGED <<cache, ws>>
           \/ /\ EpochOf(m) > Epoch(c) /\ UNCHANGED ws
              /\ cache' = [cache EXCEPT ![c] = @ \union {m}]
           \/ /\ EpochOf(m) = Epoch(c) /\ UNCHANGED cache
              /\ ws' = [ws EXCEPT ![c] =
                          [pc |-> IF m.kind = "commit" THEN "drain" ELSE "push",
                           msg |-> m, src |-> "wire", batch |-> {}, todo |-> {}]]
  BY DEF Deliver
<1>3. m \in Msgs  BY <1>types
<1>4. inbox[c] \ {m} \subseteq inbox'[c] /\ inbox'[c] \subseteq inbox[c]
  BY <1>types, <1>2
<1>5. \/ EpochOf(m) < Epoch(c) /\ cache'[c] = cache[c] /\ ws'[c] = ws[c]
      \/ /\ EpochOf(m) > Epoch(c) /\ ws'[c] = ws[c] /\ cache'[c] = cache[c] \union {m}
      \/ /\ EpochOf(m) = Epoch(c) /\ cache'[c] = cache[c]
         /\ ws'[c].pc = (IF m.kind = "commit" THEN "drain" ELSE "push")
         /\ ws'[c].msg = m /\ ws'[c].batch = {}
  BY <1>types, <1>2
<1>6. \A p \in Proposals : m = PMsg(p) => EpochOf(m) = sentAt[p]
  BY MessageShapes
<1>7. m.kind = "commit" => \A p \in m.commit.refs : PMsg(p) \notin inbox[c]
  BY <1>2, MessageShapes DEF Causes
<1>8. ws[c].batch = {}  BY <1>1 DEF Kept, Quiet
<1>9. Quiet(c)' /\ HandedOver(c)'
  BY <1>1, <1>5, <1>8 DEF Kept, Quiet, HandedOver
<1>10. Within(c)'
  <2>1. ASSUME NEW p \in Proposals, sentAt[p] >= Epoch(c), InHand(c, p)  PROVE InHand(c, p)'
    BY <1>1, <1>5, <1>8, <2>1 DEF InHand
  <2>2. ASSUME NEW p \in Proposals, sentAt[p] >= Epoch(c), PMsg(p) \in cache[c]
        PROVE  PMsg(p) \in cache'[c]
    BY <1>5, <2>2
  <2>3. ASSUME NEW p \in Proposals, sentAt[p] >= Epoch(c), PMsg(p) \in inbox[c]
        PROVE  Holds(c, p)'
    <3>1. CASE m # PMsg(p)  BY <1>4, <2>3, <3>1 DEF Holds
    <3>2. CASE m = PMsg(p)
      <4>1. ~(EpochOf(m) < Epoch(c)) /\ m.kind # "commit"
        BY <1>types, <1>epoch, <1>6, <2>3, <3>2, MessageShapes
      <4> QED BY <1>5, <3>2, <4>1 DEF Holds, InHand
    <3> QED BY <3>1, <3>2
  <2> QED BY <1>1, <2>1, <2>2, <2>3 DEF Kept, Within, Holds
<1>11. Sent(c)'
  <2>1. ASSUME NEW p \in Proposals, PMsg(p) \in inbox'[c] \union cache'[c]
        PROVE  sentAt[p] > 0
    BY <1>4, <1>5, <2>1 DEF Kept, Sent
  <2>2. ASSUME NEW p \in Proposals, InHand(c, p)'
        PROVE  sentAt[p] > 0 /\ sentAt[p] <= Epoch(c)
    <3>1. CASE InHand(c, p)  BY <3>1 DEF Kept, Sent
    <3>2. CASE ~InHand(c, p)
      <4>1. m = PMsg(p) /\ EpochOf(m) = Epoch(c)
        BY <1>1, <1>5, <1>8, <2>2, <3>2 DEF InHand
      <4> QED BY <1>epoch, <1>6, <4>1
    <3> QED BY <3>1, <3>2
  <2> QED BY <1>1, <2>1, <2>2 DEF Sent
<1>12. OfEpoch(c)'
  <2>1. ws[c].pc # "handle"  BY <1>1
  <2> QED BY <1>1, <2>1 DEF Kept, OfEpoch
<1>13. Causal(c)'
  <2>1. ASSUME NEW k \in Commit, CMsg(k) \in cache'[c], NEW p \in k.refs
        PROVE  PMsg(p) \notin inbox[c]
    <3>1. CASE CMsg(k) \in cache[c]  BY <2>1, <3>1 DEF Kept, Causal
    <3>2. CASE CMsg(k) = m  BY <1>7, <2>1, <3>2, MessageShapes
    <3> QED BY <1>5, <2>1, <3>1, <3>2
  <2>2. ASSUME ws'[c].pc \in {"drain", "handle"}, NEW p \in ws'[c].msg.commit.refs
        PROVE  PMsg(p) \notin inbox[c]
    <3>1. ws'[c].msg = m /\ m.kind = "commit"  BY <1>1, <1>5, <2>2
    <3> QED BY <1>7, <2>2, <3>1
  <2> QED BY <1>4, <2>1, <2>2 DEF Causal
<1> QED BY <1>9, <1>10, <1>11, <1>12, <1>13 DEF Kept

LEMMA PushKeeps ==
  ASSUME IInv, NEW c \in Clients, Kept(c), ProposalPush(c) \/ ProposalTimer(c)
  PROVE  Kept(c)'
<1>types. ws \in [Clients -> WsRec] /\ queue \in [Clients -> SUBSET Proposals]
  BY DEF IInv, TypeOK
<1>1. /\ UNCHANGED <<sentAt, inbox, hist, pend, cache, tm, kk, up>>
      /\ Epoch(c)' = Epoch(c) /\ ws[c].pc \in {"push", "timer"}
  BY DEF ProposalPush, ProposalTimer, Epoch
<1>2. ws'[c].pc \in {"timer", "cached"} /\ ws'[c].batch = {} /\ ws[c].batch = {}
  <2>1. ws[c].batch = {}  BY <1>1 DEF Kept, Quiet
  <2>2. CASE ProposalPush(c)  BY <1>types, <2>1, <2>2 DEF ProposalPush, WsRec
  <2>3. CASE ProposalTimer(c)
    BY <1>types, <2>1, <2>3 DEF ProposalTimer, ThenCached, IdleWs
  <2> QED BY <2>1, <2>2, <2>3
<1>3. \A p \in Proposals : InHand(c, p)' <=> InHand(c, p)
  <2>1. CASE ProposalPush(c)
    <3>1. ws[c].msg \in Msgs /\ ws[c].msg.kind = "proposal" /\ ws[c].pc = "push"
      BY <1>types, <2>1 DEF ProposalPush, IInv, HandlerMsg, WsRec, NoMsg
    <3>2. ws[c].msg = PMsg(ws[c].msg.p)  BY <3>1, MessageShapes
    <3>3. queue'[c] = queue[c] \union {ws[c].msg.p}
      BY <1>types, <2>1 DEF ProposalPush
    <3> QED BY <1>1, <1>2, <3>1, <3>2, <3>3, MessageShapes DEF InHand
  <2>2. CASE ProposalTimer(c)
    BY <1>1, <1>2, <2>2 DEF ProposalTimer, InHand
  <2> QED BY <2>1, <2>2
<1>4. \A p \in Proposals : Holds(c, p)' <=> Holds(c, p)
  BY <1>1, <1>3 DEF Holds
<1> QED BY <1>1, <1>2, <1>3, <1>4
        DEF Kept, Quiet, Within, Sent, OfEpoch, Causal, HandedOver

(* At the drain every proposal the commit refers to is in the queue or cached
   for its epoch: it has arrived, and no other task holds it. *)
LEMMA DrainKeeps ==
  ASSUME IInv, LogOfEpoch, NEW c \in Clients, Kept(c), LockHeld(c), CommitDrain(c)
  PROVE  Kept(c)'
<1>types. /\ ws \in [Clients -> WsRec] /\ queue \in [Clients -> SUBSET Proposals]
          /\ sentAt \in [Proposals -> Nat]
  BY DEF IInv, TypeOK
<1>epoch. Epoch(c) \in Nat \ {0}  BY EpochType DEF IInv, TypeOK
<1>1. /\ UNCHANGED <<sentAt, inbox, hist, pend, cache, tm, kk, up>>
      /\ Epoch(c)' = Epoch(c) /\ ws[c].pc = "drain" /\ roomLock[c] = "free"
  BY DEF CommitDrain, RoomLockFree, Epoch
<1>2. ws[c].batch = {} /\ tm[c].batch = {}
  BY <1>1 DEF Kept, Quiet, LockHeld
<1>3. /\ ws'[c].pc = "handle" /\ ws'[c].msg = ws[c].msg /\ ws'[c].batch = queue[c]
      /\ ws'[c].todo = queue[c] \union ProposalsOf(CachedAt(c, ws[c].msg.commit.at))
      /\ queue'[c] = {}
  BY <1>types DEF CommitDrain, WsRec
<1>4. \A p \in Proposals : InHand(c, p)' <=> InHand(c, p)
  BY <1>1, <1>2, <1>3 DEF InHand
<1>5. \A p \in Proposals : Holds(c, p)' <=> Holds(c, p)
  BY <1>1, <1>4 DEF Holds
<1>6. HandedOver(c)'
  <2>1. ASSUME NEW p \in ws[c].msg.commit.refs  PROVE p \in ws'[c].todo
    <3>1. /\ p \in Proposals /\ sentAt[p] = Epoch(c)
          /\ ws[c].msg.commit.at = Epoch(c)
      BY <1>1, HandlerRefs
    <3>2. Holds(c, p)  BY <1>epoch, <3>1 DEF Kept, Within
    <3>3. PMsg(p) \notin inbox[c]  BY <1>1 DEF Kept, Causal
    <3>4. CASE p \in queue[c]  BY <1>3, <3>4
    <3>5. CASE PMsg(p) \in cache[c]
      <4>1. PMsg(p) \in CachedAt(c, ws[c].msg.commit.at)
        BY <3>1, <3>5, MessageShapes DEF CachedAt
      <4>2. p \in ProposalsOf(CachedAt(c, ws[c].msg.commit.at))
        BY <4>1, MessageShapes DEF ProposalsOf
      <4> QED BY <1>3, <4>2
    <3> QED BY <1>1, <1>2, <3>2, <3>3, <3>4, <3>5 DEF Holds, InHand
  <2> QED BY <1>3, <2>1 DEF HandedOver
<1> QED BY <1>1, <1>2, <1>3, <1>4, <1>5, <1>6
        DEF Kept, Quiet, Within, Sent, OfEpoch, Causal

LEMMA HandleKeeps ==
  ASSUME IInv, LogOfEpoch, NEW c \in Clients, Kept(c), CommitHandle(c)
  PROVE  Kept(c)'
<1>types. ws \in [Clients -> WsRec] /\ pend \in [Clients -> SUBSET Proposals]
  BY DEF IInv, TypeOK
<1>1. /\ UNCHANGED <<sentAt, inbox, hist, queue, cache, tm, kk, up>>
      /\ Epoch(c)' = Epoch(c) /\ ws[c].pc = "handle"
  BY DEF CommitHandle, Epoch
<1>2. PICK p \in ws[c].todo :
        /\ pend'[c] = pend[c] \union Accepted(c, {p})
        /\ ws'[c] = [ws[c] EXCEPT !.todo = @ \ {p}]
  BY <1>types DEF CommitHandle
<1>3. /\ ws'[c].pc = "handle" /\ ws'[c].msg = ws[c].msg /\ ws'[c].batch = ws[c].batch
      /\ ws'[c].todo = ws[c].todo \ {p}
  BY <1>types, <1>1, <1>2 DEF WsRec
<1>4. \A q \in Proposals : InHand(c, q)' <=> InHand(c, q)
  BY <1>1, <1>3 DEF InHand
<1>5. \A q \in Proposals : Holds(c, q)' <=> Holds(c, q)
  BY <1>1, <1>4 DEF Holds
<1>6. HandedOver(c)'
  <2>1. \A q \in ws[c].msg.commit.refs : sentAt[q] = Epoch(c)
    BY <1>1, HandlerRefs
  <2>2. p \in ws[c].msg.commit.refs => p \in pend'[c]
    BY <1>2, <2>1 DEF Accepted
  <2>3. ws[c].msg.commit.refs \subseteq pend[c] \union ws[c].todo
    BY <1>1 DEF Kept, HandedOver
  <2> QED BY <1>2, <1>3, <2>2, <2>3 DEF HandedOver
<1>7. OfEpoch(c)'
  <2>1. \A q \in pend'[c] : sentAt[q] = Epoch(c)
    BY <1>2 DEF Accepted, Kept, OfEpoch
  <2> QED BY <1>1, <1>3, <2>1 DEF Kept, OfEpoch
<1> QED BY <1>1, <1>3, <1>4, <1>5, <1>6, <1>7
        DEF Kept, Quiet, Within, Sent, Causal

(* The commit can be decrypted. *)
LEMMA ApplyDecrypts ==
  ASSUME IInv, NEW c \in Clients, HandedOver(c), ws[c].pc = "handle", ws[c].todo = {}
  PROVE  Decryptable(c, ws[c].msg.commit)
BY DEF IInv, CommitStillCurrent, HandedOver, Decryptable

LEMMA ApplyKeeps ==
  ASSUME IInv, NEW c \in Clients, Kept(c), CommitApply(c)
  PROVE  Kept(c)'
<1>types. /\ ws \in [Clients -> WsRec] /\ pend \in [Clients -> SUBSET Proposals]
          /\ cache \in [Clients -> SUBSET Msgs] /\ hist \in [Clients -> Seq(Commit)]
          /\ sentAt \in [Proposals -> Nat]
  BY DEF IInv, TypeOK
<1>epoch. Epoch(c) \in Nat \ {0}  BY EpochType DEF IInv, TypeOK
<1>k. PICK k : k = ws[c].msg.commit  OBVIOUS
<1>1. /\ ws[c].pc = "handle" /\ up[c] = NoUpload /\ k.at = Epoch(c)
      /\ Decryptable(c, k)
  <2>1. ws[c].pc = "handle" /\ ws[c].todo = {} /\ up[c] = NoUpload
    BY DEF CommitApply, GroupFree
  <2> QED BY <1>k, <2>1, ApplyDecrypts DEF Kept, IInv, CommitStillCurrent
<1>2. /\ UNCHANGED <<sentAt, inbox, queue, tm, kk, up>>
      /\ pend'[c] = {} /\ hist'[c] = Append(hist[c], k)
      /\ ws'[c] = ThenCached
      /\ cache'[c] = cache[c] \/ cache'[c] = cache[c] \ CachedAt(c, k.at)
  BY <1>types, <1>k, <1>1 DEF CommitApply
<1>3. Epoch(c)' = Epoch(c) + 1  BY <1>types, <1>2 DEF Epoch
<1>4. ws'[c].pc = "cached" /\ ws'[c].batch = {}
  BY <1>2 DEF ThenCached, IdleWs
<1>5. cache'[c] \subseteq cache[c]  BY <1>2
<1>6. \A p \in Proposals : InHand(c, p)' => InHand(c, p)
  BY <1>2, <1>4 DEF InHand
<1>7. Within(c)'
  <2> SUFFICES ASSUME NEW p \in Proposals, sentAt[p] >= Epoch(c) + 1
               PROVE  Holds(c, p)'
    BY <1>2, <1>3 DEF Within
  <2>1. sentAt[p] >= Epoch(c) /\ sentAt[p] # k.at /\ sentAt[p] \in Nat
    BY <1>types, <1>epoch, <1>1
  <2>2. Holds(c, p) /\ ~InHand(c, p)
    BY <1>epoch, <2>1 DEF Kept, Within, Sent
  <2>3. PMsg(p) \notin CachedAt(c, k.at)  BY <2>1, MessageShapes DEF CachedAt
  <2> QED BY <1>2, <2>2, <2>3 DEF Holds
<1>8. Sent(c)'
  BY <1>types, <1>epoch, <1>2, <1>3, <1>5, <1>6 DEF Kept, Sent
<1>9. Quiet(c)' /\ OfEpoch(c)' /\ Causal(c)' /\ HandedOver(c)'
  BY <1>1, <1>2, <1>4, <1>5 DEF Kept, Quiet, OfEpoch, Causal, HandedOver
<1> QED BY <1>7, <1>8, <1>9 DEF Kept

LEMMA CachedKeeps ==
  ASSUME IInv, NEW c \in Clients, Kept(c), ProcessCached(c)
  PROVE  Kept(c)'
<1> DEFINE now == CachedAt(c, Epoch(c))
<1>types. /\ ws \in [Clients -> WsRec] /\ queue \in [Clients -> SUBSET Proposals]
          /\ cache \in [Clients -> SUBSET Msgs] /\ sentAt \in [Proposals -> Nat]
  BY DEF IInv, TypeOK
<1>epoch. Epoch(c) \in Nat \ {0}  BY EpochType DEF IInv, TypeOK
<1>1. /\ UNCHANGED <<sentAt, inbox, hist, pend, tm, kk, up>>
      /\ Epoch(c)' = Epoch(c) /\ ws[c].pc = "cached"
  BY DEF ProcessCached, Epoch
<1>2. \/ /\ cache'[c] = cache[c] \ Outdated(c) /\ ws'[c] = IdleWs /\ queue'[c] = queue[c]
      \/ /\ queue'[c] = queue[c] \union ProposalsOf(now)
         /\ \/ cache'[c] = cache[c] \ now /\ ws'[c] = IdleWs
            \/ /\ cache'[c] = cache[c]
               /\ \E m \in now : /\ m.kind = "commit"
                                 /\ ws'[c] = [pc |-> "drain", msg |-> m, src |-> "cache",
                                              batch |-> {}, todo |-> {}]
  BY <1>types DEF ProcessCached
<1>3. /\ ws'[c].batch = {} /\ ws[c].batch = {} /\ ws'[c].pc \in {"idle", "drain"}
      /\ ws'[c].pc = "drain" => /\ cache'[c] = cache[c]
                                /\ ws'[c].msg \in cache[c] /\ ws'[c].msg.kind = "commit"
  <2>1. ws[c].batch = {}  BY <1>1 DEF Kept, Quiet
  <2>2. CASE ws'[c] = IdleWs  BY <2>1, <2>2 DEF IdleWs
  <2>3. CASE ws'[c] # IdleWs
    <3>1. PICK m \in now : /\ m.kind = "commit" /\ cache'[c] = cache[c]
                           /\ ws'[c] = [pc |-> "drain", msg |-> m, src |-> "cache",
                                        batch |-> {}, todo |-> {}]
      <4> HIDE DEF now
      <4> QED BY <1>2, <2>3
    <3>2. m \in cache[c]  BY DEF CachedAt
    <3>3. ws'[c].pc = "drain" /\ ws'[c].msg = m /\ ws'[c].batch = {}  BY <3>1
    <3> QED BY <2>1, <3>1, <3>2, <3>3
  <2> QED BY <2>2, <2>3
<1>4. cache'[c] \subseteq cache[c]  BY <1>2
<1>5. \A p \in Proposals : p \in ProposalsOf(now) <=> PMsg(p) \in cache[c] /\ sentAt[p] = Epoch(c)
  <2>1. \A m \in now : m \in Msgs /\ m \in cache[c] /\ EpochOf(m) = Epoch(c)
    BY <1>types DEF CachedAt
  <2>2. ASSUME NEW p \in Proposals, p \in ProposalsOf(now)
        PROVE  PMsg(p) \in cache[c] /\ sentAt[p] = Epoch(c)
    <3>1. PICK m \in now : m.kind = "proposal" /\ m.p = p
      BY <2>2 DEF ProposalsOf
    <3>2. m = PMsg(p)  BY <2>1, <3>1, MessageShapes
    <3> QED BY <2>1, <3>2, MessageShapes
  <2>3. ASSUME NEW p \in Proposals, PMsg(p) \in cache[c], sentAt[p] = Epoch(c)
        PROVE  p \in ProposalsOf(now)
    <3>1. PMsg(p) \in now  BY <2>3, MessageShapes DEF CachedAt
    <3> QED BY <3>1, MessageShapes DEF ProposalsOf
  <2> QED BY <2>2, <2>3
<1>6. \A p \in Proposals :
        /\ InHand(c, p) => InHand(c, p)'
        /\ InHand(c, p)' => InHand(c, p) \/ p \in ProposalsOf(now)
  BY <1>1, <1>2, <1>3 DEF InHand
<1>7. Within(c)'
  <2> SUFFICES ASSUME NEW p \in Proposals, sentAt[p] >= Epoch(c), PMsg(p) \in cache[c]
               PROVE  Holds(c, p)'
    BY <1>1, <1>6 DEF Kept, Within, Holds
  <2>1. CASE PMsg(p) \in cache'[c]  BY <2>1 DEF Holds
  <2>2. CASE PMsg(p) \notin cache'[c]
    <3>1. PMsg(p) \notin Outdated(c)
      BY <1>types, <1>epoch, MessageShapes DEF Outdated
    <3>2. PMsg(p) \in now /\ queue'[c] = queue[c] \union ProposalsOf(now)
      BY <1>2, <2>2, <3>1
    <3>3. EpochOf(PMsg(p)) = Epoch(c)  BY <3>2 DEF CachedAt
    <3>4. sentAt[p] = Epoch(c)  BY <3>3, MessageShapes
    <3>5. p \in ProposalsOf(now)  BY <1>5, <3>4
    <3> QED BY <3>2, <3>5 DEF Holds, InHand
  <2> QED BY <2>1, <2>2
<1>8. Sent(c)'
  BY <1>types, <1>epoch, <1>1, <1>4, <1>5, <1>6 DEF Kept, Sent
<1>9. Causal(c)'
  <2>1. ASSUME ws'[c].pc = "drain", NEW p \in ws'[c].msg.commit.refs
        PROVE  PMsg(p) \notin inbox[c]
    <3>1. PICK k : k = ws'[c].msg.commit  OBVIOUS
    <3>2. k \in Commit /\ CMsg(k) \in cache[c]
      BY <1>types, <1>3, <2>1, <3>1, MessageShapes
    <3> QED BY <2>1, <3>1, <3>2 DEF Kept, Causal
  <2> QED BY <1>1, <1>3, <1>4, <2>1 DEF Kept, Causal
<1>10. Quiet(c)' /\ OfEpoch(c)' /\ HandedOver(c)'
  BY <1>1, <1>3 DEF Kept, Quiet, OfEpoch, HandedOver
<1> QED BY <1>7, <1>8, <1>9, <1>10 DEF Kept

-----------------------------------------------------------------------------
(* The steps of the timer. *)

LEMMA WakeKeeps ==
  ASSUME IInv, NEW c \in Clients, Kept(c), TimerWake(c) \/ TimerDrain(c)
  PROVE  Kept(c)'
<1>types. tm \in [Clients -> TmRec] /\ queue \in [Clients -> SUBSET Proposals]
  BY DEF IInv, TypeOK
<1>1. /\ UNCHANGED <<sentAt, inbox, hist, pend, cache, ws, kk, up>>
      /\ Epoch(c)' = Epoch(c) /\ tm[c].pc \in {"idle", "lock"}
  BY DEF TimerWake, TimerDrain, Epoch
<1>2. tm[c].batch = {}  BY <1>1 DEF Kept, Quiet
<1>3. \/ tm'[c].pc \in {"idle", "lock"} /\ tm'[c].batch = {} /\ queue'[c] = queue[c]
      \/ tm'[c].pc = "batch" /\ tm'[c].batch = queue[c] /\ queue'[c] = {}
  <2>1. CASE TimerWake(c)
    <3>1. UNCHANGED queue
          /\ \E e : tm' = [tm EXCEPT ![c] = IF e = Epoch(c)
                                           THEN [IdleTm EXCEPT !.pc = "lock", !.at = e]
                                           ELSE IdleTm]
      BY <2>1 DEF TimerWake
    <3> QED BY <1>types, <3>1 DEF IdleTm
  <2>2. CASE TimerDrain(c)
    <3>1. CASE queue[c] = {}
      BY <1>types, <2>2, <3>1 DEF TimerDrain, IdleTm
    <3>2. CASE queue[c] # {}
      BY <1>types, <2>2, <3>2 DEF TimerDrain, TmRec
    <3> QED BY <3>1, <3>2
  <2> QED BY <2>1, <2>2
<1>4. \A p \in Proposals : InHand(c, p)' <=> InHand(c, p)
  BY <1>1, <1>2, <1>3 DEF InHand
<1>5. \A p \in Proposals : Holds(c, p)' <=> Holds(c, p)
  BY <1>1, <1>4 DEF Holds
<1> QED BY <1>1, <1>3, <1>4, <1>5
        DEF Kept, Quiet, Within, Sent, OfEpoch, Causal, HandedOver

(* A batch the group accepts nothing of is outdated: the group holds nothing
   when the timer has the room lock. *)
LEMMA CommitKeeps ==
  ASSUME IInv, NEW c \in Clients, Kept(c), LockHeld(c), TimerCommit(c)
  PROVE  Kept(c)'
<1> DEFINE fresh == Accepted(c, tm[c].batch)
<1>types. /\ tm \in [Clients -> TmRec] /\ pend \in [Clients -> SUBSET Proposals]
          /\ sentAt \in [Proposals -> Nat] /\ up \in [Clients -> MaybeUpload]
  BY DEF IInv, TypeOK, MaybeUpload
<1>epoch. Epoch(c) \in Nat \ {0}  BY EpochType DEF IInv, TypeOK
<1>1. /\ UNCHANGED <<sentAt, inbox, hist, queue, cache, ws, kk>>
      /\ Epoch(c)' = Epoch(c) /\ tm[c].pc = "batch" /\ up[c] = NoUpload
  BY DEF TimerCommit, GroupFree, Epoch
<1>2. ws[c].pc # "handle" /\ pend[c] = {}
  BY <1>1 DEF LockHeld, Kept, OfEpoch
<1>3. \A p \in fresh : sentAt[p] = Epoch(c)  BY DEF Accepted
<1>4. CASE fresh = {}
  <2>1. tm'[c] = IdleTm /\ UNCHANGED <<pend, up>>
    BY <1>types, <1>4 DEF TimerCommit
  <2>2. tm'[c].pc = "idle" /\ tm'[c].batch = {}  BY <2>1 DEF IdleTm
  <2>3. \A p \in Proposals : /\ InHand(c, p)' => InHand(c, p)
                             /\ InHand(c, p) => InHand(c, p)' \/ p \in tm[c].batch
    BY <1>1, <2>2 DEF InHand
  <2>4. ASSUME NEW p \in tm[c].batch  PROVE ~(sentAt[p] >= Epoch(c))
    <3>1. p \in Proposals /\ InHand(c, p)  BY <1>types DEF TmRec, InHand
    <3>2. sentAt[p] # Epoch(c)  BY <1>2, <1>4 DEF Accepted
    <3> QED BY <1>types, <1>epoch, <3>1, <3>2 DEF Kept, Sent
  <2>5. Within(c)'
    BY <1>1, <2>3, <2>4 DEF Kept, Within, Holds
  <2>6. Sent(c)'  BY <1>1, <2>3 DEF Kept, Sent
  <2> QED BY <1>1, <1>2, <2>1, <2>2, <2>5, <2>6
          DEF Kept, Quiet, OfEpoch, Causal, HandedOver
<1>5. CASE fresh # {}
  <2>1. /\ pend'[c] = pend[c] \union fresh
        /\ tm'[c].pc = "upload" /\ tm'[c].batch = tm[c].batch
        /\ Upload(c, "timer", pend[c] \union fresh, FALSE)
    BY <1>types, <1>5 DEF TimerCommit, TmRec
  <2>2. /\ up'[c] # NoUpload /\ up'[c].owner = "timer"
        /\ up'[c].commit.refs = fresh /\ up'[c].commit.at = Epoch(c)
    BY <1>types, <1>2, <2>1 DEF Upload, NoUpload
  <2>3. \A p \in Proposals : InHand(c, p)' <=> InHand(c, p)
    BY <1>1, <2>1 DEF InHand
  <2>4. \A p \in Proposals : Holds(c, p)' <=> Holds(c, p)
    BY <1>1, <2>3 DEF Holds
  <2>5. OfEpoch(c)'  BY <1>1, <1>2, <1>3, <2>1, <2>2 DEF OfEpoch
  <2> HIDE DEF fresh
  <2> QED BY <1>1, <1>2, <2>1, <2>2, <2>3, <2>4, <2>5
          DEF Kept, Quiet, Within, Sent, Causal, HandedOver
<1> QED BY <1>4, <1>5

(* An accepted batch ends the epoch of all its proposals, any other answer keeps
   the batch. *)
LEMMA AnswerKeeps ==
  ASSUME IInv, NEW c \in Clients, Kept(c), LockHeld(c), TimerAnswer(c)
  PROVE  Kept(c)'
<1>types. /\ tm \in [Clients -> TmRec] /\ pend \in [Clients -> SUBSET Proposals]
          /\ sentAt \in [Proposals -> Nat] /\ up \in [Clients -> MaybeUpload]
          /\ hist \in [Clients -> Seq(Commit)]
  BY DEF IInv, TypeOK, MaybeUpload
<1>epoch. Epoch(c) \in Nat \ {0}  BY EpochType DEF IInv, TypeOK
<1>1. /\ UNCHANGED <<sentAt, inbox, queue, cache, ws, kk>>
      /\ tm[c].pc = "upload" /\ FinishUpload(c)
      /\ up'[c] = NoUpload /\ pend'[c] = {}
  BY <1>types DEF TimerAnswer, FinishUpload
<1>2. ws[c].pc # "handle" /\ ws[c].batch = {}
  BY <1>1 DEF LockHeld, Kept, Quiet
<1>3. CASE Accepting(c)
  <2>1. tm'[c] = IdleTm /\ hist'[c] = Append(hist[c], up[c].commit)
    BY <1>types, <1>1, <1>3 DEF TimerAnswer, FinishUpload
  <2>2. tm'[c].pc = "idle" /\ tm'[c].batch = {} /\ Epoch(c)' = Epoch(c) + 1
    BY <1>types, <2>1 DEF IdleTm, Epoch
  <2>3. \A p \in Proposals : InHand(c, p)' => InHand(c, p)
    BY <1>1, <2>2 DEF InHand
  <2>4. Within(c)'
    <3> SUFFICES ASSUME NEW p \in Proposals, sentAt[p] >= Epoch(c) + 1
                 PROVE  Holds(c, p)'
      BY <1>1, <2>2 DEF Within
    <3>1. sentAt[p] >= Epoch(c) /\ sentAt[p] \in Nat  BY <1>types, <1>epoch
    <3>2. Holds(c, p) /\ ~InHand(c, p)
      BY <1>epoch, <3>1 DEF Kept, Within, Sent
    <3> QED BY <1>1, <3>2 DEF Holds
  <2>5. Sent(c)'
    BY <1>types, <1>epoch, <1>1, <2>2, <2>3 DEF Kept, Sent
  <2> QED BY <1>1, <1>2, <2>2, <2>4, <2>5
          DEF Kept, Quiet, OfEpoch, Causal, HandedOver
<1>4. CASE ~Accepting(c)
  <2>1. tm'[c].pc = "restore" /\ tm'[c].batch = tm[c].batch /\ UNCHANGED hist
    BY <1>types, <1>1, <1>4 DEF TimerAnswer, FinishUpload, TmRec
  <2>2. Epoch(c)' = Epoch(c)  BY <2>1 DEF Epoch
  <2>3. \A p \in Proposals : InHand(c, p)' <=> InHand(c, p)
    BY <1>1, <2>1 DEF InHand
  <2>4. \A p \in Proposals : Holds(c, p)' <=> Holds(c, p)
    BY <1>1, <2>3 DEF Holds
  <2> QED BY <1>1, <1>2, <2>1, <2>2, <2>3, <2>4
          DEF Kept, Quiet, Within, Sent, OfEpoch, Causal, HandedOver
<1> QED BY <1>3, <1>4

(* What restore_to_queue_sync filters out is outdated. *)
LEMMA RestoreKeeps ==
  ASSUME IInv, NEW c \in Clients, Kept(c), LockHeld(c), TimerRestore(c)
  PROVE  Kept(c)'
<1>types. /\ tm \in [Clients -> TmRec] /\ queue \in [Clients -> SUBSET Proposals]
  BY DEF IInv, TypeOK
<1>1. /\ UNCHANGED <<sentAt, inbox, hist, pend, cache, ws, kk, up>>
      /\ Epoch(c)' = Epoch(c) /\ tm[c].pc = "restore" /\ up[c] = NoUpload
      /\ queue'[c] = queue[c] \union {p \in tm[c].batch : sentAt[p] >= Epoch(c)}
      /\ tm'[c] = IdleTm
  BY <1>types DEF TimerRestore, GroupFree, Epoch, Restored
<1>2. tm'[c].pc = "idle" /\ tm'[c].batch = {}  BY <1>1 DEF IdleTm
<1>3. \A p \in Proposals :
        /\ InHand(c, p)' => InHand(c, p)
        /\ InHand(c, p) /\ sentAt[p] >= Epoch(c) => InHand(c, p)'
  BY <1>1, <1>2 DEF InHand
<1>4. Within(c)'  BY <1>1, <1>3 DEF Kept, Within, Holds
<1>5. Sent(c)'  BY <1>1, <1>3 DEF Kept, Sent
<1> QED BY <1>1, <1>2, <1>4, <1>5
        DEF Kept, Quiet, OfEpoch, Causal, HandedOver

LEMMA TimeoutKeeps ==
  ASSUME IInv, NEW c \in Clients, Kept(c), UploadTimeout(c)
  PROVE  Kept(c)'
<1>1. /\ UNCHANGED <<sentAt, inbox, hist, pend, queue, cache, ws, tm, kk>>
      /\ Epoch(c)' = Epoch(c) /\ up[c] # NoUpload
  BY DEF UploadTimeout, Epoch
<1>2. up'[c].owner = up[c].owner /\ up'[c].commit = up[c].commit
  BY DEF UploadTimeout, IInv, TypeOK, UploadRec
<1>3. \A p \in Proposals : (InHand(c, p)' <=> InHand(c, p)) /\ (Holds(c, p)' <=> Holds(c, p))
  BY <1>1 DEF InHand, Holds
<1> QED BY <1>1, <1>2, <1>3
        DEF Kept, Quiet, Within, Sent, OfEpoch, Causal, HandedOver

-----------------------------------------------------------------------------
(* The invariant of the proposals. *)
AllKept == LogOfEpoch /\ \A c \in Clients : Kept(c)

(* The rooms in which no task but the timer takes the queue or the group's
   proposals, and the server relays causes first. *)
Orderly == Kickers = {} /\ Sweepers = {} /\ CausalDelivery = TRUE

LEMMA KeptStep ==
  ASSUME Orderly, IInv, Locked, AllKept, Next
  PROVE  AllKept'
<1>1. ASSUME NEW p \in Proposals, Propose(p)  PROVE AllKept'
  BY <1>1, ProposeKeeps DEF AllKept
<1>2. ASSUME NEW c \in Clients, ServerDecide(c)  PROVE AllKept'
  BY <1>2, DecideKeeps DEF AllKept, Kept
<1>3. ASSUME NEW c \in Clients, ClientStep(c)  PROVE AllKept'
  <2>1. LogOfEpoch /\ Kept(c) /\ LockHeld(c)  BY DEF AllKept, Locked
  <2>2. ~KickStep(c) /\ ~SweepStep(c)
    <3>1. /\ kk[c].pc = "idle" /\ c \notin Kickers /\ c \notin Sweepers
          /\ up[c] # NoUpload => up[c].owner # "sweep"
      BY <2>1 DEF Orderly, Kept, Quiet, IdleKk
    <3> QED BY <3>1 DEF KickStep, KickDrain, KickCommit, KickAnswer, KickRestore,
                        SweepStep, SweepCommit, SweepAnswer, Answered
  <2>3. Kept(c)'
    BY <1>3, <2>1, <2>2, TimeoutKeeps, DeliverKeeps, PushKeeps, DrainKeeps,
       HandleKeeps, ApplyKeeps, CachedKeeps, WakeKeeps, CommitKeeps, AnswerKeeps,
       RestoreKeeps
       DEF Orderly, ClientStep, WsStep, TimerStep
  <2>4. UNCHANGED <<log, sentAt>>
    BY <1>3, <2>2 DEF ClientStep, UploadTimeout, WsStep, TimerStep,
         Deliver, ProposalPush, ProposalTimer, CommitDrain, CommitHandle,
         CommitApply, ProcessCached, TimerWake, TimerDrain, TimerCommit,
         TimerAnswer, TimerRestore
  <2>5. ASSUME NEW d \in Clients \ {c}  PROVE Kept(d)'
    <3>1. Still(d) /\ Kept(d)  BY <1>3, OthersStill DEF IInv, AllKept
    <3> QED BY <2>4, <3>1, StillKeeps
  <2> QED BY <2>1, <2>3, <2>4, <2>5 DEF AllKept, LogOfEpoch
<1> QED BY <1>1, <1>2, <1>3 DEF Next, ClientStep

LEMMA KeptInvariance == ASSUME Orderly PROVE Spec => []AllKept
<1>1. Init => AllKept
  BY DEF Init, AllKept, LogOfEpoch, Kept, Quiet, Within, Sent, OfEpoch, Causal,
         HandedOver, InHand, Holds, Epoch, IdleWs, IdleTm, IdleKk
<1>2. IInv /\ Locked /\ AllKept /\ [Next]_vars => AllKept'
  <2> SUFFICES ASSUME IInv, Locked, AllKept, [Next]_vars PROVE AllKept'
    OBVIOUS
  <2>1. CASE Next  BY <2>1, KeptStep
  <2>2. CASE UNCHANGED vars
    <3>1. \A c \in Clients : Still(c)  BY <2>2 DEF vars, Still
    <3>2. UNCHANGED <<log, sentAt>>  BY <2>2 DEF vars
    <3> QED BY <3>1, <3>2, StillKeeps DEF AllKept, LogOfEpoch
  <2> QED BY <2>1, <2>2
<1> QED BY <1>1, <1>2, Invariance, LockInvariance, PTL DEF Spec

(* The proposals the next commit of a client refers to are not lost, in a room
   without kicks and sweeps whose server relays a commit after the proposals it
   refers to: for any number of clients and proposals, whatever is repeated and
   whichever uploads are lost. *)
THEOREM ProposalsKept ==
  ASSUME Kickers = {}, Sweepers = {}, CausalDelivery = TRUE
  PROVE  Spec => []NoProposalLost
<1>1. IInv /\ AllKept => NoProposalLost
  <2> SUFFICES ASSUME IInv, AllKept, NEW c \in Clients, Epoch(c) <= Len(log),
                      NEW p \in log[Epoch(c)].refs
               PROVE  p \in ProposalsWithin(c)
    BY DEF NoProposalLost
  <2>1. Epoch(c) \in 1..Len(log)
    <3>1. Epoch(c) \in Nat \ {0} /\ Len(log) \in Nat
      BY EpochType DEF IInv, TypeOK
    <3> QED BY <3>1
  <2>2. sentAt[p] = Epoch(c) /\ p \in Proposals
    <3>1. log[Epoch(c)] \in Commit  BY <2>1 DEF IInv, TypeOK
    <3>2. p \in Proposals  BY <3>1 DEF Commit
    <3> QED BY <2>1, <3>2 DEF AllKept, LogOfEpoch
  <2>3. Holds(c, p)
    BY <2>1, <2>2 DEF AllKept, Kept, Within
  <2>4. CASE PMsg(p) \in inbox[c] \union cache[c]
    BY <2>4, MessageShapes DEF ProposalsOf, ProposalsWithin
  <2>5. CASE InHand(c, p)
    <3>1. PMsg(p).p = p  BY MessageShapes
    <3> QED BY <2>5, <3>1 DEF InHand, ProposalsWithin
  <2> QED BY <2>3, <2>4, <2>5 DEF Holds
<1>2. Orderly  BY DEF Orderly
<1> QED BY <1>1, <1>2, Invariance, KeptInvariance, PTL

(* A commit is decrypted the first time the handler tries: in such a room no
   commit goes to the cache or through the retries of process_cached_messages
   for want of a proposal. *)
THEOREM FirstTry ==
  ASSUME Kickers = {}, Sweepers = {}, CausalDelivery = TRUE
  PROVE  Spec => []CommitDecrypts
<1>1. IInv /\ AllKept => CommitDecrypts
  BY ApplyDecrypts DEF AllKept, Kept, CommitDecrypts
<1>2. Orderly  BY DEF Orderly
<1> QED BY <1>1, <1>2, Invariance, KeptInvariance, PTL
=============================================================================
