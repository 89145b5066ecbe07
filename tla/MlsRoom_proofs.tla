--------------------------- MODULE MlsRoom_proofs ---------------------------
(***************************************************************************)
(* Proofs about MlsRoom for any clients, kickers, sweepers and proposals,  *)
(* with messages delivered in any order and more than once, and uploads    *)
(* and their answers lost.                                                 *)
(***************************************************************************)
EXTENDS MlsRoom, TLAPS

-----------------------------------------------------------------------------
(* Types of what the shared steps write. *)

MaybeUpload == UploadRec \union {NoUpload}

(* An epoch is a positive number. *)
LEMMA EpochType ==
  ASSUME hist \in [Clients -> Seq(Commit)], NEW c \in Clients
  PROVE  Epoch(c) \in Nat \ {0}
<1>1. Len(hist[c]) \in Nat  OBVIOUS
<1> QED BY <1>1 DEF Epoch

(* A change of an upload's status keeps it an upload. *)
LEMMA StatusType ==
  ASSUME up \in [Clients -> MaybeUpload],
         NEW c \in Clients, up[c] # NoUpload,
         NEW s \in {"sent", "ok", "conflict", "timeout"}
  PROVE  [up EXCEPT ![c].status = s] \in [Clients -> MaybeUpload]
<1>1. up[c] \in UploadRec  BY DEF MaybeUpload
<1>2. [up[c] EXCEPT !.status = s] \in UploadRec  BY <1>1 DEF UploadRec
<1> QED BY <1>1, <1>2 DEF MaybeUpload

(* An upload that starts has the type of uploads. *)
LEMMA UploadType ==
  ASSUME up \in [Clients -> MaybeUpload], hist \in [Clients -> Seq(Commit)],
         NEW c \in Clients, NEW who \in {"timer", "kick", "sweep"},
         NEW refs \in SUBSET Proposals, NEW isKick \in BOOLEAN,
         Upload(c, who, refs, isKick)
  PROVE  up' \in [Clients -> MaybeUpload]
<1> DEFINE k == [at |-> Epoch(c), by |-> c, kick |-> isKick, refs |-> refs]
<1>1. k \in Commit  BY EpochType DEF Commit
<1> HIDE DEF k
<1>2. [owner |-> who, status |-> "sent", commit |-> k] \in UploadRec
  BY <1>1 DEF UploadRec
<1>3. up' = [up EXCEPT ![c] = [owner |-> who, status |-> "sent", commit |-> k]]
  BY DEF Upload, k
<1> QED BY <1>2, <1>3 DEF MaybeUpload

(* The end of an upload keeps the types of what it writes. *)
LEMMA FinishType ==
  ASSUME up \in [Clients -> MaybeUpload], hist \in [Clients -> Seq(Commit)],
         pend \in [Clients -> SUBSET Proposals],
         NEW c \in Clients, up[c] # NoUpload, FinishUpload(c)
  PROVE  /\ up' \in [Clients -> MaybeUpload]
         /\ hist' \in [Clients -> Seq(Commit)]
         /\ pend' \in [Clients -> SUBSET Proposals]
<1>1. up[c].commit \in Commit  BY DEF MaybeUpload, UploadRec
<1>2. Append(hist[c], up[c].commit) \in Seq(Commit)  BY <1>1
<1>3. hist' \in [Clients -> Seq(Commit)]  BY <1>2 DEF FinishUpload
<1>4. up' \in [Clients -> MaybeUpload]  BY DEF FinishUpload, MaybeUpload
<1>5. pend' \in [Clients -> SUBSET Proposals]  BY DEF FinishUpload
<1> QED BY <1>3, <1>4, <1>5

(* Starting a timer keeps the types of the timer map and the timers. *)
LEMMA StartTimerType ==
  ASSUME timerMap \in [Clients -> Nat], timers \in [Clients -> SUBSET Nat],
         hist \in [Clients -> Seq(Commit)], NEW c \in Clients,
         StartTimer(c) \/ UNCHANGED <<timerMap, timers>>
  PROVE  timerMap' \in [Clients -> Nat] /\ timers' \in [Clients -> SUBSET Nat]
<1>1. Epoch(c) \in Nat  BY EpochType
<1> DEFINE e == Epoch(c)
<1>2. \/ UNCHANGED <<timerMap, timers>>
      \/ /\ timerMap' = [timerMap EXCEPT ![c] = e]
         /\ timers' = [timers EXCEPT ![c] = @ \union {e}]
  BY DEF StartTimer
<1> HIDE DEF e
<1>3. e \in Nat  BY <1>1 DEF e
<1> QED BY <1>2, <1>3

(* What the group accepts, and what a set of messages brings, are proposals. *)
LEMMA ProposalSets ==
  /\ \A c \in Clients : \A b \in SUBSET Proposals : Accepted(c, b) \in SUBSET Proposals
  /\ \A msgs \in SUBSET Msgs : ProposalsOf(msgs) \in SUBSET Proposals
  /\ cache \in [Clients -> SUBSET Msgs] =>
       \A c \in Clients : \A e : CachedAt(c, e) \in SUBSET Msgs
BY DEF Accepted, ProposalsOf, CachedAt, Msgs, ProposalMsg, CommitMsg

-----------------------------------------------------------------------------
(* Every step keeps the types; the steps of the handler rely on the kind of the
   message it is busy with. *)
LEMMA TypeStep ==
  ASSUME TypeOK, HandlerMsg, Next
  PROVE  TypeOK'
<1>up. up \in [Clients -> MaybeUpload]  BY DEF TypeOK, MaybeUpload
<1>log. log \in Seq(Commit)  BY DEF TypeOK
<1>hist. hist \in [Clients -> Seq(Commit)]  BY DEF TypeOK
<1>pend. pend \in [Clients -> SUBSET Proposals]  BY DEF TypeOK
<1>queue. queue \in [Clients -> SUBSET Proposals]  BY DEF TypeOK
<1>inbox. inbox \in [Clients -> SUBSET Msgs]  BY DEF TypeOK
<1>cache. cache \in [Clients -> SUBSET Msgs]  BY DEF TypeOK
<1>timers. timerMap \in [Clients -> Nat] /\ timers \in [Clients -> SUBSET Nat]
  BY DEF TypeOK
<1>ws. ws \in [Clients -> WsRec]  BY DEF TypeOK
<1>tm. tm \in [Clients -> TmRec]  BY DEF TypeOK
<1>kk. kk \in [Clients -> KkRec]  BY DEF TypeOK
<1>1. ASSUME NEW p \in Proposals, Propose(p)  PROVE TypeOK'
  <2>1. sentAt' \in [Proposals -> Nat]
    BY <1>hist, <1>1, EpochType DEF Propose, ServerEpoch, TypeOK
  <2>2. [kind |-> "proposal", p |-> p] \in Msgs  BY DEF Msgs, ProposalMsg
  <2>3. inbox' \in [Clients -> SUBSET Msgs]  BY <1>inbox, <1>1, <2>2 DEF Propose
  <2> QED BY <1>1, <2>1, <2>3 DEF Propose, TypeOK
<1>2. ASSUME NEW c \in Clients, ServerDecide(c)  PROVE TypeOK'
  <2>1. up[c] # NoUpload /\ up[c].commit \in Commit
    BY <1>up, <1>2 DEF ServerDecide, MaybeUpload, UploadRec
  <2>2. up' \in [Clients -> MaybeUpload]
    BY <1>up, <1>2, <2>1, StatusType DEF ServerDecide
  <2>3. [kind |-> "commit", commit |-> up[c].commit] \in Msgs
    BY <2>1 DEF Msgs, CommitMsg
  <2>4. inbox' \in [Clients -> SUBSET Msgs]  BY <1>inbox, <1>2, <2>3 DEF ServerDecide
  <2>5. log' \in Seq(Commit)  BY <1>log, <1>2, <2>1 DEF ServerDecide
  <2> QED BY <1>2, <2>2, <2>4, <2>5 DEF ServerDecide, TypeOK, MaybeUpload
<1>3. ASSUME NEW c \in Clients, UploadTimeout(c)  PROVE TypeOK'
  <2>1. up' \in [Clients -> MaybeUpload]
    BY <1>up, <1>3, StatusType DEF UploadTimeout
  <2> QED BY <1>3, <2>1 DEF UploadTimeout, TypeOK, MaybeUpload
<1>4. ASSUME NEW c \in Clients, Deliver(c)  PROVE TypeOK'
  <2>1. PICK m \in inbox[c] :
          /\ inbox' = [inbox EXCEPT ![c] = @ \ {m}] \/ UNCHANGED inbox
          /\ cache' = [cache EXCEPT ![c] = @ \union {m}] \/ UNCHANGED cache
          /\ \/ UNCHANGED ws
             \/ ws' = [ws EXCEPT ![c] =
                         [pc |-> IF m.kind = "commit" THEN "drain" ELSE "push",
                          msg |-> m, src |-> "wire", batch |-> {}, todo |-> {}]]
    BY <1>4 DEF Deliver
  <2>2. inbox' \in [Clients -> SUBSET Msgs]  BY <1>inbox, <2>1
  <2>3. cache' \in [Clients -> SUBSET Msgs]  BY <1>inbox, <1>cache, <2>1
  <2>4. ws' \in [Clients -> WsRec]
    <3>1. m \in Msgs  BY <1>inbox
    <3> QED BY <1>ws, <2>1, <3>1 DEF WsRec
  <2> QED BY <1>4, <2>2, <2>3, <2>4 DEF Deliver, TypeOK
<1>5. ASSUME NEW c \in Clients, ProposalPush(c)  PROVE TypeOK'
  <2>1. ws[c].msg \in ProposalMsg
    BY <1>ws, <1>5 DEF ProposalPush, HandlerMsg, WsRec, Msgs, CommitMsg, NoMsg
  <2>2. queue' \in [Clients -> SUBSET Proposals]  BY <1>queue, <1>5, <2>1 DEF ProposalPush, ProposalMsg
  <2>3. ws' \in [Clients -> WsRec]  BY <1>ws, <1>5 DEF ProposalPush, WsRec
  <2> QED BY <1>5, <2>2, <2>3 DEF ProposalPush, TypeOK
<1>6. ASSUME NEW c \in Clients, ProposalTimer(c)  PROVE TypeOK'
  <2>1. timerMap' \in [Clients -> Nat] /\ timers' \in [Clients -> SUBSET Nat]
    BY <1>timers, <1>hist, <1>6, StartTimerType DEF ProposalTimer
  <2>2. ws' \in [Clients -> WsRec]
    BY <1>ws, <1>6 DEF ProposalTimer, IdleWs, ThenCached, WsRec
  <2> QED BY <1>6, <2>1, <2>2 DEF ProposalTimer, TypeOK
<1>7. ASSUME NEW c \in Clients, CommitDrain(c)  PROVE TypeOK'
  <2>1. ProposalsOf(CachedAt(c, ws[c].msg.commit.at)) \in SUBSET Proposals
    BY <1>cache, ProposalSets
  <2>2. ws' \in [Clients -> WsRec]
    <3> DEFINE all == queue[c] \union ProposalsOf(CachedAt(c, ws[c].msg.commit.at))
               w == [ws[c] EXCEPT !.pc = "handle", !.batch = queue[c], !.todo = all]
    <3>1. ws[c] \in WsRec /\ queue[c] \in SUBSET Proposals /\ all \in SUBSET Proposals
      BY <1>ws, <1>queue, <2>1
    <3>2. ws' = [ws EXCEPT ![c] = w]  BY <1>ws, <1>7 DEF CommitDrain
    <3> HIDE DEF all
    <3>3. w \in WsRec  BY <3>1 DEF WsRec
    <3> QED BY <1>ws, <3>2, <3>3
  <2>3. queue' \in [Clients -> SUBSET Proposals]  BY <1>queue, <1>7 DEF CommitDrain
  <2> QED BY <1>7, <2>2, <2>3 DEF CommitDrain, TypeOK
<1>8. ASSUME NEW c \in Clients, CommitHandle(c)  PROVE TypeOK'
  <2>1. PICK p \in ws[c].todo :
          /\ pend' = [pend EXCEPT ![c] = @ \union Accepted(c, {p})]
          /\ ws' = [ws EXCEPT ![c].todo = @ \ {p}]
    BY <1>8 DEF CommitHandle
  <2>2. p \in Proposals  BY <1>ws, <2>1 DEF WsRec
  <2>3. Accepted(c, {p}) \in SUBSET Proposals  BY <2>2, ProposalSets
  <2>4. pend' \in [Clients -> SUBSET Proposals]  BY <1>pend, <2>1, <2>3
  <2>5. ws' \in [Clients -> WsRec]  BY <1>ws, <2>1 DEF WsRec
  <2> QED BY <1>8, <2>4, <2>5 DEF CommitHandle, TypeOK

<1>9. ASSUME NEW c \in Clients, CommitApply(c)  PROVE TypeOK'
  <2> DEFINE m == ws[c].msg
  <2>1. m \in CommitMsg
    BY <1>ws, <1>9 DEF CommitApply, HandlerMsg, WsRec, Msgs, ProposalMsg, NoMsg
  <2>2. m.commit \in Commit /\ m \in Msgs  BY <2>1 DEF CommitMsg, Msgs
  <2>3. ws[c].batch \in SUBSET Proposals  BY <1>ws DEF WsRec
  <2>4. hist' \in [Clients -> Seq(Commit)]
    <3>1. Append(hist[c], m.commit) \in Seq(Commit)  BY <1>hist, <2>2
    <3> QED BY <1>hist, <1>9, <3>1 DEF CommitApply
  <2>5. pend' \in [Clients -> SUBSET Proposals]  BY <1>pend, <1>9 DEF CommitApply
  <2>6. queue' \in [Clients -> SUBSET Proposals]
    BY <1>queue, <1>9, <2>3 DEF CommitApply, Restored
  <2>7. cache' \in [Clients -> SUBSET Msgs]
    <3>1. PICK s \in SUBSET Msgs : cache' = [cache EXCEPT ![c] = s]
      <4>1. CASE Decryptable(c, m.commit)
        BY <1>cache, <1>9, <4>1 DEF CommitApply
      <4>2. CASE ~Decryptable(c, m.commit)
        BY <1>cache, <1>9, <2>2, <4>2 DEF CommitApply
      <4> QED BY <4>1, <4>2
    <3> QED BY <1>cache, <3>1
  <2>8. ws' \in [Clients -> WsRec]  BY <1>ws, <1>9 DEF CommitApply, IdleWs, ThenCached, WsRec
  <2> QED BY <1>9, <2>4, <2>5, <2>6, <2>7, <2>8 DEF CommitApply, TypeOK
<1>10. ASSUME NEW c \in Clients, ProcessCached(c)  PROVE TypeOK'
  <2> DEFINE now == CachedAt(c, Epoch(c))
  <2>1. now \in SUBSET Msgs /\ ProposalsOf(now) \in SUBSET Proposals
    BY <1>cache, ProposalSets
  <2>2. queue' \in [Clients -> SUBSET Proposals]
    BY <1>queue, <1>10, <2>1 DEF ProcessCached
  <2>3. timerMap' \in [Clients -> Nat] /\ timers' \in [Clients -> SUBSET Nat]
    BY <1>timers, <1>hist, <1>10, StartTimerType DEF ProcessCached
  <2>4. cache' \in [Clients -> SUBSET Msgs]  BY <1>cache, <1>10 DEF ProcessCached
  <2>5. ws' \in [Clients -> WsRec]
    BY <1>ws, <1>10, <2>1 DEF ProcessCached, IdleWs, ThenCached, WsRec
  <2> QED BY <1>10, <2>2, <2>3, <2>4, <2>5 DEF ProcessCached, TypeOK
<1>11. ASSUME NEW c \in Clients, TimerWake(c)  PROVE TypeOK'
  <2>1. PICK e \in timers[c] :
          /\ timers' = [timers EXCEPT ![c] = @ \ {e}]
          /\ timerMap' = [timerMap EXCEPT ![c] = IF @ = e THEN 0 ELSE @]
          /\ tm' = [tm EXCEPT ![c] = IF e = Epoch(c)
                                     THEN [IdleTm EXCEPT !.pc = "lock", !.at = e]
                                     ELSE IdleTm]
    BY <1>11 DEF TimerWake
  <2>2. timerMap' \in [Clients -> Nat] /\ timers' \in [Clients -> SUBSET Nat]
    BY <1>timers, <2>1
  <2>3. tm' \in [Clients -> TmRec]  BY <1>timers, <1>tm, <2>1 DEF IdleTm, TmRec
  <2> QED BY <1>11, <2>2, <2>3 DEF TimerWake, TypeOK
<1>12. ASSUME NEW c \in Clients, TimerDrain(c)  PROVE TypeOK'
  <2>1. queue' \in [Clients -> SUBSET Proposals]  BY <1>queue, <1>12 DEF TimerDrain
  <2>2. tm' \in [Clients -> TmRec]
    BY <1>tm, <1>queue, <1>12 DEF TimerDrain, IdleTm, TmRec
  <2> QED BY <1>12, <2>1, <2>2 DEF TimerDrain, TypeOK
<1>13. ASSUME NEW c \in Clients, TimerCommit(c)  PROVE TypeOK'
  <2> DEFINE fresh == Accepted(c, tm[c].batch)
  <2>1. fresh \in SUBSET Proposals
    BY <1>tm, ProposalSets DEF TmRec
  <2>2. pend' \in [Clients -> SUBSET Proposals]
    BY <1>pend, <1>13, <2>1 DEF TimerCommit
  <2>3. up' \in [Clients -> MaybeUpload]
    BY <1>up, <1>hist, <1>pend, <1>13, <2>1, UploadType DEF TimerCommit
  <2>4. tm' \in [Clients -> TmRec]
    <3>1. CASE fresh = {}
      BY <1>tm, <1>13, <3>1 DEF TimerCommit, IdleTm, TmRec
    <3>2. CASE fresh # {}
      BY <1>tm, <1>13, <3>2 DEF TimerCommit, TmRec
    <3> QED BY <3>1, <3>2
  <2> QED BY <1>13, <2>2, <2>3, <2>4 DEF TimerCommit, TypeOK, MaybeUpload
<1>14. ASSUME NEW c \in Clients, TimerAnswer(c)  PROVE TypeOK'
  <2>1. /\ up' \in [Clients -> MaybeUpload]
        /\ hist' \in [Clients -> Seq(Commit)]
        /\ pend' \in [Clients -> SUBSET Proposals]
    BY <1>up, <1>hist, <1>pend, <1>14, FinishType DEF TimerAnswer, Answered
  <2>2. tm' \in [Clients -> TmRec]  BY <1>tm, <1>14 DEF TimerAnswer, IdleTm, TmRec
  <2> QED BY <1>14, <2>1, <2>2 DEF TimerAnswer, TypeOK, MaybeUpload
<1>15. ASSUME NEW c \in Clients, TimerRestore(c)  PROVE TypeOK'
  <2>1. tm[c].batch \in SUBSET Proposals  BY <1>tm DEF TmRec
  <2>2. queue' \in [Clients -> SUBSET Proposals]
    BY <1>queue, <1>15, <2>1 DEF TimerRestore, Restored
  <2>3. tm' \in [Clients -> TmRec]  BY <1>tm, <1>15 DEF TimerRestore, IdleTm, TmRec
  <2> QED BY <1>15, <2>2, <2>3 DEF TimerRestore, TypeOK
<1>16. ASSUME NEW c \in Clients, KickDrain(c)  PROVE TypeOK'
  <2>1. kk' \in [Clients -> KkRec]  BY <1>kk, <1>queue, <1>16 DEF KickDrain, KkRec
  <2>2. queue' \in [Clients -> SUBSET Proposals]  BY <1>queue, <1>16 DEF KickDrain
  <2>3. timerMap' \in [Clients -> Nat]  BY <1>timers, <1>16 DEF KickDrain
  <2> QED BY <1>16, <2>1, <2>2, <2>3 DEF KickDrain, TypeOK
<1>17. ASSUME NEW c \in Clients, KickCommit(c)  PROVE TypeOK'
  <2> DEFINE fresh == Accepted(c, kk[c].batch)
  <2>1. fresh \in SUBSET Proposals  BY <1>kk, ProposalSets DEF KkRec
  <2>2. pend' \in [Clients -> SUBSET Proposals]
    BY <1>pend, <1>17, <2>1 DEF KickCommit
  <2>3. up' \in [Clients -> MaybeUpload]
    BY <1>up, <1>hist, <1>pend, <1>17, <2>1, UploadType DEF KickCommit
  <2>4. kk' \in [Clients -> KkRec]
    <3>1. CASE TargetGone(c)
      BY <1>kk, <1>17, <3>1 DEF KickCommit, IdleKk, KkRec
    <3>2. CASE ~TargetGone(c)
      BY <1>kk, <1>17, <3>2 DEF KickCommit, KkRec
    <3> QED BY <3>1, <3>2
  <2> QED BY <1>17, <2>2, <2>3, <2>4 DEF KickCommit, TypeOK, MaybeUpload
<1>18. ASSUME NEW c \in Clients, KickAnswer(c)  PROVE TypeOK'
  <2>1. /\ up' \in [Clients -> MaybeUpload]
        /\ hist' \in [Clients -> Seq(Commit)]
        /\ pend' \in [Clients -> SUBSET Proposals]
    BY <1>up, <1>hist, <1>pend, <1>18, FinishType DEF KickAnswer, Answered
  <2>2. kk' \in [Clients -> KkRec]
    <3>1. kk[c] \in KkRec  BY <1>kk
    <3>2. /\ IdleKk \in KkRec
          /\ [pc |-> "retry", attempt |-> kk[c].attempt + 1, batch |-> {}] \in KkRec
          /\ [kk[c] EXCEPT !.pc = "restore"] \in KkRec
      BY <3>1 DEF IdleKk, KkRec
    <3>3. \/ kk' = [kk EXCEPT ![c] = IdleKk]
          \/ kk' = [kk EXCEPT ![c] =
                      [pc |-> "retry", attempt |-> kk[c].attempt + 1, batch |-> {}]]
          \/ kk' = [kk EXCEPT ![c] = [kk[c] EXCEPT !.pc = "restore"]]
      BY <1>18 DEF KickAnswer
    <3> QED BY <1>kk, <3>2, <3>3
  <2> QED BY <1>18, <2>1, <2>2 DEF KickAnswer, TypeOK, MaybeUpload
<1>19. ASSUME NEW c \in Clients, KickRestore(c)  PROVE TypeOK'
  <2>1. kk[c].batch \in SUBSET Proposals  BY <1>kk DEF KkRec
  <2>2. queue' \in [Clients -> SUBSET Proposals]
    BY <1>queue, <1>19, <2>1 DEF KickRestore
  <2>3. kk' \in [Clients -> KkRec]  BY <1>kk, <1>19 DEF KickRestore, IdleKk, KkRec
  <2> QED BY <1>19, <2>2, <2>3 DEF KickRestore, TypeOK
<1>20. ASSUME NEW c \in Clients, SweepCommit(c)  PROVE TypeOK'
  <2>1. up' \in [Clients -> MaybeUpload]
    BY <1>up, <1>hist, <1>pend, <1>20, UploadType DEF SweepCommit
  <2> QED BY <1>20, <2>1 DEF SweepCommit, TypeOK, MaybeUpload
<1>21. ASSUME NEW c \in Clients, SweepAnswer(c)  PROVE TypeOK'
  <2>1. /\ up' \in [Clients -> MaybeUpload]
        /\ hist' \in [Clients -> Seq(Commit)]
        /\ pend' \in [Clients -> SUBSET Proposals]
    BY <1>up, <1>hist, <1>pend, <1>21, FinishType DEF SweepAnswer, Answered
  <2>2. handled' \in [Clients -> Nat]
    BY <1>hist, <1>21, EpochType DEF SweepAnswer, TypeOK
  <2> QED BY <1>21, <2>1, <2>2 DEF SweepAnswer, TypeOK, MaybeUpload
<1> QED BY <1>1, <1>2, <1>3, <1>4, <1>5, <1>6, <1>7, <1>8, <1>9, <1>10, <1>11,
           <1>12, <1>13, <1>14, <1>15, <1>16, <1>17, <1>18, <1>19, <1>20, <1>21
        DEF Next, WsStep, TimerStep, KickStep, SweepStep

-----------------------------------------------------------------------------
(* The invariant of the log, the histories, the uploads and the messages. *)
Core == LogEpochs /\ HistoryPrefix /\ AcceptedIsNext /\ OwnUploads /\ CommitsLogged

(* The commits on their way to a client were already on their way. *)
NoNewCommits ==
  \A c \in Clients : \A m \in inbox'[c] \union cache'[c] \union {ws'[c].msg} :
    m.kind = "commit" => m \in inbox[c] \union cache[c] \union {ws[c].msg}

(* A step that only moves messages keeps Core. *)
LEMMA MoveStep ==
  ASSUME Core, UNCHANGED <<log, hist, up>>, NoNewCommits
  PROVE  Core'
<1>1. LogEpochs' /\ HistoryPrefix' /\ AcceptedIsNext' /\ OwnUploads'
  BY DEF Core, LogEpochs, HistoryPrefix, AcceptedIsNext, OwnUploads, Epoch
<1>2. CommitsLogged'
  BY DEF Core, CommitsLogged, NoNewCommits, LoggedByOther
<1> QED BY <1>1, <1>2 DEF Core

(* A step that starts an upload keeps Core. *)
LEMMA UploadStep ==
  ASSUME TypeOK, Core, UNCHANGED <<log, hist, inbox, cache, ws>>,
         NEW c \in Clients, NEW who, NEW refs, NEW isKick,
         Upload(c, who, refs, isKick)
  PROVE  Core'
<1>1. LogEpochs' /\ HistoryPrefix' /\ CommitsLogged'
  BY DEF Core, LogEpochs, HistoryPrefix, CommitsLogged, LoggedByOther
<1>2. up \in [Clients -> MaybeUpload]  BY DEF TypeOK, MaybeUpload
<1>3. ASSUME NEW d \in Clients, up'[d] # NoUpload
      PROVE  /\ up'[d].commit.by = d /\ up'[d].commit.at = Epoch(d)
             /\ up'[d].status = "ok" => Epoch(d) <= Len(log) /\ log[Epoch(d)] = up'[d].commit
  <2>1. CASE d = c  BY <1>2, <2>1 DEF Upload
  <2>2. CASE d # c
    BY <1>2, <1>3, <2>2 DEF Upload, Core, AcceptedIsNext, OwnUploads
  <2> QED BY <2>1, <2>2
<1>4. AcceptedIsNext' /\ OwnUploads'  BY <1>3 DEF AcceptedIsNext, OwnUploads, Epoch
<1> QED BY <1>1, <1>4 DEF Core

(* The end of an upload keeps Core: a commit is merged only after the server
   made it the next of the log. *)
LEMMA FinishStep ==
  ASSUME TypeOK, Core, UNCHANGED <<log, inbox, cache, ws>>,
         NEW c \in Clients, up[c] # NoUpload, FinishUpload(c)
  PROVE  Core'
<1>1. LogEpochs' /\ CommitsLogged'
  BY DEF Core, LogEpochs, CommitsLogged, LoggedByOther
<1>2. up \in [Clients -> MaybeUpload]  BY DEF TypeOK, MaybeUpload
<1>3. hist \in [Clients -> Seq(Commit)] /\ log \in Seq(Commit)  BY DEF TypeOK
<1>4. up'[c] = NoUpload /\ \A d \in Clients \ {c} : up'[d] = up[d] /\ hist'[d] = hist[d]
  BY <1>2, <1>3 DEF FinishUpload
<1>5. AcceptedIsNext' /\ OwnUploads'
  BY <1>4 DEF Core, AcceptedIsNext, OwnUploads, Epoch
<1>6. HistoryPrefix'
  <2>1. CASE ~Accepting(c)
    BY <2>1 DEF FinishUpload, Core, HistoryPrefix
  <2>2. CASE Accepting(c)
    <3>1. Epoch(c) <= Len(log) /\ log[Epoch(c)] = up[c].commit
      BY <2>2 DEF Accepting, Core, AcceptedIsNext
    <3>2. hist'[c] = Append(hist[c], up[c].commit)
      BY <1>3, <2>2 DEF FinishUpload
    <3>3. Len(hist'[c]) <= Len(log) /\ \A i \in 1..Len(hist'[c]) : hist'[c][i] = log[i]
      BY <1>3, <3>1, <3>2 DEF Core, HistoryPrefix, Epoch
    <3> QED BY <1>4, <3>3 DEF Core, HistoryPrefix
  <2> QED BY <2>1, <2>2
<1> QED BY <1>1, <1>5, <1>6 DEF Core

(* The server's decision keeps Core. *)
LEMMA DecideStep ==
  ASSUME TypeOK, Core, NEW c \in Clients, ServerDecide(c)
  PROVE  Core'
<1>1. up \in [Clients -> MaybeUpload]  BY DEF TypeOK, MaybeUpload
<1>2. hist \in [Clients -> Seq(Commit)] /\ log \in Seq(Commit)
      /\ inbox \in [Clients -> SUBSET Msgs]
  BY DEF TypeOK
<1>3. up[c] # NoUpload /\ up[c] \in UploadRec /\ UNCHANGED <<hist, cache, ws>>
  BY <1>1 DEF ServerDecide, MaybeUpload
<1>4. \A d \in Clients \ {c} : up'[d] = up[d]
  BY <1>1 DEF ServerDecide
<1> DEFINE k == up[c].commit
<1>5. CASE k.at # ServerEpoch
  <2>1. UNCHANGED <<log, hist, inbox, cache, ws>>  BY <1>5 DEF ServerDecide
  <2>2. up'[c].commit = k /\ up'[c].status = "conflict"
    BY <1>1, <1>3, <1>5 DEF ServerDecide, UploadRec
  <2>3. AcceptedIsNext' /\ OwnUploads'
    BY <1>3, <1>4, <2>1, <2>2 DEF Core, AcceptedIsNext, OwnUploads, Epoch
  <2> QED BY <2>1, <2>3
          DEF Core, LogEpochs, HistoryPrefix, CommitsLogged, LoggedByOther
<1>6. CASE k.at = ServerEpoch
  <2>1. log' = Append(log, k)
        /\ inbox' = [d \in Clients |-> IF d = c THEN inbox[d]
                       ELSE inbox[d] \union {[kind |-> "commit", commit |-> k]}]
    BY <1>6 DEF ServerDecide
  <2>2. up'[c].commit = k /\ up'[c].status = "ok"
    BY <1>1, <1>3, <1>6 DEF ServerDecide, UploadRec
  <2>3. k.at = Epoch(c) /\ k.by = c /\ k \in Commit
    BY <1>3 DEF Core, AcceptedIsNext, OwnUploads, UploadRec
  <2>4. Len(log') = Len(log) + 1 /\ log'[k.at] = k
        /\ \A i \in 1..Len(log) : log'[i] = log[i]
    BY <1>2, <1>6, <2>1, <2>3 DEF ServerEpoch
  <2>n. Len(log) \in Nat /\ k.at = Len(log) + 1  BY <1>2, <1>6 DEF ServerEpoch
  <2>5. LogEpochs'
    <3>1. ASSUME NEW i \in 1..(Len(log) + 1)  PROVE log'[i].at = i
      <4>1. CASE i = Len(log) + 1  BY <2>n, <2>4, <4>1
      <4>2. CASE i # Len(log) + 1
        BY <2>n, <2>4, <4>2 DEF Core, LogEpochs
      <4> QED BY <4>1, <4>2
    <3> QED BY <2>4, <3>1 DEF LogEpochs
  <2>6. HistoryPrefix'
    <3>1. ASSUME NEW d \in Clients
          PROVE  /\ Len(hist[d]) <= Len(log')
                 /\ \A i \in 1..Len(hist[d]) : hist[d][i] = log'[i]
      <4>1. Len(hist[d]) \in Nat  BY <1>2
      <4> QED BY <2>n, <2>4, <4>1 DEF Core, HistoryPrefix
    <3> QED BY <1>3, <3>1 DEF HistoryPrefix
  <2>7. AcceptedIsNext' /\ OwnUploads'
    <3>1. ASSUME NEW d \in Clients, up'[d] # NoUpload
          PROVE  /\ up'[d].commit.by = d /\ up'[d].commit.at = Epoch(d)
                 /\ up'[d].status = "ok" =>
                      Epoch(d) <= Len(log') /\ log'[Epoch(d)] = up'[d].commit
      <4>1. CASE d = c
        BY <1>2, <1>6, <2>2, <2>3, <2>4, <4>1 DEF ServerEpoch
      <4>2. CASE d # c
        <5>1. Epoch(d) \in Nat \ {0}  BY <1>2, EpochType
        <5> QED BY <1>2, <1>4, <2>4, <3>1, <4>2, <5>1
                DEF Core, AcceptedIsNext, OwnUploads
      <4> QED BY <4>1, <4>2
    <3> QED BY <1>3, <3>1 DEF AcceptedIsNext, OwnUploads, Epoch
  <2>8. CommitsLogged'
    <3> DEFINE Logged(d, j) == j.at \in 1..Len(log') /\ log'[j.at] = j /\ j.by # d
    <3>1. ASSUME NEW d \in Clients, NEW j, LoggedByOther(d, j)  PROVE Logged(d, j)
      BY <2>n, <2>4, <3>1 DEF LoggedByOther
    <3>2. ASSUME NEW d \in Clients, d # c  PROVE Logged(d, k)
      BY <2>n, <2>3, <2>4, <3>2
    <3> HIDE DEF Logged
    <3>3. ASSUME NEW d \in Clients, NEW m \in inbox'[d] \union cache'[d],
                 m.kind = "commit"
          PROVE  Logged(d, m.commit)
      <4>1. CASE m \in inbox[d] \union cache[d]
        BY <3>1, <3>3, <4>1 DEF Core, CommitsLogged
      <4>2. CASE m \notin inbox[d] \union cache[d]
        <5>1. d # c /\ m = [kind |-> "commit", commit |-> k]
          BY <1>3, <2>1, <3>3, <4>2
        <5> QED BY <3>2, <5>1
      <4> QED BY <4>1, <4>2
    <3>4. ASSUME NEW d \in Clients, ws'[d].msg.kind = "commit"
          PROVE  Logged(d, ws'[d].msg.commit)
      <4>1. LoggedByOther(d, ws'[d].msg.commit)
        BY <1>3, <3>4 DEF Core, CommitsLogged
      <4> QED BY <3>1, <4>1
    <3> QED BY <3>3, <3>4 DEF CommitsLogged, LoggedByOther, Logged
  <2> QED BY <2>5, <2>6, <2>7, <2>8 DEF Core
<1> QED BY <1>5, <1>6

(* A decrypted commit keeps Core: it is the next of the log. *)
LEMMA ApplyStep ==
  ASSUME TypeOK, Core, HandlerMsg, NEW c \in Clients, CommitApply(c)
  PROVE  Core'
<1> DEFINE m == ws[c].msg
<1>1. /\ ws \in [Clients -> WsRec] /\ cache \in [Clients -> SUBSET Msgs]
      /\ hist \in [Clients -> Seq(Commit)] /\ log \in Seq(Commit)
  BY DEF TypeOK
<1>2. m.kind = "commit" /\ LoggedByOther(c, m.commit)
  BY DEF CommitApply, HandlerMsg, Core, CommitsLogged
<1>3. NoNewCommits
  <2>1. UNCHANGED inbox /\ cache'[c] \subseteq cache[c] \union {m}
        /\ ws'[c].msg.kind = "none"
    <3>1. CASE Decryptable(c, m.commit)
      BY <1>1, <3>1 DEF CommitApply, IdleWs, ThenCached, NoMsg
    <3>2. CASE ~Decryptable(c, m.commit)
      BY <1>1, <3>2 DEF CommitApply, IdleWs, ThenCached, NoMsg
    <3> QED BY <3>1, <3>2
  <2>2. \A d \in Clients \ {c} : cache'[d] = cache[d] /\ ws'[d] = ws[d]
    BY <1>1 DEF CommitApply
  <2> QED BY <2>1, <2>2 DEF NoNewCommits
<1>4. CASE ~Decryptable(c, m.commit)
  BY <1>3, <1>4, MoveStep DEF CommitApply
<1>5. CASE Decryptable(c, m.commit)
  <2>1. up[c] = NoUpload /\ UNCHANGED <<log, up>>  BY DEF CommitApply, GroupFree
  <2>2. hist' = [hist EXCEPT ![c] = Append(@, m.commit)]
    BY <1>5 DEF CommitApply
  <2>3. m.commit.at = Epoch(c) /\ log[Epoch(c)] = m.commit /\ Epoch(c) <= Len(log)
    BY <1>1, <1>2, <1>5 DEF Decryptable, LoggedByOther
  <2>4. Len(hist'[c]) <= Len(log) /\ \A i \in 1..Len(hist'[c]) : hist'[c][i] = log[i]
    BY <1>1, <2>2, <2>3 DEF Core, HistoryPrefix, Epoch
  <2>5. \A d \in Clients \ {c} : hist'[d] = hist[d]  BY <1>1, <2>2
  <2>6. HistoryPrefix'  BY <2>1, <2>4, <2>5 DEF Core, HistoryPrefix
  <2>7. AcceptedIsNext' /\ OwnUploads'
    BY <2>1, <2>5 DEF Core, AcceptedIsNext, OwnUploads, Epoch
  <2>8. LogEpochs' /\ CommitsLogged'
    BY <1>3, <2>1 DEF Core, LogEpochs, CommitsLogged, NoNewCommits, LoggedByOther
  <2> QED BY <2>6, <2>7, <2>8 DEF Core
<1> QED BY <1>4, <1>5

(* Every step keeps Core. *)
LEMMA CoreStep ==
  ASSUME TypeOK, Core, HandlerMsg, Next
  PROVE  Core'
<1>ws. ws \in [Clients -> WsRec]  BY DEF TypeOK
<1>msgs. inbox \in [Clients -> SUBSET Msgs] /\ cache \in [Clients -> SUBSET Msgs]
  BY DEF TypeOK
<1>1. ASSUME NEW p \in Proposals, Propose(p)  PROVE Core'
  BY <1>1, MoveStep DEF Propose, NoNewCommits
<1>2. ASSUME NEW c \in Clients, ServerDecide(c)  PROVE Core'
  BY <1>2, DecideStep
<1>3. ASSUME NEW c \in Clients, UploadTimeout(c)  PROVE Core'
  <2>1. up \in [Clients -> MaybeUpload] /\ up[c] # NoUpload
    BY <1>3 DEF TypeOK, MaybeUpload, UploadTimeout
  <2>2. /\ up'[c].commit = up[c].commit /\ up'[c].status = "timeout"
        /\ \A d \in Clients \ {c} : up'[d] = up[d]
    BY <1>3, <2>1 DEF UploadTimeout, MaybeUpload, UploadRec
  <2>3. UNCHANGED <<log, hist, inbox, cache, ws>>  BY <1>3 DEF UploadTimeout
  <2>4. AcceptedIsNext' /\ OwnUploads'
    BY <2>1, <2>2, <2>3 DEF Core, AcceptedIsNext, OwnUploads, Epoch
  <2> QED BY <2>3, <2>4 DEF Core, LogEpochs, HistoryPrefix, CommitsLogged, LoggedByOther
<1>4. ASSUME NEW c \in Clients, Deliver(c)  PROVE Core'
  <2>1. UNCHANGED <<log, hist, up>>  BY <1>4 DEF Deliver
  <2>2. PICK m \in inbox[c] :
          /\ inbox' = [inbox EXCEPT ![c] = @ \ {m}] \/ UNCHANGED inbox
          /\ cache' = [cache EXCEPT ![c] = @ \union {m}] \/ UNCHANGED cache
          /\ \/ UNCHANGED ws
             \/ ws' = [ws EXCEPT ![c] =
                         [pc |-> IF m.kind = "commit" THEN "drain" ELSE "push",
                          msg |-> m, src |-> "wire", batch |-> {}, todo |-> {}]]
    BY <1>4 DEF Deliver
  <2>3. NoNewCommits  BY <1>ws, <1>msgs, <2>2 DEF NoNewCommits
  <2> QED BY <2>1, <2>3, MoveStep
<1>5. ASSUME NEW c \in Clients, ProposalPush(c)  PROVE Core'
  <2>1. NoNewCommits  BY <1>ws, <1>5 DEF NoNewCommits, ProposalPush, WsRec
  <2> QED BY <1>5, <2>1, MoveStep DEF ProposalPush
<1>6. ASSUME NEW c \in Clients, ProposalTimer(c)  PROVE Core'
  <2>1. NoNewCommits
    BY <1>ws, <1>6 DEF NoNewCommits, ProposalTimer, IdleWs, ThenCached, NoMsg
  <2> QED BY <1>6, <2>1, MoveStep DEF ProposalTimer
<1>7. ASSUME NEW c \in Clients, CommitDrain(c)  PROVE Core'
  <2>1. \A d \in Clients : ws'[d].msg = ws[d].msg
    BY <1>ws, <1>7 DEF CommitDrain, WsRec
  <2>2. NoNewCommits  BY <1>7, <2>1 DEF NoNewCommits, CommitDrain
  <2> QED BY <1>7, <2>2, MoveStep DEF CommitDrain
<1>8. ASSUME NEW c \in Clients, CommitHandle(c)  PROVE Core'
  <2>1. \A d \in Clients : ws'[d].msg = ws[d].msg
    BY <1>ws, <1>8 DEF CommitHandle, WsRec
  <2>2. NoNewCommits  BY <1>8, <2>1 DEF NoNewCommits, CommitHandle
  <2> QED BY <1>8, <2>2, MoveStep DEF CommitHandle
<1>9. ASSUME NEW c \in Clients, CommitApply(c)  PROVE Core'
  BY <1>9, ApplyStep
<1>10. ASSUME NEW c \in Clients, ProcessCached(c)  PROVE Core'
  <2>1. UNCHANGED inbox /\ \A d \in Clients : cache'[d] \subseteq cache[d]
    BY <1>msgs, <1>10 DEF ProcessCached
  <2>2. /\ ws'[c].msg.kind = "commit" => ws'[c].msg \in cache[c]
        /\ \A d \in Clients \ {c} : ws'[d] = ws[d]
    BY <1>ws, <1>10 DEF ProcessCached, IdleWs, ThenCached, NoMsg, CachedAt
  <2>3. NoNewCommits  BY <2>1, <2>2 DEF NoNewCommits
  <2> QED BY <1>10, <2>3, MoveStep DEF ProcessCached
<1>11. ASSUME NEW c \in Clients, \/ TimerWake(c) \/ TimerDrain(c) \/ TimerRestore(c)
                                 \/ KickDrain(c) \/ KickRestore(c)
       PROVE  Core'
  <2>1. UNCHANGED <<log, hist, up, inbox, cache, ws>>
    BY <1>11 DEF TimerWake, TimerDrain, TimerRestore, KickDrain, KickRestore
  <2> QED BY <2>1, MoveStep DEF NoNewCommits
<1>12. ASSUME NEW c \in Clients, TimerCommit(c) \/ KickCommit(c) \/ SweepCommit(c)
       PROVE  Core'
  <2>1. UNCHANGED <<log, hist, inbox, cache, ws>>
    BY <1>12 DEF TimerCommit, KickCommit, SweepCommit
  <2>2. \/ UNCHANGED up
        \/ \E who, refs, isKick : Upload(c, who, refs, isKick)
    BY <1>12 DEF TimerCommit, KickCommit, SweepCommit
  <2>3. CASE UNCHANGED up  BY <2>1, <2>3, MoveStep DEF NoNewCommits
  <2> QED BY <2>1, <2>2, <2>3, UploadStep
<1>13. ASSUME NEW c \in Clients, TimerAnswer(c) \/ KickAnswer(c) \/ SweepAnswer(c)
       PROVE  Core'
  <2>1. UNCHANGED <<log, inbox, cache, ws>> /\ up[c] # NoUpload /\ FinishUpload(c)
    BY <1>13 DEF TimerAnswer, KickAnswer, SweepAnswer, Answered
  <2> QED BY <2>1, FinishStep
<1> QED BY <1>1, <1>2, <1>3, <1>4, <1>5, <1>6, <1>7, <1>8, <1>9, <1>10, <1>11,
           <1>12, <1>13 DEF Next, WsStep, TimerStep, KickStep, SweepStep

-----------------------------------------------------------------------------
(* The handler's message against the group's epoch. *)
Handling == HandlerMsg /\ CommitStillCurrent

(* A step that leaves the handlers and the histories alone keeps Handling. *)
LEMMA IdleStep ==
  ASSUME Handling, UNCHANGED <<ws, hist>>
  PROVE  Handling'
BY DEF Handling, HandlerMsg, CommitStillCurrent, Epoch

(* A step of the handler of c that leaves the histories alone keeps Handling if
   it does so for c. *)
LEMMA OneHandler ==
  ASSUME Handling, NEW c \in Clients, UNCHANGED hist,
         \A d \in Clients \ {c} : ws'[d] = ws[d],
         ws'[c].pc \in {"drain", "handle"} =>
           ws'[c].msg.kind = "commit" /\ ws'[c].msg.commit.at = Epoch(c),
         ws'[c].pc = "push" => ws'[c].msg.kind = "proposal"
  PROVE  Handling'
BY DEF Handling, HandlerMsg, CommitStillCurrent, Epoch

(* The client whose group an accepted commit of its own moves on is not
   handling a commit: that commit would be the same entry of the log, and made
   by another client. *)
LEMMA FinishHandling ==
  ASSUME TypeOK, Core, Handling, UNCHANGED <<log, ws>>,
         NEW c \in Clients, up[c] # NoUpload, FinishUpload(c)
  PROVE  Handling'
<1>1. CASE ~Accepting(c)  BY <1>1, IdleStep DEF FinishUpload
<1>2. CASE Accepting(c)
  <2>1. ws[c].pc \notin {"drain", "handle"}
    <3>1. SUFFICES ASSUME ws[c].pc \in {"drain", "handle"}  PROVE FALSE
      OBVIOUS
    <3> DEFINE k == ws[c].msg.commit
    <3>2. k.at = Epoch(c) /\ ws[c].msg.kind = "commit"
      BY <3>1 DEF Handling, HandlerMsg, CommitStillCurrent
    <3>3. log[Epoch(c)] = k /\ k.by # c
      BY <3>2 DEF Core, CommitsLogged, LoggedByOther
    <3>4. log[Epoch(c)] = up[c].commit /\ up[c].commit.by = c
      BY <1>2 DEF Accepting, Core, AcceptedIsNext, OwnUploads
    <3> QED BY <3>3, <3>4
  <2>2. \A d \in Clients \ {c} : hist'[d] = hist[d]
    BY <1>2 DEF FinishUpload, TypeOK
  <2> QED BY <2>1, <2>2 DEF Handling, HandlerMsg, CommitStillCurrent, Epoch
<1> QED BY <1>1, <1>2

(* Every step keeps Handling. *)
LEMMA HandlerStep ==
  ASSUME TypeOK, Core, Handling, Next
  PROVE  Handling'
<1>ws. ws \in [Clients -> WsRec]  BY DEF TypeOK
<1>msgs. inbox \in [Clients -> SUBSET Msgs] /\ cache \in [Clients -> SUBSET Msgs]
  BY DEF TypeOK
<1>1. ASSUME NEW p \in Proposals, Propose(p)  PROVE Handling'
  BY <1>1, IdleStep DEF Propose
<1>2. ASSUME NEW c \in Clients,
             \/ ServerDecide(c) \/ UploadTimeout(c)
             \/ TimerWake(c) \/ TimerDrain(c) \/ TimerCommit(c) \/ TimerRestore(c)
             \/ KickDrain(c) \/ KickCommit(c) \/ KickRestore(c) \/ SweepCommit(c)
      PROVE  Handling'
  <2>1. UNCHANGED <<ws, hist>>
    BY <1>2 DEF ServerDecide, UploadTimeout, TimerWake, TimerDrain, TimerCommit,
                TimerRestore, KickDrain, KickCommit, KickRestore, SweepCommit
  <2> QED BY <2>1, IdleStep
<1>3. ASSUME NEW c \in Clients, TimerAnswer(c) \/ KickAnswer(c) \/ SweepAnswer(c)
      PROVE  Handling'
  <2>1. UNCHANGED <<log, ws>> /\ up[c] # NoUpload /\ FinishUpload(c)
    BY <1>3 DEF TimerAnswer, KickAnswer, SweepAnswer, Answered
  <2> QED BY <2>1, FinishHandling
<1>4. ASSUME NEW c \in Clients, Deliver(c)  PROVE Handling'
  <2>1. UNCHANGED hist  BY <1>4 DEF Deliver
  <2>2. PICK m \in inbox[c] :
          \/ UNCHANGED ws
          \/ /\ EpochOf(m) = Epoch(c)
             /\ ws' = [ws EXCEPT ![c] =
                         [pc |-> IF m.kind = "commit" THEN "drain" ELSE "push",
                          msg |-> m, src |-> "wire", batch |-> {}, todo |-> {}]]
    BY <1>4 DEF Deliver
  <2>3. m.kind \in {"commit", "proposal"}
    BY <1>msgs DEF Msgs, CommitMsg, ProposalMsg
  <2>4. CASE UNCHANGED ws  BY <2>1, <2>4, IdleStep
  <2>5. CASE ~UNCHANGED ws
    <3>1. \A d \in Clients \ {c} : ws'[d] = ws[d]  BY <1>ws, <2>2, <2>5
    <3>2. ws'[c].msg = m /\ ws'[c].pc = (IF m.kind = "commit" THEN "drain" ELSE "push")
      BY <1>ws, <2>2, <2>5
    <3> QED BY <2>1, <2>2, <2>3, <2>5, <3>1, <3>2, OneHandler DEF EpochOf
  <2> QED BY <2>4, <2>5
<1>5. ASSUME NEW c \in Clients, ProposalPush(c) \/ ProposalTimer(c)  PROVE Handling'
  <2>1. UNCHANGED hist /\ \A d \in Clients \ {c} : ws'[d] = ws[d]
    BY <1>ws, <1>5 DEF ProposalPush, ProposalTimer
  <2>2. ws'[c].pc \in {"timer", "cached"}
    BY <1>ws, <1>5 DEF ProposalPush, ProposalTimer, IdleWs, ThenCached, WsRec
  <2> QED BY <2>1, <2>2, OneHandler
<1>6. ASSUME NEW c \in Clients, CommitDrain(c) \/ CommitHandle(c)  PROVE Handling'
  <2>1. UNCHANGED hist /\ \A d \in Clients \ {c} : ws'[d] = ws[d]
    BY <1>ws, <1>6 DEF CommitDrain, CommitHandle
  <2>2. ws[c].pc \in {"drain", "handle"} /\ ws'[c].pc = "handle" /\ ws'[c].msg = ws[c].msg
    <3>1. CASE CommitDrain(c)  BY <1>ws, <3>1 DEF CommitDrain, WsRec
    <3>2. CASE CommitHandle(c)  BY <1>ws, <3>2 DEF CommitHandle, WsRec
    <3> QED BY <1>6, <3>1, <3>2
  <2> QED BY <2>1, <2>2, OneHandler DEF Handling, HandlerMsg, CommitStillCurrent
<1>7. ASSUME NEW c \in Clients, CommitApply(c)  PROVE Handling'
  <2>1. ws'[c].pc \in {"idle", "cached"} /\ \A d \in Clients \ {c} : ws'[d] = ws[d]
    <3>1. ws' = [ws EXCEPT ![c] = ThenCached]
            \/ ws' = [ws EXCEPT ![c] = IdleWs]
      BY <1>7 DEF CommitApply
    <3> QED BY <1>ws, <3>1 DEF IdleWs, ThenCached
  <2>2. \A d \in Clients \ {c} : hist'[d] = hist[d]
    BY <1>7 DEF CommitApply, TypeOK
  <2> QED BY <2>1, <2>2 DEF Handling, HandlerMsg, CommitStillCurrent, Epoch
<1>8. ASSUME NEW c \in Clients, ProcessCached(c)  PROVE Handling'
  <2>1. UNCHANGED hist  BY <1>8 DEF ProcessCached
  <2>2. \/ ws' = [ws EXCEPT ![c] = IdleWs]
        \/ \E m \in CachedAt(c, Epoch(c)) :
             /\ m.kind = "commit"
             /\ ws' = [ws EXCEPT ![c] = [pc |-> "drain", msg |-> m, src |-> "cache",
                                         batch |-> {}, todo |-> {}]]
    BY <1>8 DEF ProcessCached
  <2>3. /\ \A d \in Clients \ {c} : ws'[d] = ws[d]
        /\ \/ ws'[c].pc = "idle"
           \/ /\ ws'[c].pc = "drain" /\ ws'[c].msg.kind = "commit"
              /\ ws'[c].msg.commit.at = Epoch(c)
    BY <1>ws, <2>2 DEF IdleWs, ThenCached, CachedAt, EpochOf
  <2> QED BY <2>1, <2>3, OneHandler
<1> QED BY <1>1, <1>2, <1>3, <1>4, <1>5, <1>6, <1>7, <1>8
        DEF Next, WsStep, TimerStep, KickStep, SweepStep

-----------------------------------------------------------------------------
(* The inductive invariant. *)
LEMMA InitInv == Init => IInv
<1> SUFFICES ASSUME Init PROVE IInv
  OBVIOUS
<1>1. TypeOK
  BY DEF Init, TypeOK, IdleWs, ThenCached, IdleTm, IdleKk, WsRec, TmRec, KkRec
<1>2. LogEpochs /\ HistoryPrefix /\ AcceptedIsNext /\ OwnUploads
  BY DEF Init, LogEpochs, HistoryPrefix, AcceptedIsNext, OwnUploads
<1>3. CommitsLogged /\ HandlerMsg /\ CommitStillCurrent
  BY DEF Init, CommitsLogged, HandlerMsg, CommitStillCurrent, IdleWs, ThenCached, NoMsg
<1> QED BY <1>1, <1>2, <1>3 DEF IInv

LEMMA NextInv == IInv /\ [Next]_vars => IInv'
<1> SUFFICES ASSUME IInv, [Next]_vars PROVE IInv'
  OBVIOUS
<1>1. TypeOK /\ Core /\ Handling  BY DEF IInv, Core, Handling
<1>2. CASE Next
  <2>1. TypeOK' /\ Core' /\ Handling'
    BY <1>1, <1>2, TypeStep, CoreStep, HandlerStep DEF Handling
  <2> QED BY <2>1 DEF IInv, Core, Handling
<1>3. CASE UNCHANGED vars
  <2>1. TypeOK'  BY <1>1, <1>3 DEF vars, TypeOK
  <2>2. Core'  BY <1>1, <1>3, MoveStep DEF vars, NoNewCommits
  <2>3. Handling'  BY <1>1, <1>3, IdleStep DEF vars
  <2> QED BY <2>1, <2>2, <2>3 DEF IInv, Core, Handling
<1> QED BY <1>2, <1>3

(* The state of the server and of every client keeps its types, and with them
   everything the inductive invariant says. *)
THEOREM Invariance == Spec => []IInv
<1> QED BY InitInv, NextInv, PTL DEF Spec

(* Type correctness. *)
THEOREM TypeCorrect == Spec => []TypeOK
<1>1. IInv => TypeOK  BY DEF IInv
<1> QED BY <1>1, Invariance, PTL

(* No fork: for any number of clients, kickers and sweepers, with uploads and
   answers lost and messages reordered and repeated, every client's group is
   at a prefix of the commits the server accepted. *)
THEOREM NoFork == Spec => []HistoryPrefix
<1>1. IInv => HistoryPrefix  BY DEF IInv
<1> QED BY <1>1, Invariance, PTL

(* The epoch process_commit_message compared is still the group's when it takes
   the group again, though it holds no lock of the group in between. *)
THEOREM StillCurrent == Spec => []CommitStillCurrent
<1>1. IInv => CommitStillCurrent  BY DEF IInv
<1> QED BY <1>1, Invariance, PTL

-----------------------------------------------------------------------------
(* The room implements the log of commits. *)

(* Every step publishes a commit of an up-to-date client, teaches a client the
   next commit, or changes neither the log nor a history. *)
LEMMA RefineStep ==
  ASSUME IInv, Next
  PROVE  Abstract!Next \/ UNCHANGED <<log, hist>>
<1> USE DEF Abstract!Next, Abstract!Publish, Abstract!Learn
<1>types. hist \in [Clients -> Seq(Commit)] /\ log \in Seq(Commit)
      /\ up \in [Clients -> MaybeUpload]
  BY DEF IInv, TypeOK, MaybeUpload
<1>1. ASSUME NEW c \in Clients, ServerDecide(c), log' # log
      PROVE  Abstract!Publish(c)
  <2> DEFINE k == up[c].commit
  <2>1. log' = Append(log, k) /\ k.at = Len(log) + 1 /\ UNCHANGED hist /\ up[c] # NoUpload
    BY <1>1 DEF ServerDecide, ServerEpoch
  <2>2. k \in Commit /\ k.at = Epoch(c)
    BY <1>types, <2>1 DEF MaybeUpload, UploadRec, IInv, AcceptedIsNext
  <2>3. Len(hist[c]) = Len(log)
    <3>1. Len(hist[c]) \in Nat /\ Len(log) \in Nat  BY <1>types
    <3> QED BY <2>1, <2>2, <3>1 DEF Epoch
  <2>4. hist[c] = log
    <3>1. \A i \in 1..Len(log) : hist[c][i] = log[i]
      BY <2>3 DEF IInv, HistoryPrefix
    <3> QED BY <1>types, <2>3, <3>1
  <2> QED BY <1>types, <2>1, <2>2, <2>4
<1>2. ASSUME NEW c \in Clients, UNCHANGED log, Epoch(c) <= Len(log),
             hist' = [hist EXCEPT ![c] = Append(@, log[Epoch(c)])]
      PROVE  Abstract!Learn(c)
  <2>1. Len(hist[c]) \in Nat /\ Len(log) \in Nat  BY <1>types
  <2> QED BY <1>types, <1>2, <2>1 DEF Epoch
<1>3. ASSUME NEW c \in Clients, CommitApply(c), hist' # hist
      PROVE  Abstract!Learn(c)
  <2> DEFINE k == ws[c].msg.commit
  <2>1. Decryptable(c, k) /\ hist' = [hist EXCEPT ![c] = Append(@, k)] /\ UNCHANGED log
    BY <1>3 DEF CommitApply
  <2>2. LoggedByOther(c, k)
    BY <1>3 DEF CommitApply, IInv, HandlerMsg, CommitsLogged
  <2>3. Epoch(c) <= Len(log) /\ log[Epoch(c)] = k
    BY <1>types, <2>1, <2>2 DEF Decryptable, LoggedByOther
  <2> QED BY <1>2, <2>1, <2>3
<1>4. ASSUME NEW c \in Clients, TimerAnswer(c) \/ KickAnswer(c) \/ SweepAnswer(c),
             hist' # hist
      PROVE  Abstract!Learn(c)
  <2>1. up[c] # NoUpload /\ FinishUpload(c) /\ UNCHANGED log
    BY <1>4 DEF TimerAnswer, KickAnswer, SweepAnswer, Answered
  <2>2. Accepting(c) /\ hist' = [hist EXCEPT ![c] = Append(@, up[c].commit)]
    BY <1>4, <2>1 DEF FinishUpload
  <2>3. Epoch(c) <= Len(log) /\ log[Epoch(c)] = up[c].commit
    BY <2>1, <2>2 DEF Accepting, IInv, AcceptedIsNext
  <2> QED BY <1>2, <2>1, <2>2, <2>3
<1>5. ASSUME NEW c \in Clients, WsStep(c), ~CommitApply(c)  PROVE UNCHANGED <<log, hist>>
  BY <1>5 DEF WsStep, Deliver, ProposalPush, ProposalTimer, CommitDrain,
              CommitHandle, ProcessCached
<1>6. ASSUME NEW c \in Clients,
             \/ UploadTimeout(c) \/ TimerWake(c) \/ TimerDrain(c) \/ TimerCommit(c)
             \/ TimerRestore(c) \/ KickDrain(c) \/ KickCommit(c) \/ KickRestore(c)
             \/ SweepCommit(c)
      PROVE UNCHANGED <<log, hist>>
  BY <1>6 DEF UploadTimeout, TimerWake, TimerDrain, TimerCommit, TimerRestore,
              KickDrain, KickCommit, KickRestore, SweepCommit
<1>7. ASSUME NEW p \in Proposals, Propose(p)  PROVE UNCHANGED <<log, hist>>
  BY <1>7 DEF Propose
<1>8. ASSUME NEW c \in Clients, ServerDecide(c)  PROVE UNCHANGED hist
  BY <1>8 DEF ServerDecide
<1>9. ASSUME NEW c \in Clients,
             CommitApply(c) \/ TimerAnswer(c) \/ KickAnswer(c) \/ SweepAnswer(c)
      PROVE UNCHANGED log
  BY <1>9 DEF CommitApply, TimerAnswer, KickAnswer, SweepAnswer
<1>10. CASE \E p \in Proposals : Propose(p)  BY <1>7, <1>10
<1>11. CASE \E c \in Clients : \/ ServerDecide(c) \/ UploadTimeout(c) \/ WsStep(c)
                               \/ TimerStep(c) \/ KickStep(c) \/ SweepStep(c)
  <2> PICK c \in Clients : \/ ServerDecide(c) \/ UploadTimeout(c) \/ WsStep(c)
                           \/ TimerStep(c) \/ KickStep(c) \/ SweepStep(c)
    BY <1>11
  <2>1. CASE ServerDecide(c)  BY <2>1, <1>1, <1>8 DEF Abstract!Next
  <2>2. CASE CommitApply(c)  BY <2>2, <1>3, <1>9 DEF Abstract!Next
  <2>3. CASE TimerAnswer(c) \/ KickAnswer(c) \/ SweepAnswer(c)
    BY <2>3, <1>4, <1>9 DEF Abstract!Next
  <2> QED BY <2>1, <2>2, <2>3, <1>5, <1>6 DEF TimerStep, KickStep, SweepStep
<1> QED BY <1>10, <1>11 DEF Next

(* The detailed room implements the abstract log of commits. *)
THEOREM Refinement == Spec => ImplementsLog
<1>1. Init => Abstract!Init  BY DEF Init, Abstract!Init
<1>2. IInv /\ [Next]_vars => [Abstract!Next]_(Abstract!vars)
  <2> SUFFICES ASSUME IInv, [Next]_vars
               PROVE  Abstract!Next \/ UNCHANGED <<log, hist>>
    BY DEF Abstract!vars
  <2>1. CASE Next  BY <2>1, RefineStep
  <2>2. CASE UNCHANGED vars  BY <2>2 DEF vars
  <2> QED BY <2>1, <2>2
<1> QED BY <1>1, <1>2, Invariance, PTL DEF Spec, ImplementsLog, Abstract!Spec
=============================================================================
