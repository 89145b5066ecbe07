------------------------ MODULE ServiceLocks_proofs -------------------------
(***************************************************************************)
(* Proofs about ServiceLocks.  The traces of all calls but the suspects    *)
(* nest their guards in the order of Rank (Lemmas Nested...), except that  *)
(* the cache may be taken with the group locked; then, and whenever a call *)
(* waits with the cache locked, it holds the room's guard.  In a cycle of  *)
(* waiting tasks some task holds a lock and waits for one of no higher     *)
(* rank: without a suspect it waits for the cache, whose owner waits with  *)
(* the same room's guard in its hands, so both are one task.  That a guard *)
(* excludes the others is Lemma WritersExclude: every call keeps only what *)
(* it took and has not dropped (Lemmas Scoped...).                         *)
(***************************************************************************)
EXTENDS ServiceLocks, TLAPS

Step == [keep : SUBSET Guard, take : Guard]

(* A step that waits in the order of Rank and without the cache's guard. *)
Orderly(s) ==
  \A g \in s.keep : g.lock # Cache /\ Rank[g.lock] < Rank[s.take.lock]

(* A step that takes the cache, possibly against the order. *)
TakesCache(s) == s.take.lock = Cache /\ \A g \in s.keep : g.lock # Cache

(* Each step of p takes a lock above r, and above the locks it keeps       *)
(* unless it takes the cache.  Above the room a step that is not orderly   *)
(* has the room's guard.                                                   *)
Nested(p, r) ==
  /\ p \in Seq(Step)
  /\ \A i \in 1..Len(p) :
       /\ r < Rank[p[i].take.lock]
       /\ \A g \in p[i].keep :
            /\ r < Rank[g.lock]
            /\ Rank[g.lock] < Rank[p[i].take.lock] \/ TakesCache(p[i])
       /\ r < 3 => Orderly(p[i]) \/ Write(Room) \in p[i].keep

(* The ranks of the locks. *)
LEMMA RankType == Rank \in [Locks -> 1..8]
  BY SMT DEF Rank, Locks, App, User, Room, Cache, Group, State, Store, Callback

LEMMA RankValues ==
  /\ {App, User, Room, Cache, Group, State, Store, Callback} \subseteq Locks
  /\ Rank[App] = 1
  /\ Rank[User] = 2
  /\ Rank[Room] = 3
  /\ Rank[Cache] = 4
  /\ Rank[Group] = 5
  /\ Rank[State] = 6
  /\ Rank[Store] = 7
  /\ Rank[Callback] = 8
  BY SMT DEF Rank, Locks, App, User, Room, Cache, Group, State, Store, Callback

(* Only the room and the cache have the ranks 3 and 4. *)
LEMMA RankUnique ==
  \A l \in Locks : (Rank[l] = 3 <=> l = Room) /\ (Rank[l] = 4 <=> l = Cache)
  BY SMT DEF Rank, Locks, App, User, Room, Cache, Group, State, Store, Callback

LEMMA GuardType ==
  \A l \in Locks : /\ Read(l) \in Guard /\ Read(l).lock = l
                   /\ Write(l) \in Guard /\ Write(l).lock = l
  BY SMT DEF Guard, Read, Write

(* Taking one guard. *)
LEMMA NestedTake ==
  ASSUME NEW g \in Guard, NEW r \in Int, r < Rank[g.lock]
  PROVE  Nested(Take(g), r)
  <1>1. [keep |-> {}, take |-> g] \in Step
    BY DEF Step
  <1> QED
    BY <1>1 DEF Nested, Take, Orderly

(* One trace after the other. *)
LEMMA NestedConcat ==
  ASSUME NEW r \in Int, NEW p, NEW q, Nested(p, r), Nested(q, r)
  PROVE  Nested(p \o q, r)
  <1>1. p \o q \in Seq(Step) /\ Len(p \o q) = Len(p) + Len(q)
    BY DEF Nested
  <1>2. ASSUME NEW i \in 1..Len(p \o q)
        PROVE  \/ i \in 1..Len(p) /\ (p \o q)[i] = p[i]
               \/ i - Len(p) \in 1..Len(q) /\ (p \o q)[i] = q[i - Len(p)]
    BY <1>1 DEF Nested
  <1> QED
    BY <1>1, <1>2 DEF Nested

(* A trace done with a guard in the hands; with the cache's, only above    *)
(* the room.                                                               *)
LEMMA NestedWhile ==
  ASSUME NEW g \in Guard, NEW r \in Int, r < Rank[g.lock],
         g.lock = Room => g = Write(Room),
         g.lock = Cache => r = 3,
         NEW p, Nested(p, Rank[g.lock])
  PROVE  Nested(While(g, p), r)
  <1> DEFINE q == [i \in 1..Len(p) |->
                     [keep |-> p[i].keep \union {g}, take |-> p[i].take]]
  <1>1. p \in Seq(Step) /\ Len(p) \in Nat
    BY DEF Nested
  <1>2. \A i \in 1..Len(p) :
          /\ p[i] \in Step
          /\ p[i].take \in Guard /\ p[i].take.lock \in Locks
          /\ p[i].keep \subseteq Guard
          /\ \A h \in p[i].keep : h.lock \in Locks
    <2>1. \A i \in 1..Len(p) : p[i] \in Step
      BY <1>1
    <2>2. \A s \in Step : /\ s.take \in Guard /\ s.take.lock \in Locks
                          /\ s.keep \subseteq Guard
                          /\ \A h \in s.keep : h.lock \in Locks
      <3>1. \A h \in Guard : h.lock \in Locks
        BY DEF Guard
      <3> QED
        BY <3>1 DEF Step
    <2> QED
      BY <2>1, <2>2
  <1>3. \A i \in 1..Len(p) : /\ q[i].take = p[i].take
                             /\ q[i].keep = p[i].keep \union {g}
                             /\ q[i] \in Step
    BY <1>2 DEF Step
  <1>4. q \in Seq(Step) /\ Len(q) = Len(p)
    BY <1>1, <1>3
  <1>5. ASSUME NEW i \in 1..Len(p)
        PROVE  /\ r < Rank[q[i].take.lock]
               /\ \A h \in q[i].keep :
                    /\ r < Rank[h.lock]
                    /\ Rank[h.lock] < Rank[q[i].take.lock] \/ TakesCache(q[i])
               /\ r < 3 => Orderly(q[i]) \/ Write(Room) \in q[i].keep
    <2> HIDE DEF q
    <2>1. g.lock \in Locks /\ Rank[g.lock] \in Int
      BY RankType DEF Guard
    <2>2. Rank[g.lock] < Rank[p[i].take.lock] /\ Rank[p[i].take.lock] \in Int
      BY <1>2, RankType DEF Nested
    <2>3. TakesCache(p[i]) => TakesCache(q[i])
      BY <2>1, <2>2, <1>2, <1>3 DEF TakesCache
    <2>4. ASSUME NEW h \in p[i].keep
          PROVE  /\ Rank[g.lock] < Rank[h.lock]
                 /\ Rank[h.lock] < Rank[p[i].take.lock] \/ TakesCache(p[i])
                 /\ Rank[h.lock] \in Int
      <3>1. h.lock \in Locks
        BY <1>2
      <3>2. /\ Rank[g.lock] < Rank[h.lock]
            /\ Rank[h.lock] < Rank[p[i].take.lock] \/ TakesCache(p[i])
        BY DEF Nested
      <3> QED
        BY <3>1, <3>2, RankType
    <2>5. ASSUME r < 3
          PROVE  Orderly(q[i]) \/ Write(Room) \in q[i].keep
      <3>1. CASE g.lock = Room
        BY <3>1, <1>3
      <3>2. CASE Rank[g.lock] < 3
        <4>1. Orderly(p[i]) \/ Write(Room) \in p[i].keep
          BY <3>2 DEF Nested
        <4>2. g.lock # Cache
          BY <3>2, RankValues
        <4> QED
          BY <4>1, <4>2, <2>2, <1>3 DEF Orderly
      <3>3. CASE Rank[g.lock] > 4
        <4>1. p[i].take.lock # Cache /\ g.lock # Cache
          BY <3>3, <2>1, <2>2, RankValues
        <4>2. \A h \in p[i].keep : h.lock # Cache
          BY <3>3, <2>4, <2>1, RankValues
        <4> QED
          BY <4>1, <4>2, <2>2, <2>4, <1>3 DEF Orderly, TakesCache
      <3> QED
        BY <2>1, <2>5, <3>1, <3>2, <3>3, RankUnique
    <2> QED
      BY <2>1, <2>2, <2>3, <2>4, <2>5, <1>3
  <1>6. Nested(q, r)
    BY <1>4, <1>5 DEF Nested
  <1> QED
    BY <1>6, NestedTake, NestedConcat DEF While

(* Taking one of the two guards of a lock. *)
LEMMA NestedLock ==
  ASSUME NEW l \in Locks, NEW r \in Int, r < Rank[l]
  PROVE  /\ Nested(Take(Read(l)), r)
         /\ Nested(Take(Write(l)), r)
  BY NestedTake, GuardType

(* Taking a guard of a lock, and working with it, above any lower rank. *)
LEMMA NestedTakes ==
  /\ \A r \in 0..0 : Nested(Take(Read(App)), r) /\ Nested(Take(Write(App)), r)
  /\ \A r \in 0..1 : Nested(Take(Read(User)), r) /\ Nested(Take(Write(User)), r)
  /\ \A r \in 0..3 : Nested(Take(Write(Cache)), r)
  /\ \A r \in 0..4 : Nested(Take(Read(Group)), r) /\ Nested(Take(Write(Group)), r)
  /\ \A r \in 0..5 : Nested(Take(Read(State)), r) /\ Nested(Take(Write(State)), r)
  /\ \A r \in 0..6 : Nested(Take(Read(Store)), r) /\ Nested(Take(Write(Store)), r)
  /\ \A r \in 0..7 : Nested(Take(Read(Callback)), r) /\ Nested(Take(Write(Callback)), r)
  BY NestedLock, RankValues

LEMMA NestedWhiles ==
  /\ \A p : Nested(p, 1) => \A r \in 0..0 : /\ Nested(While(Read(App), p), r)
                                           /\ Nested(While(Write(App), p), r)
  /\ \A p : Nested(p, 2) => \A r \in 0..1 : /\ Nested(While(Read(User), p), r)
                                           /\ Nested(While(Write(User), p), r)
  /\ \A p : Nested(p, 3) => \A r \in 0..2 : Nested(LockRoom(p), r)
  /\ \A p : Nested(p, 4) => Nested(While(Write(Cache), p), 3)
  /\ \A p : Nested(p, 5) => \A r \in 0..4 : /\ Nested(While(Read(Group), p), r)
                                           /\ Nested(While(Write(Group), p), r)
  /\ \A p : Nested(p, 6) => \A r \in 0..5 : /\ Nested(While(Read(State), p), r)
                                           /\ Nested(While(Write(State), p), r)
  /\ \A p : Nested(p, 7) => \A r \in 0..6 : /\ Nested(While(Read(Store), p), r)
                                           /\ Nested(While(Write(Store), p), r)
  /\ \A p : Nested(p, 8) => \A r \in 0..7 : /\ Nested(While(Read(Callback), p), r)
                                           /\ Nested(While(Write(Callback), p), r)
  <1>1. ASSUME NEW l \in Locks, l # Room, l # Cache, NEW p, Nested(p, Rank[l]),
               NEW r \in Int, r < Rank[l]
        PROVE  Nested(While(Read(l), p), r) /\ Nested(While(Write(l), p), r)
    BY <1>1, NestedWhile, GuardType
  <1>2. ASSUME NEW p, Nested(p, 3), NEW r \in 0..2
        PROVE  Nested(LockRoom(p), r)
    <2>1. Room # Cache
      BY RankValues
    <2> QED
      BY <1>2, <2>1, NestedWhile, GuardType, RankValues DEF LockRoom
  <1>3. ASSUME NEW p, Nested(p, 4)
        PROVE  Nested(While(Write(Cache), p), 3)
    <2>1. Room # Cache
      BY RankValues
    <2> QED
      BY <1>3, <2>1, NestedWhile, GuardType, RankValues
  <1>4. \A l \in {App, User, Group, State, Store, Callback} : l # Cache /\ l # Room
    BY RankValues
  <1> QED
    BY <1>1, <1>2, <1>3, <1>4, RankValues

-----------------------------------------------------------------------------
(* The parts that several calls share. *)

LEMMA NestedReads ==
  /\ \A r \in 0..6 : /\ Nested(GetSdKbt, r)
                     /\ Nested(GetMeetingId, r)
                     /\ Nested(FindGroup, r)
  /\ \A r \in 0..1 : Nested(UserGetMeetingId, r) /\ Nested(UserGetSdKbt, r)
  /\ \A r \in 0..4 : Nested(GetCurrentEpoch, r)
  <1>1. \A r \in 0..6 : /\ Nested(GetSdKbt, r)
                        /\ Nested(GetMeetingId, r)
                        /\ Nested(FindGroup, r)
    BY NestedTakes, NestedWhiles DEF GetSdKbt, GetMeetingId, FindGroup
  <1>2. \A r \in 0..1 : Nested(UserGetMeetingId, r) /\ Nested(UserGetSdKbt, r)
    BY <1>1, NestedTakes, NestedWhiles DEF UserGetMeetingId, UserGetSdKbt
  <1>3. ASSUME NEW r \in 0..4
        PROVE  Nested(GetCurrentEpoch, r)
    <2>1. Nested(FindGroup, r) /\ Nested(Take(Read(Group)), r)
      BY <1>1, NestedTakes, NestedWhiles
    <2> QED
      BY <2>1, NestedConcat DEF GetCurrentEpoch
  <1> QED
    BY <1>1, <1>2, <1>3

(* What several calls do to the group and to the state. *)
LEMMA NestedHelpers ==
  /\ Nested(CheckHostRole, 2)
  /\ Nested(CheckAndUpdateHostRole, 2)
  /\ Nested(CommitterRank, 2)
  /\ \A r \in 0..4 : Nested(HandleProposal, r)
  /\ Nested(CheckAndUpdateHostRole, 3)
  /\ Nested(SetSyncState, 2)
  /\ Nested(EpochCheck, 2)
  /\ Nested(RemoveOfflineMembers, 5)
  /\ Nested(HandleOfflineMembers, 2)
  <1>1. \A r \in 2..3 : Nested(CheckHostRole, r)
    BY NestedTakes, NestedWhiles DEF CheckHostRole
  <1>2. ASSUME NEW r \in 2..3
        PROVE  Nested(CheckAndUpdateHostRole, r)
    <2>1. /\ Nested(FindGroup, r)
          /\ Nested(CheckHostRole, r)
          /\ Nested(Take(Write(State)), r)
      BY <1>1, NestedReads, NestedTakes, NestedWhiles
    <2> QED
      BY <2>1, NestedConcat DEF CheckAndUpdateHostRole
  <1>3. Nested(CommitterRank, 2)
    BY NestedTakes, NestedWhiles DEF CommitterRank
  <1>4. ASSUME NEW r \in 0..4
        PROVE  Nested(HandleProposal, r)
    <2>1. /\ Nested(GetCurrentEpoch, r)
          /\ Nested(FindGroup, r)
          /\ Nested(Take(Write(Group)), r)
      BY NestedReads, NestedTakes
    <2> QED
      BY <2>1, NestedConcat DEF HandleProposal
  <1>5. Nested(SetSyncState, 2)
    <2>1. /\ Nested(Take(Write(State)), 2)
          /\ Nested(Take(Write(Callback)), 2)
      BY NestedTakes, NestedWhiles
    <2> QED
      BY <2>1, NestedConcat DEF SetSyncState
  <1>6. Nested(EpochCheck, 2)
    <2>1. /\ Nested(GetSdKbt, 2)
          /\ Nested(SetSyncState, 2)
          /\ Nested(GetCurrentEpoch, 2)
          /\ Nested(Take(Write(State)), 2)
      BY <1>5, NestedReads, NestedTakes, NestedWhiles
    <2> QED
      BY <2>1, NestedConcat DEF EpochCheck
  <1>7. Nested(RemoveOfflineMembers, 5)
    <2>1. /\ Nested(Take(Write(State)), 5)
          /\ Nested(GetSdKbt, 5)
      BY NestedReads, NestedTakes, NestedWhiles
    <2> QED
      BY <2>1, NestedConcat DEF RemoveOfflineMembers
  <1>8. Nested(HandleOfflineMembers, 2)
    <2>1. /\ Nested(Take(Write(State)), 2)
          /\ Nested(FindGroup, 2)
          /\ Nested(While(Write(Group), RemoveOfflineMembers), 2)
      BY <1>7, NestedReads, NestedTakes, NestedWhiles
    <2> QED
      BY <2>1, NestedConcat DEF HandleOfflineMembers
  <1> QED
    BY <1>1, <1>2, <1>3, <1>4, <1>5, <1>6, <1>7, <1>8

(* The calls that manage the meeting. *)
LEMMA NestedAppCalls ==
  /\ Nested(EndMeeting, 0)
  /\ Nested(GetGroupKey, 0)
  /\ Nested(SetHandler, 0)
  /\ Nested(UpdateLivekitToken, 0)
  /\ Nested(ServicesReset, 0)
  /\ Nested(ConnectToWs, 0)
  /\ Nested(ClearPrejoinSession, 0)
  /\ Nested(IsMlsUpToDate, 0)
  /\ Nested(SetActiveUuids, 0)
  <1>1. Nested(EndMeeting, 0)
    BY NestedReads, NestedTakes, NestedWhiles DEF EndMeeting
  <1>2. Nested(GetGroupKey, 0)
    <2>1. /\ Nested(UserGetMeetingId, 1)
          /\ Nested(While(Read(User), GetCurrentEpoch), 1)
      BY NestedReads, NestedTakes, NestedWhiles
    <2>2. Nested(UserGetMeetingId \o While(Read(User), GetCurrentEpoch), 1)
      BY <2>1, NestedConcat
    <2> QED
      BY <2>2, NestedTakes, NestedWhiles DEF GetGroupKey
  <1>3. Nested(SetHandler, 0)
    BY NestedTakes, NestedWhiles DEF SetHandler
  <1>4. Nested(UpdateLivekitToken, 0)
    BY NestedTakes, NestedWhiles DEF UpdateLivekitToken
  <1>5. Nested(ServicesReset, 0)
    BY NestedTakes, NestedWhiles DEF ServicesReset
  <1>6. Nested(ConnectToWs, 0)
    BY NestedReads, NestedTakes, NestedWhiles DEF ConnectToWs
  <1>7. Nested(ClearPrejoinSession, 0)
    <2>1. /\ Nested(While(Read(User), Take(Write(State))), 0)
          /\ Nested(Take(Read(App)), 0)
          /\ Nested(While(Write(App), Take(Write(Store))), 0)
      BY NestedTakes, NestedWhiles
    <2> QED
      BY <2>1, NestedConcat DEF ClearPrejoinSession
  <1>8. Nested(IsMlsUpToDate, 0)
    <2>1. /\ Nested(UserGetMeetingId, 1)
          /\ Nested(While(Read(User), EpochCheck), 1)
      BY NestedReads, NestedHelpers, NestedTakes, NestedWhiles
    <2>2. Nested(UserGetMeetingId
                   \o While(Read(User), EpochCheck)
                   \o While(Read(User), EpochCheck), 1)
      BY <2>1, NestedConcat
    <2> QED
      BY <2>2, NestedTakes, NestedWhiles DEF IsMlsUpToDate
  <1>9. Nested(SetActiveUuids, 0)
    <2>1. /\ Nested(Take(Read(App)), 0)
          /\ Nested(UserGetMeetingId, 0)
          /\ Nested(While(Read(User), HandleOfflineMembers), 0)
      BY NestedReads, NestedHelpers, NestedTakes, NestedWhiles
    <2> QED
      BY <2>1, NestedConcat DEF SetActiveUuids
  <1> QED
    BY <1>1, <1>2, <1>3, <1>4, <1>5, <1>6, <1>7, <1>8, <1>9

(* The calls that join. *)
LEMMA NestedJoins ==
  /\ Nested(CreateMlsClient, 0)
  /\ Nested(ServiceJoinRoom, 2)
  /\ Nested(UpdateHostRole, 2)
  /\ Nested(JoinRoom, 0)
  /\ Nested(StoreWelcomeGroup, 6)
  /\ Nested(ServiceJoinWithProposal, 2)
  /\ Nested(JoinRoomWithProposal, 0)
  <1>1. Nested(CreateMlsClient, 0)
    <2>1. /\ Nested(Take(Write(App)), 0)
          /\ Nested(While(Read(User), Take(Write(Store))), 0)
      BY NestedTakes, NestedWhiles
    <2> QED
      BY <2>1, NestedConcat DEF CreateMlsClient
  <1>2. Nested(ServiceJoinRoom, 2)
    <2>1. /\ Nested(GetSdKbt, 2)
          /\ Nested(Take(Read(Store)), 2)
          /\ Nested(Take(Write(State)), 2)
          /\ Nested(Take(Write(Store)), 2)
      BY NestedReads, NestedTakes, NestedWhiles
    <2> QED
      BY <2>1, NestedConcat DEF ServiceJoinRoom
  <1>3. Nested(UpdateHostRole, 2)
    <2>1. /\ Nested(GetMeetingId, 2)
          /\ Nested(CheckAndUpdateHostRole, 2)
      BY NestedReads, NestedHelpers
    <2> QED
      BY <2>1, NestedConcat DEF UpdateHostRole
  <1>4. Nested(JoinRoom, 0)
    <2>1. /\ Nested(Take(Read(App)), 0)
          /\ Nested(UserGetMeetingId, 0)
          /\ Nested(While(Read(User), ServiceJoinRoom), 0)
          /\ Nested(Take(Write(App)), 0)
          /\ Nested(While(Read(User), UpdateHostRole), 0)
      BY <1>2, <1>3, NestedReads, NestedTakes, NestedWhiles
    <2> QED
      BY <2>1, NestedConcat DEF JoinRoom
  <1>5. Nested(StoreWelcomeGroup, 6)
    <2>1. /\ Nested(Take(Read(Store)), 6)
          /\ Nested(Take(Write(Store)), 6)
      BY NestedTakes, NestedWhiles
    <2> QED
      BY <2>1, NestedConcat DEF StoreWelcomeGroup
  <1>6. Nested(ServiceJoinWithProposal, 2)
    <2>1. /\ Nested(GetSdKbt, 2)
          /\ Nested(Take(Read(Store)), 2)
          /\ Nested(Take(Write(State)), 2)
          /\ Nested(While(Write(State), StoreWelcomeGroup), 2)
      BY <1>5, NestedReads, NestedTakes, NestedWhiles
    <2> QED
      BY <2>1, NestedConcat DEF ServiceJoinWithProposal
  <1>7. Nested(JoinRoomWithProposal, 0)
    <2>1. /\ Nested(Take(Read(App)), 0)
          /\ Nested(UserGetMeetingId, 0)
          /\ Nested(While(Read(User), ServiceJoinWithProposal), 0)
          /\ Nested(Take(Write(App)), 0)
      BY <1>6, NestedReads, NestedTakes, NestedWhiles
    <2> QED
      BY <2>1, NestedConcat DEF JoinRoomWithProposal
  <1> QED
    BY <1>1, <1>2, <1>3, <1>4, <1>5, <1>6, <1>7

(* The calls of the waiting room. *)
LEMMA NestedWaitingRoom ==
  /\ Nested(JoinWithWelcome, 2)
  /\ Nested(WaitForWelcome, 0)
  /\ Nested(ClearJoinRequest, 0)
  /\ Nested(CancelJoinRequest, 0)
  /\ Nested(CommitAdmission, 2)
  /\ Nested(ServiceAdmit, 2)
  /\ Nested(AdmitJoinRequests, 0)
  /\ Nested(UpdatePolicy, 2)
  /\ Nested(UpdateWaitingRoomSetting, 0)
  <1>1. Nested(JoinWithWelcome, 2)
    <2>1. /\ Nested(Take(Write(State)), 2)
          /\ Nested(Take(Write(Store)), 2)
      BY NestedTakes, NestedWhiles
    <2> QED
      BY <2>1, NestedConcat DEF JoinWithWelcome
  <1>2. Nested(WaitForWelcome, 0)
    <2>1. /\ Nested(Take(Read(App)), 0)
          /\ Nested(Take(Write(App)), 0)
          /\ Nested(While(Read(User), JoinWithWelcome), 0)
      BY <1>1, NestedTakes, NestedWhiles
    <2> QED
      BY <2>1, NestedConcat DEF WaitForWelcome
  <1>3. Nested(ClearJoinRequest, 0)
    <2>1. /\ Nested(While(Read(User), Take(Write(State))), 0)
          /\ Nested(Take(Write(App)), 0)
      BY NestedTakes, NestedWhiles
    <2> QED
      BY <2>1, NestedConcat DEF ClearJoinRequest
  <1>4. Nested(CancelJoinRequest, 0)
    <2>1. /\ Nested(Take(Read(App)), 0)
          /\ Nested(UserGetSdKbt, 0)
          /\ Nested(While(Read(User), Take(Write(State))), 0)
          /\ Nested(Take(Write(App)), 0)
      BY NestedReads, NestedTakes, NestedWhiles
    <2> QED
      BY <2>1, NestedConcat DEF CancelJoinRequest
  <1>5. Nested(CommitAdmission, 2)
    <2>1. /\ Nested(Take(Write(State)), 5)
          /\ Nested(GetSdKbt, 5)
      BY NestedReads, NestedTakes, NestedWhiles
    <2>2. Nested(Take(Write(State)) \o GetSdKbt, 5)
      BY <2>1, NestedConcat
    <2> QED
      BY <2>2, NestedTakes, NestedWhiles DEF CommitAdmission
  <1>6. Nested(ServiceAdmit, 2)
    <2>1. /\ Nested(FindGroup, 2)
          /\ Nested(CommitAdmission, 2)
          /\ Nested(Take(Write(State)), 2)
          /\ Nested(Take(Write(Callback)), 2)
      BY <1>5, NestedReads, NestedTakes, NestedWhiles
    <2> QED
      BY <2>1, NestedConcat DEF ServiceAdmit
  <1>7. Nested(AdmitJoinRequests, 0)
    <2>1. /\ Nested(Take(Read(App)), 0)
          /\ Nested(While(Read(User), Take(Write(State))), 0)
          /\ Nested(While(Write(User), ServiceAdmit), 0)
      BY <1>6, NestedTakes, NestedWhiles
    <2> QED
      BY <2>1, NestedConcat DEF AdmitJoinRequests
  <1>8. Nested(UpdatePolicy, 2)
    <2>1. Nested(PreparePolicy, 5)
      BY NestedReads, NestedConcat DEF PreparePolicy
    <2>2. /\ Nested(FindGroup, 2)
          /\ Nested(While(Write(Group), PreparePolicy), 2)
      BY <2>1, NestedReads, NestedWhiles
    <2> QED
      BY <2>2, NestedConcat DEF UpdatePolicy
  <1>9. Nested(UpdateWaitingRoomSetting, 0)
    <2>1. /\ Nested(Take(Read(App)), 0)
          /\ Nested(While(Read(User), UpdatePolicy), 0)
      BY <1>8, NestedTakes, NestedWhiles
    <2> QED
      BY <2>1, NestedConcat DEF UpdateWaitingRoomSetting
  <1> QED
    BY <1>1, <1>2, <1>3, <1>4, <1>5, <1>6, <1>7, <1>8, <1>9

(* The messages of the server and the timers. *)
LEMMA NestedMessages ==
  /\ Nested(HandleProposals, 3)
  /\ Nested(ApplyCommit, 3)
  /\ Nested(ProcessCommit, 2)
  /\ Nested(ProcessProposalMessage, 2)
  /\ Nested(ProcessCachedMessages, 2)
  /\ Nested(HandleCommit, 0)
  /\ Nested(ProcessProposal, 0)
  /\ Nested(CommitBatch, 3)
  /\ Nested(ProposalTimer, 0)
  <1>1. Nested(HandleProposals, 3)
    <2>1. Nested(HandleProposal, 3) /\ Nested(While(Write(Cache), HandleProposal), 3)
      BY NestedHelpers, NestedWhiles
    <2> QED
      BY <2>1, NestedConcat DEF HandleProposals
  <1>2. Nested(ApplyCommit, 3)
    <2>1. /\ Nested(FindGroup, 3)
          /\ Nested(Take(Write(Group)), 3)
          /\ Nested(Take(Write(Callback)), 3)
          /\ Nested(CheckAndUpdateHostRole, 3)
      BY NestedReads, NestedHelpers, NestedTakes
    <2> QED
      BY <1>1, <2>1, NestedConcat DEF ApplyCommit
  <1>3. Nested(ProcessCommit, 2)
    <2>1. /\ Nested(GetCurrentEpoch, 2)
          /\ Nested(LockRoom(ApplyCommit), 2)
      BY <1>2, NestedReads, NestedWhiles
    <2> QED
      BY <2>1, NestedConcat DEF ProcessCommit
  <1>4. Nested(ProcessProposalMessage, 2)
    <2>1. /\ Nested(GetCurrentEpoch, 2)
          /\ Nested(FindGroup, 2)
          /\ Nested(CommitterRank, 2)
      BY NestedReads, NestedHelpers
    <2> QED
      BY <2>1, NestedConcat DEF ProcessProposalMessage
  <1>5. Nested(ProcessCachedMessages, 2)
    <2>1. Nested(UseCache, 2)
      BY NestedReads, NestedTakes, NestedConcat DEF UseCache
    <2> QED
      BY <1>3, <1>4, <2>1, NestedConcat DEF ProcessCachedMessages
  <1>6. Nested(HandleCommit, 0)
    <2>1. Nested(HandleCommitMessage, 2)
      BY <1>3, <1>5, NestedTakes, NestedConcat DEF HandleCommitMessage
    <2> QED
      BY <2>1, NestedWhiles DEF HandleCommit
  <1>7. Nested(ProcessProposal, 0)
    <2>1. Nested(HandleProposalMessage, 2)
      BY <1>4, <1>5, NestedTakes, NestedConcat DEF HandleProposalMessage
    <2> QED
      BY <2>1, NestedWhiles DEF ProcessProposal
  <1>8. Nested(CommitBatch, 3)
    <2>1. /\ Nested(FindGroup, 3)
          /\ Nested(While(Write(Group), GetSdKbt), 3)
          /\ Nested(CheckAndUpdateHostRole, 3)
          /\ Nested(Take(Write(State)), 3)
          /\ Nested(Take(Write(Callback)), 3)
          /\ Nested(GetCurrentEpoch, 3)
      BY NestedReads, NestedHelpers, NestedTakes, NestedWhiles
    <2> QED
      BY <2>1, NestedConcat DEF CommitBatch
  <1>9. Nested(ProposalTimer, 0)
    <2>1. /\ Nested(Take(Write(State)), 0)
          /\ Nested(GetCurrentEpoch, 0)
          /\ Nested(LockRoom(CommitBatch), 0)
      BY <1>8, NestedReads, NestedTakes, NestedWhiles
    <2> QED
      BY <2>1, NestedConcat DEF ProposalTimer
  <1> QED
    BY <1>1, <1>2, <1>3, <1>4, <1>5, <1>6, <1>7, <1>8, <1>9

LEMMA ConcatParts ==
  ASSUME NEW b \in Seq(Step), NEW q \in Seq(Step)
  PROVE  /\ b \o q \in Seq(Step)
         /\ Len(b \o q) = Len(b) + Len(q)
         /\ \A i \in 1..Len(b) : (b \o q)[i] = b[i]
         /\ \A i \in 1..Len(q) : (b \o q)[Len(b) + i] = q[i]
  OBVIOUS

LEMMA TwoSteps ==
  ASSUME NEW c \in Step, NEW d \in Step
  PROVE  \A x : x = <<c>> \o <<d>> =>
           x \in Seq(Step) /\ Len(x) = 2 /\ x[1] = c /\ x[2] = d
  <1>1. /\ <<c>> \in Seq(Step) /\ Len(<<c>>) = 1 /\ <<c>>[1] = c
        /\ <<d>> \in Seq(Step) /\ Len(<<d>>) = 1 /\ <<d>>[1] = d
    OBVIOUS
  <1>2. \A b, q \in Seq(Step) : Len(b) = 1 /\ Len(q) = 1
          => /\ b \o q \in Seq(Step) /\ Len(b \o q) = 2
             /\ (b \o q)[1] = b[1] /\ (b \o q)[2] = q[1]
    BY ConcatParts
  <1> QED
    BY <1>1, <1>2

(* The commit that is cached with the group locked: against the order, but *)
(* above the room.                                                         *)
LEMMA NestedDefer == Nested(DeferCommit, 0)
  <1>1. Nested(CacheUnderGroup, 3)
    <2>1. PICK w : w = CacheUnderGroup
      OBVIOUS
    <2>2. /\ Write(Group) \in Guard /\ Write(Group).lock = Group
          /\ Write(Cache) \in Guard /\ Write(Cache).lock = Cache
          /\ Group # Cache
      BY GuardType, RankValues
    <2>4. [keep |-> {}, take |-> Write(Group)] \in Step
      BY <2>2 DEF Step
    <2>5. [keep |-> {Write(Group)}, take |-> Write(Cache)] \in Step
      BY <2>2 DEF Step
    <2>3. PICK q : q = <<[keep |-> {Write(Group)}, take |-> Write(Cache)]>>
      OBVIOUS
    <2>6. w = <<[keep |-> {}, take |-> Write(Group)]>> \o q
      <3>1. Take(Write(Cache)) = <<[keep |-> {}, take |-> Write(Cache)]>>
        BY DEF Take
      <3>2. [i \in 1..Len(Take(Write(Cache))) |->
               [keep |-> Take(Write(Cache))[i].keep \union {Write(Group)},
                take |-> Take(Write(Cache))[i].take]]
              = <<[keep |-> {Write(Group)}, take |-> Write(Cache)]>>
        BY <3>1
      <3> QED
        BY <2>1, <2>3, <3>2 DEF CacheUnderGroup, While, Take
    <2>7. /\ w \in Seq(Step) /\ Len(w) = 2
          /\ w[1].keep = {} /\ w[1].take = Write(Group)
          /\ w[2].keep = {Write(Group)} /\ w[2].take = Write(Cache)
      <3>1. \A c, d \in Step : \A x : x = <<c>> \o <<d>> =>
              x \in Seq(Step) /\ Len(x) = 2 /\ x[1] = c /\ x[2] = d
        BY TwoSteps
      <3> QED
        BY <2>3, <2>4, <2>5, <2>6, <3>1
    <2>8. TakesCache(w[2])
      BY <2>2, <2>7 DEF TakesCache
    <2>9. \A i \in 1..2 :
            /\ 3 < Rank[w[i].take.lock]
            /\ \A g \in w[i].keep : 3 < Rank[g.lock] /\ TakesCache(w[i])
      <3>1. \A i \in 1..2 : i = 1 \/ i = 2
        OBVIOUS
      <3>2. 3 < Rank[w[1].take.lock] /\ 3 < Rank[w[2].take.lock]
        BY <2>2, <2>7, RankValues
      <3>3. \A g \in w[2].keep : 3 < Rank[g.lock]
        BY <2>2, <2>7, RankValues
      <3> QED
        BY <3>1, <3>2, <3>3, <2>7, <2>8
    <2> QED
      BY <2>1, <2>7, <2>9 DEF Nested
  <1>2. Nested(HandleProposals \o FindGroup \o CacheUnderGroup, 3)
    <2>1. Nested(FindGroup, 3)
      BY NestedReads
    <2> QED
      BY <1>1, <2>1, NestedMessages, NestedConcat
  <1>3. Nested(CommitNotFound, 2)
    <2>1. /\ Nested(Take(Write(State)), 2)
          /\ Nested(GetCurrentEpoch, 2)
          /\ Nested(LockRoom(HandleProposals \o FindGroup \o CacheUnderGroup), 2)
          /\ Nested(Take(Write(Cache)), 2)
      BY <1>2, NestedReads, NestedTakes, NestedWhiles
    <2> QED
      BY <2>1, NestedConcat DEF CommitNotFound
  <1> QED
    BY <1>3, NestedWhiles DEF DeferCommit

(* Captions and their agent. *)
LEMMA NestedCaptions ==
  /\ Nested(SettleCaptions, 0)
  /\ Nested(CommitAgent, 0)
  /\ Nested(AdmitAgent, 0)
  /\ Nested(RemoveAgent, 0)
  <1>1. Nested(SettleCaptions, 0)
    <2>1. /\ Nested(GetCurrentEpoch, 0)
          /\ Nested(FindGroup, 0)
          /\ Nested(While(Read(User), CommitterRank), 0)
      BY NestedReads, NestedHelpers, NestedTakes, NestedWhiles
    <2> QED
      BY <2>1, NestedConcat DEF SettleCaptions
  <1>2. Nested(CommitAgent, 0)
    <2>1. /\ Nested(Take(Write(Group)), 0)
          /\ Nested(Take(Read(User)), 0)
          /\ Nested(Take(Write(Callback)), 0)
      BY NestedTakes, NestedWhiles
    <2> QED
      BY <2>1, NestedConcat DEF CommitAgent
  <1>3. Nested(AdmitAgent, 0)
    <2>1. /\ Nested(FindGroup, 0)
          /\ Nested(Take(Read(Group)), 0)
          /\ Nested(While(Read(User), CommitterRank), 0)
          /\ Nested(UserGetSdKbt, 0)
          /\ Nested(Take(Read(Store)), 0)
          /\ Nested(Take(Write(Store)), 0)
          /\ Nested(CommitAgent, 0)
      BY <1>2, NestedReads, NestedHelpers, NestedTakes, NestedWhiles
    <2> QED
      BY <2>1, NestedConcat DEF AdmitAgent
  <1>4. Nested(RemoveAgent, 0)
    <2>1. /\ Nested(FindGroup, 0)
          /\ Nested(Take(Read(Group)), 0)
          /\ Nested(While(Read(User), Take(Write(State))), 0)
          /\ Nested(UserGetSdKbt, 0)
          /\ Nested(CommitAgent, 0)
      BY <1>2, NestedReads, NestedTakes, NestedWhiles
    <2> QED
      BY <2>1, NestedConcat DEF RemoveAgent
  <1> QED
    BY <1>1, <1>2, <1>3, <1>4

-----------------------------------------------------------------------------
(* Every trace is a sequence of steps, the suspects' included. *)

LEMMA TakeType ==
  \A l \in Locks : /\ Take(Read(l)) \in Seq(Step)
                   /\ Take(Again(l)) \in Seq(Step)
                   /\ Take(Write(l)) \in Seq(Step)
  <1>1. \A l \in Locks : /\ Read(l) \in Guard
                         /\ Again(l) \in Guard
                         /\ Write(l) \in Guard
    BY DEF Guard, Read, Again, Write
  <1>2. \A g \in Guard : [keep |-> {}, take |-> g] \in Step
    BY DEF Step
  <1> QED
    BY <1>1, <1>2 DEF Take

LEMMA WhileType ==
  ASSUME NEW l \in Locks, NEW p \in Seq(Step)
  PROVE  While(Read(l), p) \in Seq(Step) /\ While(Write(l), p) \in Seq(Step)
  <1>1. ASSUME NEW g \in Guard
        PROVE  [i \in 1..Len(p) |-> [keep |-> p[i].keep \union {g},
                                    take |-> p[i].take]] \in Seq(Step)
    <2>1. \A i \in 1..Len(p) : p[i] \in Step
      OBVIOUS
    <2>2. \A s \in Step : [keep |-> s.keep \union {g}, take |-> s.take] \in Step
      BY DEF Step
    <2> QED
      BY <2>1, <2>2
  <1>2. Read(l) \in Guard /\ Write(l) \in Guard
    BY GuardType
  <1>3. ASSUME NEW g \in Guard, Take(g) \in Seq(Step)
        PROVE  While(g, p) \in Seq(Step)
    BY <1>1, <1>3 DEF While
  <1> QED
    BY <1>2, <1>3, TakeType

LEMMA ConcatType ==
  \A p, q \in Seq(Step) : p \o q \in Seq(Step)
  OBVIOUS

LEMMA SuspectsType ==
  /\ LeaveMeeting \in Seq(Step)
  /\ RemoveParticipant \in Seq(Step)
  /\ SetGroupUpdateCallback \in Seq(Step)
  <1>1. /\ GetMeetingId \in Seq(Step)
        /\ FindGroup \in Seq(Step)
        /\ UserGetMeetingId \in Seq(Step)
        /\ SetHandler \in Seq(Step)
        /\ KickParticipant \in Seq(Step)
        /\ LeaveRoom \in Seq(Step)
    BY TakeType, WhileType, ConcatType, RankValues
       DEF GetMeetingId, FindGroup, UserGetMeetingId, SetHandler, LeaveRoom,
           KickParticipant, GetSdKbt
  <1>2. LeaveMeeting \in Seq(Step)
    BY <1>1, TakeType, WhileType, ConcatType, RankValues DEF LeaveMeeting
  <1>3. RemoveParticipant \in Seq(Step)
    BY <1>1, TakeType, WhileType, ConcatType, RankValues DEF RemoveParticipant
  <1>4. SetGroupUpdateCallback \in Seq(Step)
    BY <1>1, WhileType, RankValues DEF SetGroupUpdateCallback
  <1> QED
    BY <1>2, <1>3, <1>4

(* All calls but the suspects take their locks in the order of Rank. *)
LEMMA TraceOrder ==
  ASSUME NEW c \in Calls
  PROVE  /\ Trace[c] \in Seq(Step)
         /\ c \notin Suspects => Nested(Trace[c], 0)
  <1>1. c \in DOMAIN Trace
    BY CallsAssumption
  <1>2. CASE c \in Suspects
    BY <1>2, SuspectsType DEF Suspects, Trace
  <1>3. CASE c \notin Suspects
    <2>1. Nested(Trace[c], 0)
      BY <1>1, <1>3, NestedAppCalls, NestedJoins, NestedWaitingRoom,
         NestedMessages, NestedDefer, NestedCaptions DEF Suspects, Trace
    <2> QED
      BY <2>1 DEF Nested
  <1> QED
    BY <1>2, <1>3
-----------------------------------------------------------------------------
(* A task that waits wants a lock, and goes on wanting the same one as     *)
(* long as its call and its place in the trace stay the same.              *)
LEMMA WantedType ==
  ASSUME NEW t \in Tasks, TypeOK, call[t] # "none", pc[t] < Len(Steps(t))
  PROVE  /\ Len(Steps(t)) \in Nat
         /\ Wanted(t).lock \in Locks
  <1>1. call[t] \in Calls /\ pc[t] \in Nat
    BY DEF TypeOK
  <1>2. Steps(t) \in Seq(Step)
    BY <1>1, TraceOrder DEF Steps
  <1>3. Steps(t)[pc[t] + 1] \in Step
    BY <1>1, <1>2
  <1> QED
    BY <1>2, <1>3 DEF Wanted, Step, Guard

LEMMA WantedUnchanged ==
  ASSUME NEW t, call'[t] = call[t], pc'[t] = pc[t]
  PROVE  Steps(t)' = Steps(t) /\ Wanted(t)' = Wanted(t)
  BY DEF Steps, Wanted

(* A step that leaves the queues and the tasks in them alone keeps them in *)
(* agreement.                                                              *)
LEMMA QueuesKept ==
  ASSUME QueuesOK, waiting' = waiting, queue' = queue,
         \A u \in waiting : call'[u] = call[u] /\ pc'[u] = pc[u]
  PROVE  QueuesOK'
  <1>1. ASSUME NEW u \in waiting
        PROVE  /\ call'[u] # "none"
               /\ pc'[u] < Len(Steps(u)')
               /\ \E i \in DOMAIN queue'[Wanted(u)'.lock] :
                    queue'[Wanted(u)'.lock][i] = u
    <2>1. Steps(u)' = Steps(u) /\ Wanted(u)' = Wanted(u)
      BY <1>1, WantedUnchanged
    <2> QED
      BY <2>1 DEF QueuesOK
  <1>2. ASSUME NEW l \in Locks, NEW i \in DOMAIN queue[l]
        PROVE  /\ queue[l][i] \in waiting
               /\ Trace[call'[queue[l][i]]][pc'[queue[l][i]] + 1].take.lock = l
               /\ \A j \in DOMAIN queue[l] : i # j => queue[l][i] # queue[l][j]
    BY DEF QueuesOK, Wanted, Steps
  <1>3. (\A u \in waiting : /\ call[u] # "none"
                            /\ pc[u] < Len(Steps(u))
                            /\ \E i \in DOMAIN queue[Wanted(u).lock] :
                                 queue[Wanted(u).lock][i] = u)'
    BY <1>1
  <1>4. (\A l \in Locks : \A i \in DOMAIN queue[l] :
           /\ queue[l][i] \in waiting
           /\ Wanted(queue[l][i]).lock = l
           /\ \A j \in DOMAIN queue[l] : i # j => queue[l][i] # queue[l][j])'
    BY <1>2 DEF Wanted, Steps
  <1> QED
    BY <1>3, <1>4 DEF QueuesOK

LEMMA InitType == Init => TypeOK
  BY DEF Init, TypeOK, QueuesOK

LEMMA StartType ==
  ASSUME TypeOK, NEW t \in Tasks, NEW c \in Calls, Start(t, c)
  PROVE  TypeOK'
  <1>1. t \notin waiting
    BY DEF TypeOK, QueuesOK, Start
  <1>2. \A u \in waiting : call'[u] = call[u] /\ pc'[u] = pc[u]
    BY <1>1 DEF TypeOK, Start
  <1>3. QueuesOK'
    BY <1>2, QueuesKept DEF TypeOK, Start
  <1> QED
    BY <1>3 DEF TypeOK, Start

LEMMA RequestType ==
  ASSUME TypeOK, NEW t \in Tasks, Request(t)
  PROVE  TypeOK'
  <1> DEFINE w == Wanted(t).lock
  <1>1. w \in Locks /\ t \notin waiting /\ call[t] # "none" /\ pc[t] < Len(Steps(t))
    BY WantedType DEF Request, Running
  <1>2. \A u : Steps(u)' = Steps(u) /\ Wanted(u)' = Wanted(u)
    BY WantedUnchanged DEF Request
  <1>3. /\ queue[w] \in Seq(Tasks)
        /\ queue'[w] = Append(queue[w], t)
        /\ \A l \in Locks : l # w => queue'[l] = queue[l]
        /\ queue' \in [Locks -> Seq(Tasks)]
    BY <1>1 DEF TypeOK, Request
  <1>4. /\ Len(queue'[w]) = Len(queue[w]) + 1
        /\ queue'[w][Len(queue[w]) + 1] = t
        /\ \A i \in DOMAIN queue[w] : queue'[w][i] = queue[w][i]
        /\ DOMAIN queue'[w] = DOMAIN queue[w] \union {Len(queue[w]) + 1}
    BY <1>3
  <1>5. \A i \in DOMAIN queue[w] : queue[w][i] # t
    BY <1>1 DEF TypeOK, QueuesOK
  <1>6. waiting' = waiting \union {t} /\ call' = call /\ pc' = pc
    BY DEF Request
  <1>7. ASSUME NEW u \in waiting'
        PROVE  /\ call[u] # "none"
               /\ pc[u] < Len(Steps(u))
               /\ \E i \in DOMAIN queue'[Wanted(u).lock] :
                    queue'[Wanted(u).lock][i] = u
    <2>1. CASE u = t
      <3>1. Len(queue[w]) + 1 \in DOMAIN queue'[w]
        BY <1>4
      <3> QED
        BY <2>1, <3>1, <1>1, <1>4
    <2>2. CASE u # t
      <3>1. u \in waiting
        BY <2>2, <1>6
      <3>2. Wanted(u).lock \in Locks
        BY <3>1, WantedType DEF TypeOK, QueuesOK
      <3>3. /\ call[u] # "none" /\ pc[u] < Len(Steps(u))
            /\ \E i \in DOMAIN queue[Wanted(u).lock] :
                 queue[Wanted(u).lock][i] = u
        BY <3>1 DEF TypeOK, QueuesOK
      <3> QED
        BY <3>2, <3>3, <1>3, <1>4
    <2> QED
      BY <2>1, <2>2
  <1>8. ASSUME NEW l \in Locks, NEW i \in DOMAIN queue'[l]
        PROVE  /\ queue'[l][i] \in waiting'
               /\ Wanted(queue'[l][i]).lock = l
               /\ \A j \in DOMAIN queue'[l] : i # j => queue'[l][i] # queue'[l][j]
    <2>1. CASE l # w
      BY <2>1, <1>3, <1>6 DEF TypeOK, QueuesOK
    <2>2. CASE l = w
      BY <2>2, <1>4, <1>5, <1>6 DEF TypeOK, QueuesOK
    <2> QED
      BY <2>1, <2>2
  <1>9. QueuesOK'
    BY <1>2, <1>6, <1>7, <1>8 DEF QueuesOK
  <1> QED
    BY <1>3, <1>6, <1>9 DEF TypeOK

LEMMA GrantType ==
  ASSUME TypeOK, NEW l \in Locks, Grant(l)
  PROVE  TypeOK'
  <1> DEFINE t == Head(queue[l])
  <1>1. /\ queue[l] \in Seq(Tasks)
        /\ 1 \in DOMAIN queue[l]
        /\ t = queue[l][1]
        /\ t \in Tasks
    BY DEF TypeOK, Grant
  <1>2. /\ queue'[l] = Tail(queue[l])
        /\ \A m \in Locks : m # l => queue'[m] = queue[m]
        /\ queue' \in [Locks -> Seq(Tasks)]
        /\ waiting' = waiting \ {t}
        /\ call' = call
        /\ pc' = [pc EXCEPT ![t] = @ + 1]
    BY <1>1 DEF TypeOK, Grant
  <1>3. /\ \A i \in DOMAIN queue'[l] : /\ i + 1 \in DOMAIN queue[l]
                                       /\ queue'[l][i] = queue[l][i + 1]
        /\ \A i \in DOMAIN queue[l] :
             i # 1 => i - 1 \in DOMAIN queue'[l] /\ queue'[l][i - 1] = queue[l][i]
    BY <1>1, <1>2
  <1>4. \A u \in waiting' : /\ u \in waiting /\ u # t /\ u \in Tasks
                            /\ Steps(u)' = Steps(u) /\ Wanted(u)' = Wanted(u)
                            /\ pc'[u] = pc[u]
    BY <1>2, WantedUnchanged DEF TypeOK
  <1>5. ASSUME NEW u \in waiting'
        PROVE  \E i \in DOMAIN queue'[Wanted(u).lock] :
                 queue'[Wanted(u).lock][i] = u
    <2>1. /\ Wanted(u).lock \in Locks
          /\ \E i \in DOMAIN queue[Wanted(u).lock] : queue[Wanted(u).lock][i] = u
      BY <1>4, WantedType DEF TypeOK, QueuesOK
    <2>2. CASE Wanted(u).lock # l
      BY <2>1, <2>2, <1>2
    <2>3. CASE Wanted(u).lock = l
      <3>1. PICK i \in DOMAIN queue[l] : queue[l][i] = u
        BY <2>1, <2>3
      <3>2. i # 1
        BY <3>1, <1>1, <1>4
      <3> QED
        BY <2>3, <3>1, <3>2, <1>3
    <2> QED
      BY <2>2, <2>3
  <1>6. ASSUME NEW m \in Locks, NEW i \in DOMAIN queue'[m]
        PROVE  /\ queue'[m][i] \in waiting'
               /\ Wanted(queue'[m][i]).lock = m
               /\ \A j \in DOMAIN queue'[m] : i # j => queue'[m][i] # queue'[m][j]
    <2>1. CASE m # l
      <3>1. queue'[m] = queue[m]
        BY <2>1, <1>2
      <3>2. Wanted(t).lock = l
        BY <1>1 DEF TypeOK, QueuesOK
      <3>3. queue[m][i] # t
        BY <2>1, <3>1, <3>2 DEF TypeOK, QueuesOK
      <3> QED
        BY <3>1, <3>3, <1>2 DEF TypeOK, QueuesOK
    <2>2. CASE m = l
      <3>1. i \in Nat \ {0} /\ i + 1 # 1
        BY <2>2, <1>2, <1>1
      <3>2. queue[l][i + 1] # t
        BY <2>2, <3>1, <1>1, <1>3 DEF TypeOK, QueuesOK
      <3>3. /\ queue'[l][i] \in waiting'
            /\ Wanted(queue'[l][i]).lock = l
        BY <2>2, <3>2, <1>2, <1>3 DEF TypeOK, QueuesOK
      <3>4. ASSUME NEW j \in DOMAIN queue'[l], i # j
            PROVE  queue'[l][i] # queue'[l][j]
        <4>1. j \in Nat
          BY <1>1, <1>2
        <4>2. i + 1 # j + 1
          BY <3>1, <3>4, <4>1
        <4>3. queue[l][i + 1] # queue[l][j + 1]
          BY <2>2, <4>2, <1>3 DEF TypeOK, QueuesOK
        <4> QED
          BY <4>3, <2>2, <1>3
      <3> QED
        BY <2>2, <3>3, <3>4
    <2> QED
      BY <2>1, <2>2
  <1>7. QueuesOK'
    <2>1. (\A u \in waiting : /\ call[u] # "none"
                              /\ pc[u] < Len(Steps(u))
                              /\ \E i \in DOMAIN queue[Wanted(u).lock] :
                                   queue[Wanted(u).lock][i] = u)'
      <3>1. \A u \in waiting' : call[u] # "none" /\ pc[u] < Len(Steps(u))
        BY <1>4 DEF TypeOK, QueuesOK
      <3> QED
        BY <3>1, <1>2, <1>4, <1>5
    <2>2. (\A m \in Locks : \A i \in DOMAIN queue[m] :
             /\ queue[m][i] \in waiting
             /\ Wanted(queue[m][i]).lock = m
             /\ \A j \in DOMAIN queue[m] : i # j => queue[m][i] # queue[m][j])'
      <3>1. \A u \in waiting' : call'[u] = call[u] /\ pc'[u] = pc[u]
        BY <1>2, <1>4
      <3> QED
        BY <3>1, <1>6 DEF Wanted, Steps
    <2> QED
      BY <2>1, <2>2 DEF QueuesOK
  <1>8. pc' \in [Tasks -> Nat]
    BY <1>1, <1>2 DEF TypeOK
  <1> QED
    BY <1>2, <1>7, <1>8 DEF TypeOK

LEMMA ReturnType ==
  ASSUME TypeOK, NEW t \in Tasks, Return(t) \/ Fail(t)
  PROVE  TypeOK'
  <1>1. t \notin waiting /\ call[t] \in Calls
    BY DEF TypeOK, Return, Fail, Running
  <1>2. Steps(t) \in Seq(Step) /\ Len(Steps(t)) \in Nat
    BY <1>1, TraceOrder DEF Steps
  <1>3. /\ call' = call /\ waiting' = waiting /\ queue' = queue
        /\ pc' \in [Tasks -> Nat]
        /\ \A u \in Tasks : u # t => pc'[u] = pc[u]
    BY <1>2 DEF TypeOK, Return, Fail
  <1>4. \A u \in waiting : call'[u] = call[u] /\ pc'[u] = pc[u]
    BY <1>1, <1>3 DEF TypeOK
  <1>5. QueuesOK'
    BY <1>3, <1>4, QueuesKept DEF TypeOK
  <1> QED
    BY <1>3, <1>5 DEF TypeOK

(* The waiting tasks and the queues of the locks stay in agreement. *)
THEOREM LocksTypeCorrect == Spec => []TypeOK
  <1>1. TypeOK /\ [Next]_vars => TypeOK'
    <2> SUFFICES ASSUME TypeOK, [Next]_vars
                 PROVE  TypeOK'
      OBVIOUS
    <2>1. CASE UNCHANGED vars
      BY <2>1 DEF vars, TypeOK, QueuesOK, Wanted, Steps
    <2>2. ASSUME NEW t \in Tasks, NEW c \in Calls, Start(t, c)
          PROVE  TypeOK'
      BY <2>2, StartType
    <2>3. ASSUME NEW t \in Tasks, Request(t)
          PROVE  TypeOK'
      BY <2>3, RequestType
    <2>4. ASSUME NEW t \in Tasks, Return(t) \/ Fail(t)
          PROVE  TypeOK'
      BY <2>4, ReturnType
    <2>5. ASSUME NEW l \in Locks, Grant(l)
          PROVE  TypeOK'
      BY <2>5, GrantType
    <2> QED
      BY <2>1, <2>2, <2>3, <2>4, <2>5 DEF Next
  <1> QED
    BY <1>1, InitType, PTL DEF Spec

-----------------------------------------------------------------------------
(* A guard is held from the step that takes it to the last step that keeps *)
(* it: a call begins with nothing and never keeps what it has dropped.     *)

Scoped(p) ==
  /\ p \in Seq(Step) \ {<<>>}
  /\ p[1].keep = {}
  /\ \A i \in 1..(Len(p) - 1) : p[i + 1].keep \subseteq p[i].keep \union {p[i].take}

LEMMA ScopedTake ==
  \A l \in Locks : Scoped(Take(Read(l))) /\ Scoped(Take(Again(l))) /\ Scoped(Take(Write(l)))
  <1>1. ASSUME NEW g, Take(g) \in Seq(Step)
        PROVE  Scoped(Take(g))
    <2>1. Take(g)[1].keep = {} /\ Len(Take(g)) = 1 /\ Take(g) # <<>>
      BY DEF Take
    <2> QED
      BY <1>1, <2>1 DEF Scoped
  <1> QED
    BY <1>1, TakeType

LEMMA ScopedConcat ==
  \A p, q : Scoped(p) /\ Scoped(q) => Scoped(p \o q)
  <1> SUFFICES ASSUME NEW p, NEW q, Scoped(p), Scoped(q)
               PROVE  Scoped(p \o q)
    OBVIOUS
  <1>1. /\ p \in Seq(Step) /\ q \in Seq(Step) /\ p # <<>> /\ q # <<>>
        /\ p[1].keep = {} /\ q[1].keep = {}
    BY DEF Scoped
  <1>2. Len(p) \in Nat \ {0} /\ Len(q) \in Nat \ {0}
    BY <1>1
  <1>3. p \o q \in Seq(Step) /\ Len(p \o q) = Len(p) + Len(q) /\ p \o q # <<>>
    BY <1>1, <1>2
  <1>4. /\ \A i \in 1..Len(p) : (p \o q)[i] = p[i]
        /\ \A i \in 1..Len(q) : (p \o q)[Len(p) + i] = q[i]
    BY <1>1, <1>2
  <1>5. (p \o q)[1].keep = {}
    BY <1>1, <1>2, <1>4
  <1>6. ASSUME NEW i \in 1..(Len(p \o q) - 1)
        PROVE  (p \o q)[i + 1].keep \subseteq (p \o q)[i].keep \union {(p \o q)[i].take}
    <2>1. CASE i < Len(p)
      <3>1. i \in 1..(Len(p) - 1) /\ i + 1 \in 1..Len(p) /\ i \in 1..Len(p)
        BY <1>2, <2>1
      <3> QED
        BY <3>1, <1>4 DEF Scoped
    <2>2. CASE i = Len(p)
      <3>1. (p \o q)[i + 1] = q[1]
        BY <1>2, <1>4, <2>2
      <3> QED
        BY <3>1, <1>1
    <2>3. CASE i > Len(p)
      <3>1. PICK j \in 1..(Len(q) - 1) : i = Len(p) + j
        <4>1. i - Len(p) \in 1..(Len(q) - 1) /\ i = Len(p) + (i - Len(p))
          BY <1>2, <1>3, <2>3
        <4> QED
          BY <4>1
      <3>2. /\ j \in 1..Len(q) /\ j + 1 \in 1..Len(q)
            /\ i + 1 = Len(p) + (j + 1)
        BY <1>2, <3>1
      <3>3. (p \o q)[i + 1] = q[j + 1] /\ (p \o q)[i] = q[j]
        BY <1>4, <3>1, <3>2
      <3> QED
        BY <3>1, <3>3 DEF Scoped
    <2> QED
      BY <2>1, <2>2, <2>3, <1>2
  <1> QED
    BY <1>3, <1>5, <1>6 DEF Scoped

(* The body of While begins when g has been taken, and keeps it throughout. *)
LEMMA ScopedWhile ==
  \A l \in Locks : \A p : Scoped(p) => Scoped(While(Read(l), p)) /\ Scoped(While(Write(l), p))
  <1>1. ASSUME NEW g \in Guard, NEW p, Scoped(p)
        PROVE  Scoped(While(g, p))
    <2>1. p \in Seq(Step) /\ Len(p) \in Nat \ {0} /\ p[1].keep = {}
      BY <1>1 DEF Scoped
    <2>2. PICK q : q = [i \in 1..Len(p) |-> [keep |-> p[i].keep \union {g},
                                           take |-> p[i].take]]
      OBVIOUS
    <2>3. \A i \in 1..Len(p) : /\ q[i].keep = p[i].keep \union {g}
                               /\ q[i].take = p[i].take
                               /\ q[i] \in Step
      <3>1. \A i \in 1..Len(p) : p[i] \in Step
        BY <2>1
      <3> QED
        BY <2>2, <3>1 DEF Step
    <2>4. q \in Seq(Step) /\ Len(q) = Len(p)
      BY <2>1, <2>2, <2>3
    <2>5. PICK w : w = While(g, p)
      OBVIOUS
    <2>6. [keep |-> {}, take |-> g] \in Step
      BY DEF Step
    <2>7. w = <<[keep |-> {}, take |-> g]>> \o q
      BY <2>2, <2>5 DEF While, Take
    <2>8. /\ w \in Seq(Step) /\ Len(w) = Len(p) + 1 /\ w # <<>>
          /\ w[1] = [keep |-> {}, take |-> g]
          /\ \A i \in 1..Len(p) : w[i + 1] = q[i]
      BY <2>1, <2>4, <2>6, <2>7
    <2>9. ASSUME NEW i \in 1..(Len(w) - 1)
          PROVE  w[i + 1].keep \subseteq w[i].keep \union {w[i].take}
      <3>1. CASE i = 1
        <4>1. 1 \in 1..Len(p) /\ w[i + 1] = q[1]
          BY <2>1, <2>8, <3>1
        <4>2. w[i + 1].keep = {g}
          BY <2>1, <2>3, <4>1
        <4> QED
          BY <2>8, <3>1, <4>2
      <3>2. CASE i > 1
        <4>1. PICK j \in 1..(Len(p) - 1) : i = j + 1
          <5>1. i - 1 \in 1..(Len(p) - 1) /\ i = (i - 1) + 1
            BY <2>1, <2>8, <3>2
          <5> QED
            BY <5>1
        <4>2. j \in 1..Len(p) /\ j + 1 \in 1..Len(p)
          BY <2>1, <4>1
        <4>3. w[i] = q[j] /\ w[i + 1] = q[j + 1]
          BY <2>8, <4>1, <4>2
        <4>4. p[j + 1].keep \subseteq p[j].keep \union {p[j].take}
          BY <1>1, <4>1 DEF Scoped
        <4> QED
          BY <2>3, <4>2, <4>3, <4>4
      <3> QED
        BY <2>1, <2>8, <3>1, <3>2
    <2>10. Scoped(w)
      BY <2>8, <2>9 DEF Scoped
    <2> QED
      BY <2>5, <2>10
  <1> QED
    BY <1>1, GuardType

(* The parts that several calls share. *)
LEMMA ScopedParts ==
  /\ Scoped(GetSdKbt) /\ Scoped(GetMeetingId) /\ Scoped(FindGroup)
  /\ Scoped(GetCurrentEpoch) /\ Scoped(UserGetMeetingId) /\ Scoped(UserGetSdKbt)
  /\ Scoped(CheckAndUpdateHostRole) /\ Scoped(CommitterRank) /\ Scoped(HandleProposals)
  /\ Scoped(SetSyncState) /\ Scoped(EpochCheck) /\ Scoped(CommitAgent)
  <1>1. Scoped(GetSdKbt) /\ Scoped(GetMeetingId) /\ Scoped(FindGroup)
    BY ScopedTake, RankValues DEF GetSdKbt, GetMeetingId, FindGroup
  <1>2. Scoped(GetCurrentEpoch)
    BY <1>1, ScopedTake, ScopedConcat, RankValues DEF GetCurrentEpoch
  <1>3. Scoped(UserGetMeetingId) /\ Scoped(UserGetSdKbt)
    BY <1>1, ScopedWhile, RankValues DEF UserGetMeetingId, UserGetSdKbt
  <1>4. Scoped(CheckHostRole) /\ Scoped(CommitterRank)
    BY ScopedTake, ScopedWhile, RankValues DEF CheckHostRole, CommitterRank
  <1>5. Scoped(CheckAndUpdateHostRole)
    BY <1>1, <1>4, ScopedTake, ScopedConcat, RankValues DEF CheckAndUpdateHostRole
  <1>6. Scoped(SetSyncState)
    BY ScopedTake, ScopedConcat, RankValues DEF SetSyncState
  <1>7. Scoped(EpochCheck)
    BY <1>1, <1>2, <1>6, ScopedTake, ScopedConcat, RankValues DEF EpochCheck
  <1>8. Scoped(CommitAgent)
    BY ScopedTake, ScopedConcat, RankValues DEF CommitAgent
  <1>9. Scoped(HandleProposals)
    <2>1. Scoped(HandleProposal)
      BY <1>1, <1>2, ScopedTake, ScopedConcat, RankValues DEF HandleProposal
    <2>2. Scoped(While(Write(Cache), HandleProposal))
      BY <2>1, ScopedWhile, RankValues
    <2> QED
      BY <2>1, <2>2, ScopedConcat DEF HandleProposals
  <1> QED
    BY <1>1, <1>2, <1>3, <1>4, <1>5, <1>6, <1>7, <1>8, <1>9

(* The calls that manage the meeting, the suspects with them. *)
LEMMA ScopedMeetingCalls ==
  /\ Scoped(LeaveMeeting) /\ Scoped(EndMeeting) /\ Scoped(RemoveParticipant)
  /\ Scoped(GetGroupKey) /\ Scoped(SetHandler) /\ Scoped(SetGroupUpdateCallback)
  /\ Scoped(UpdateLivekitToken) /\ Scoped(ServicesReset) /\ Scoped(ConnectToWs)
  /\ Scoped(IsMlsUpToDate) /\ Scoped(SetActiveUuids)
  <1>1. Scoped(LeaveMeeting)
    <2>1. Scoped(While(Write(Group), Take(Again(Store))))
      BY ScopedTake, ScopedWhile, RankValues
    <2>2. Scoped(LeaveRoom)
      BY <2>1, ScopedTake, ScopedWhile, ScopedConcat, RankValues DEF LeaveRoom
    <2>3. /\ Scoped(While(Read(App), UserGetMeetingId))
          /\ Scoped(While(Read(User), LeaveRoom))
          /\ Scoped(While(Write(App), Take(Write(Store))))
          /\ Scoped(While(Read(User), Take(Write(State))))
      BY <2>2, ScopedParts, ScopedTake, ScopedWhile, RankValues
    <2> QED
      BY <2>3, ScopedConcat DEF LeaveMeeting
  <1>2. Scoped(EndMeeting) /\ Scoped(ConnectToWs)
    BY ScopedParts, ScopedWhile, RankValues DEF EndMeeting, ConnectToWs
  <1>3. Scoped(RemoveParticipant)
    <2>1. Scoped(While(Write(Group), GetSdKbt)) /\ Scoped(Take(Write(Callback)))
      BY ScopedParts, ScopedTake, ScopedWhile, RankValues
    <2>2. Scoped(KickParticipant)
      BY <2>1, ScopedParts, ScopedConcat DEF KickParticipant
    <2>3. Scoped(Take(Again(App))) /\ Scoped(While(Read(User), KickParticipant))
      BY <2>2, ScopedTake, ScopedWhile, RankValues
    <2>4. Scoped(UserGetMeetingId \o Take(Again(App)) \o UserGetMeetingId
                   \o While(Read(User), KickParticipant))
      BY <2>3, ScopedParts, ScopedConcat
    <2> QED
      BY <2>4, ScopedWhile, RankValues DEF RemoveParticipant
  <1>4. Scoped(GetGroupKey)
    <2>1. Scoped(While(Read(User), GetCurrentEpoch))
      BY ScopedParts, ScopedWhile, RankValues
    <2>2. Scoped(UserGetMeetingId \o While(Read(User), GetCurrentEpoch))
      BY <2>1, ScopedParts, ScopedConcat
    <2> QED
      BY <2>2, ScopedWhile, RankValues DEF GetGroupKey
  <1>5. Scoped(SetHandler) /\ Scoped(UpdateLivekitToken)
    BY ScopedTake, RankValues DEF SetHandler, UpdateLivekitToken
  <1>6. Scoped(SetGroupUpdateCallback)
    BY <1>5, ScopedWhile, RankValues DEF SetGroupUpdateCallback
  <1>7. Scoped(ServicesReset)
    BY ScopedTake, ScopedWhile, RankValues DEF ServicesReset
  <1>8. Scoped(IsMlsUpToDate)
    <2>1. Scoped(While(Read(User), EpochCheck))
      BY ScopedParts, ScopedWhile, RankValues
    <2>2. Scoped(UserGetMeetingId \o While(Read(User), EpochCheck)
                   \o While(Read(User), EpochCheck))
      BY <2>1, ScopedParts, ScopedConcat
    <2> QED
      BY <2>2, ScopedWhile, RankValues DEF IsMlsUpToDate
  <1>9. Scoped(SetActiveUuids)
    <2>1. Scoped(RemoveOfflineMembers)
      BY ScopedParts, ScopedTake, ScopedConcat, RankValues DEF RemoveOfflineMembers
    <2>2. Scoped(While(Write(Group), RemoveOfflineMembers)) /\ Scoped(Take(Write(State)))
      BY <2>1, ScopedTake, ScopedWhile, RankValues
    <2>3. Scoped(HandleOfflineMembers)
      BY <2>2, ScopedParts, ScopedConcat DEF HandleOfflineMembers
    <2>4. Scoped(While(Read(User), HandleOfflineMembers)) /\ Scoped(Take(Read(App)))
      BY <2>3, ScopedTake, ScopedWhile, RankValues
    <2> QED
      BY <2>4, ScopedParts, ScopedConcat DEF SetActiveUuids
  <1> QED
    BY <1>1, <1>2, <1>3, <1>4, <1>5, <1>6, <1>7, <1>8, <1>9

(* Joining, and the waiting room. *)
LEMMA ScopedJoins ==
  /\ Scoped(CreateMlsClient) /\ Scoped(JoinRoom) /\ Scoped(JoinRoomWithProposal)
  /\ Scoped(ClearPrejoinSession) /\ Scoped(WaitForWelcome) /\ Scoped(ClearJoinRequest)
  /\ Scoped(CancelJoinRequest) /\ Scoped(AdmitJoinRequests)
  /\ Scoped(UpdateWaitingRoomSetting)
  <1>1. /\ Scoped(Take(Read(App))) /\ Scoped(Take(Write(App)))
        /\ Scoped(Take(Write(State))) /\ Scoped(Take(Read(Store)))
        /\ Scoped(Take(Write(Store))) /\ Scoped(Take(Write(Callback)))
    BY ScopedTake, RankValues
  <1>2. /\ Scoped(While(Read(User), Take(Write(State))))
        /\ Scoped(While(Read(User), Take(Write(Store))))
        /\ Scoped(While(Write(App), Take(Write(Store))))
    BY <1>1, ScopedWhile, RankValues
  <1>3. /\ Scoped(CreateMlsClient) /\ Scoped(ClearPrejoinSession)
        /\ Scoped(ClearJoinRequest) /\ Scoped(CancelJoinRequest)
    BY <1>1, <1>2, ScopedParts, ScopedConcat
       DEF CreateMlsClient, ClearPrejoinSession, ClearJoinRequest, CancelJoinRequest
  <1>4. Scoped(JoinRoom)
    <2>1. Scoped(ServiceJoinRoom)
      BY <1>1, ScopedParts, ScopedConcat DEF ServiceJoinRoom
    <2>2. Scoped(UpdateHostRole)
      BY ScopedParts, ScopedConcat DEF UpdateHostRole
    <2>3. Scoped(While(Read(User), ServiceJoinRoom)) /\ Scoped(While(Read(User), UpdateHostRole))
      BY <2>1, <2>2, ScopedWhile, RankValues
    <2> QED
      BY <1>1, <2>3, ScopedParts, ScopedConcat DEF JoinRoom
  <1>5. Scoped(JoinRoomWithProposal)
    <2>1. Scoped(StoreWelcomeGroup)
      BY <1>1, ScopedConcat DEF StoreWelcomeGroup
    <2>2. Scoped(While(Write(State), StoreWelcomeGroup))
      BY <2>1, ScopedWhile, RankValues
    <2>3. Scoped(ServiceJoinWithProposal)
      BY <1>1, <2>2, ScopedParts, ScopedConcat DEF ServiceJoinWithProposal
    <2>4. Scoped(While(Read(User), ServiceJoinWithProposal))
      BY <2>3, ScopedWhile, RankValues
    <2> QED
      BY <1>1, <2>4, ScopedParts, ScopedConcat DEF JoinRoomWithProposal
  <1>6. Scoped(WaitForWelcome)
    <2>1. Scoped(JoinWithWelcome)
      BY <1>1, ScopedConcat DEF JoinWithWelcome
    <2>2. Scoped(While(Read(User), JoinWithWelcome))
      BY <2>1, ScopedWhile, RankValues
    <2> QED
      BY <1>1, <2>2, ScopedConcat DEF WaitForWelcome
  <1>7. Scoped(AdmitJoinRequests)
    <2>1. Scoped(Take(Write(State)) \o GetSdKbt)
      BY <1>1, ScopedParts, ScopedConcat
    <2>2. Scoped(CommitAdmission)
      BY <2>1, ScopedWhile, RankValues DEF CommitAdmission
    <2>3. Scoped(ServiceAdmit)
      BY <1>1, <2>2, ScopedParts, ScopedConcat DEF ServiceAdmit
    <2>4. Scoped(While(Write(User), ServiceAdmit))
      BY <2>3, ScopedWhile, RankValues
    <2> QED
      BY <1>1, <1>2, <2>4, ScopedConcat DEF AdmitJoinRequests
  <1>8. Scoped(UpdateWaitingRoomSetting)
    <2>1. Scoped(PreparePolicy)
      BY ScopedParts, ScopedConcat DEF PreparePolicy
    <2>2. Scoped(While(Write(Group), PreparePolicy))
      BY <2>1, ScopedWhile, RankValues
    <2>3. Scoped(UpdatePolicy)
      BY <2>2, ScopedParts, ScopedConcat DEF UpdatePolicy
    <2>4. Scoped(While(Read(User), UpdatePolicy))
      BY <2>3, ScopedWhile, RankValues
    <2> QED
      BY <1>1, <2>4, ScopedConcat DEF UpdateWaitingRoomSetting
  <1> QED
    BY <1>3, <1>4, <1>5, <1>6, <1>7, <1>8

(* The messages of the server, the timers, and captions. *)
LEMMA ScopedMessages ==
  /\ Scoped(HandleCommit) /\ Scoped(DeferCommit) /\ Scoped(ProcessProposal)
  /\ Scoped(ProposalTimer)
  /\ Scoped(SettleCaptions) /\ Scoped(AdmitAgent) /\ Scoped(RemoveAgent)
  <1>1. /\ Scoped(Take(Write(State))) /\ Scoped(Take(Write(Callback)))
        /\ Scoped(Take(Read(Group))) /\ Scoped(Take(Write(Group)))
        /\ Scoped(Take(Read(Store))) /\ Scoped(Take(Write(Store)))
        /\ Scoped(Take(Write(Cache)))
    BY ScopedTake, RankValues
  <1>lock. \A p : Scoped(p) => Scoped(LockRoom(p))
    BY ScopedWhile, RankValues DEF LockRoom
  <1>2. Scoped(HandleCommit) /\ Scoped(ProcessProposal)
    <2>1. Scoped(ApplyCommit)
      BY <1>1, ScopedParts, ScopedConcat DEF ApplyCommit
    <2>2. Scoped(ProcessCommit)
      BY <2>1, <1>lock, ScopedParts, ScopedConcat DEF ProcessCommit
    <2>3. Scoped(ProcessProposalMessage) /\ Scoped(UseCache)
      BY <1>1, ScopedParts, ScopedConcat DEF ProcessProposalMessage, UseCache
    <2>4. Scoped(ProcessCachedMessages)
      BY <2>2, <2>3, ScopedConcat DEF ProcessCachedMessages
    <2>5. Scoped(HandleCommitMessage) /\ Scoped(HandleProposalMessage)
      BY <1>1, <2>2, <2>3, <2>4, ScopedConcat
         DEF HandleCommitMessage, HandleProposalMessage
    <2> QED
      BY <2>5, ScopedWhile, RankValues DEF HandleCommit, ProcessProposal
  <1>3. Scoped(DeferCommit)
    <2>1. Scoped(CacheUnderGroup)
      BY <1>1, ScopedWhile, RankValues DEF CacheUnderGroup
    <2>2. Scoped(LockRoom(HandleProposals \o FindGroup \o CacheUnderGroup))
      BY <2>1, <1>lock, ScopedParts, ScopedConcat
    <2>3. Scoped(CommitNotFound)
      BY <1>1, <2>2, ScopedParts, ScopedConcat DEF CommitNotFound
    <2> QED
      BY <2>3, ScopedWhile, RankValues DEF DeferCommit
  <1>4. Scoped(ProposalTimer)
    <2>1. Scoped(While(Write(Group), GetSdKbt))
      BY ScopedParts, ScopedWhile, RankValues
    <2>2. Scoped(CommitBatch)
      BY <1>1, <2>1, ScopedParts, ScopedConcat DEF CommitBatch
    <2> QED
      BY <1>1, <2>2, <1>lock, ScopedParts, ScopedConcat DEF ProposalTimer
  <1>5. /\ Scoped(While(Read(User), CommitterRank))
        /\ Scoped(While(Read(User), Take(Write(State))))
    BY <1>1, ScopedParts, ScopedWhile, RankValues
  <1>6. Scoped(SettleCaptions)
    BY <1>5, ScopedParts, ScopedConcat DEF SettleCaptions
  <1>7. Scoped(AdmitAgent)
    BY <1>1, <1>5, ScopedParts, ScopedConcat DEF AdmitAgent
  <1>8. Scoped(RemoveAgent)
    BY <1>1, <1>5, ScopedParts, ScopedConcat DEF RemoveAgent
  <1> QED
    BY <1>2, <1>3, <1>4, <1>6, <1>7, <1>8

LEMMA TraceScoped == \A c \in Calls : Scoped(Trace[c])
  BY CallsAssumption, ScopedMeetingCalls, ScopedJoins, ScopedMessages DEF Trace

-----------------------------------------------------------------------------
(* A step adds at most the guard it grants to what its task holds.         *)

Idle == \A t \in Tasks : call[t] = "none" => pc[t] = 0

(* A writer has its lock to itself, whatever the calls do. *)
MutualExclusion ==
  \A t, u \in Tasks : \A g \in Held(t), h \in Held(u) :
    g.lock = h.lock /\ g.write => t = u

LEMMA IdleStep ==
  ASSUME TypeOK, Idle, [Next]_vars
  PROVE  Idle'
  <1>1. ASSUME NEW t \in Tasks, NEW c \in Calls, Start(t, c)
        PROVE  Idle'
    <2>1. c # "none"
      BY CallsAssumption DEF Trace
    <2> QED
      BY <1>1, <2>1 DEF Idle, Start, TypeOK
  <1>2. ASSUME NEW t \in Tasks, Request(t) \/ Return(t) \/ Fail(t)
        PROVE  Idle'
    BY <1>2 DEF Idle, Request, Return, Fail, Running, TypeOK
  <1>3. ASSUME NEW l \in Locks, Grant(l)
        PROVE  Idle'
    <2>1. PICK t \in waiting : pc' = [pc EXCEPT ![t] = @ + 1] /\ call' = call
      <3>1. queue[l] \in Seq(Tasks) /\ queue[l] # <<>>
        BY <1>3 DEF Grant, TypeOK
      <3>2. 1 \in DOMAIN queue[l] /\ Head(queue[l]) = queue[l][1]
        BY <3>1
      <3>3. Head(queue[l]) \in waiting
        BY <3>2 DEF TypeOK, QueuesOK
      <3> QED
        BY <1>3, <3>3 DEF Grant
    <2>2. call[t] # "none"
      BY <2>1 DEF TypeOK, QueuesOK
    <2> QED
      BY <2>1, <2>2 DEF Idle, TypeOK
  <1> QED
    BY <1>1, <1>2, <1>3 DEF Next, vars, Idle

LEMMA HeldUnchanged ==
  ASSUME NEW t, call'[t] = call[t], pc'[t] = pc[t], t \in waiting <=> t \in waiting'
  PROVE  Held(t)' = Held(t)
  BY DEF Held, Running, Steps

LEMMA HeldStart ==
  ASSUME TypeOK, Idle, NEW t \in Tasks, NEW c \in Calls, Start(t, c)
  PROVE  Held(t)' = {}
  <1>1. t \notin waiting' /\ pc'[t] = 0
    BY DEF TypeOK, QueuesOK, Idle, Start
  <1> QED
    BY <1>1 DEF Held

LEMMA HeldRequest ==
  ASSUME TypeOK, NEW t \in Tasks, Request(t)
  PROVE  Held(t)' \subseteq Held(t)
  <1>1. /\ call[t] \in Calls /\ pc[t] \in Nat /\ t \notin waiting /\ t \in waiting'
        /\ pc[t] < Len(Steps(t)) /\ Running(t)
    BY DEF TypeOK, Request, Running
  <1>2. Scoped(Steps(t))
    BY <1>1, TraceScoped DEF Steps
  <1>3. Len(Steps(t)) \in Nat
    BY <1>2 DEF Scoped
  <1>4. Held(t)' = Steps(t)[pc[t] + 1].keep
    BY <1>1 DEF Held, Request, Steps
  <1>5. CASE pc[t] = 0
    <2>1. Steps(t)[pc[t] + 1].keep = {}
      BY <1>2, <1>5 DEF Scoped
    <2> QED
      BY <1>4, <2>1
  <1>6. CASE pc[t] > 0
    <2>1. pc[t] \in 1..(Len(Steps(t)) - 1)
      BY <1>1, <1>3, <1>6
    <2>2. Held(t) = Steps(t)[pc[t]].keep \union {Steps(t)[pc[t]].take}
      BY <1>1, <1>6 DEF Held
    <2> QED
      BY <1>2, <1>4, <2>1, <2>2 DEF Scoped
  <1> QED
    BY <1>1, <1>5, <1>6

LEMMA HeldGrant ==
  ASSUME TypeOK, NEW t \in waiting, t \notin waiting', call' = call,
         pc'[t] = pc[t] + 1
  PROVE  Held(t)' \subseteq Held(t) \union {Wanted(t)}
  <1>1. Held(t) = Steps(t)[pc[t] + 1].keep
    BY DEF Held
  <1>2. Held(t)' \in {{}, Steps(t)[pc[t] + 1].keep \union {Steps(t)[pc[t] + 1].take}}
    BY DEF Held, Steps
  <1> QED
    BY <1>1, <1>2 DEF Wanted

LEMMA HeldReturn ==
  ASSUME TypeOK, NEW t \in Tasks, Return(t) \/ Fail(t)
  PROVE  Held(t)' = {}
  <1>1. call[t] \in Calls /\ t \notin waiting' /\ pc[t] \in Nat
    BY DEF TypeOK, Return, Fail, Running
  <1>2. Len(Steps(t)) \in Nat
    BY <1>1, TraceScoped DEF Steps, Scoped
  <1>3. pc'[t] = Len(Steps(t)) + 1 /\ Steps(t)' = Steps(t)
    BY DEF TypeOK, Return, Fail, Steps
  <1>4. ~Running(t)'
    BY <1>2, <1>3 DEF Running
  <1> QED
    BY <1>1, <1>4 DEF Held

LEMMA ExclusionStep ==
  ASSUME TypeOK, Idle, MutualExclusion, [Next]_vars
  PROVE  MutualExclusion'
  <1>keep. ASSUME \A u \in Tasks : Held(u)' \subseteq Held(u)
           PROVE  MutualExclusion'
    BY <1>keep DEF MutualExclusion
  <1>1. ASSUME NEW t \in Tasks, NEW c \in Calls, Start(t, c)
        PROVE  MutualExclusion'
    <2>1. \A u \in Tasks \ {t} : Held(u)' = Held(u)
      BY <1>1, HeldUnchanged DEF Start, TypeOK
    <2> QED
      BY <1>1, <2>1, HeldStart, <1>keep
  <1>2. ASSUME NEW t \in Tasks, Request(t)
        PROVE  MutualExclusion'
    <2>1. \A u \in Tasks \ {t} : Held(u)' = Held(u)
      BY <1>2, HeldUnchanged DEF Request
    <2> QED
      BY <1>2, <2>1, HeldRequest, <1>keep
  <1>3. ASSUME NEW t \in Tasks, Return(t) \/ Fail(t)
        PROVE  MutualExclusion'
    <2>1. \A u \in Tasks \ {t} : Held(u)' = Held(u)
      BY <1>3, HeldUnchanged DEF Return, Fail, TypeOK
    <2> QED
      BY <1>3, <2>1, HeldReturn, <1>keep
  <1>4. ASSUME NEW l \in Locks, Grant(l)
        PROVE  MutualExclusion'
    <2>1. PICK t \in waiting : t = Head(queue[l]) /\ Wanted(t).lock = l /\ t \in Tasks
      <3>1. queue[l] \in Seq(Tasks) /\ queue[l] # <<>>
        BY <1>4 DEF Grant, TypeOK
      <3>2. 1 \in DOMAIN queue[l] /\ Head(queue[l]) = queue[l][1]
        BY <3>1
      <3> QED
        BY <3>2 DEF TypeOK, QueuesOK
    <2>2. /\ \A u \in Tasks : ~Blocks(u, t, l)
          /\ pc' = [pc EXCEPT ![t] = @ + 1] /\ waiting' = waiting \ {t} /\ call' = call
      BY <1>4, <2>1 DEF Grant
    <2>3. \A u \in Tasks \ {t} : Held(u)' = Held(u)
      BY <2>2, HeldUnchanged DEF TypeOK
    <2>4. Held(t)' \subseteq Held(t) \union {Wanted(t)}
      BY <2>1, <2>2, HeldGrant DEF TypeOK
    <2>5. \A u \in Tasks : \A g \in Held(u) : g.lock = l => ~g.write /\ ~Wanted(t).write
      BY <2>2 DEF Blocks
    <2>6. ASSUME NEW u \in Tasks, NEW v \in Tasks, NEW g \in Held(u)', NEW h \in Held(v)',
                 g.lock = h.lock, g.write, u # v
          PROVE  FALSE
      <3>1. g \in Held(u) \/ (u = t /\ g = Wanted(t))
        BY <2>3, <2>4
      <3>2. h \in Held(v) \/ (v = t /\ h = Wanted(t))
        BY <2>3, <2>4
      <3>3. CASE g \in Held(u) /\ h \in Held(v)
        BY <2>6, <3>3 DEF MutualExclusion
      <3>4. CASE u = t /\ g = Wanted(t) /\ h \in Held(v)
        BY <2>1, <2>5, <2>6, <3>4
      <3>5. CASE v = t /\ h = Wanted(t) /\ g \in Held(u)
        BY <2>1, <2>5, <2>6, <3>5
      <3> QED
        BY <2>6, <3>1, <3>2, <3>3, <3>4, <3>5
    <2> QED
      BY <2>6 DEF MutualExclusion
  <1>5. CASE UNCHANGED vars
    <2>1. \A u \in Tasks : Held(u)' = Held(u)
      BY <1>5, HeldUnchanged DEF vars
    <2> QED
      BY <2>1, <1>keep
  <1> QED
    BY <1>1, <1>2, <1>3, <1>4, <1>5 DEF Next

(* Whatever the calls, and however they fail half way, nobody holds a lock *)
(* beside a writer.                                                        *)
LEMMA WritersExclude == Spec => []MutualExclusion
  <1>1. Init => Idle /\ MutualExclusion
    BY DEF Init, Idle, MutualExclusion, Held, Running
  <1> QED
    BY <1>1, LocksTypeCorrect, IdleStep, ExclusionStep, PTL DEF Spec

-----------------------------------------------------------------------------
(* What a waiting task that is no suspect holds: locks of a lower rank     *)
(* than the one it waits for, unless that is the cache; and the room's     *)
(* guard, if the order is broken or the cache is among them.               *)
LEMMA WaitsHigher ==
  ASSUME TypeOK, NEW u \in waiting, call[u] \notin Suspects, NEW g \in Held(u)
  PROVE  /\ \/ Rank[g.lock] < Rank[Wanted(u).lock]
            \/ Wanted(u).lock = Cache /\ Write(Room) \in Held(u) /\ g.lock # Cache
         /\ g.lock = Cache => Write(Room) \in Held(u)
  <1>1. u \in Tasks /\ call[u] \in Calls /\ pc[u] \in Nat /\ pc[u] < Len(Steps(u))
    BY DEF TypeOK, QueuesOK
  <1>2. Steps(u) \in Seq(Step) /\ Nested(Steps(u), 0)
    BY <1>1, TraceOrder DEF Steps
  <1>3. pc[u] + 1 \in 1..Len(Steps(u))
    BY <1>1, <1>2
  <1>4. Held(u) = Steps(u)[pc[u] + 1].keep /\ Wanted(u) = Steps(u)[pc[u] + 1].take
    BY DEF Held, Wanted
  <1>5. PICK s : s = Steps(u)[pc[u] + 1]
    OBVIOUS
  <1>6. /\ Rank[g.lock] < Rank[s.take.lock] \/ TakesCache(s)
        /\ Orderly(s) \/ Write(Room) \in s.keep
    BY <1>2, <1>3, <1>4, <1>5 DEF Nested
  <1> QED
    BY <1>4, <1>5, <1>6 DEF Orderly, TakesCache

(* A task that keeps the first waiter of l waiting and waits in D itself   *)
(* waits for a lock above l: if it waited for the cache with the group     *)
(* locked, the cache's owner would have the room's guard besides it.       *)
LEMMA WaitsAbove ==
  ASSUME TypeOK, MutualExclusion, NEW D \in SUBSET Locks, Deadlock(D),
         \A u \in Tasks : WaitsIn(u, D) => call[u] \notin Suspects,
         NEW l \in D
  PROVE  \E m \in D : Rank[l] < Rank[m]
  <1>1. PICK u \in Tasks : Blocks(u, Head(queue[l]), l) /\ WaitsIn(u, D)
    BY DEF Deadlock
  <1>2. PICK g \in Held(u) : g.lock = l
    BY <1>1 DEF Blocks
  <1>3. u \in waiting /\ Wanted(u).lock \in D /\ call[u] \notin Suspects
    BY <1>1 DEF WaitsIn
  <1>4. CASE Rank[l] < Rank[Wanted(u).lock]
    BY <1>3, <1>4
  <1>5. CASE /\ Wanted(u).lock = Cache /\ Write(Room) \in Held(u)
             /\ \A h \in Held(u) : h.lock # Cache
    <2>1. PICK v \in Tasks : Blocks(v, Head(queue[Cache]), Cache) /\ WaitsIn(v, D)
      BY <1>3, <1>5 DEF Deadlock
    <2>2. PICK h \in Held(v) : h.lock = Cache
      BY <2>1 DEF Blocks
    <2>3. v \in waiting /\ call[v] \notin Suspects
      BY <2>1 DEF WaitsIn
    <2>4. Write(Room) \in Held(v)
      BY <2>2, <2>3, WaitsHigher
    <2>5. u = v
      BY <1>5, <2>4 DEF MutualExclusion, Write
    <2> QED
      BY <1>5, <2>2, <2>5
  <1>6. \A h \in Held(u) :
          \/ Rank[h.lock] < Rank[Wanted(u).lock]
          \/ Wanted(u).lock = Cache /\ Write(Room) \in Held(u) /\ h.lock # Cache
    BY <1>3, WaitsHigher
  <1>7. \A h \in Held(u) : Rank[h.lock] < Rank[Wanted(u).lock] => h.lock # Wanted(u).lock
    <2>1. Rank[Wanted(u).lock] \in Int
      BY <1>3, RankType
    <2> QED
      BY <2>1
  <1> QED
    BY <1>2, <1>4, <1>5, <1>6, <1>7

(* Among the locks of a cycle without a suspect there is none of highest   *)
(* rank, so there is no such cycle.                                        *)
LEMMA NoCycle ==
  ASSUME TypeOK, MutualExclusion, NEW D \in SUBSET Locks, Deadlock(D),
         \A u \in Tasks : WaitsIn(u, D) => call[u] \notin Suspects
  PROVE  FALSE
  <1>1. \A l \in D : \E m \in D : Rank[l] < Rank[m]
    BY WaitsAbove
  <1>2. PICK l1 \in D : TRUE
    BY DEF Deadlock
  <1>3. PICK l2 \in D : Rank[l1] < Rank[l2]
    BY <1>1, <1>2
  <1>4. PICK l3 \in D : Rank[l2] < Rank[l3]
    BY <1>1, <1>3
  <1>5. PICK l4 \in D : Rank[l3] < Rank[l4]
    BY <1>1, <1>4
  <1>6. PICK l5 \in D : Rank[l4] < Rank[l5]
    BY <1>1, <1>5
  <1>7. PICK l6 \in D : Rank[l5] < Rank[l6]
    BY <1>1, <1>6
  <1>8. PICK l7 \in D : Rank[l6] < Rank[l7]
    BY <1>1, <1>7
  <1>9. PICK l8 \in D : Rank[l7] < Rank[l8]
    BY <1>1, <1>8
  <1>10. PICK l9 \in D : Rank[l8] < Rank[l9]
    BY <1>1, <1>9
  <1>11. /\ {Rank[l1], Rank[l2], Rank[l3], Rank[l4], Rank[l5]} \subseteq 1..8
         /\ {Rank[l6], Rank[l7], Rank[l8], Rank[l9]} \subseteq 1..8
    BY RankType
  <1> QED
    BY <1>3, <1>4, <1>5, <1>6, <1>7, <1>8, <1>9, <1>10, <1>11

(* Whatever the calls, however many tasks: there is no deadlock without    *)
(* leave_meeting, remove_participant or the callback's registration in it. *)
THEOREM NoDeadlock == Spec => []DeadlockNeedsSuspect
  <1>1. TypeOK /\ MutualExclusion => DeadlockNeedsSuspect
    BY NoCycle DEF DeadlockNeedsSuspect
  <1> QED
    BY <1>1, LocksTypeCorrect, WritersExclude, PTL
=============================================================================
