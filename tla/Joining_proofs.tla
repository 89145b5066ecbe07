--------------------------- MODULE Joining_proofs ---------------------------
(***************************************************************************)
(* A client that has joined is on the server's log, a verdict that it is   *)
(* up to date is sound, and a client never sleeps on a Welcome it has.     *)
(***************************************************************************)
EXTENDS Joining, WellFoundedInduction, TLAPS

USE JoiningAssumption

Commit == [by : Clients, adds : SUBSET Clients]

LEMMA PrefixItems ==
  ASSUME NEW s \in Seq(Commit), NEW t \in Seq(Commit)
  PROVE  IsPrefix(s, t) <=> /\ Len(s) <= Len(t)
                            /\ \A i \in 1..Len(s) : s[i] = t[i]
  <1>1. ASSUME Len(s) <= Len(t)
        PROVE  /\ SubSeq(s, 1, Len(s)) \in Seq(Commit)
               /\ Len(SubSeq(s, 1, Len(s))) = Len(s)
               /\ \A i \in 1..Len(s) : SubSeq(s, 1, Len(s))[i] = s[i]
               /\ SubSeq(t, 1, Len(s)) \in Seq(Commit)
               /\ Len(SubSeq(t, 1, Len(s))) = Len(s)
               /\ \A i \in 1..Len(s) : SubSeq(t, 1, Len(s))[i] = t[i]
    BY <1>1
  <1>2. CASE IsPrefix(s, t)
    BY <1>1, <1>2 DEF IsPrefix
  <1>3. CASE Len(s) <= Len(t) /\ \A i \in 1..Len(s) : s[i] = t[i]
    <2>1. SubSeq(s, 1, Len(s)) = SubSeq(t, 1, Len(s))
      BY <1>1, <1>3
    <2> QED
      BY <2>1, <1>3 DEF IsPrefix
  <1> QED
    BY <1>2, <1>3

LEMMA PrefixGrows ==
  ASSUME NEW s \in Seq(Commit), NEW t \in Seq(Commit), NEW x \in Commit,
         IsPrefix(s, t)
  PROVE  IsPrefix(s, Append(t, x))
  <1>1. /\ Append(t, x) \in Seq(Commit)
        /\ Len(Append(t, x)) = Len(t) + 1
        /\ \A i \in 1..Len(t) : Append(t, x)[i] = t[i]
    OBVIOUS
  <1>2. Len(s) <= Len(t) /\ \A i \in 1..Len(s) : s[i] = t[i]
    BY PrefixItems
  <1> DEFINE u == Append(t, x)
  <1>3. Len(s) <= Len(u) /\ \A i \in 1..Len(s) : s[i] = u[i]
    BY <1>1, <1>2
  <1>4. u \in Seq(Commit)
    BY <1>1
  <1> HIDE DEF u
  <1>5. IsPrefix(s, u)
    BY <1>3, <1>4, PrefixItems
  <1> QED
    BY <1>5 DEF u

LEMMA PrefixOfLog ==
  ASSUME NEW t \in Seq(Commit), NEW n \in 0..Len(t)
  PROVE  /\ SubSeq(t, 1, n) \in Seq(Commit)
         /\ Len(SubSeq(t, 1, n)) = n
         /\ IsPrefix(SubSeq(t, 1, n), t)
  <1>1. /\ SubSeq(t, 1, n) \in Seq(Commit)
        /\ Len(SubSeq(t, 1, n)) = n
        /\ \A i \in 1..n : SubSeq(t, 1, n)[i] = t[i]
    OBVIOUS
  <1> DEFINE u == SubSeq(t, 1, n)
  <1>2. /\ u \in Seq(Commit) /\ Len(u) <= Len(t)
        /\ \A i \in 1..Len(u) : u[i] = t[i]
    BY <1>1
  <1> HIDE DEF u
  <1>3. IsPrefix(u, t)
    BY <1>2, PrefixItems
  <1> QED
    BY <1>1, <1>3 DEF u

LEMMA SeqOfMore ==
  ASSUME NEW S, NEW T, S \subseteq T, NEW s \in Seq(S)
  PROVE  s \in Seq(T)
  OBVIOUS

LEMMA CaughtUpType ==
  ASSUME NEW c \in Clients, log \in Seq(Commit),
         cache[c] \in SUBSET (1..Len(log)),
         NEW n \in 1..Len(log)
  PROVE  CaughtUp(c, n) \in n..Len(log)
  <1> DEFINE T == {k \in n..Len(log) : k + 1 \notin cache[c]}
  <1>1. Len(log) \in T /\ T \subseteq Nat
    <2>1. Len(log) \in Nat /\ Len(log) + 1 \notin 1..Len(log)
      OBVIOUS
    <2> QED
      BY <2>1
  <1> HIDE DEF T
  <1>2. PICK k \in T : \A m \in T : ~(<<m, k>> \in OpToRel(<, Nat))
    BY <1>1, NatLessThanWellFounded, WFMin
  <1>3. \A m \in T : ~(m < k)
    BY <1>1, <1>2 DEF OpToRel
  <1> USE DEF T
  <1>4. ASSUME NEW j \in n + 1..k
        PROVE  j \in cache[c]
    <2>1. j - 1 \in n..Len(log) /\ j - 1 < k /\ (j - 1) + 1 = j
      OBVIOUS
    <2> QED
      BY <2>1, <1>3
  <1>5. k \in n..Len(log) /\ n + 1..k \subseteq cache[c] /\ k + 1 \notin cache[c]
    BY <1>4
  <1> QED
    BY <1>5 DEF CaughtUp

-----------------------------------------------------------------------------
(* The invariant. *)

Checks == [pc : {"idle", "epoch", "summary", "compare"}, before : Nat,
           server : Nat, tries : Nat, reconnected : BOOLEAN]

Types ==
  /\ TypeOK
  /\ group \in [Clients -> Seq(Commit)]
  /\ check \in [Clients -> Checks]

(* What an upload in progress is about: the candidate, or a prefix of the  *)
(* log when the handler has replaced it.                                   *)
Candidate(c) ==
  \/ IsPrefix(group[c], log)
  \/ group[c] # <<>> /\ Last(group[c]) = Joins(c)

OnLog ==
  \A c \in Clients :
    /\ pc[c] = "upload" => Candidate(c)
    /\ pc[c] \in {"ok", "joined", "in"} => IsPrefix(group[c], log)

(* A check runs while its client is in the meeting. *)
CheckInside ==
  \A c \in Clients : check[c].pc # "idle" => pc[c] = "in" /\ sync[c] # "Failed"

JoinInv == Types /\ OnLog /\ CheckInside

LEMMA JoinInit == Init => JoinInv
  <1> SUFFICES ASSUME Init
               PROVE  JoinInv
    OBVIOUS
  <1>1. Types
    BY DEF Init, Types, TypeOK, Labels, Checks, NoCheck
  <1> QED
    BY <1>1 DEF Init, JoinInv, OnLog, CheckInside, NoCheck

-----------------------------------------------------------------------------
(* The steps of a join that change neither a group nor the log. *)

(* The variables of a join in progress. *)
JoinTypes ==
  /\ pc \in [Clients -> Labels]
  /\ mode \in [Clients -> {"none", "commit", "proposal", "switch", "last"}]
  /\ tries \in [Clients -> 0..MaxRetries]
  /\ info \in [Clients -> 0..Len(log)]
  /\ woken \in [Clients -> BOOLEAN]
  /\ state \in [Clients -> {"Pending", "WaitingForJoinProposalWelcome",
                            "Success"}]
  /\ welcome \in [Clients -> 0..Len(log)]
  /\ conn \in [Clients -> BOOLEAN]

LEMMA FailType ==
  ASSUME Types, NEW c \in Clients, Fail(c), UNCHANGED log
  PROVE  JoinTypes'
  <1>1. /\ log \in Seq(Commit) /\ 0 \in 0..Len(log) /\ 0 \in 0..MaxRetries
        /\ JoinTypes
    BY DEF Types, TypeOK, JoinTypes, Commit, JoiningAssumption
  <1>2. pc' \in [Clients -> Labels]
    BY <1>1 DEF JoinTypes, Fail, Return, Goto, Labels
  <1>3. mode' \in [Clients -> {"none", "commit", "proposal", "switch", "last"}]
    BY <1>1 DEF JoinTypes, Fail, Return
  <1>4. tries' \in [Clients -> 0..MaxRetries] /\ info' \in [Clients -> 0..Len(log)]
    BY <1>1 DEF JoinTypes, Fail, Return
  <1>5. /\ woken' \in [Clients -> BOOLEAN]
        /\ conn' \in [Clients -> BOOLEAN]
    BY <1>1 DEF JoinTypes, Fail, Return
  <1>6. /\ state' \in [Clients -> {"Pending", "WaitingForJoinProposalWelcome", "Success"}]
        /\ welcome' \in [Clients -> 0..Len(log)]
    BY <1>1 DEF JoinTypes, Fail, SetState
  <1> QED
    BY <1>2, <1>3, <1>4, <1>5, <1>6 DEF JoinTypes

LEMMA AgainType ==
  ASSUME Types, NEW c \in Clients, NEW g \in 0..Len(log), Again(c, g),
         UNCHANGED log
  PROVE  /\ JoinTypes'
         /\ \/ pc' = [pc EXCEPT ![c] = "fetch"]
            \/ pc' = [pc EXCEPT ![c] = "out"]
  <1>1. JoinTypes /\ MaxRetries \in Nat
    BY DEF Types, TypeOK, JoinTypes, JoiningAssumption
  <1>2. CASE Fail(c)
    BY <1>2, FailType DEF Fail, Return, Goto
  <1>3. CASE /\ tries[c] < MaxRetries
             /\ tries' = [tries EXCEPT ![c] = @ + 1]
             /\ Goto(c, "fetch")
             /\ info' = [info EXCEPT ![c] = g]
             /\ UNCHANGED <<mode, woken, state, welcome, conn>>
    <2>1. tries' \in [Clients -> 0..MaxRetries] /\ info' \in [Clients -> 0..Len(log)]
      BY <1>1, <1>3 DEF JoinTypes
    <2>2. pc' = [pc EXCEPT ![c] = "fetch"] /\ pc' \in [Clients -> Labels]
      BY <1>1, <1>3 DEF JoinTypes, Goto, Labels
    <2> QED
      BY <1>1, <1>3, <2>1, <2>2 DEF JoinTypes
  <1>4. CASE /\ mode' = [mode EXCEPT ![c] = "last"]
             /\ Goto(c, "fetch")
             /\ UNCHANGED <<tries, info, woken, state, welcome, conn>>
    <2>1. mode' \in [Clients -> {"none", "commit", "proposal", "switch", "last"}]
      BY <1>1, <1>4 DEF JoinTypes
    <2>2. pc' = [pc EXCEPT ![c] = "fetch"] /\ pc' \in [Clients -> Labels]
      BY <1>1, <1>4 DEF JoinTypes, Goto, Labels
    <2> QED
      BY <1>1, <1>4, <2>1, <2>2 DEF JoinTypes
  <1> QED
    BY <1>2, <1>3, <1>4 DEF Again

(* A step that changes where the join of one client stands, and neither a  *)
(* group nor the log. *)
LEMMA JoinTypesStep ==
  ASSUME Types, JoinTypes', UNCHANGED <<log, group, cache, check, sync>>,
         proposed' \in [Clients -> 0..Len(log)],
         wire' \in [Clients -> Seq([kind : {"commit", "welcome"}, at : 1..Len(log)])]
  PROVE  Types'
  BY DEF Types, TypeOK, JoinTypes

LEMMA PcStep ==
  ASSUME JoinInv, NEW c \in Clients, NEW l \in Labels \ {"upload", "ok", "joined", "in"},
         pc[c] # "in" \/ check[c].pc = "idle",
         pc' = [pc EXCEPT ![c] = l],
         UNCHANGED <<log, group, check>>,
         \A d \in Clients : sync'[d] = sync[d] \/ d = c
  PROVE  OnLog' /\ CheckInside'
  BY DEF JoinInv, Types, TypeOK, OnLog, CheckInside, Candidate

LEMMA StartStep ==
  ASSUME JoinInv, NEW c \in Clients, Start(c)
  PROVE  JoinInv'
  <1>1. JoinTypes
    BY DEF JoinInv, Types, TypeOK, JoinTypes
  <1>2. /\ pc' = [pc EXCEPT ![c] = "fetch"]
        /\ mode' \in [Clients -> {"none", "commit", "proposal", "switch", "last"}]
    BY <1>1 DEF JoinTypes, Start, Goto
  <1>3. pc' \in [Clients -> Labels] /\ pc[c] # "in" /\ "fetch" \in Labels
    BY <1>1, <1>2 DEF JoinTypes, Start, Labels
  <1>4. JoinTypes'
    BY <1>1, <1>2, <1>3 DEF JoinTypes, Start, server, net, mls
  <1>5. Types'
    BY <1>4, JoinTypesStep DEF JoinInv, Types, TypeOK, Start, server, net, mls, health
  <1> QED
    BY <1>2, <1>3, <1>5, PcStep DEF JoinInv, Start, server, mls, health

(* A join that fails, or starts over. *)
LEMMA EndStep ==
  ASSUME JoinInv, NEW c \in Clients,
         pc[c] # "in" \/ check[c].pc = "idle",
         Fail(c) \/ \E g \in 0..Len(log) : Again(c, g),
         proposed' \in [Clients -> 0..Len(log)],
         UNCHANGED <<log, wire, group, cache, health>>
  PROVE  JoinInv'
  <1>1. /\ JoinTypes'
        /\ \/ pc' = [pc EXCEPT ![c] = "fetch"]
           \/ pc' = [pc EXCEPT ![c] = "out"]
    BY FailType, AgainType DEF JoinInv, Fail, Return, Goto
  <1>2. Types'
    BY <1>1, JoinTypesStep DEF JoinInv, Types, TypeOK, health
  <1>3. {"fetch", "out"} \subseteq Labels
    BY DEF Labels
  <1> QED
    BY <1>1, <1>2, <1>3, PcStep DEF JoinInv, health

LEMMA FetchFailsStep ==
  ASSUME JoinInv, NEW c \in Clients, FetchFails(c)
  PROVE  JoinInv'
  BY EndStep DEF FetchFails, server, JoinInv, Types, TypeOK

LEMMA TimeoutStep ==
  ASSUME JoinInv, NEW c \in Clients, WelcomeTimeout(c)
  PROVE  JoinInv'
  <1>1. info[c] \in 0..Len(log) /\ pc[c] # "in"
    BY DEF JoinInv, Types, TypeOK, WelcomeTimeout
  <1> QED
    BY <1>1, EndStep DEF WelcomeTimeout, server, JoinInv, Types, TypeOK

LEMMA ProposalStep ==
  ASSUME JoinInv, NEW c \in Clients, ExternalProposal(c)
  PROVE  JoinInv'
  <1>1. JoinTypes /\ log \in Seq(Commit)
    BY DEF JoinInv, Types, TypeOK, JoinTypes, Commit
  <1>2. pc' = [pc EXCEPT ![c] = "post"] /\ info' \in [Clients -> 0..Len(log)]
    BY <1>1 DEF JoinTypes, ExternalProposal, Goto
  <1>3. pc' \in [Clients -> Labels] /\ pc[c] # "in" /\ "post" \in Labels
    BY <1>1, <1>2 DEF JoinTypes, ExternalProposal, Labels
  <1>4. JoinTypes'
    BY <1>1, <1>2, <1>3 DEF JoinTypes, ExternalProposal, server, net, mls
  <1>5. Types'
    BY <1>4, JoinTypesStep
       DEF JoinInv, Types, TypeOK, ExternalProposal, server, net, mls, health
  <1> QED
    BY <1>2, <1>3, <1>5, PcStep DEF JoinInv, ExternalProposal, server, mls, health

LEMMA PostStep ==
  ASSUME JoinInv, NEW c \in Clients, Post(c)
  PROVE  JoinInv'
  <1>1. /\ JoinTypes /\ info[c] \in 0..Len(log) /\ 0 \in 0..Len(log)
        /\ proposed \in [Clients -> 0..Len(log)]
    BY DEF JoinInv, Types, TypeOK, JoinTypes
  <1>2. pc[c] = "post" /\ UNCHANGED <<log, wire, group, cache, health>>
    BY DEF Post
  <1>3. CASE /\ proposed' = [proposed EXCEPT ![c] = info[c]]
             /\ Goto(c, "posted")
             /\ UNCHANGED <<info, woken, state, welcome, conn, mode, tries>>
    <2>1. /\ pc' = [pc EXCEPT ![c] = "posted"] /\ pc' \in [Clients -> Labels]
          /\ "posted" \in Labels
      BY <1>1, <1>3 DEF JoinTypes, Goto, Labels
    <2>2. JoinTypes'
      BY <1>1, <1>2, <1>3, <2>1 DEF JoinTypes
    <2>3. Types'
      BY <1>1, <1>2, <1>3, <2>2, JoinTypesStep DEF JoinInv, Types, TypeOK, health
    <2> QED
      BY <1>2, <2>1, <2>3, PcStep DEF JoinInv, health
  <1>4. CASE (Again(c, 0) \/ Again(c, info[c]) \/ Fail(c)) /\ UNCHANGED proposed
    BY <1>1, <1>2, <1>4, EndStep
  <1> QED
    BY <1>3, <1>4 DEF Post

(* The wait for the Welcome. *)
LEMMA WaitStep ==
  ASSUME JoinInv, NEW c \in Clients,
         Posted(c) \/ Listen(c) \/ Look(c) \/ Wake(c)
  PROVE  JoinInv'
  <1>1. JoinTypes
    BY DEF JoinInv, Types, TypeOK, JoinTypes
  <1>2. PICK l \in {"wait", "look", "welcomed", "sleep"} : pc' = [pc EXCEPT ![c] = l]
    BY DEF Posted, Listen, Look, Wake, Goto
  <1>3. /\ pc' \in [Clients -> Labels] /\ pc[c] # "in"
        /\ l \in Labels \ {"upload", "ok", "joined", "in"}
    BY <1>1, <1>2 DEF JoinTypes, Posted, Listen, Look, Wake, Labels
  <1>4. state' \in [Clients -> {"Pending", "WaitingForJoinProposalWelcome", "Success"}]
    BY <1>1 DEF JoinTypes, Posted, Listen, Look, Wake, SetState, mls
  <1>5. woken' \in [Clients -> BOOLEAN] /\ info' \in [Clients -> 0..Len(log)]
    BY <1>1 DEF JoinTypes, Posted, Listen, Look, Wake
  <1>6. UNCHANGED <<server, net, group, cache, welcome, mode, tries, health>>
    BY DEF Posted, Listen, Look, Wake, mls
  <1>7. JoinTypes'
    BY <1>1, <1>3, <1>4, <1>5, <1>6 DEF JoinTypes, server, net
  <1>8. Types'
    BY <1>6, <1>7, JoinTypesStep DEF JoinInv, Types, TypeOK, server, net, health
  <1> QED
    BY <1>2, <1>3, <1>6, <1>8, PcStep DEF JoinInv, server, health

-----------------------------------------------------------------------------
(* The commits that the server takes. *)

LEMMA AcceptGrows ==
  ASSUME Types, NEW c \in Clients, NEW commit \in Commit, Accept(c, commit)
  PROVE  /\ log' \in Seq(Commit)
         /\ Len(log') = Len(log) + 1
         /\ wire' \in [Clients -> Seq([kind : {"commit", "welcome"}, at : 1..Len(log')])]
         /\ \A s \in Seq(Commit) : IsPrefix(s, log) => IsPrefix(s, log')
         /\ IsPrefix(log', log')
  <1>1. log \in Seq(Commit)
    BY DEF Types, TypeOK, Commit
  <1>2. log' = Append(log, commit) /\ log' \in Seq(Commit) /\ Len(log') = Len(log) + 1
    BY <1>1 DEF Accept
  <1>3. \A s \in Seq(Commit) : IsPrefix(s, log) => IsPrefix(s, log')
    BY <1>1, <1>2, PrefixGrows
  <1>4. IsPrefix(log', log')
    BY <1>2 DEF IsPrefix
  <1> DEFINE Old == [kind : {"commit", "welcome"}, at : 1..Len(log)]
             New == [kind : {"commit", "welcome"}, at : 1..Len(log')]
             Sent(d) == [kind |-> IF d \in commit.adds THEN "welcome" ELSE "commit",
                         at |-> Len(log')]
  <1>5. Old \subseteq New /\ \A d \in Clients : Sent(d) \in New
    BY <1>1, <1>2
  <1>6. ASSUME NEW d \in Clients
        PROVE  wire[d] \in Seq(New) /\ Append(wire[d], Sent(d)) \in Seq(New)
    <2>1. wire[d] \in Seq(Old)
      BY DEF Types, TypeOK
    <2>2. Old \subseteq New /\ Sent(d) \in New
      BY <1>5
    <2> HIDE DEF Old, New, Sent
    <2>3. wire[d] \in Seq(New)
      BY <2>1, <2>2, SeqOfMore
    <2> QED
      BY <2>2, <2>3
  <1>7. wire' = [d \in Clients |-> IF d = c \/ ~conn[d] THEN wire[d]
                                   ELSE Append(wire[d], Sent(d))]
    BY DEF Accept
  <1> HIDE DEF Old, New, Sent
  <1>8. wire' \in [Clients -> Seq(New)]
    BY <1>6, <1>7
  <1> QED
    BY <1>2, <1>3, <1>4, <1>8 DEF New

LEMMA AcceptTypes ==
  ASSUME Types, NEW c \in Clients, NEW commit \in Commit, Accept(c, commit),
         pc' \in [Clients -> Labels],
         proposed' \in [Clients -> 0..Len(log')],
         group' \in [Clients -> Seq(Commit)],
         \A d \in Clients : group'[d] = group[d] \/ group'[d] = log',
         UNCHANGED <<conn, state, cache, welcome, woken, mode, tries, info, health>>
  PROVE  Types'
  <1>1. log \in Seq(Commit) /\ Len(log') = Len(log) + 1
    BY AcceptGrows DEF Types, TypeOK, Commit
  <1>2. \A d \in Clients : Len(group'[d]) \in 0..Len(log') + 1
    <2>1. \A d \in Clients : Len(group[d]) \in 0..Len(log) + 1
      BY DEF Types, TypeOK
    <2> QED
      BY <1>1, <2>1
  <1>3. /\ 0..Len(log) \subseteq 0..Len(log')
        /\ 1..Len(log) \subseteq 1..Len(log')
    BY <1>1
  <1>4. /\ cache' \in [Clients -> SUBSET (1..Len(log'))]
        /\ welcome' \in [Clients -> 0..Len(log')]
        /\ info' \in [Clients -> 0..Len(log')]
        /\ \A d \in Clients : check'[d].server \in 0..Len(log')
    BY <1>3 DEF Types, TypeOK, health
  <1>5. /\ log' \in Seq([by : Clients, adds : SUBSET Clients])
        /\ wire' \in [Clients -> Seq([kind : {"commit", "welcome"}, at : 1..Len(log')])]
    BY AcceptGrows DEF Commit
  <1> QED
    BY <1>2, <1>4, <1>5 DEF Types, TypeOK, health

LEMMA MemberStep ==
  ASSUME JoinInv, NEW c \in Clients, NEW adds \in SUBSET Clients, MemberCommit(c, adds)
  PROVE  JoinInv'
  <1> DEFINE commit == [by |-> c, adds |-> adds]
  <1>1. /\ Types /\ commit \in Commit /\ Accept(c, commit)
        /\ log \in Seq(Commit)
        /\ proposed \in [Clients -> 0..Len(log)]
    BY DEF JoinInv, MemberCommit, Commit, Types, TypeOK
  <1> HIDE DEF commit
  <1>2. /\ log' \in Seq(Commit) /\ Len(log') = Len(log) + 1 /\ Len(log) \in Nat
        /\ \A s \in Seq(Commit) : IsPrefix(s, log) => IsPrefix(s, log')
        /\ IsPrefix(log', log')
    BY <1>1, AcceptGrows
  <1>3. group' = [group EXCEPT ![c] = log'] /\ group \in [Clients -> Seq(Commit)]
    BY <1>1 DEF MemberCommit, SetGroup, Types
  <1>4. proposed' \in [Clients -> 0..Len(log')]
    BY <1>1, <1>2 DEF MemberCommit
  <1>5. Types'
    BY <1>1, <1>2, <1>3, <1>4, AcceptTypes DEF MemberCommit, join, Types, TypeOK
  <1>6. OnLog'
    BY <1>2, <1>3 DEF JoinInv, OnLog, Candidate, MemberCommit, join
  <1>7. CheckInside'
    BY DEF JoinInv, CheckInside, MemberCommit, join, health
  <1> QED
    BY <1>5, <1>6, <1>7 DEF JoinInv

(* A candidate is stored. *)
LEMMA CandidateStep ==
  ASSUME JoinInv, NEW c \in Clients, CreateGroup(c) \/ ExternalCommit(c)
  PROVE  JoinInv'
  <1>1. /\ log \in Seq(Commit) /\ Joins(c) \in Commit
        /\ group \in [Clients -> Seq(Commit)] /\ pc \in [Clients -> Labels]
    BY DEF JoinInv, Types, TypeOK, Joins, Commit
  <1>2. PICK s \in Seq(Commit) : group' = [group EXCEPT ![c] = Append(s, Joins(c))]
                                 /\ Len(s) = Len(log)
    <2>1. CASE CreateGroup(c)
      <3>1. <<>> \in Seq(Commit) /\ <<Joins(c)>> = Append(<<>>, Joins(c))
        OBVIOUS
      <3> QED
        BY <2>1, <3>1 DEF CreateGroup, SetGroup
    <2>2. CASE ExternalCommit(c)
      BY <2>2, <1>1 DEF ExternalCommit, SetGroup
    <2> QED
      BY <2>1, <2>2
  <1>3. /\ Append(s, Joins(c)) \in Seq(Commit)
        /\ Len(Append(s, Joins(c))) = Len(log) + 1
        /\ Append(s, Joins(c)) # <<>>
        /\ Last(Append(s, Joins(c))) = Joins(c)
    BY <1>1, <1>2 DEF Last
  <1>4. pc' = [pc EXCEPT ![c] = "upload"] /\ pc[c] = "fetch"
    BY DEF CreateGroup, ExternalCommit, Goto
  <1>5. UNCHANGED <<server, net, state, cache, welcome, mode, tries, info, woken, health>>
    BY DEF CreateGroup, ExternalCommit
  <1>6. pc' \in [Clients -> Labels] /\ group' \in [Clients -> Seq(Commit)]
    BY <1>1, <1>2, <1>3, <1>4 DEF Labels
  <1>7. \A d \in Clients : Len(group'[d]) \in 0..Len(log) + 1
    <2>1. \A d \in Clients : Len(group[d]) \in 0..Len(log) + 1
      BY DEF JoinInv, Types, TypeOK
    <2> QED
      BY <1>1, <1>2, <1>3, <2>1
  <1>8. Types'
    BY <1>5, <1>6, <1>7 DEF JoinInv, Types, TypeOK, server, net, health
  <1>9. OnLog'
    BY <1>1, <1>2, <1>3, <1>4, <1>5 DEF JoinInv, OnLog, Candidate, server, Joins
  <1>10. CheckInside'
    BY <1>1, <1>4, <1>5 DEF JoinInv, CheckInside, health
  <1> QED
    BY <1>8, <1>9, <1>10 DEF JoinInv

(* What the server accepts is the candidate, and the log is then the       *)
(* client's history.                                                       *)
LEMMA DecideStep ==
  ASSUME JoinInv, NEW c \in Clients, ServerDecide(c)
  PROVE  JoinInv'
  <1>1. /\ Types /\ log \in Seq(Commit) /\ Joins(c) \in Commit
        /\ group \in [Clients -> Seq(Commit)] /\ pc \in [Clients -> Labels]
        /\ proposed \in [Clients -> 0..Len(log)]
    BY DEF JoinInv, Types, TypeOK, Joins, Commit
  <1>2. PICK l \in {"ok", "error", "conflict"} : pc' = [pc EXCEPT ![c] = l]
    BY DEF ServerDecide, Goto
  <1>3. pc' \in [Clients -> Labels] /\ pc[c] = "upload"
    BY <1>1, <1>2 DEF ServerDecide, Labels
  <1>4. UNCHANGED <<proposed, conn, mls, mode, tries, info, woken, health>>
    BY DEF ServerDecide
  <1>5. CheckInside'
    BY <1>1, <1>2, <1>3, <1>4 DEF JoinInv, CheckInside, health
  <1>6. CASE UNCHANGED <<log, wire>> /\ l # "ok"
    <2>1. Types'
      BY <1>3, <1>4, <1>6 DEF JoinInv, Types, TypeOK, mls, health
    <2>2. OnLog'
      BY <1>1, <1>2, <1>4, <1>6 DEF JoinInv, OnLog, Candidate, mls
    <2> QED
      BY <1>5, <2>1, <2>2 DEF JoinInv
  <1>7. CASE UpToDate(c) /\ Accept(c, Joins(c))
    <2>1. /\ log' \in Seq(Commit) /\ Len(log') = Len(log) + 1 /\ Len(log) \in Nat
          /\ \A s \in Seq(Commit) : IsPrefix(s, log) => IsPrefix(s, log')
          /\ IsPrefix(log', log')
      BY <1>1, <1>7, AcceptGrows
    <2>2. group[c] = log'
      <3>1. /\ group[c] \in Seq(Commit) /\ group[c] # <<>>
            /\ SubSeq(group[c], 1, Len(group[c]) - 1) = log
        BY <1>1, <1>7 DEF UpToDate, Front
      <3>2. Len(log) = Len(group[c]) - 1
        BY <3>1
      <3>3. ~IsPrefix(group[c], log)
        BY <3>1, <3>2 DEF IsPrefix
      <3>4. group[c][Len(group[c])] = Joins(c)
        BY <1>3, <3>3 DEF JoinInv, OnLog, Candidate, Last
      <3>5. group[c] = Append(SubSeq(group[c], 1, Len(group[c]) - 1),
                              group[c][Len(group[c])])
        BY <3>1
      <3> QED
        BY <1>7, <3>1, <3>4, <3>5 DEF Accept
    <2>3. 0..Len(log) \subseteq 0..Len(log')
      BY <2>1
    <2>4. Types'
      BY <1>1, <1>3, <1>4, <1>7, <2>3, AcceptTypes DEF mls, health
    <2>5. OnLog'
      BY <1>1, <1>2, <1>4, <2>1, <2>2 DEF JoinInv, OnLog, Candidate, mls
    <2> QED
      BY <1>5, <2>4, <2>5 DEF JoinInv
  <1> QED
    BY <1>1, <1>2, <1>6, <1>7 DEF ServerDecide, Goto, UpToDate

-----------------------------------------------------------------------------
(* The end of a join, and the Welcome. *)

LEMMA ReturnType ==
  ASSUME Types, NEW c \in Clients, NEW l \in Labels, Return(c, l), UNCHANGED log
  PROVE  /\ pc' = [pc EXCEPT ![c] = l]
         /\ pc' \in [Clients -> Labels]
         /\ mode' \in [Clients -> {"none", "commit", "proposal", "switch", "last"}]
         /\ tries' \in [Clients -> 0..MaxRetries]
         /\ info' \in [Clients -> 0..Len(log)]
         /\ woken' \in [Clients -> BOOLEAN]
  <1>1. /\ log \in Seq(Commit) /\ 0 \in 0..Len(log) /\ 0 \in 0..MaxRetries
        /\ JoinTypes
    BY DEF Types, TypeOK, JoinTypes, Commit, JoiningAssumption
  <1>2. pc' = [pc EXCEPT ![c] = l] /\ pc' \in [Clients -> Labels]
    BY <1>1 DEF JoinTypes, Return, Goto
  <1>3. mode' \in [Clients -> {"none", "commit", "proposal", "switch", "last"}]
    BY <1>1 DEF JoinTypes, Return
  <1>4. tries' \in [Clients -> 0..MaxRetries] /\ info' \in [Clients -> 0..Len(log)]
    BY <1>1 DEF JoinTypes, Return
  <1>5. woken' \in [Clients -> BOOLEAN]
    BY <1>1 DEF JoinTypes, Return
  <1> QED
    BY <1>2, <1>3, <1>4, <1>5

LEMMA SuccessTypes ==
  ASSUME Types, NEW c \in Clients, Return(c, "in"), SetState(c, "Success"),
         welcome' = welcome \/ welcome' = [welcome EXCEPT ![c] = 0],
         UNCHANGED <<log, conn>>
  PROVE  JoinTypes' /\ pc' = [pc EXCEPT ![c] = "in"]
  <1>1. /\ "in" \in Labels /\ log \in Seq(Commit) /\ 0 \in 0..Len(log)
        /\ JoinTypes
    BY DEF Labels, Types, TypeOK, JoinTypes, Commit
  <1>2. state' \in [Clients -> {"Pending", "WaitingForJoinProposalWelcome", "Success"}]
    BY <1>1 DEF JoinTypes, SetState
  <1>3. welcome' \in [Clients -> 0..Len(log)]
    BY <1>1 DEF JoinTypes
  <1> QED
    BY <1>1, <1>2, <1>3, ReturnType DEF JoinTypes

LEMMA UploadDoneStep ==
  ASSUME JoinInv, NEW c \in Clients, UploadDone(c)
  PROVE  JoinInv'
  <1>1. /\ Types /\ pc \in [Clients -> Labels] /\ log \in Seq(Commit)
        /\ proposed \in [Clients -> 0..Len(log)]
    BY DEF JoinInv, Types, TypeOK, Commit
  <1>2. UNCHANGED <<server, wire, group, cache, health>>
    BY DEF UploadDone
  <1>3. CASE pc[c] # "ok"
    <2>1. 0 \in 0..Len(log)
      BY <1>1
    <2> QED
      BY <1>1, <1>2, <1>3, <2>1, EndStep DEF UploadDone, server
  <1>4. CASE pc[c] = "ok"
    <2>1. JoinTypes' /\ pc' = [pc EXCEPT ![c] = "in"]
      BY <1>1, <1>2, <1>4, SuccessTypes DEF UploadDone, server
    <2>2. Types'
      BY <1>1, <1>2, <2>1, JoinTypesStep DEF Types, TypeOK, server, health
    <2>3. OnLog'
      BY <1>1, <1>2, <1>4, <2>1 DEF JoinInv, OnLog, Candidate, server
    <2>4. CheckInside'
      BY <1>1, <1>2, <2>1 DEF JoinInv, CheckInside, health
    <2> QED
      BY <2>2, <2>3, <2>4 DEF JoinInv
  <1> QED
    BY <1>3, <1>4

(* A client that takes a part of the log for its group. *)
LEMMA LogTaken ==
  ASSUME Types, NEW c \in Clients, NEW n \in 0..Len(log),
         SetGroup(c, SubSeq(log, 1, n)), UNCHANGED log
  PROVE  /\ group' \in [Clients -> Seq(Commit)]
         /\ \A d \in Clients : Len(group'[d]) \in 0..Len(log) + 1
         /\ IsPrefix(group'[c], log')
         /\ \A d \in Clients \ {c} : group'[d] = group[d]
  <1>1. /\ log \in Seq(Commit) /\ group \in [Clients -> Seq(Commit)]
        /\ \A d \in Clients : Len(group[d]) \in 0..Len(log) + 1
    BY DEF Types, TypeOK, Commit
  <1> DEFINE s == SubSeq(log, 1, n)
  <1>2. s \in Seq(Commit) /\ Len(s) = n /\ IsPrefix(s, log)
    BY <1>1, PrefixOfLog
  <1>3. group' = [group EXCEPT ![c] = s]
    BY DEF SetGroup
  <1> HIDE DEF s
  <1> QED
    BY <1>1, <1>2, <1>3

LEMMA PollStep ==
  ASSUME JoinInv, NEW c \in Clients, Poll(c)
  PROVE  JoinInv'
  <1>1. /\ Types /\ pc \in [Clients -> Labels] /\ welcome[c] \in 0..Len(log)
    BY DEF JoinInv, Types, TypeOK
  <1>2. UNCHANGED <<log, proposed, wire, conn, cache, check, sync>>
    BY DEF Poll, server, net, health
  <1>3. /\ group' \in [Clients -> Seq(Commit)]
        /\ \A d \in Clients : Len(group'[d]) \in 0..Len(log) + 1
        /\ IsPrefix(group'[c], log')
        /\ \A d \in Clients \ {c} : group'[d] = group[d]
    BY <1>1, <1>2, LogTaken DEF Poll
  <1>4. JoinTypes' /\ pc' = [pc EXCEPT ![c] = "in"]
    BY <1>1, <1>2, SuccessTypes DEF Poll
  <1>5. Types'
    BY <1>1, <1>2, <1>3, <1>4 DEF Types, TypeOK, JoinTypes
  <1>6. OnLog'
    BY <1>1, <1>2, <1>3, <1>4 DEF JoinInv, OnLog, Candidate
  <1>7. CheckInside'
    BY <1>1, <1>2, <1>4 DEF JoinInv, CheckInside
  <1> QED
    BY <1>5, <1>6, <1>7 DEF JoinInv

LEMMA WelcomedStep ==
  ASSUME JoinInv, NEW c \in Clients, JoinViaWelcome(c)
  PROVE  JoinInv'
  <1>1. /\ Types /\ pc \in [Clients -> Labels] /\ info[c] \in 0..Len(log)
    BY DEF JoinInv, Types, TypeOK
  <1>2. /\ UNCHANGED <<log, proposed, wire, conn, cache, check, sync>>
        /\ UNCHANGED <<state, welcome, mode, tries, info, woken>>
    BY DEF JoinViaWelcome, server, net, health
  <1>3. /\ group' \in [Clients -> Seq(Commit)]
        /\ \A d \in Clients : Len(group'[d]) \in 0..Len(log) + 1
        /\ IsPrefix(group'[c], log')
        /\ \A d \in Clients \ {c} : group'[d] = group[d]
    BY <1>1, <1>2, LogTaken DEF JoinViaWelcome
  <1>4. /\ pc' = [pc EXCEPT ![c] = "joined"] /\ pc[c] = "welcomed"
        /\ pc' \in [Clients -> Labels]
    BY <1>1 DEF JoinViaWelcome, Goto, Labels
  <1>5. Types'
    BY <1>1, <1>2, <1>3, <1>4 DEF Types, TypeOK
  <1>6. OnLog'
    BY <1>1, <1>2, <1>3, <1>4 DEF JoinInv, OnLog, Candidate
  <1>7. CheckInside'
    BY <1>1, <1>2, <1>4 DEF JoinInv, CheckInside
  <1> QED
    BY <1>5, <1>6, <1>7 DEF JoinInv

LEMMA JoinedStep ==
  ASSUME JoinInv, NEW c \in Clients, Joined(c)
  PROVE  JoinInv'
  <1>1. /\ Types /\ pc \in [Clients -> Labels] /\ pc[c] = "joined"
    BY DEF JoinInv, Types, TypeOK, Joined
  <1>2. UNCHANGED <<log, proposed, wire, conn, group, cache, check, sync>>
    BY DEF Joined, server, net, health
  <1>3. JoinTypes' /\ pc' = [pc EXCEPT ![c] = "in"]
    BY <1>1, <1>2, SuccessTypes DEF Joined
  <1>4. Types'
    BY <1>1, <1>2, <1>3, JoinTypesStep DEF Types, TypeOK
  <1>5. OnLog'
    BY <1>1, <1>2, <1>3 DEF JoinInv, OnLog, Candidate
  <1>6. CheckInside'
    BY <1>1, <1>2, <1>3 DEF JoinInv, CheckInside
  <1> QED
    BY <1>4, <1>5, <1>6 DEF JoinInv

-----------------------------------------------------------------------------
(* The websocket handler. *)

LEMMA HandlerTypes ==
  ASSUME Types, NEW c \in Clients, NextMessage(c)
  PROVE  /\ wire' \in [Clients -> Seq([kind : {"commit", "welcome"}, at : 1..Len(log)])]
         /\ wire[c][1].at \in 1..Len(log)
  <1> DEFINE Message == [kind : {"commit", "welcome"}, at : 1..Len(log)]
  <1>1. wire \in [Clients -> Seq(Message)] /\ wire[c] # <<>>
    BY DEF Types, TypeOK, NextMessage
  <1>2. wire' = [wire EXCEPT ![c] = Tail(wire[c])]
    BY DEF NextMessage
  <1>3. \A m \in Message : m.at \in 1..Len(log)
    OBVIOUS
  <1> HIDE DEF Message
  <1>4. wire[c][1] \in Message /\ Tail(wire[c]) \in Seq(Message)
    BY <1>1
  <1>5. wire' \in [Clients -> Seq(Message)]
    BY <1>1, <1>2, <1>4
  <1> QED
    BY <1>3, <1>4, <1>5 DEF Message

LEMMA SkipStep ==
  ASSUME JoinInv, NEW c \in Clients, SkipMessage(c)
  PROVE  JoinInv'
  <1>1. /\ wire' \in [Clients -> Seq([kind : {"commit", "welcome"}, at : 1..Len(log)])]
        /\ UNCHANGED <<server, conn, mls, join, health>>
    BY HandlerTypes DEF JoinInv, SkipMessage
  <1>2. Types'
    BY <1>1 DEF JoinInv, Types, TypeOK, server, mls, join, health
  <1> QED
    BY <1>1, <1>2
       DEF JoinInv, OnLog, Candidate, CheckInside, server, mls, join, health

LEMMA WelcomeStep ==
  ASSUME JoinInv, NEW c \in Clients, HandleWelcome(c)
  PROVE  JoinInv'
  <1>1. /\ wire' \in [Clients -> Seq([kind : {"commit", "welcome"}, at : 1..Len(log)])]
        /\ wire[c][1].at \in 1..Len(log)
    BY HandlerTypes DEF JoinInv, HandleWelcome
  <1>2. UNCHANGED <<server, conn, state, group, cache, pc, mode, tries, info, health>>
    BY DEF HandleWelcome
  <1>3. /\ log \in Seq(Commit)
        /\ welcome \in [Clients -> 0..Len(log)] /\ woken \in [Clients -> BOOLEAN]
    BY DEF JoinInv, Types, TypeOK, Commit
  <1>4. welcome' \in [Clients -> 0..Len(log)]
    BY <1>1, <1>3 DEF HandleWelcome
  <1>5. woken' \in [Clients -> BOOLEAN]
    BY <1>3 DEF HandleWelcome
  <1>6. Types'
    BY <1>1, <1>2, <1>4, <1>5 DEF JoinInv, Types, TypeOK, server, health
  <1> QED
    BY <1>2, <1>6 DEF JoinInv, OnLog, Candidate, CheckInside, server, health

(* Whatever the handler makes of a group, it is on the log. *)
LEMMA CommitStep ==
  ASSUME JoinInv, NEW c \in Clients, HandleCommit(c)
  PROVE  JoinInv'
  <1> DEFINE n == wire[c][1].at
  <1>1. /\ Types
        /\ wire' \in [Clients -> Seq([kind : {"commit", "welcome"}, at : 1..Len(log)])]
        /\ n \in 1..Len(log)
    BY HandlerTypes DEF JoinInv, HandleCommit
  <1>2. UNCHANGED <<server, conn, state, welcome, join, health>>
    BY DEF HandleCommit
  <1>3. log \in Seq(Commit) /\ cache \in [Clients -> SUBSET (1..Len(log))]
    BY <1>1 DEF Types, TypeOK, Commit
  <1> HIDE DEF n
  <1>4. \/ /\ SetGroup(c, SubSeq(log, 1, CaughtUp(c, n)))
           /\ cache' = [cache EXCEPT ![c] = {e \in @ : e > CaughtUp(c, n)}]
        \/ cache' = [cache EXCEPT ![c] = @ \union {n}] /\ UNCHANGED group
        \/ UNCHANGED <<group, cache>>
    BY DEF HandleCommit, n
  <1>5. cache' \in [Clients -> SUBSET (1..Len(log))]
    BY <1>1, <1>3, <1>4
  <1>6. /\ group' \in [Clients -> Seq(Commit)]
        /\ \A d \in Clients : Len(group'[d]) \in 0..Len(log) + 1
        /\ \A d \in Clients : group'[d] = group[d] \/ IsPrefix(group'[d], log')
    <2>1. CASE SetGroup(c, SubSeq(log, 1, CaughtUp(c, n)))
      <3>1. CaughtUp(c, n) \in n..Len(log)
        BY <1>1, <1>3, CaughtUpType
      <3>2. CaughtUp(c, n) \in 0..Len(log)
        BY <1>1, <3>1
      <3> QED
        BY <1>1, <1>2, <2>1, <3>2, LogTaken DEF server
    <2>2. CASE UNCHANGED group
      BY <1>1, <2>2 DEF Types, TypeOK
    <2> QED
      BY <1>4, <2>1, <2>2
  <1>7. Types'
    BY <1>1, <1>2, <1>5, <1>6 DEF Types, TypeOK, server, join, health
  <1>8. OnLog'
    BY <1>2, <1>6 DEF JoinInv, OnLog, Candidate, server, join
  <1>9. CheckInside'
    BY <1>2 DEF JoinInv, CheckInside, join, health
  <1> QED
    BY <1>7, <1>8, <1>9 DEF JoinInv

LEMMA ConnectionStep ==
  ASSUME JoinInv, NEW c \in Clients, Connect(c) \/ Disconnect(c)
  PROVE  JoinInv'
  <1>1. UNCHANGED <<server, wire, mls, join, health>>
    BY DEF Connect, Disconnect
  <1>2. conn' \in [Clients -> BOOLEAN]
    BY DEF JoinInv, Types, TypeOK, Connect, Disconnect
  <1>3. Types'
    BY <1>1, <1>2 DEF JoinInv, Types, TypeOK, server, mls, join, health
  <1> QED
    BY <1>1, <1>3
       DEF JoinInv, OnLog, Candidate, CheckInside, server, mls, join, health

-----------------------------------------------------------------------------
(* The check of the epoch. *)

(* A step of the check, of a client that is in the meeting and has not     *)
(* been told to join again, unless the step tells it so and ends it.       *)
LEMMA CheckSteps ==
  ASSUME JoinInv, NEW c \in Clients,
         UNCHANGED <<server, wire, mls, join>>,
         conn' \in [Clients -> BOOLEAN],
         pc[c] = "in",
         NEW r \in Checks, check' = [check EXCEPT ![c] = r],
         r.server \in 0..Len(log),
         NEW s \in {"Checking", "Retrying", "Success", "Failed"},
         sync' = [sync EXCEPT ![c] = s],
         s # "Failed" \/ r.pc = "idle"
  PROVE  JoinInv'
  <1>1. /\ check \in [Clients -> Checks]
        /\ \A d \in Clients : check[d].server \in 0..Len(log)
        /\ sync \in [Clients -> {"Checking", "Retrying", "Success", "Failed"}]
    BY DEF JoinInv, Types, TypeOK
  <1>2. /\ check' \in [Clients -> Checks]
        /\ \A d \in Clients : check'[d].server \in 0..Len(log)
        /\ sync' \in [Clients -> {"Checking", "Retrying", "Success", "Failed"}]
    BY <1>1
  <1>3. Types'
    BY <1>2 DEF JoinInv, Types, TypeOK, server, mls, join
  <1>4. OnLog'
    BY DEF JoinInv, OnLog, Candidate, server, mls, join
  <1>5. CheckInside'
    BY <1>1 DEF JoinInv, CheckInside, join
  <1> QED
    BY <1>3, <1>4, <1>5 DEF JoinInv

LEMMA CheckFacts ==
  ASSUME JoinInv, NEW c \in Clients
  PROVE  /\ check[c] \in Checks /\ check[c].server \in 0..Len(log)
         /\ NoCheck \in Checks /\ NoCheck.pc = "idle" /\ NoCheck.server = 0
         /\ log \in Seq(Commit) /\ 0 \in 0..Len(log) /\ Len(log) \in Nat
         /\ conn \in [Clients -> BOOLEAN]
         /\ check[c].pc # "idle" => pc[c] = "in" /\ sync[c] # "Failed"
         /\ sync = [sync EXCEPT ![c] = sync[c]]
         /\ sync[c] \in {"Checking", "Retrying", "Success", "Failed"}
  <1>1. log \in Seq(Commit)
    BY DEF JoinInv, Types, TypeOK, Commit
  <1>2. NoCheck \in Checks /\ NoCheck.pc = "idle" /\ NoCheck.server = 0
    BY DEF NoCheck, Checks
  <1>3. sync = [sync EXCEPT ![c] = sync[c]] /\ sync[c] \in {"Checking", "Retrying", "Success", "Failed"}
    BY DEF JoinInv, Types, TypeOK
  <1>4. check[c].pc # "idle" => pc[c] = "in" /\ sync[c] # "Failed"
    BY DEF JoinInv, CheckInside
  <1> QED
    BY <1>1, <1>2, <1>3, <1>4 DEF JoinInv, Types, TypeOK

LEMMA CheckStartStep ==
  ASSUME JoinInv, NEW c \in Clients, CheckStart(c)
  PROVE  JoinInv'
  <1> DEFINE r == [NoCheck EXCEPT !.pc = "epoch"]
  <1>1. r \in Checks /\ r.server = 0
    BY DEF NoCheck, Checks
  <1>2. check' = [check EXCEPT ![c] = r]
    BY DEF CheckStart, SetCheck
  <1> HIDE DEF r
  <1> QED
    BY <1>1, <1>2, CheckFacts, CheckSteps DEF CheckStart, net

LEMMA OutOfDateStep ==
  ASSUME JoinInv, NEW c \in Clients, OutOfDate(c), check[c].pc # "idle",
         UNCHANGED <<server, wire, mls, join>>
  PROVE  JoinInv'
  <1>1. CASE /\ SetSync(c, "Failed") /\ SetCheck(c, NoCheck)
             /\ UNCHANGED conn
    <2>1. /\ check' = [check EXCEPT ![c] = NoCheck]
          /\ sync' = [sync EXCEPT ![c] = "Failed"]
      BY <1>1 DEF SetSync, SetCheck
    <2>2. NoCheck.server \in 0..Len(log) /\ UNCHANGED conn
      BY <1>1, CheckFacts
    <2> QED
      BY <2>1, <2>2, CheckFacts, CheckSteps
  <1>2. CASE /\ SetSync(c, "Retrying")
             /\ SetCheck(c, [NoCheck EXCEPT !.pc = "epoch", !.reconnected = TRUE])
             /\ conn' = [conn EXCEPT ![c] = FALSE]
    <2> DEFINE r == [NoCheck EXCEPT !.pc = "epoch", !.reconnected = TRUE]
    <2>1. r \in Checks /\ r.server = 0
      BY DEF NoCheck, Checks
    <2>2. check' = [check EXCEPT ![c] = r] /\ sync' = [sync EXCEPT ![c] = "Retrying"]
      BY <1>2 DEF SetCheck, SetSync
    <2>3. conn' \in [Clients -> BOOLEAN]
      BY <1>2, CheckFacts
    <2> HIDE DEF r
    <2> QED
      BY <2>1, <2>2, <2>3, CheckFacts, CheckSteps
  <1> QED
    BY <1>1, <1>2 DEF OutOfDate

LEMMA CheckEpochStep ==
  ASSUME JoinInv, NEW c \in Clients, CheckEpoch(c)
  PROVE  JoinInv'
  <1>1. CASE OutOfDate(c)
    BY <1>1, OutOfDateStep DEF CheckEpoch
  <1>2. CASE /\ SetCheck(c, [check[c] EXCEPT !.pc = "summary",
                                             !.before = Len(group[c])])
             /\ SetSync(c, IF check[c].reconnected THEN "Retrying" ELSE "Checking")
             /\ UNCHANGED conn
    <2> DEFINE r == [check[c] EXCEPT !.pc = "summary", !.before = Len(group[c])]
    <2>1. Len(group[c]) \in Nat
      BY DEF JoinInv, Types
    <2>2. r \in Checks /\ r.server \in 0..Len(log)
      BY <2>1, CheckFacts DEF Checks
    <2>3. PICK s \in {"Retrying", "Checking"} : sync' = [sync EXCEPT ![c] = s]
      BY <1>2 DEF SetSync
    <2>4. check' = [check EXCEPT ![c] = r]
      BY <1>2 DEF SetCheck
    <2> HIDE DEF r
    <2> QED
      BY <1>2, <2>2, <2>3, <2>4, CheckFacts, CheckSteps DEF CheckEpoch
  <1> QED
    BY <1>1, <1>2 DEF CheckEpoch

LEMMA CheckFields ==
  ASSUME NEW e \in Checks, NEW n \in Nat
  PROVE  /\ [e EXCEPT !.pc = "epoch", !.tries = n] \in Checks
         /\ [e EXCEPT !.pc = "epoch", !.tries = n].server = e.server
         /\ [e EXCEPT !.pc = "compare", !.server = n] \in Checks
         /\ [e EXCEPT !.pc = "compare", !.server = n].server = n
  BY DEF Checks

LEMMA NextTryStep ==
  ASSUME JoinInv, NEW c \in Clients, NextTry(c), check[c].pc # "idle",
         UNCHANGED <<server, net, mls, join, sync>>
  PROVE  JoinInv'
  <1> DEFINE r == [check[c] EXCEPT !.pc = "epoch", !.tries = @ + 1]
  <1>1. r \in Checks /\ r.server \in 0..Len(log)
    <2>1. check[c] \in Checks /\ check[c].server \in 0..Len(log)
      BY CheckFacts
    <2>2. r = [check[c] EXCEPT !.pc = "epoch", !.tries = check[c].tries + 1]
      OBVIOUS
    <2>3. check[c].tries + 1 \in Nat
      BY <2>1 DEF Checks
    <2>4. r \in Checks
      BY <2>1, <2>2, <2>3, CheckFields
    <2>5. r.server = check[c].server
      BY <2>1, <2>2, <2>3, CheckFields
    <2> QED
      BY <2>1, <2>4, <2>5
  <1>2. check' = [check EXCEPT ![c] = r]
    BY DEF NextTry, SetCheck
  <1> HIDE DEF r
  <1> QED
    BY <1>1, <1>2, CheckFacts, CheckSteps DEF net

LEMMA CheckSummaryStep ==
  ASSUME JoinInv, NEW c \in Clients, CheckSummary(c)
  PROVE  JoinInv'
  <1>1. CASE NextTry(c)
    BY <1>1, NextTryStep DEF CheckSummary
  <1>2. CASE SetCheck(c, [check[c] EXCEPT !.pc = "compare", !.server = Len(log)])
    <2> DEFINE r == [check[c] EXCEPT !.pc = "compare", !.server = Len(log)]
    <2>1. r \in Checks /\ r.server \in 0..Len(log)
      <3>1. check[c] \in Checks /\ Len(log) \in Nat
        BY CheckFacts DEF JoinInv, Types, TypeOK
      <3>2. r \in Checks /\ r.server = Len(log)
        BY <3>1, CheckFields
      <3>3. Len(log) \in 0..Len(log)
        BY <3>1
      <3> QED
        BY <3>2, <3>3
    <2>2. check' = [check EXCEPT ![c] = r]
      BY <1>2 DEF SetCheck
    <2> HIDE DEF r
    <2> QED
      BY <2>1, <2>2, CheckFacts, CheckSteps DEF CheckSummary, net
  <1> QED
    BY <1>1, <1>2 DEF CheckSummary

LEMMA CheckCompareStep ==
  ASSUME JoinInv, NEW c \in Clients, CheckCompare(c)
  PROVE  JoinInv'
  <1>1. CASE NextTry(c) /\ UNCHANGED sync
    BY <1>1, NextTryStep DEF CheckCompare
  <1>2. CASE SetSync(c, "Success") /\ SetCheck(c, NoCheck)
    BY <1>2, CheckFacts, CheckSteps DEF CheckCompare, net, SetSync, SetCheck
  <1> QED
    BY <1>1, <1>2 DEF CheckCompare

LEMMA RejoinStep ==
  ASSUME JoinInv, NEW c \in Clients, Rejoin(c)
  PROVE  JoinInv'
  <1>1. /\ UNCHANGED <<log, proposed, group, cache, check>>
        /\ wire' = [wire EXCEPT ![c] = <<>>]
        /\ sync' = [sync EXCEPT ![c] = "Checking"]
        /\ check[c].pc = "idle"
    BY DEF Rejoin, server, SetSync, JoinInv, CheckInside
  <1>2. JoinTypes' /\ pc' = [pc EXCEPT ![c] = "out"]
    BY <1>1, FailType DEF JoinInv, Rejoin, Fail, Return, Goto
  <1> DEFINE Message == [kind : {"commit", "welcome"}, at : 1..Len(log)]
  <1>3. wire \in [Clients -> Seq(Message)] /\ <<>> \in Seq(Message)
    <2>1. wire \in [Clients -> Seq(Message)]
      BY DEF JoinInv, Types, TypeOK
    <2> HIDE DEF Message
    <2>2. <<>> \in Seq(Message)
      OBVIOUS
    <2> QED
      BY <2>1, <2>2 DEF Message
  <1> HIDE DEF Message
  <1>4. wire' \in [Clients -> Seq(Message)]
    BY <1>1, <1>3
  <1>5. sync' \in [Clients -> {"Checking", "Retrying", "Success", "Failed"}]
    BY <1>1 DEF JoinInv, Types, TypeOK
  <1>6. Types'
    BY <1>1, <1>2, <1>4, <1>5 DEF JoinInv, Types, TypeOK, JoinTypes, Message
  <1>7. "out" \in Labels \ {"upload", "ok", "joined", "in"}
    BY DEF Labels
  <1>8. \A d \in Clients : sync'[d] = sync[d] \/ d = c
    BY <1>1 DEF JoinInv, Types, TypeOK
  <1> QED
    BY <1>1, <1>2, <1>6, <1>7, <1>8, PcStep DEF JoinInv

-----------------------------------------------------------------------------
(* The invariant holds, and with it the properties. *)

LEMMA JoinNext == JoinInv /\ [Next]_vars => JoinInv'
  <1> SUFFICES ASSUME JoinInv, [Next]_vars
               PROVE  JoinInv'
    OBVIOUS
  <1>1. ASSUME NEW c \in Clients, Start(c)
        PROVE  JoinInv'
    BY <1>1, StartStep
  <1>2. ASSUME NEW c \in Clients, JoinStep(c)
        PROVE  JoinInv'
    BY <1>2, FetchFailsStep, CandidateStep, ProposalStep, DecideStep,
       UploadDoneStep, PostStep, WaitStep, PollStep, TimeoutStep,
       WelcomedStep, JoinedStep DEF JoinStep
  <1>3. ASSUME NEW c \in Clients, MessageStep(c)
        PROVE  JoinInv'
    BY <1>3, SkipStep, WelcomeStep, CommitStep DEF MessageStep
  <1>4. ASSUME NEW c \in Clients, CheckStep(c)
        PROVE  JoinInv'
    BY <1>4, CheckStartStep, CheckEpochStep, CheckSummaryStep, CheckCompareStep
       DEF CheckStep
  <1>5. ASSUME NEW c \in Clients, Rejoin(c) \/ Connect(c) \/ Disconnect(c)
        PROVE  JoinInv'
    BY <1>5, RejoinStep, ConnectionStep
  <1>6. ASSUME NEW c \in Clients, NEW adds \in SUBSET Clients, MemberCommit(c, adds)
        PROVE  JoinInv'
    BY <1>6, MemberStep
  <1>7. CASE UNCHANGED vars
    <2>1. UNCHANGED <<server, net, mls, join, health>>
      BY <1>7 DEF vars
    <2>2. Types'
      BY <2>1 DEF JoinInv, Types, TypeOK, server, net, mls, join, health
    <2> QED
      BY <2>1, <2>2 DEF JoinInv, OnLog, Candidate, CheckInside, server, net, mls, join, health
  <1> QED
    BY <1>1, <1>2, <1>3, <1>4, <1>5, <1>6, <1>7 DEF Next

(* Every variable keeps its type; in particular no client is told of an    *)
(* epoch that the server has not reached.                                  *)
THEOREM JoinTypeCorrect == Spec => []TypeOK
  <1>1. JoinInv => TypeOK
    BY DEF JoinInv, Types
  <1> QED
    BY <1>1, JoinInit, JoinNext, PTL DEF Spec

(* A client that has joined is on the server's log, whatever was refused,  *)
(* lost or left over from an earlier join (join_room_impl and its kin).    *)
THEOREM JoinedSound == Spec => []JoinedOnLog
  <1>1. JoinInv => JoinedOnLog
    BY DEF JoinInv, OnLog, JoinedOnLog
  <1> QED
    BY <1>1, JoinInit, JoinNext, PTL DEF Spec

LEMMA PrefixesAgree ==
  ASSUME NEW s \in Seq(Commit), NEW t \in Seq(Commit), NEW n \in 0..Len(t),
         IsPrefix(s, t), n <= Len(s)
  PROVE  IsPrefix(SubSeq(t, 1, n), s)
  <1> DEFINE u == SubSeq(t, 1, n)
  <1>1. u \in Seq(Commit) /\ Len(u) = n /\ IsPrefix(u, t)
    BY PrefixOfLog
  <1> HIDE DEF u
  <1>2. \A i \in 1..n : u[i] = t[i]
    BY <1>1, PrefixItems
  <1>3. \A i \in 1..Len(s) : s[i] = t[i]
    BY PrefixItems
  <1>4. 1..n \subseteq 1..Len(s)
    OBVIOUS
  <1>5. IsPrefix(u, s)
    BY <1>1, <1>2, <1>3, <1>4, PrefixItems
  <1> QED
    BY <1>5 DEF u

(* Only the comparison ends with Success. *)
LEMMA OnlyCompare ==
  ASSUME JoinInv, [Next]_vars, NEW c \in Clients,
         sync[c] # "Success", sync'[c] = "Success"
  PROVE  CheckCompare(c) /\ SetSync(c, "Success")
  <1>1. sync' # sync /\ sync \in [Clients -> {"Checking", "Retrying", "Success", "Failed"}]
    BY DEF JoinInv, Types, TypeOK
  <1>2. ASSUME NEW d \in Clients, CheckStep(d) \/ Rejoin(d)
        PROVE  CheckCompare(c) /\ SetSync(c, "Success")
    <2>1. ASSUME NEW s \in {"Checking", "Retrying", "Failed"}, SetSync(d, s)
          PROVE  FALSE
      BY <1>1, <2>1 DEF SetSync
    <2>2. ~CheckStart(d) /\ ~CheckSummary(d)
      BY <1>1 DEF CheckStart, CheckSummary
    <2>3. ~Rejoin(d) /\ ~OutOfDate(d)
      BY <2>1 DEF Rejoin, OutOfDate
    <2>4. ~CheckEpoch(d)
      BY <2>1, <2>3 DEF CheckEpoch
    <2>5. CheckCompare(d) /\ SetSync(d, "Success")
      BY <1>1, <1>2, <2>2, <2>3, <2>4 DEF CheckStep, CheckCompare
    <2>6. c = d
      BY <1>1, <2>5 DEF SetSync
    <2> QED
      BY <2>5, <2>6
  <1>3. \A d \in Clients : ~Start(d) /\ ~Connect(d) /\ ~Disconnect(d)
    BY <1>1 DEF Start, Connect, Disconnect, health
  <1>4. \A d \in Clients : ~JoinStep(d)
    BY <1>1 DEF JoinStep, FetchFails, CreateGroup, ExternalCommit,
         ExternalProposal, ServerDecide, UploadDone, Post, Posted, Poll,
         Listen, Look, Wake, WelcomeTimeout, JoinViaWelcome, Joined, health
  <1>5. \A d \in Clients : ~MessageStep(d)
    BY <1>1 DEF MessageStep, SkipMessage, HandleWelcome, HandleCommit, health
  <1>6. ASSUME NEW d \in Clients, NEW adds \in SUBSET Clients, MemberCommit(d, adds)
        PROVE  FALSE
    <2>1. sync' = sync
      BY <1>6 DEF MemberCommit, health
    <2> QED
      BY <1>1, <2>1
  <1>7. ~UNCHANGED vars
    BY <1>1 DEF vars, health
  <1> QED
    BY <1>2, <1>3, <1>4, <1>5, <1>6, <1>7 DEF Next

(* A client that is told it is up to date has what the server had when it  *)
(* was asked: it is in the meeting, so that its group is on the log, and   *)
(* is then no shorter than the server's (is_mls_up_to_date).               *)
THEOREM VerdictHolds == Spec => VerdictSound
  <1>1. ASSUME JoinInv, [Next]_vars, NEW c \in Clients,
               sync[c] # "Success", sync'[c] = "Success"
        PROVE  IsPrefix(SubSeq(log, 1, check[c].server), group[c])
    <2>1. CheckCompare(c) /\ SetSync(c, "Success")
      BY <1>1, OnlyCompare
    <2>2. ~(NextTry(c) /\ UNCHANGED sync)
      BY <1>1
    <2>3. check[c].server <= Len(group[c])
      BY <2>1, <2>2 DEF CheckCompare
    <2>4. pc[c] = "in"
      BY <1>1, <2>1 DEF CheckCompare, JoinInv, CheckInside
    <2>5. IsPrefix(group[c], log)
      BY <1>1, <2>4 DEF JoinInv, OnLog
    <2>6. /\ log \in Seq(Commit) /\ group[c] \in Seq(Commit)
          /\ check[c].server \in 0..Len(log)
      BY <1>1 DEF JoinInv, Types, TypeOK, Commit
    <2> QED
      BY <2>3, <2>5, <2>6, PrefixesAgree
  <1>2. JoinInv /\ [Next]_vars =>
          [\A c \in Clients : sync[c] # "Success" /\ sync'[c] = "Success" =>
             IsPrefix(SubSeq(log, 1, check[c].server), group[c])]_vars
    BY <1>1
  <1> QED
    BY <1>2, JoinInit, JoinNext, PTL DEF Spec, VerdictSound

(* What a step may do to the wait of a client: it falls asleep only when   *)
(* it has no Welcome, a Welcome that comes while it sleeps wakes it, and   *)
(* asleep it forgets neither.                                              *)
Sleeps(c) ==
  pc'[c] = "sleep" =>
    \/ pc[c] = "look" /\ welcome'[c] = 0
    \/ pc[c] = "sleep" /\ woken'[c]
    \/ pc[c] = "sleep" /\ welcome'[c] = welcome[c] /\ woken'[c] = woken[c]

LEMMA ReturnSleeps ==
  ASSUME JoinInv, NEW c \in Clients, NEW l \in Labels \ {"sleep"}, Return(c, l)
  PROVE  /\ pc'[c] # "sleep"
         /\ \A d \in Clients : d # c => pc'[d] = pc[d] /\ woken'[d] = woken[d]
  BY DEF Return, Goto, JoinInv, Types, TypeOK

LEMMA AgainSleeps ==
  ASSUME JoinInv, NEW c \in Clients, NEW g, Again(c, g)
  PROVE  /\ pc'[c] # "sleep"
         /\ \A d \in Clients : d # c => /\ pc'[d] = pc[d] /\ woken'[d] = woken[d]
                                       /\ welcome'[d] = welcome[d]
  <1>1. "out" \in Labels \ {"sleep"}
    BY DEF Labels
  <1>2. CASE Fail(c)
    BY <1>1, <1>2, ReturnSleeps DEF Fail, JoinInv, Types, TypeOK
  <1>3. CASE Goto(c, "fetch") /\ UNCHANGED <<woken, welcome>>
    BY <1>3 DEF Goto, JoinInv, Types, TypeOK
  <1> QED
    BY <1>2, <1>3 DEF Again

LEMMA StepSleeps ==
  ASSUME JoinInv, [Next]_vars, NEW d \in Clients
  PROVE  Sleeps(d)
  <1> USE DEF Sleeps
  <1>1. ASSUME NEW c \in Clients, UploadDone(c) \/ Post(c) \/ WelcomeTimeout(c)
        PROVE  Sleeps(d)
    <2>1. ASSUME NEW g, Again(c, g)
          PROVE  Sleeps(d)
      BY <2>1, AgainSleeps
    <2>2. CASE Fail(c)
      <3>1. "out" \in Labels \ {"sleep"}
        BY DEF Labels
      <3> QED
        BY <2>2, <3>1, ReturnSleeps DEF Fail, JoinInv, Types, TypeOK
    <2>3. CASE UploadDone(c)
      <3>1. CASE Return(c, "in") /\ UNCHANGED welcome
        <4>1. "in" \in Labels \ {"sleep"}
          BY DEF Labels
        <4> QED
          BY <3>1, <4>1, ReturnSleeps
      <3> QED
        BY <2>1, <2>2, <2>3, <3>1 DEF UploadDone
    <2>4. CASE Post(c)
      <3>1. CASE Goto(c, "posted") /\ UNCHANGED <<woken, welcome>>
        BY <3>1 DEF Goto, JoinInv, Types, TypeOK
      <3> QED
        BY <2>1, <2>2, <2>4, <3>1 DEF Post
    <2>5. CASE WelcomeTimeout(c)
      BY <2>1, <2>5 DEF WelcomeTimeout
    <2> QED
      BY <1>1, <2>3, <2>4, <2>5
  <1>2. ASSUME NEW c \in Clients, FetchFails(c) \/ Rejoin(c) \/ Poll(c) \/ Joined(c)
        PROVE  Sleeps(d)
    <2>1. "out" \in Labels \ {"sleep"} /\ "in" \in Labels \ {"sleep"}
      BY DEF Labels
    <2> QED
      BY <1>2, <2>1, ReturnSleeps
         DEF FetchFails, Rejoin, Poll, Joined, Fail, JoinInv, Types, TypeOK
  <1>3. ASSUME NEW c \in Clients,
               \/ Start(c) \/ CreateGroup(c) \/ ExternalCommit(c)
               \/ ExternalProposal(c) \/ ServerDecide(c) \/ Posted(c)
               \/ Listen(c) \/ Wake(c) \/ JoinViaWelcome(c)
        PROVE  Sleeps(d)
    BY <1>3 DEF Start, CreateGroup, ExternalCommit, ExternalProposal,
         ServerDecide, Posted, Listen, Wake, JoinViaWelcome, Goto, mls, join,
         JoinInv, Types, TypeOK
  <1>4. ASSUME NEW c \in Clients, Look(c)
        PROVE  Sleeps(d)
    <2>1. UNCHANGED <<welcome, woken>> /\ pc[c] = "look"
      BY <1>4 DEF Look, mls
    <2>2. pc \in [Clients -> Labels] /\ welcome[c] \in Nat
      BY DEF JoinInv, Types, TypeOK
    <2>3. CASE Goto(c, "sleep") /\ ~(welcome[c] > 0)
      <3>1. welcome[c] = 0
        BY <2>2, <2>3
      <3> QED
        BY <2>1, <2>2, <2>3, <3>1 DEF Goto
    <2>4. CASE Goto(c, "welcomed")
      BY <2>1, <2>2, <2>4 DEF Goto
    <2> QED
      BY <1>4, <2>3, <2>4 DEF Look
  <1>5. ASSUME NEW c \in Clients, HandleWelcome(c)
        PROVE  Sleeps(d)
    BY <1>5 DEF HandleWelcome, JoinInv, Types, TypeOK
  <1>6. ASSUME UNCHANGED <<pc, welcome, woken>>
        PROVE  Sleeps(d)
    BY <1>6
  <1>7. ASSUME NEW c \in Clients,
               \/ SkipMessage(c) \/ HandleCommit(c) \/ CheckStep(c)
               \/ Connect(c) \/ Disconnect(c)
        PROVE  Sleeps(d)
    BY <1>6, <1>7 DEF SkipMessage, HandleCommit, CheckStep, CheckStart,
         CheckEpoch, CheckSummary, CheckCompare, Connect, Disconnect, mls, join
  <1>8. ASSUME NEW c \in Clients, NEW adds \in SUBSET Clients, MemberCommit(c, adds)
        PROVE  Sleeps(d)
    BY <1>6, <1>8 DEF MemberCommit, join
  <1>9. CASE UNCHANGED vars
    BY <1>6, <1>9 DEF vars, mls, join
  <1> QED
    BY <1>1, <1>2, <1>3, <1>4, <1>5, <1>7, <1>8, <1>9
       DEF Next, JoinStep, MessageStep

(* No lost wake-up: the client registers for the notification before it    *)
(* looks for the Welcome, so that it never sleeps on one it has            *)
(* (join_proposal_welcome_notify).                                         *)
THEOREM NoLostWakeup == Spec => []WelcomeWakes
  <1>1. Init => WelcomeWakes
    BY DEF Init, WelcomeWakes
  <1>2. ASSUME JoinInv, WelcomeWakes, [Next]_vars
        PROVE  WelcomeWakes'
    BY <1>2, StepSleeps DEF WelcomeWakes, Sleeps
  <1> QED
    BY <1>1, <1>2, JoinInit, JoinNext, PTL DEF Spec
=============================================================================
