----------------------------- MODULE CommitLog -----------------------------
(***************************************************************************)
(* What the MLS group of a meeting promises, without its messages: the     *)
(* commits of the room form one log, a member adds a commit only when it   *)
(* has seen all of the log, and every member learns the log in order.      *)
(***************************************************************************)
EXTENDS Naturals, Sequences

CONSTANTS Clients, Commits

VARIABLES
  log,   \* the commits of the room
  hist   \* the commits a member has applied

vars == <<log, hist>>

Init ==
  /\ log = <<>>
  /\ hist = [c \in Clients |-> <<>>]

(* A member that is up to date commits. *)
Publish(c) ==
  /\ hist[c] = log
  /\ Len(log') = Len(log) + 1
  /\ \A i \in 1..Len(log) : log'[i] = log[i]
  /\ log'[Len(log) + 1] \in Commits
  /\ UNCHANGED hist

(* A member applies the next commit of the log. *)
Learn(c) ==
  /\ Len(hist[c]) < Len(log)
  /\ hist' = [hist EXCEPT ![c] = Append(@, log[Len(@) + 1])]
  /\ UNCHANGED log

Next == \E c \in Clients : Publish(c) \/ Learn(c)

Spec == Init /\ [][Next]_vars

(* Every commit reaches every member. *)
FairSpec == Spec /\ \A c \in Clients : WF_vars(Learn(c))
=============================================================================
