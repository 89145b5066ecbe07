----------------------------- MODULE MCMlsRoom -----------------------------
(***************************************************************************)
(* MlsRoom for instances with more clients.  Members are interchangeable   *)
(* when all or none of them are admins, and so are the proposals.          *)
(***************************************************************************)
EXTENDS MlsRoom, TLC

Interchangeable == Permutations(Clients) \union Permutations(Proposals)

ASSUME SymmetryAssumption ==
  /\ Kickers \in {{}, Clients}
  /\ Sweepers \in {{}, Clients}
=============================================================================
