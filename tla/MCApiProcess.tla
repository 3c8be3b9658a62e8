---------------------------- MODULE MCApiProcess ----------------------------
(***************************************************************************)
(* Instance for TLC of RateLimiter and ConnectionHub, the state that a     *)
(* process of the API keeps in its memory.  They share nothing, so a       *)
(* behaviour is about one of them.                                         *)
(***************************************************************************)
EXTENDS RateLimiter, ConnectionHub, TLC

VARIABLE object

MCInit == LimiterInit /\ HubInit /\ object \in {"limiter", "hub"}

MCNext ==
  /\ \/ object = "limiter" /\ LimiterNext /\ UNCHANGED hubVars
     \/ object = "hub" /\ HubNext /\ UNCHANGED limiterVars
  /\ UNCHANGED object

MCSpec == MCInit /\ [][MCNext]_<<limiterVars, hubVars, object>>

Symmetry == Permutations(Sockets)
=============================================================================
