---------------------------- MODULE ObjectService ----------------------------
(***************************************************************************)
(* What MexIFace promises a Matlab user (README.md, About): every Matlab    *)
(* object has its own persistent C++ state, there from the moment it is     *)
(* opened until it is closed or deleted, and only its own calls change it.  *)
(* No modules, handles, addresses or lock counts.                           *)
(***************************************************************************)
CONSTANTS Objects, Val, NULL

VARIABLES
  st,     \* st[o]: where o is in its life
  priv    \* priv[o]: the C++ state behind o, NULL when there is none

serviceVars == <<st, priv>>

ServiceInit ==
  /\ st = [o \in Objects |-> "none"]
  /\ priv = [o \in Objects |-> NULL]

Build(o) ==
  /\ st[o] = "none"
  /\ st' = [st EXCEPT ![o] = "closed"]
  /\ UNCHANGED priv

Acquire(o) ==
  /\ st[o] = "closed"
  /\ st' = [st EXCEPT ![o] = "open"]
  /\ \E v \in Val : priv' = [priv EXCEPT ![o] = v]

Update(o) ==
  /\ st[o] = "open"
  /\ \E v \in Val : priv' = [priv EXCEPT ![o] = v]
  /\ UNCHANGED st

Release(o) ==
  /\ st[o] = "open"
  /\ st' = [st EXCEPT ![o] = "closed"]
  /\ priv' = [priv EXCEPT ![o] = NULL]

Discard(o) ==
  /\ st[o] = "closed"
  /\ st' = [st EXCEPT ![o] = "none"]
  /\ UNCHANGED priv

ServiceNext ==
  \E o \in Objects : Build(o) \/ Acquire(o) \/ Update(o) \/ Release(o) \/ Discard(o)

ServiceSpec == ServiceInit /\ [][ServiceNext]_serviceVars
=============================================================================
