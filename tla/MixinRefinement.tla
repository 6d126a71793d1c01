--------------------------- MODULE MixinRefinement ---------------------------
(***************************************************************************)
(* MexIFaceMixin implements ObjectService: an object is open while the      *)
(* handle it holds is alive, and its abstract state is that of the C++      *)
(* object two pointers away, behind the handle.                             *)
(***************************************************************************)
EXTENDS MixinInvariant

Life(o) ==
  CASE mstate[o] = "none" -> "none"
    [] mstate[o] # "none" /\ Open(o) -> "open"
    [] mstate[o] # "none" /\ ~Open(o) -> "closed"

Service == INSTANCE ObjectService WITH
  st   <- [o \in Objects |-> Life(o)],
  priv <- [o \in Objects |-> PrivateState(o)]

\* Every behaviour of the mixin and its modules is one of ObjectService: no
\* handle reuse, failed call or shared iface object shows through.
ImplementsService == Service!ServiceSpec
=============================================================================
