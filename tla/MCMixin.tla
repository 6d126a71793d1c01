------------------------------- MODULE MCMixin -------------------------------
(* Three Matlab objects, two of one module and one of another, for TLC.       *)
EXTENDS MixinRefinement, TLC

CONSTANTS o1, o2, o3, armadillo, vmc

MCModules == {armadillo, vmc}
MCTypeName == [m \in MCModules |-> IF m = armadillo THEN "TestArmadillo" ELSE "TestVMC"]
MCObjects == {o1, o2, o3}
MCModOf == [o \in MCObjects |-> IF o = o3 THEN vmc ELSE armadillo]

\* Addresses and states are interchangeable, and so are two objects of one module.
MCSymmetry == Permutations(Addr) \cup Permutations(Val) \cup Permutations({o1, o2})
=============================================================================
