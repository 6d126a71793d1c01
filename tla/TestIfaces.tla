----------------------------- MODULE TestIfaces -----------------------------
(***************************************************************************)
(* The two interfaces of the test directory as tables for MexCall:         *)
(* VMC_IFace.cpp (a vector, a matrix and a cube) and TestArmadillo.cpp (a  *)
(* vector).  A method's error() on a bad shape is a computation that may   *)
(* throw.                                                                  *)
(***************************************************************************)
EXTENDS MexCall

OutputParts == <<OutputMore(0), OutputMore(1), OutputMore(2)>>

objConstruct == <<Exactly(1, 3), Get("vec"), Get("mat"), Get("cube"), MayThrow, Output>>
objGetPart   == <<Exactly(1, 0), Output>>
objGet       == <<AtMost(3, 0)>> \o OutputParts

objAdd ==
  <<AtLeast(0, 1), AtMost(3, 3),
    GetMore(0, "vec", {"vec"}), GetMore(1, "mat", {"mat"}), GetMore(2, "cube", {"cube"})>>
  \o OutputParts

objSolve    == <<Exactly(1, 1), Get("mat"), MayThrow, Output>>
objSolveOMP == <<Exactly(1, 1), Get("cube"), Output, MayThrow, InParallel>>
objSvd      == <<Exactly(3, 1), MayThrow, Output, Output, Output>>
objGetStats == <<Output>>

staticVecSum  == <<Exactly(1, 2), Get("vec"), Get("vec"), MayThrow, Output>>
staticMatProd == <<Exactly(1, 2), Get("mat"), Get("mat"), MayThrow, Output>>

\* The map binds the names of the setters to the getters.
VmcMethods ==
  [n \in {"getVec", "getMat", "getCube", "setVec", "setMat", "setCube"} |-> objGetPart]
  @@ [n \in {"get", "set"} |-> objGet]
  @@ [add |-> objAdd, solve |-> objSolve, solveOMP |-> objSolveOMP,
      svd |-> objSvd, getStats |-> objGetStats]

Vmc == [construct |-> objConstruct, methods |-> VmcMethods,
        statics |-> [vecSum |-> staticVecSum, matProd |-> staticMatProd]]

ArmadilloMethods ==
  [add       |-> <<Exactly(1, 1), Get("vec"), MayThrow, Output>>,
   inc       |-> <<Exactly(0, 1), GetMore(-1, "vec", {"vec"})>>,
   ret       |-> <<Exactly(1, 0), Output>>,
   echoArray |-> <<Exactly(0, 1), Get("cellstr")>>]

Armadillo == [construct |-> <<Exactly(1, 1), Get("vec"), MayThrow, Output>>,
              methods |-> ArmadilloMethods,
              statics |-> [vecSum |-> staticVecSum]]
=============================================================================
