-------------------------------- MODULE MCCall --------------------------------
(* Both test interfaces, every command; one argument too many on each side. *)
EXTENDS TestIfaces

MCInputs == UNION {[1 .. n -> Kinds] : n \in 0 .. 3} \cup {<<"vec", "vec", "vec", "vec">>}

MCInterface == [vmc |-> Vmc, armadillo |-> Armadillo]

\* The programs of both are of the kind that is proved to stay inside Matlab's arrays.
ASSUME TestIfacesAssumption == InterfaceIsChecked

\* And of the kind that is proved to use all inputs and to give all outputs.
ASSUME TestIfacesComplete == InterfaceIsComplete
=============================================================================
