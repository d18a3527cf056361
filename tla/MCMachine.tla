------------------------------ MODULE MCMachine ------------------------------
(* Machine with one operator, so that commands follow one another. *)
EXTENDS Machine

CONSTANT operator1

OneOperator == {operator1}
=============================================================================
