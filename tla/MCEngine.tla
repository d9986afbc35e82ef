------------------------------ MODULE MCEngine ------------------------------
(* The instance of the cognitive cycle TLC checks. *)
EXTENDS Engine

(* A broadcast rate below the processing rate, and a payload whose second *)
(* rate is bad.                                                           *)
MCSetRates == {<<5, 0>>, <<Absent, 4>>}
=============================================================================
