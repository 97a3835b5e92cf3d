--------------------------------- MODULE MCCoSim --------------------------------
(* Small tests of every kind: up to three segments from each engine, one of   *)
(* them dropped, and one exception in either body.                            *)
EXTENDS CoSim
=================================================================================
