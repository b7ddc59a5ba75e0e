-------------------------- MODULE MCDeployPipeline --------------------------
(* The pipeline on small instances: which handlers start the runs.         *)
EXTENDS DeployPipeline, TLC

AllKinds    == {"deploy", "etl_run", "reset", "session"}
EtlAndReset == {"etl_run", "reset"}
EtlKinds    == {"etl_run"}
ResetKinds  == {"reset"}

(* Runs are interchangeable, and so are pages and rails. *)
Symmetry == Permutations(Runs) \cup Permutations(Pages) \cup Permutations(Rails)
=============================================================================
