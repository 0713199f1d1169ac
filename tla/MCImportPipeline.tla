-------------------------- MODULE MCImportPipeline --------------------------
(* Model-checking instance of ImportPipeline: three block file slots (so  *)
(* a gap can sit before and after a kept file) and two -loadblock files   *)
(* (so their order is observable).                                         *)
EXTENDS ImportPipeline

MCNFiles == 3
MCNLoad == 2
=============================================================================
