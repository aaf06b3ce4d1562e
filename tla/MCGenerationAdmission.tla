----------------------- MODULE MCGenerationAdmission -----------------------
(* Instance of GenerationAdmission for TLC. *)
EXTENDS GenerationAdmission
=============================================================================
