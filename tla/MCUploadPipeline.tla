-------------------------- MODULE MCUploadPipeline --------------------------
(* Model-checking instance of UploadPipeline; constants in the .cfg files. *)
EXTENDS UploadPipeline
=============================================================================
