----------------------------- MODULE MCPublish -----------------------------
(* Two jobs, an index that may take longer than all the tries.             *)
EXTENDS Publish
=============================================================================
