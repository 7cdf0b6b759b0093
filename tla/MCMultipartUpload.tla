-------------------------- MODULE MCMultipartUpload --------------------------
(* Instances of MultipartUpload for TLC. *)
EXTENDS MultipartUpload

=============================================================================
