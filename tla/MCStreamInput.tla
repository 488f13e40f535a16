---------------------------- MODULE MCStreamInput ----------------------------
(* Instances of StreamInput for TLC; the bounds are in the configurations. *)
EXTENDS StreamInput
=============================================================================
