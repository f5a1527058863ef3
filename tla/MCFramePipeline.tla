--------------------------- MODULE MCFramePipeline ---------------------------
(* TLC instance of the frame pipeline; its constants are numbers of the cfg. *)
EXTENDS FramePipeline
=============================================================================
