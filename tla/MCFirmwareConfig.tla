-------------------------- MODULE MCFirmwareConfig --------------------------
(* Two tunes are enough to tell a saved one from the one in RAM. *)
EXTENDS FirmwareConfig
=============================================================================
