--------------------------- MODULE MCFirmwareLog ---------------------------
(***************************************************************************)
(* A small instance of FirmwareLog.  The log does not look at the devices, *)
(* nor the advertisement at the lines, so a behaviour need not have both.  *)
(***************************************************************************)
EXTENDS FirmwareLog

LinesOrDevices == lines = 0 \/ registered = {}
=============================================================================
