------------------------------ MODULE MCDisk ------------------------------
(* The instance of Disk for TLC; the constants are in MCDisk.cfg.          *)
EXTENDS Disk
=============================================================================
