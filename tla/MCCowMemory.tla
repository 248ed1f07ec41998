---------------------------- MODULE MCCowMemory ----------------------------
(* Instances of CowMemory for TLC; the constants are in the .cfg files.    *)
EXTENDS CowMemory
=============================================================================
