---------------------------- MODULE MCInputFiles ----------------------------
(* Values for the constants of the input files: one name of each kind, and *)
(* a limit of two increments and of four chunks.                           *)
EXTENDS InputFiles

MCRegulars == {"a"}
MCDevices  == {"zero"}
MCMissing  == {"none"}
=============================================================================
