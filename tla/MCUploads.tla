------------------------------- MODULE MCUploads -------------------------------
(***************************************************************************)
(* Instances of UploadJobs for TLC.                                        *)
(***************************************************************************)
EXTENDS UploadJobs, TLC

CONSTANTS f1, f2  \* files
================================================================================
