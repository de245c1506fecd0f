---------------------------- MODULE MCAdmission ----------------------------
(* Admission on three requests, for TLC. *)
EXTENDS Admission
============================================================================
