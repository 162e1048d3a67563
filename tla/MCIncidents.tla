------------------------------ MODULE MCIncidents ------------------------------
(* Instances of Incidents for TLC. *)
EXTENDS Incidents

MCMails == Ids \X Admins
===============================================================================
