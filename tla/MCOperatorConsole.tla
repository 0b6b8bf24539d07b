-------------------------- MODULE MCOperatorConsole --------------------------
(* An instance of OperatorConsole: one alarm of an incident and one legacy  *)
(* alarm without, so that both routes of the alarm page occur.              *)
EXTENDS OperatorConsole
CONSTANTS i1
MCIncidentOf == <<i1, None>>
=============================================================================
