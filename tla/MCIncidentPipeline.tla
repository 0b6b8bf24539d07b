------------------------- MODULE MCIncidentPipeline -------------------------
(* Model-checking instances of IncidentPipeline: three events, two of them   *)
(* at one site, from three cameras.                                          *)
EXTENDS IncidentPipeline

CONSTANTS a1, a2, a3

MCAlarms == {a1, a2, a3}
MCSiteOf == [a \in MCAlarms |-> IF a = a3 THEN "yard" ELSE "gate"]
MCKeyOf == [a \in MCAlarms |-> a]
MCSeverityOf == [a \in MCAlarms |-> IF a = a1 THEN 3 ELSE 1]
=============================================================================
