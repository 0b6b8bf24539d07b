------------------------------ MODULE MCMonitor ------------------------------
(* Instance of Monitor: two cameras, two layouts, presets of one and two    *)
(* cells, two events, a present of 4 with events at 1 and 3.                *)
EXTENDS Monitor

MCPresets == {1, 2}
MCEventTimes == {1, 3}
==============================================================================
