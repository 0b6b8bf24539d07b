------------------------------ MODULE AlertLink ------------------------------
(***************************************************************************)
(* What the operator console may assume of its alert stream: a link that is *)
(* down or up until it is given up for good, and a status that never claims *)
(* more than the link is.  lib/ws-alerts.ts implements it (AlertStream).    *)
(***************************************************************************)

VARIABLES link,   \* "down", "up" or "gone"
          told    \* the status last reported, "gone" once nobody listens

Status == {"connecting", "connected", "disconnected", "reconnecting"}

LinkTypeOK ==
    /\ link \in {"down", "up", "gone"} /\ told \in Status \cup {"gone"}
    /\ (told = "connected") <=> (link = "up")
    /\ (told = "gone") <=> (link = "gone")

LinkInit == link = "down" /\ told = "disconnected"

Try ==
    /\ link = "down" /\ told = "disconnected"
    /\ told' \in {"connecting", "reconnecting"} /\ UNCHANGED link
Up ==
    /\ link = "down" /\ told \in {"connecting", "reconnecting"}
    /\ link' = "up" /\ told' = "connected"
Drop ==
    /\ link # "gone" /\ told # "disconnected"
    /\ link' = "down" /\ told' = "disconnected"
GiveUp == link # "gone" /\ link' = "gone" /\ told' = "gone"

pair == <<link, told>>
LinkNext == Try \/ Up \/ Drop \/ GiveUp
Spec == LinkInit /\ [][LinkNext]_pair
==============================================================================
