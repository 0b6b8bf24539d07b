---------------------------- MODULE MCBackoffice ----------------------------
(* Instance of Backoffice: two of everything, the stream's own delays.       *)
EXTENDS Backoffice

MCTwo == {1, 2}
MCAccounts == {"a", "b"}
MCFilters == {"all", "cam"}
MCTickets == {"t1", "t2"}
=============================================================================
