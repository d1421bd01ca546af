--------------------------- MODULE ExpiringDecisionMC ---------------------------
(***************************************************************************)
(* Letters by the week that expire, and advice by the tick with a default. *)
(***************************************************************************)
EXTENDS ExpiringDecision

CONSTANTS letter, advice, weekly, ticks, yes, no

ClockMap == [p \in Producers |-> IF p = letter THEN weekly ELSE ticks]
OptionMap == [p \in Producers |-> IF p = letter THEN {no} ELSE {yes}]
DefaultMap == [p \in Producers |-> IF p = letter THEN NoOption ELSE yes]
ContractMap ==
    [p \in Producers |-> IF p = letter THEN "expire_without_action" ELSE "named_domain_action"]
===============================================================================
