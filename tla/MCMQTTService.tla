--------------------------- MODULE MCMQTTService ---------------------------
(***************************************************************************)
(* MQTTService for TLC, where messages are published beside at most one    *)
(* subscription of some filters, and all filters are subscribed several    *)
(* times where none has been published.                                    *)
(***************************************************************************)
EXTENDS MQTTService, Functions

CONSTANT SomeFilters \* what may be subscribed where messages are published

FewSubscriptions ==
  /\ InUse \subseteq SomeFilters
  /\ \A f \in SomeFilters : refCounts[f] <= 1
  /\ \A n \in DOMAIN client :
       client[n].asked \cup UNION Range(client[n].outstanding) \subseteq SomeFilters

NoMessages == state.commands = <<>> /\ \A i \in DOMAIN sent : sent[i].what \notin Messages

InBounds == FewSubscriptions \/ NoMessages
=============================================================================
