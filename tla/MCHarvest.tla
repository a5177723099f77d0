----------------------------- MODULE MCHarvest ------------------------------
(* Instances of Harvest for TLC: the error and the profile containers are    *)
(* sent by transmit_data, with the agent commands between them; the event    *)
(* container has an event of the loop to itself.                             *)
EXTENDS Harvest

CONSTANTS errors, profiles, txns

DataPlan == <<Session, errors, Commands, profiles>>
EventPlan == <<Session, txns>>
MCPlans == {DataPlan, EventPlan}
MCShutdownPlan == DataPlan \o EventPlan
SmallBuffers == [c \in Containers |-> 1]

\* transmit_data with one container behind another, and nothing else to send them.
TracePlan == <<Session, errors, txns, Commands>>
TracePlans == {TracePlan}
=============================================================================
