------------------------- MODULE MCTerminalDelivery -------------------------
(* TerminalDelivery with one executor event and one final delivery. *)
EXTENDS TerminalDelivery

MCTerminals == <<"x1">>
MCPlanners == <<"p1">>

Spec == DeliveryInit /\ [][DeliveryNext]_deliveryVars
=============================================================================
