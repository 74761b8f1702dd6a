--------------------------- MODULE MCSolarSystem ---------------------------
(* The scene of SolarScene, and two gamepads. *)
EXTENDS SolarSystem, SolarScene

CONSTANTS padA, padB

\* The second pad has two sticks only.
MCAxes == [p \in Pads |-> IF p = padB THEN 4 ELSE 5]
=============================================================================
