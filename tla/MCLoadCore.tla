------------------------------ MODULE MCLoadCore ------------------------------
(* Instances of LoadCore for TLC.                                           *)
EXTENDS LoadCore

CONSTANTS demo, vmon, node_state, registry

LoadOrder   == <<demo, vmon, node_state>>
LoadMethods == {demo, vmon, node_state, registry}
AllFaults   == {"bind", "mem"}
BindFaults  == {"bind"}
=============================================================================
