----------------------------- MODULE MCPbrpcClnt -----------------------------
(* Instances of PbrpcClnt for TLC.                                          *)
EXTENDS PbrpcClnt

NoFaults   == {}
AllFaults  == {"mem", "conn"}
MemFaults  == {"mem"}
=============================================================================
