----------------------------- MODULE MCIpcShared -----------------------------
(* Instances of IpcShared for TLC.                                          *)
EXTENDS IpcShared, TLC

RunFaults   == {"exec", "fork"}
OpenFaults  == {"sem", "shm"}
CrashFaults == {"exec", "fork", "shm", "crash"}

ChildSymmetry == Permutations(Child)
=============================================================================
