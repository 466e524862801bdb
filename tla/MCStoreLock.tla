---------------------------- MODULE MCStoreLock -----------------------------
(***************************************************************************)
(* Three threads, two of them in one process, so that both waits contend:  *)
(* the mutex inside a process and the file lock between processes.         *)
(***************************************************************************)
EXTENDS StoreLock

CONSTANTS t1, t2, t3, p1, p2

MCThreads == {t1, t2, t3}
MCProcesses == {p1, p2}
MCProcOf == [t \in MCThreads |-> IF t = t3 THEN p2 ELSE p1]
=============================================================================
