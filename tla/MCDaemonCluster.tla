--------------------------- MODULE MCDaemonCluster --------------------------
(* A daemon, one that depends on it and may ask to be restarted, and one     *)
(* that never starts; the task of the cluster and one thread more.           *)
EXTENDS DaemonCluster

CONSTANTS base, over, dead, task, user

MCDaemons == {base, over, dead}
MCCallers == {task, user}
MCOrder == <<base, dead, over>>
MCDeps == [d \in MCDaemons |-> IF d = over THEN {base} ELSE {}]
MCKeepAlive == MCDaemons
MCRstIf == {over}
MCLimit == [d \in MCDaemons |-> IF d = base THEN Unlimited ELSE 2]
MCSound == {base, over}
MCDead == {dead}
=============================================================================
