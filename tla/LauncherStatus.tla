--------------------------- MODULE LauncherStatus ---------------------------
(***************************************************************************)
(* getLauncherStatus (lib.js): what runs is looked up once, the daemons'   *)
(* RPC servers and the launcher's socket are asked, and when the last one  *)
(* that is needed has answered, or 5 s are over, the caller is told.       *)
(*                                                                         *)
(* What is looked up, and what the others answer, is any choice: the       *)
(* background launcher that it is about is not modelled here.  So a stale  *)
(* socket, which is removed when it refuses, may be there the next time.   *)
(***************************************************************************)
CONSTANT StorageEnabled     \* the running configuration's storage.enabled

ASSUME StatusAssumption == StorageEnabled \in BOOLEAN

VARIABLES
  status,         \* "idle", "asked", or "told" (the caller is being told)
  seen,           \* what getProcessState found running
  rpc,            \* lokid's RPC server
  storageRpc,     \* the storage server's
  socketWorks,    \* the launcher's socket
  late            \* 5 s have passed since they were asked

statusVars == <<status, seen, rpc, storageRpc, socketWorks, late>>

Process == {"launcher", "lokid", "storage"}
Probe == {"unneeded", "asked", "up", "down"}

StatusTypeOK ==
  /\ status \in {"idle", "asked", "told"}
  /\ seen \subseteq Process
  /\ rpc \in Probe \cup {"lost"}
  /\ storageRpc \in Probe /\ socketWorks \in Probe
  /\ late \in BOOLEAN

StatusInit ==
  /\ status = "idle" /\ seen = {}
  /\ rpc = "unneeded" /\ storageRpc = "unneeded" /\ socketWorks = "unneeded"
  /\ late = FALSE
---------------------------------------------------------------------------
AskIf(needed) == IF needed THEN "asked" ELSE "unneeded"

\* With nothing to ask the caller is told at once.
getLauncherStatus(running, socketExists) ==
  /\ status = "idle"
  /\ seen' = running
  /\ rpc' = AskIf("lokid" \in running)
  /\ storageRpc' = AskIf(StorageEnabled /\ "storage" \in running)
  /\ socketWorks' = AskIf(socketExists)
  /\ status' = IF "asked" \in {rpc', storageRpc', socketWorks'} THEN "asked" ELSE "told"
  /\ late' = FALSE

\* The variables of a call end with it.
forget ==
  /\ seen' = {}
  /\ rpc' = "unneeded" /\ storageRpc' = "unneeded" /\ socketWorks' = "unneeded"

checkDone_AnyTask ==
  status' = IF rpc' \in {"asked", "lost"} THEN "asked" ELSE "told"

\* A task is done: tell the caller if it was the last one.
checkDone ==
  status' = IF {rpc', storageRpc', socketWorks'} \cap {"asked", "lost"} # {}
            THEN "asked" ELSE "told"

\* httpPost calls back, with the answer or, after an error or a 404, with none.
RpcAnswers ==
  /\ rpc = "asked"
  /\ rpc' \in {"up", "down"}
  /\ UNCHANGED <<seen, storageRpc, socketWorks, late>>
  /\ checkDone

\* The timer takes the answer for itself, and then throws: what httpPost
\* returned has no "ref".  Nothing tells checkDone any more.
RpcTimesOut ==
  /\ rpc = "asked" /\ late
  /\ rpc' = "lost"
  /\ UNCHANGED <<status, seen, storageRpc, socketWorks, late>>

\* runStorageRPCTest: an answer, an error, or 5 s without either.
StorageAnswers ==
  /\ storageRpc = "asked"
  /\ storageRpc' \in {"up", "down"}
  /\ UNCHANGED <<seen, rpc, socketWorks, late>>
  /\ checkDone

StorageTimesOut ==
  /\ storageRpc = "asked" /\ late
  /\ storageRpc' = "down"
  /\ UNCHANGED <<seen, rpc, socketWorks, late>>
  /\ checkDone

SocketAnswers ==
  /\ socketWorks = "asked"
  /\ socketWorks' \in {"up", "down"}
  /\ UNCHANGED <<seen, rpc, storageRpc, late>>
  /\ checkDone

\* The timers are due, and a connection to a local socket does not take 5 s.
StatusUrgent == late /\ "asked" \in {rpc, storageRpc, socketWorks}
===========================================================================
