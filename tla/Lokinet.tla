------------------------------ MODULE Lokinet ------------------------------
(***************************************************************************)
(* The supervision of lokinet, the network daemon (lokinet.js): waiting    *)
(* for its configuration and for lokid's RPC server, launching it,         *)
(* relaunching it when it closes, and stop(), which escalates to SIGKILL   *)
(* and, called again and again, makes the launcher exit.                   *)
(*                                                                         *)
(* A Tick is 15 s; what the code does within a second comes before it.     *)
(***************************************************************************)
EXTENDS Naturals

CONSTANTS
  Pid, NoPid,     \* process ids; the one of a handle whose spawn failed
  RelaunchDelay,  \* ticks from 'close' to the relaunch (30 s)
  KillDelay,      \* ticks from SIGINT to SIGKILL (15 s)
  ExitDelay,      \* ticks from SIGINT to the forced exit (30 s)
  MaxRetries      \* repeated stops that are tolerated (3)

ASSUME PidAssumption == Pid # {} /\ NoPid \notin Pid
ASSUME DelayAssumption ==
  /\ RelaunchDelay \in Nat /\ MaxRetries \in Nat
  /\ KillDelay \in Nat \ {0} /\ ExitDelay \in Nat /\ KillDelay <= ExitDelay

VARIABLES
  startup,        \* startServiceNode: "ini", "rpc", "asking", "done"
  lokinet,        \* the handle: "null", "open" or "killed"
  pid,            \* the handle's pid
  running,        \* the lokinet processes that exist
  sent,           \* the strongest signal each was sent
  closing,        \* pids of ended processes whose 'close' is not delivered
  relaunches,     \* the ticks left of each relaunch timer
  monitor,        \* ticks since stop's SIGINT, or NoMonitor
  retries,
  shuttingDown,   \* lokinet.js's own flag
  exited          \* process.exit was called

handleVars == <<lokinet, pid>>
processVars == <<running, sent, closing>>
stopVars == <<monitor, retries, shuttingDown>>
vars == <<startup, handleVars, processVars, relaunches, stopVars, exited>>

Handle == Pid \cup {NoPid}
NoMonitor == ExitDelay + 1

TypeOK ==
  /\ startup \in {"ini", "rpc", "asking", "done"}
  /\ lokinet \in {"null", "open", "killed"}
  /\ pid \in Handle
  /\ running \subseteq Pid
  /\ sent \in [Pid -> {"none", "SIGINT", "SIGKILL"}]
  /\ closing \subseteq Handle
  /\ relaunches \subseteq 0..RelaunchDelay
  /\ monitor \in 0..NoMonitor
  /\ retries \in 0..(MaxRetries + 1)
  /\ shuttingDown \in BOOLEAN
  /\ exited \in BOOLEAN

Init ==
  /\ startup = "ini"
  /\ lokinet = "null" /\ pid = NoPid
  /\ running = {} /\ closing = {}
  /\ sent = [p \in Pid |-> "none"]
  /\ relaunches = {}
  /\ monitor = NoMonitor /\ retries = 0 /\ shuttingDown = FALSE
  /\ exited = FALSE
---------------------------------------------------------------------------
network_running == lokinet # "null" /\ pid \in running

\* spawn starts a process; or it fails and a 'close' follows; or it throws,
\* which is fatal only while there is no earlier handle: launchLokinet goes on
\* with the handle of the lokinet that is dead.
Spawn ==
  \/ /\ \E p \in Pid \ running :
          /\ pid' = p
          /\ running' = running \cup {p}
          /\ sent' = [sent EXCEPT ![p] = "none"]
     /\ lokinet' = "open"
     /\ UNCHANGED <<closing, exited>>
  \/ /\ lokinet' = "open" /\ pid' = NoPid
     /\ closing' = closing \cup {NoPid}
     /\ UNCHANGED <<running, sent, exited>>
  \/ /\ lokinet = "null"
     /\ exited' = TRUE
     /\ UNCHANGED <<handleVars, processVars>>
  \/ /\ lokinet # "null"
     /\ lokinet' = "open"
     /\ UNCHANGED <<pid, processVars, exited>>

\* The configuration file, in the temporary directory, is gone.
NoIni == exited' = TRUE /\ UNCHANGED <<handleVars, processVars>>

launchLokinet_Always == Spawn \/ NoIni

launchLokinet ==
  IF shuttingDown THEN UNCHANGED <<handleVars, processVars, exited>>
                  ELSE Spawn \/ NoIni
---------------------------------------------------------------------------
(* The actions. *)

\* The configuration is complete (its lookups may never be).
preLaunchLokinet ==
  /\ startup = "ini"
  /\ startup' = IF shuttingDown THEN "done" ELSE "rpc"
  /\ UNCHANGED <<handleVars, processVars, relaunches, stopVars, exited>>

\* A lookup that the configuration needs has failed for good.
IniExits ==
  /\ exited' = TRUE
  /\ UNCHANGED <<startup, handleVars, processVars, relaunches, stopVars>>

\* waitForLokidUrl asks lokid's RPC server, every second.
AskLokid ==
  /\ startup = "rpc"
  /\ startup' = "asking"
  /\ UNCHANGED <<handleVars, processVars, relaunches, stopVars, exited>>

LokidAnswers_Twice ==
  /\ startup = "asking"
  /\ startup' \in {"asking", "done"}
  /\ launchLokinet
  /\ UNCHANGED <<relaunches, stopVars>>

LokidAnswers ==
  /\ startup = "asking"
  /\ startup' = "done"
  /\ launchLokinet
  /\ UNCHANGED <<relaunches, stopVars>>

LokidRefuses ==
  /\ startup = "asking"
  /\ startup' = IF shuttingDown THEN "done" ELSE "rpc"
  /\ UNCHANGED <<handleVars, processVars, relaunches, stopVars, exited>>

RelaunchFires ==
  /\ 0 \in relaunches
  /\ relaunches' = relaunches \ {0}
  /\ launchLokinet
  /\ UNCHANGED <<startup, stopVars>>

OnClose_Once(c) ==
  /\ c \in closing
  /\ closing' = closing \ {c}
  /\ lokinet' = "killed"
  /\ UNCHANGED <<startup, pid, running, sent, relaunches, stopVars, exited>>

\* startServiceNode has set restart, so every 'close' relaunches lokinet.
OnClose(c) ==
  /\ c \in closing
  /\ closing' = closing \ {c}
  /\ lokinet' = "killed"
  /\ relaunches' = IF shuttingDown THEN relaunches
                   ELSE relaunches \cup {RelaunchDelay}
  /\ UNCHANGED <<startup, pid, running, sent, stopVars, exited>>

stop_Impatient ==
  /\ shuttingDown' = TRUE
  /\ lokinet' = IF lokinet = "open" THEN "killed" ELSE lokinet
  /\ sent' = IF network_running THEN [sent EXCEPT ![pid] = "SIGKILL"] ELSE sent
  /\ monitor' = IF lokinet = "open" THEN 0 ELSE monitor
  /\ UNCHANGED <<startup, pid, running, closing, relaunches, retries, exited>>

\* stop(), which every shutdown request calls.
stop ==
  /\ shuttingDown' = TRUE
  /\ \/ /\ lokinet = "null"
        /\ UNCHANGED <<lokinet, sent, monitor, retries, exited>>
     \/ /\ lokinet = "open"
        /\ lokinet' = "killed"
        /\ sent' = IF pid \in running THEN [sent EXCEPT ![pid] = "SIGINT"] ELSE sent
        /\ monitor' = 0
        /\ UNCHANGED <<retries, exited>>
     \/ /\ lokinet = "killed"
        /\ retries' = retries + 1
        /\ exited' = IF retries' > MaxRetries THEN TRUE ELSE exited
        /\ UNCHANGED <<lokinet, sent, monitor>>
  /\ UNCHANGED <<startup, pid, running, closing, relaunches>>

MonitorSeesDown ==
  /\ monitor # NoMonitor
  /\ pid \notin running
  /\ monitor' = NoMonitor
  /\ UNCHANGED <<startup, handleVars, processVars, relaunches, retries,
                 shuttingDown, exited>>

\* Every second from KillDelay on; the branch for ExitDelay comes after the
\* one for KillDelay and is never taken.
MonitorKills ==
  /\ monitor \in KillDelay..ExitDelay
  /\ pid \in running
  /\ sent' = [sent EXCEPT ![pid] = "SIGKILL"]
  /\ UNCHANGED <<startup, handleVars, running, closing, relaunches, stopVars, exited>>

LokinetExits(p) ==
  /\ p \in running
  /\ running' = running \ {p}
  /\ closing' = closing \cup {p}
  /\ UNCHANGED <<startup, handleVars, sent, relaunches, stopVars, exited>>

Urgent ==
  \/ closing # {} \/ 0 \in relaunches
  \/ monitor # NoMonitor /\ pid \notin running
  \/ monitor \in KillDelay..ExitDelay /\ pid \in running /\ sent[pid] # "SIGKILL"

Tick ==
  /\ ~Urgent
  /\ relaunches' = {n - 1 : n \in relaunches}
  /\ monitor' = IF monitor < ExitDelay THEN monitor + 1 ELSE monitor
  /\ UNCHANGED <<startup, handleVars, processVars, retries, shuttingDown, exited>>
---------------------------------------------------------------------------
Supervision ==
  \/ AskLokid \/ LokidAnswers \/ LokidRefuses
  \/ RelaunchFires \/ stop \/ MonitorSeesDown \/ MonitorKills \/ Tick
  \/ \E c \in Handle : OnClose(c)

Next ==
  \/ ~exited /\ (preLaunchLokinet \/ IniExits \/ Supervision)
  \/ \E p \in Pid : LokinetExits(p)

Spec == Init /\ [][Next]_vars
---------------------------------------------------------------------------
(* Safety. *)

\* Every lokinet that exists is the one the handle names: a relaunch never
\* starts a second one beside a lokinet that stop() would then not find
\* (lokinet.js:1259-1287, 1542).
LokinetManaged ==
  /\ running \subseteq {pid}
  /\ running # {} => lokinet # "null"

\* stop() gives lokinet its 15 s: no SIGKILL before (lokinet.js:1557), however
\* often stop() is called.
GraceGiven ==
  \A p \in running : sent[p] = "SIGKILL" => monitor >= KillDelay

\* The lokinet the launcher sees is a daemon as Daemon describes it, whatever
\* the two start-up waits, failing spawns and the escalation do
\* (lokinet.js:1175-1293, 1526-1604).
D == INSTANCE Daemon WITH
  handle <- lokinet, up <- running # {}, closing <- closing # {}, allDown <- FALSE

ImplementsDaemon == D!Spec
---------------------------------------------------------------------------
(* Liveness.  Node runs timers and delivers events while the launcher has  *)
(* not exited; lokinet may ignore SIGINT but dies of SIGKILL.              *)

Fairness ==
  /\ WF_vars(~exited /\ AskLokid) /\ WF_vars(~exited /\ LokidRefuses)
  /\ WF_vars(~exited /\ RelaunchFires) /\ WF_vars(~exited /\ Tick)
  /\ WF_vars(~exited /\ MonitorSeesDown) /\ WF_vars(~exited /\ MonitorKills)
  /\ WF_vars(\E c \in Handle : ~exited /\ OnClose(c))

SigkillWorks == \A p \in Pid : WF_vars(sent[p] = "SIGKILL" /\ LokinetExits(p))

LiveSpec == Spec /\ Fairness /\ SigkillWorks

\* A lokinet that closed is launched again (lokinet.js:1270), until a stop.
LokinetRelaunched ==
  lokinet = "killed" ~> lokinet = "open" \/ shuttingDown \/ exited

\* A stop leaves no lokinet and no timer behind, also if lokinet ignores
\* SIGINT, unless the user's impatience makes the launcher exit first.
StopDrains ==
  shuttingDown ~>
    [](exited \/ (/\ running = {} /\ closing = {} /\ relaunches = {}
                  /\ monitor = NoMonitor /\ startup \notin {"rpc", "asking"}))
---------------------------------------------------------------------------
(* The inductive invariant behind the safety properties. *)

\* A lokinet is awaited, alive, closing or due: one of these, and one lokinet.
OneLifeCycle ==
  /\ running \subseteq {pid}
  /\ lokinet = "null" => running = {} /\ closing = {} /\ relaunches = {}
  /\ startup # "done" => lokinet = "null"
  /\ running # {} => closing = {} /\ relaunches = {}
  /\ closing # {} => relaunches = {}
  /\ \A c, d \in closing : c = d
  /\ \A m, n \in relaunches : m = n

\* The stop that is one too many is the last.
LastStop == retries > MaxRetries => exited

IInv == TypeOK /\ LastStop /\ OneLifeCycle /\ GraceGiven
===========================================================================
