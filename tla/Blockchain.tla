---------------------------- MODULE Blockchain ----------------------------
(***************************************************************************)
(* The launcher's supervision of lokid, the blockchain daemon (daemon.js): *)
(* launching it, reacting to its 'close' event, relaunching it, restarting *)
(* it on request, and shutting it down with the rest of the suite.         *)
(*                                                                         *)
(* Node runs one handler at a time, so a handler is one action.  What      *)
(* interleaves is the order of handlers: timers, child-process events, the *)
(* keyboard, signals.  A child's death and the 'close' event that reports  *)
(* it are two steps, for the launcher can look at the process table        *)
(* between them.                                                           *)
(*                                                                         *)
(* Time.  A Tick is 15 s.  What the code does within a second (deliver a   *)
(* 'close', poll with waitfor_blockchain_shutdown, run an expired timer)   *)
(* happens before the next Tick, in any order.  How long lokid takes to    *)
(* stop is unbounded.                                                      *)
(***************************************************************************)
EXTENDS Naturals

CONSTANTS
  Pid,            \* process ids the operating system may give to a lokid
  NoPid,          \* the pid of a handle whose spawn failed
  ConfigRestart,  \* is [blockchain] restart set in launcher.ini?
  RelaunchDelay,  \* ticks from 'close' to the relaunch (30 s)
  ReleaseDelay    \* ticks from a seen shutdown to the lock's release (45 s)

ASSUME PidAssumption == Pid # {} /\ NoPid \notin Pid
ASSUME ConfigAssumption == ConfigRestart \in BOOLEAN
ASSUME DelayAssumption ==
  /\ RelaunchDelay \in Nat
  /\ ReleaseDelay \in Nat \ {0}

VARIABLES
  loki_daemon,    \* the handle: "null", "open", or "killed" (its killed flag)
  pid,            \* the handle's pid
  running,        \* the lokid processes that exist
  signalled,      \* those of them asked to stop (SIGINT, or "exit" on stdin)
  closing,        \* pids of ended processes whose 'close' is not delivered
  spawnThrew,     \* history: a launch ended in an exception
  relaunches,     \* the setTimeouts of the close handlers
  restart,        \* config.blockchain.restart
  requestBlockchainRestartLock,
  requests,       \* the closures of requestBlockchainRestart
  exitRequested,
  shuttingDown,
  shutDownTimer   \* "null", "on", "cleared"

handleVars == <<loki_daemon, pid>>
processVars == <<running, signalled, closing, spawnThrew>>
restartVars == <<requestBlockchainRestartLock, requests>>
shutdownVars == <<shuttingDown, shutDownTimer>>
vars == <<handleVars, processVars, relaunches, restart, restartVars,
          exitRequested, shutdownVars>>

Handle == Pid \cup {NoPid}
Relaunch == [of: Handle, left: 0..RelaunchDelay]
Polling == ReleaseDelay + 1   \* a request that still polls, not a timer value
Request == [oldVal: BOOLEAN, left: 0..Polling]

TypeOK ==
  /\ loki_daemon \in {"null", "open", "killed"}
  /\ pid \in Handle
  /\ running \subseteq Pid
  /\ signalled \subseteq Pid
  /\ closing \subseteq Handle
  /\ spawnThrew \in BOOLEAN
  /\ relaunches \subseteq Relaunch
  /\ restart \in BOOLEAN
  /\ requestBlockchainRestartLock \in BOOLEAN
  /\ requests \subseteq Request
  /\ exitRequested \in BOOLEAN
  /\ shuttingDown \in BOOLEAN
  /\ shutDownTimer \in {"null", "on", "cleared"}

Init ==
  /\ loki_daemon = "null" /\ pid = NoPid
  /\ running = {} /\ signalled = {} /\ closing = {} /\ spawnThrew = FALSE
  /\ relaunches = {}
  /\ restart = ConfigRestart
  /\ requestBlockchainRestartLock = FALSE /\ requests = {}
  /\ exitRequested = FALSE
  /\ shuttingDown = FALSE /\ shutDownTimer = "null"
---------------------------------------------------------------------------
(* Building blocks of the handlers.  A definition named X_... is X with a   *)
(* bug in it; the properties are tried against it (README, "Mutants").      *)

\* Is a process with the handle's pid in the process table?
blockchain_running == loki_daemon # "null" /\ pid \in running

shutdown_blockchain_NoSignal ==
  /\ loki_daemon' = IF loki_daemon = "open" THEN "killed" ELSE loki_daemon
  /\ UNCHANGED signalled

\* Ask lokid to stop, once per handle.
shutdown_blockchain ==
  IF loki_daemon = "open"
  THEN /\ loki_daemon' = "killed"
       /\ signalled' = signalled \cup ({pid} \cap running)
  ELSE UNCHANGED <<loki_daemon, signalled>>

\* A lokid comes up, or its binary is missing, may not be run, or fork fails
\* for want of processes: a handle without a pid, and a 'close' to come.
SpawnReported ==
  /\ loki_daemon' = "open"
  /\ \/ \E p \in Pid \ running :
          /\ pid' = p
          /\ running' = running \cup {p}
          /\ UNCHANGED closing
     \/ /\ pid' = NoPid
        /\ closing' = closing \cup {NoPid}
        /\ UNCHANGED running
  /\ UNCHANGED <<signalled, spawnThrew>>

\* spawn throws (no memory, no permission, the binary is being written), and
\* the handle stays what it was; or, out of descriptors, it returns a handle
\* without stdout, and launchLokid throws before it asks for the 'close'.
\* Either exception is logged (daemon.js:24), and nothing is to come.
SpawnThrows ==
  /\ spawnThrew' = TRUE
  /\ \/ UNCHANGED handleVars
     \/ loki_daemon' = "open" /\ pid' = NoPid
  /\ UNCHANGED <<running, signalled, closing>>

Spawn == SpawnReported \/ SpawnThrows

\* launchLokid does not look at what is running: it only declines to launch
\* once the launcher is shutting down.
launchLokid_Always == Spawn

launchLokid ==
  IF shuttingDown THEN UNCHANGED <<handleVars, processVars>> ELSE Spawn

\* The part of shutdown_everything that is about lokid; the caller has
\* dealt with the handle.
BeginShutdown ==
  /\ shuttingDown' = TRUE
  /\ restart' = FALSE
  /\ shutDownTimer' = IF shutDownTimer = "null" THEN "on" ELSE shutDownTimer
---------------------------------------------------------------------------
(* The actions.                                                            *)

startLokid ==
  /\ loki_daemon = "null" /\ ~shuttingDown /\ ~spawnThrew
  /\ launchLokid
  /\ UNCHANGED <<relaunches, restart, restartVars, exitRequested, shutdownVars>>

\* lokid ends, of its own accord or because it was told to.
LokidExits(p) ==
  /\ p \in running
  /\ running' = running \ {p}
  /\ signalled' = signalled \ {p}
  /\ closing' = closing \cup {p}
  /\ UNCHANGED <<handleVars, spawnThrew, relaunches, restart, restartVars,
                 exitRequested, shutdownVars>>

OnClose_Forgets(c) ==
  /\ c \in closing
  /\ closing' = closing \ {c}
  /\ loki_daemon' = "killed"
  /\ UNCHANGED <<pid, running, signalled, spawnThrew, relaunches, restart,
                 restartVars, exitRequested, shutdownVars>>

\* The 'close' handler.  It marks whatever the handle is by now (a null one
\* becomes a stub), then relaunches, or shuts everything down.
OnClose(c) ==
  /\ c \in closing
  /\ closing' = closing \ {c}
  /\ loki_daemon' = "killed"
  /\ \/ /\ shuttingDown
        /\ UNCHANGED <<relaunches, restart, shutdownVars>>
     \/ /\ ~shuttingDown /\ restart
        /\ relaunches' = relaunches \cup {[of |-> c, left |-> RelaunchDelay]}
        /\ UNCHANGED <<restart, shutdownVars>>
     \/ /\ ~shuttingDown /\ ~restart
        /\ BeginShutdown
        /\ UNCHANGED relaunches
  /\ UNCHANGED <<pid, running, signalled, spawnThrew, restartVars, exitRequested>>

\* 30 s after a 'close'.
RelaunchFires(t) ==
  /\ t \in relaunches /\ t.left = 0
  /\ relaunches' = relaunches \ {t}
  /\ launchLokid
  /\ UNCHANGED <<restart, restartVars, exitRequested, shutdownVars>>

requestBlockchainRestart_NoLock ==
  IF shuttingDown
  THEN UNCHANGED <<restart, restartVars, loki_daemon, signalled>>
  ELSE /\ requestBlockchainRestartLock' = TRUE
       /\ requests' = requests \cup {[oldVal |-> restart, left |-> Polling]}
       /\ restart' = TRUE
       /\ shutdown_blockchain

requestBlockchainRestart ==
  IF shuttingDown \/ requestBlockchainRestartLock
  THEN UNCHANGED <<restart, restartVars, loki_daemon, signalled>>
  ELSE /\ requestBlockchainRestartLock' = TRUE
       /\ requests' = requests \cup {[oldVal |-> restart, left |-> Polling]}
       /\ restart' = TRUE
       /\ shutdown_blockchain

\* The storage server has reported too many failures to reach lokid.
StorageContactFailures ==
  /\ loki_daemon # "null"
  /\ ~requestBlockchainRestartLock /\ ~exitRequested
  /\ requestBlockchainRestart
  /\ UNCHANGED <<pid, running, closing, spawnThrew, relaunches, exitRequested,
                 shutdownVars>>

\* getHeight has seen the same height too often (HeightCheck says when); the
\* answer that told it so comes from a lokid that lives or has just died.
HeightStuck ==
  /\ loki_daemon # "null"
  /\ running # {} \/ closing # {}
  /\ requestBlockchainRestart
  /\ UNCHANGED <<pid, running, closing, spawnThrew, relaunches, exitRequested,
                 shutdownVars>>

PollSeesDown_Blind(r) ==
  /\ r \in requests /\ r.left = Polling
  /\ requests' = (requests \ {r}) \cup {[r EXCEPT !.left = ReleaseDelay]}
  /\ UNCHANGED <<handleVars, processVars, relaunches, restart,
                 requestBlockchainRestartLock, exitRequested, shutdownVars>>

\* waitfor_blockchain_shutdown's poll no longer sees a lokid.
PollSeesDown(r) ==
  /\ r \in requests /\ r.left = Polling
  /\ ~blockchain_running
  /\ requests' = (requests \ {r}) \cup {[r EXCEPT !.left = ReleaseDelay]}
  /\ UNCHANGED <<handleVars, processVars, relaunches, restart,
                 requestBlockchainRestartLock, exitRequested, shutdownVars>>

ReleaseLock_Relaunches(r) ==
  /\ r \in requests /\ r.left = 0
  /\ requests' = requests \ {r}
  /\ IF shuttingDown
     THEN UNCHANGED <<requestBlockchainRestartLock, restart>>
     ELSE /\ requestBlockchainRestartLock' = FALSE
          /\ restart' = r.oldVal
  /\ launchLokid
  /\ UNCHANGED <<relaunches, exitRequested, shutdownVars>>

\* 45 s later the setting is put back and the lock released.
ReleaseLock(r) ==
  /\ r \in requests /\ r.left = 0
  /\ requests' = requests \ {r}
  /\ IF shuttingDown
     THEN UNCHANGED <<requestBlockchainRestartLock, restart>>
     ELSE /\ requestBlockchainRestartLock' = FALSE
          /\ restart' = r.oldVal
  /\ UNCHANGED <<handleVars, processVars, relaunches, exitRequested, shutdownVars>>

\* "exit" typed on the interactive console: it goes to lokid's stdin, and
\* lokid stops on it.
TypeExit ==
  /\ loki_daemon # "null" /\ ~shuttingDown
  /\ signalled' = signalled \cup ({pid} \cap running)
  /\ exitRequested' = TRUE
  /\ restart' = FALSE
  /\ UNCHANGED <<handleVars, running, closing, spawnThrew, relaunches,
                 restartVars, shutdownVars>>

\* SIGINT, SIGTERM or ctrl-c, possibly repeated; or another daemon's failure.
shutdown_everything ==
  /\ loki_daemon # "null" \/ spawnThrew
  /\ BeginShutdown
  /\ shutdown_blockchain
  /\ UNCHANGED <<pid, running, closing, spawnThrew, relaunches, restartVars,
                 exitRequested>>

AllDaemonsDown_Unchecked ==
  /\ shutDownTimer = "on"
  /\ shutDownTimer' = "cleared"
  /\ loki_daemon' = "null" /\ pid' = NoPid
  /\ UNCHANGED <<processVars, relaunches, restart, restartVars, exitRequested,
                 shuttingDown>>

\* The 5 s interval of the shutdown, the one time it finds all daemons down.
AllDaemonsDown ==
  /\ shutDownTimer = "on"
  /\ ~blockchain_running
  /\ shutDownTimer' = "cleared"
  /\ loki_daemon' = "null" /\ pid' = NoPid
  /\ UNCHANGED <<processVars, relaunches, restart, restartVars, exitRequested,
                 shuttingDown>>

\* 15 s pass.
Urgent ==
  \/ closing # {}
  \/ \E t \in relaunches : t.left = 0
  \/ \E r \in requests : r.left = 0 \/ (r.left = Polling /\ ~blockchain_running)

Tick ==
  /\ ~Urgent
  /\ relaunches' = {[t EXCEPT !.left = @ - 1] : t \in relaunches}
  /\ requests' = {IF r.left = Polling THEN r ELSE [r EXCEPT !.left = @ - 1] :
                    r \in requests}
  /\ UNCHANGED <<handleVars, processVars, restart, requestBlockchainRestartLock,
                 exitRequested, shutdownVars>>
---------------------------------------------------------------------------
Lokid == \E p \in Pid : LokidExits(p)

Environment == Lokid \/ StorageContactFailures \/ TypeExit \/ shutdown_everything

Launcher ==
  \/ startLokid
  \/ \E c \in Handle : OnClose(c)
  \/ \E t \in relaunches : RelaunchFires(t)
  \/ HeightStuck
  \/ \E r \in requests : PollSeesDown(r) \/ ReleaseLock(r)
  \/ AllDaemonsDown

Next == Environment \/ Launcher \/ Tick

Spec == Init /\ [][Next]_vars
---------------------------------------------------------------------------
(* Safety. *)

\* Every lokid that exists is the one the handle names: there is never a
\* second lokid, and never one that nothing can manage any more (the worry
\* of the comment in launchLokid, daemon.js:1369, which launches whether or
\* not one is running).
LokidManaged ==
  /\ running \subseteq {pid}
  /\ running # {} => loki_daemon # "null"

\* No lokid is launched once the launcher shuts down, although a relaunch
\* may be pending when the signal comes (daemon.js:1356, 1611).
NoLaunchAfterShutdown == [][shuttingDown => running' \subseteq running]_vars

\* When no restart is in progress the restart setting is what the user
\* configured: a restart request (daemon.js:1706-1723) puts back what it
\* found, and no other request can have changed it meanwhile.
RestartRestored ==
  ~requestBlockchainRestartLock /\ ~shuttingDown /\ ~exitRequested
    => restart = ConfigRestart

\* While a lokid that was told to stop for a restart is still ending, or its
\* 'close' is still to come, the setting is on: that 'close' relaunches lokid
\* and does not take the whole suite down (daemon.js:1608 against 1723).
RestartSurvivesClose ==
  /\ loki_daemon = "killed" /\ (running # {} \/ closing # {})
  /\ ~shuttingDown /\ ~exitRequested
  => restart

\* Once the shutdown says "All daemons down." (daemon.js:200) no lokid exists,
\* then or later.
DownMeansDown == shutDownTimer = "cleared" => running = {}

\* Of all this, a daemon under supervision as Daemon describes it: the restart
\* lock, the borrowed setting and the timers never launch a second lokid, nor
\* one after the shutdown began (daemon.js:133-241, 1355-1620).
D == INSTANCE Daemon WITH
  handle <- loki_daemon, up <- running # {}, closing <- closing # {},
  allDown <- shutDownTimer = "cleared"

ImplementsDaemon == D!Spec
---------------------------------------------------------------------------
(* Liveness.  Node runs every timer and delivers every 'close'.  lokid     *)
(* stops some time after SIGINT or "exit".  Nothing else is assumed of the *)
(* environment.                                                            *)

LokidObeys == \E p \in signalled : LokidExits(p)

Fairness ==
  /\ WF_vars(startLokid)
  /\ \A c \in Handle : WF_vars(OnClose(c))
  /\ WF_vars(\E t \in relaunches : RelaunchFires(t))
  /\ WF_vars(\E r \in requests : PollSeesDown(r))
  /\ WF_vars(\E r \in requests : ReleaseLock(r))
  /\ WF_vars(AllDaemonsDown)
  /\ WF_vars(Tick)
  /\ WF_vars(LokidObeys)

LiveSpec == Spec /\ Fairness

\* A lokid that is stopped while restart is set is launched again, unless the
\* user has it otherwise, or a launch ended in an exception: nothing launches
\* lokid after that (daemon.js:1381-1416, 1608-1614).
Relaunched ==
  loki_daemon = "killed" /\ restart
    ~> loki_daemon = "open" \/ shuttingDown \/ exitRequested \/ spawnThrew

\* A shutdown ends with no lokid, and with no timer of this component left
\* that would keep the launcher's event loop alive (daemon.js:240: "seems to
\* handle itself").
Drained ==
  /\ shutDownTimer = "cleared"
  /\ running = {} /\ closing = {} /\ relaunches = {} /\ requests = {}

ShutdownDrains == shuttingDown ~> []Drained
---------------------------------------------------------------------------
(* The inductive invariant behind the safety properties. *)

\* A lokid is alive, or its 'close' is pending, or its relaunch is: never two
\* of them, and never two of a kind; none after a launch that threw.
OneLifeCycle ==
  /\ running \subseteq {pid}
  /\ running # {} => loki_daemon # "null" /\ closing = {} /\ relaunches = {}
  /\ closing # {} => relaunches = {}
  /\ spawnThrew => running = {} /\ closing = {} /\ relaunches = {}
  /\ \A c, d \in closing : c = d
  /\ \A t, u \in relaunches : t = u
  /\ loki_daemon = "null" /\ ~shuttingDown
       => running = {} /\ closing = {} /\ relaunches = {}

ShutdownOrder ==
  /\ shutDownTimer # "null" => shuttingDown
  /\ shutDownTimer = "cleared" => running = {}

\* The lock is held by one request, which remembers the configured value; a
\* lokid that is being stopped keeps that request from its release.
OneRequest ==
  /\ \A q, r \in requests : q = r
  /\ ~shuttingDown => (requestBlockchainRestartLock <=> requests # {})
  /\ ~shuttingDown /\ ~exitRequested =>
       /\ requests = {} => restart = ConfigRestart
       /\ \A r \in requests : restart /\ r.oldVal = ConfigRestart
       /\ loki_daemon = "killed" /\ (running # {} \/ closing # {}) =>
            /\ requests # {}
            /\ \A r \in requests :
                 /\ r.left \in {Polling, ReleaseDelay}
                 /\ running # {} => r.left = Polling

IInv == TypeOK /\ OneLifeCycle /\ ShutdownOrder /\ OneRequest
===========================================================================
