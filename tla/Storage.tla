------------------------------ MODULE Storage ------------------------------
(***************************************************************************)
(* The launcher's supervision of the storage server (daemon.js): launching *)
(* it once lokid's RPC port is bound, watching its RPC server, killing it  *)
(* when that stops answering, relaunching it, and shutting it down.        *)
(*                                                                         *)
(* Each launch makes a closure with two intervals: memoryWatcher tests     *)
(* every 10 s whether the server answers yet; the first answer replaces it *)
(* by watchdog, which tests every 10 min.  The 'close' handler clears both.*)
(* A test is asynchronous: what it learns is acted upon in a later callback*)
(* (lib.runStorageRPCTest, at most 5 s), whatever has happened since.      *)
(*                                                                         *)
(* A Tick is 10 s; a test ends, and a 'close' is delivered, before the     *)
(* next one.                                                               *)
(***************************************************************************)
EXTENDS Naturals

CONSTANTS
  Pid, NoPid,     \* process ids; the one of a handle whose spawn failed
  StartPeriod,    \* ticks between two tests of memoryWatcher (10 s)
  WatchPeriod,    \* ticks between two tests of watchdog (10 min)
  RelaunchDelay   \* ticks from 'close' to the relaunch (30 s)

ASSUME PidAssumption == Pid # {} /\ NoPid \notin Pid
ASSUME PeriodAssumption ==
  StartPeriod \in Nat \ {0} /\ WatchPeriod \in Nat \ {0} /\ RelaunchDelay \in Nat \ {0}

VARIABLES
  storageServer,  \* the handle: "null", "open" or "killed"
  pid,            \* the handle's pid
  proc,           \* each process; the two exits have a 'close' to come
  sent,           \* the strongest signal each was sent
  memoryWatcher, watchdog,  \* the intervals of each server's closure
  strays,         \* watchdogs of servers whose 'close' is past
  test,           \* the RPC test each closure waits for, by its callback
  replied,        \* the tests whose reply has arrived and is not delivered
  relaunches,     \* the ticks left of each relaunch timer
  rpcPolling,     \* checkRpcUp has not launched the server yet
  spawnFailed,    \* history: a launch came to nothing
  shuttingDown,
  shutDownTimer   \* "null", "on", "cleared"

handleVars == <<storageServer, pid>>
procVars == <<proc, sent>>
watchVars == <<memoryWatcher, watchdog, strays, test, replied>>
launchVars == <<rpcPolling, spawnFailed>>
shutdownVars == <<shuttingDown, shutDownTimer>>
vars == <<handleVars, procVars, watchVars, relaunches, launchVars, shutdownVars>>

Alive == {"booting", "serving", "hung"}
Exit == {"exit", "exit1"}       \* "exit1": with code 1
Off == StartPeriod + WatchPeriod  \* a cleared interval
live == {p \in Pid : proc[p] \in Alive}

TypeOK ==
  /\ storageServer \in {"null", "open", "killed"}
  /\ pid \in Pid \cup {NoPid}
  /\ proc \in [Pid -> {"none"} \cup Alive \cup Exit]
  /\ sent \in [Pid -> {"none", "SIGINT", "SIGKILL"}]
  /\ memoryWatcher \in [Pid -> 0..StartPeriod \cup {Off}]
  /\ watchdog \in [Pid -> 0..WatchPeriod \cup {Off}]
  /\ strays \subseteq 0..WatchPeriod
  /\ test \in [Pid -> {"none", "startup", "watch"}]
  /\ replied \subseteq {p \in Pid : test[p] # "none"}
  /\ relaunches \subseteq 0..RelaunchDelay
  /\ rpcPolling \in BOOLEAN /\ spawnFailed \in BOOLEAN
  /\ shuttingDown \in BOOLEAN
  /\ shutDownTimer \in {"null", "on", "cleared"}

Init ==
  /\ storageServer = "null" /\ pid = NoPid
  /\ proc = [p \in Pid |-> "none"] /\ sent = [p \in Pid |-> "none"]
  /\ memoryWatcher = [p \in Pid |-> Off] /\ watchdog = [p \in Pid |-> Off]
  /\ strays = {} /\ replied = {}
  /\ test = [p \in Pid |-> "none"]
  /\ relaunches = {} /\ rpcPolling = TRUE /\ spawnFailed = FALSE
  /\ shuttingDown = FALSE /\ shutDownTimer = "null"
---------------------------------------------------------------------------
storage_running == storageServer # "null" /\ pid \in live

shutdown_storage_Once ==
  /\ sent' = IF storageServer = "open" /\ pid \in live
             THEN [sent EXCEPT ![pid] = "SIGINT"] ELSE sent
  /\ storageServer' = IF storageServer = "open" THEN "killed" ELSE storageServer

shutdown_storage_Hard ==
  /\ sent' = IF storage_running THEN [sent EXCEPT ![pid] = "SIGKILL"] ELSE sent
  /\ storageServer' = IF storageServer = "open" THEN "killed" ELSE storageServer

\* SIGINT the first time, SIGKILL if it is called for the same server again.
shutdown_storage ==
  /\ sent' = IF storage_running
             THEN [sent EXCEPT ![pid] =
                     IF storageServer = "killed" THEN "SIGKILL" ELSE "SIGINT"]
             ELSE sent
  /\ storageServer' = IF storageServer = "open" THEN "killed" ELSE storageServer

SpawnWorks ==
  /\ storageServer' = "open"
  /\ \E p \in {q \in Pid : proc[q] = "none" /\ test[q] = "none"} :
       /\ pid' = p
       /\ proc' = [proc EXCEPT ![p] = "booting"]
       /\ memoryWatcher' = [memoryWatcher EXCEPT ![p] = StartPeriod]
  /\ UNCHANGED <<sent, watchdog, strays, test, replied, spawnFailed>>

\* No such binary, no descriptors: a handle without a process.  The code
\* returns before it sets up any handler or interval, so that Node's 'error'
\* ends in the log.
SpawnFails ==
  /\ storageServer' = "open" /\ pid' = NoPid
  /\ spawnFailed' = TRUE
  /\ UNCHANGED <<procVars, watchVars>>

\* No memory, no permission: spawn throws, the handle stays what it was, and
\* the exception ends in the log (daemon.js:24).
SpawnThrows ==
  /\ spawnFailed' = TRUE
  /\ UNCHANGED <<handleVars, procVars, watchVars>>

launcherStorageServer_Always == SpawnWorks \/ SpawnFails \/ SpawnThrows

launcherStorageServer ==
  IF shuttingDown THEN UNCHANGED <<handleVars, procVars, watchVars, spawnFailed>>
                  ELSE SpawnWorks \/ SpawnFails \/ SpawnThrows
---------------------------------------------------------------------------
(* The actions. *)

BeginShutdown ==
  /\ shuttingDown' = TRUE
  /\ shutDownTimer' = IF shutDownTimer = "null" THEN "on" ELSE shutDownTimer

\* checkRpcUp sees lokid's RPC port bound, or that the launcher shuts down.
\* A first storage server without a process is reported to the start, which
\* then starts nothing at all; one whose spawn throws is reported to nobody.
startStorageServer ==
  /\ rpcPolling
  /\ rpcPolling' = FALSE
  /\ \/ launcherStorageServer /\ ~SpawnFails /\ UNCHANGED shutdownVars
     \/ /\ ~shuttingDown
        /\ storageServer' = "killed" /\ pid' = NoPid
        /\ spawnFailed' = TRUE
        /\ BeginShutdown
        /\ UNCHANGED <<procVars, watchVars>>
  /\ UNCHANGED relaunches

RelaunchFires ==
  /\ 0 \in relaunches
  /\ relaunches' = relaunches \ {0}
  /\ launcherStorageServer
  /\ UNCHANGED <<rpcPolling, shutdownVars>>

\* memoryWatcher's interval, and watchdog's, run out: ask the RPC server.
MemoryWatcherFires(p) ==
  /\ memoryWatcher[p] = 0
  /\ memoryWatcher' = [memoryWatcher EXCEPT ![p] = StartPeriod]
  /\ test' = [test EXCEPT ![p] = "startup"]
  /\ UNCHANGED <<handleVars, procVars, watchdog, strays, replied, relaunches,
                 launchVars, shutdownVars>>

WatchdogFires(p) ==
  /\ watchdog[p] = 0
  /\ watchdog' = [watchdog EXCEPT ![p] = WatchPeriod]
  /\ test' = [test EXCEPT ![p] = "watch"]
  /\ UNCHANGED <<handleVars, procVars, memoryWatcher, strays, replied, relaunches,
                 launchVars, shutdownVars>>

\* A test asks the port, not the process.
ServerReplies(p) ==
  /\ test[p] # "none" /\ p \notin replied
  /\ \E q \in Pid : proc[q] = "serving"
  /\ replied' = replied \cup {p}
  /\ UNCHANGED <<handleVars, procVars, memoryWatcher, watchdog, strays, test,
                 relaunches, launchVars, shutdownVars>>

EndTest(p) ==
  /\ test' = [test EXCEPT ![p] = "none"]
  /\ replied' = replied \ {p}

\* The reply is delivered.  The watchdog that startupComplete starts after
\* 'close' is one that nothing will clear.
TestSucceeds(p) ==
  /\ p \in replied
  /\ EndTest(p)
  /\ \/ /\ test[p] = "startup"
        /\ memoryWatcher' = [memoryWatcher EXCEPT ![p] = Off]
        /\ \/ /\ proc[p] # "none"
              /\ watchdog' = [watchdog EXCEPT ![p] = WatchPeriod]
              /\ UNCHANGED strays
           \/ /\ proc[p] = "none"
              /\ strays' = strays \cup {WatchPeriod}
              /\ UNCHANGED watchdog
     \/ /\ test[p] = "watch"
        /\ UNCHANGED <<memoryWatcher, watchdog, strays>>
  /\ UNCHANGED <<handleVars, procVars, relaunches, launchVars, shutdownVars>>

TestFails_Relaunches(p) ==
  /\ test[p] # "none"
  /\ EndTest(p)
  /\ IF test[p] = "watch"
     THEN shutdown_storage /\ relaunches' = relaunches \cup {RelaunchDelay}
     ELSE UNCHANGED <<storageServer, sent, relaunches>>
  /\ UNCHANGED <<pid, proc, memoryWatcher, watchdog, strays, launchVars, shutdownVars>>

\* The connection is refused, or 5 s have passed.
TestFails(p) ==
  /\ test[p] # "none"
  /\ EndTest(p)
  /\ IF test[p] = "watch" THEN shutdown_storage ELSE UNCHANGED <<storageServer, sent>>
  /\ UNCHANGED <<pid, proc, memoryWatcher, watchdog, strays, relaunches,
                 launchVars, shutdownVars>>

\* A stray watchdog asks, and nothing answers: it kills whatever server the
\* handle names by then.
StrayFires(answered) ==
  /\ 0 \in strays
  /\ answered => \E q \in Pid : proc[q] = "serving"
  /\ strays' = (strays \ {0}) \cup {WatchPeriod}
  /\ IF answered THEN UNCHANGED <<storageServer, sent>> ELSE shutdown_storage
  /\ UNCHANGED <<pid, proc, memoryWatcher, watchdog, test, replied, relaunches,
                 launchVars, shutdownVars>>

OnClose_NoRelaunch(p) ==
  /\ proc[p] \in Exit
  /\ proc' = [proc EXCEPT ![p] = "none"] /\ sent' = [sent EXCEPT ![p] = "none"]
  /\ memoryWatcher' = [memoryWatcher EXCEPT ![p] = Off]
  /\ watchdog' = [watchdog EXCEPT ![p] = Off]
  /\ storageServer' = IF proc[p] = "exit1" THEN "null" ELSE "killed"
  /\ relaunches' = IF shuttingDown \/ proc[p] = "exit1"
                   THEN relaunches ELSE relaunches \cup {RelaunchDelay}
  /\ UNCHANGED <<pid, strays, test, replied, launchVars, shutdownVars>>

\* The 'close' handler.  With the handle already null it throws after the
\* intervals are cleared, and schedules nothing.
OnClose(p) ==
  /\ proc[p] \in Exit
  /\ proc' = [proc EXCEPT ![p] = "none"]
  /\ sent' = [sent EXCEPT ![p] = "none"]
  /\ memoryWatcher' = [memoryWatcher EXCEPT ![p] = Off]
  /\ watchdog' = [watchdog EXCEPT ![p] = Off]
  /\ storageServer' = IF storageServer = "null" \/ proc[p] = "exit1"
                      THEN "null" ELSE "killed"
  /\ relaunches' = IF storageServer = "null" \/ shuttingDown
                   THEN relaunches ELSE relaunches \cup {RelaunchDelay}
  /\ UNCHANGED <<pid, strays, test, replied, launchVars, shutdownVars>>

\* Signals, and a lokid that closes for good (Blockchain).
shutdown_everything ==
  /\ BeginShutdown
  /\ shutdown_storage
  /\ UNCHANGED <<pid, proc, watchVars, relaunches, launchVars>>

AllDaemonsDown_Unchecked ==
  /\ shutDownTimer = "on"
  /\ shutDownTimer' = "cleared"
  /\ storageServer' = "null" /\ pid' = NoPid
  /\ UNCHANGED <<procVars, watchVars, relaunches, launchVars, shuttingDown>>

AllDaemonsDown ==
  /\ shutDownTimer = "on"
  /\ ~storage_running
  /\ shutDownTimer' = "cleared"
  /\ storageServer' = "null" /\ pid' = NoPid
  /\ UNCHANGED <<procVars, watchVars, relaunches, launchVars, shuttingDown>>
---------------------------------------------------------------------------
(* The server process: it comes up, it hangs, it ends; a hung one does not *)
(* react to SIGINT.                                                        *)

Becomes(p, state) ==
  /\ proc' = [proc EXCEPT ![p] = state]
  /\ UNCHANGED <<handleVars, sent, watchVars, relaunches, launchVars, shutdownVars>>

ServerUp(p) == proc[p] = "booting" /\ Becomes(p, "serving")
ServerHangs(p) == proc[p] \in {"booting", "serving"} /\ Becomes(p, "hung")
ServerExits(p) ==
  /\ p \in live
  /\ proc[p] # "hung" \/ sent[p] = "SIGKILL"
  /\ \E code \in Exit : Becomes(p, code)
ServerObeys(p) ==
  /\ \/ sent[p] = "SIGINT" /\ proc[p] \in {"booting", "serving"}
     \/ sent[p] = "SIGKILL"
  /\ ServerExits(p)

Urgent ==
  \/ 0 \in relaunches \/ 0 \in strays
  \/ \E p \in Pid : \/ proc[p] \in Exit \/ test[p] # "none"
                    \/ memoryWatcher[p] = 0 \/ watchdog[p] = 0

Down(n) == IF n = Off THEN Off ELSE n - 1

Tick ==
  /\ ~Urgent
  /\ memoryWatcher' = [p \in Pid |-> Down(memoryWatcher[p])]
  /\ watchdog' = [p \in Pid |-> Down(watchdog[p])]
  /\ strays' = {n - 1 : n \in strays}
  /\ relaunches' = {n - 1 : n \in relaunches}
  /\ UNCHANGED <<handleVars, procVars, test, replied, launchVars, shutdownVars>>
---------------------------------------------------------------------------
Server(p) == ServerUp(p) \/ ServerHangs(p) \/ ServerExits(p) \/ ServerReplies(p)

Timers(p) == MemoryWatcherFires(p) \/ WatchdogFires(p)

Next ==
  \/ startStorageServer \/ RelaunchFires
  \/ shutdown_everything \/ AllDaemonsDown \/ Tick
  \/ \E answered \in BOOLEAN : StrayFires(answered)
  \/ \E p \in Pid : \/ Server(p) \/ Timers(p) \/ OnClose(p)
                    \/ TestSucceeds(p) \/ TestFails(p)

Spec == Init /\ [][Next]_vars
---------------------------------------------------------------------------
(* Safety. *)

\* Every storage server that exists is the one the handle names, so that a
\* shutdown finds it: a 'close' nulls the handle (daemon.js:589) and starts a
\* relaunch, and watchdogs outlive their servers, but no second one appears.
StorageManaged ==
  /\ live \subseteq {pid}
  /\ live # {} => storageServer # "null"

\* A server is sent SIGKILL only after SIGINT had its chance: shutdown_storage
\* goes by the handle's flag, which 'close' and other callers also write
\* (daemon.js:104-122, 575).
AskedFirst ==
  [][\A p \in Pid : sent'[p] = "SIGKILL" => sent[p] # "none"]_vars

\* The storage server is a daemon as Daemon describes it: RPC tests that come
\* back late, watchdogs that outlive their server and a handle nulled by
\* 'close' never make a second one (daemon.js:253-618).
D == INSTANCE Daemon WITH
  handle <- storageServer, up <- live # {},
  closing <- \E p \in Pid : proc[p] \in Exit,
  allDown <- shutDownTimer = "cleared"

ImplementsDaemon == D!Spec
---------------------------------------------------------------------------
(* Liveness.  Node runs timers and delivers callbacks; a server that is not *)
(* hung obeys SIGINT, and all obey SIGKILL.                                 *)

Fairness ==
  /\ WF_vars(startStorageServer) /\ WF_vars(RelaunchFires)
  /\ WF_vars(AllDaemonsDown) /\ WF_vars(Tick)
  /\ WF_vars(\E answered \in BOOLEAN : StrayFires(answered))
  /\ \A p \in Pid :
       /\ WF_vars(Timers(p)) /\ WF_vars(OnClose(p)) /\ WF_vars(ServerObeys(p))
       /\ WF_vars(TestSucceeds(p) \/ TestFails(p))

LiveSpec == Spec /\ Fairness

\* A server that hangs once it has answered is got rid of although it ignores
\* SIGINT: its watchdog comes back 10 minutes later (daemon.js:533-542, 104).
HungKilled ==
  \A p \in Pid : proc[p] = "hung" /\ watchdog[p] # Off ~> proc[p] # "hung"

\* A server that ended, or that its watchdog gave up on, is launched again
\* (daemon.js:538 "what restarts this? something does"), and runs; until a
\* launch comes to nothing, which is the last (daemon.js:325-335).
StorageRelaunched ==
  storageServer # "open" /\ pid \in Pid
    ~> (storageServer = "open" /\ live # {}) \/ shuttingDown \/ spawnFailed

\* A shutdown ends the storage server; only one that hung before it ever
\* answered, which has no watchdog, can hold it up.
ShutdownStops ==
  shuttingDown ~>
    [](\A p \in Pid : proc[p] # "none" => proc[p] = "hung" /\ watchdog[p] = Off)
---------------------------------------------------------------------------
(* What the source says and the code does not do. *)

\* daemon.js:554 "don't hold up the exit too much", 240 "seems to handle
\* itself": no interval of a storage server is left once all daemons are down.
IntervalsCleared ==
  shutDownTimer = "cleared" ~>
    /\ strays = {}
    /\ \A p \in Pid : memoryWatcher[p] = Off /\ watchdog[p] = Off
---------------------------------------------------------------------------
(* The inductive invariant behind the safety properties. *)

\* A storage server is awaited, alive, closing or due: one of these, and one
\* server.
OneLifeCycle ==
  /\ StorageManaged
  /\ \A p, q \in Pid : proc[p] # "none" /\ proc[q] # "none" => p = q
  /\ \A p \in Pid : proc[p] # "none" => relaunches = {} /\ ~rpcPolling
  /\ \A m, n \in relaunches : m = n
  /\ relaunches # {} => ~rpcPolling

\* The flag means that the server was asked to end.
FlagMeansAsked == storageServer = "killed" => \A p \in live : sent[p] # "none"

ShutdownOrder == shutDownTimer # "null" => shuttingDown

IInv == TypeOK /\ OneLifeCycle /\ FlagMeansAsked /\ ShutdownOrder
===========================================================================
