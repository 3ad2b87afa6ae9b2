--------------------------- MODULE StorageProofs ---------------------------
(***************************************************************************)
(* Proofs about Storage, for all periods and process ids: types, one       *)
(* managed storage server, SIGINT before SIGKILL, and that Storage         *)
(* implements Daemon.  The inductive invariant is the type invariant,      *)
(* OneLifeCycle, FlagMeansAsked and ShutdownOrder.                         *)
(***************************************************************************)
EXTENDS Storage, TLAPS

USE DEF handleVars, procVars, watchVars, launchVars, shutdownVars, Alive, Exit

LEMMA InitIInv == Init => IInv
<1> SUFFICES ASSUME Init PROVE IInv
  OBVIOUS
<1> USE PidAssumption, PeriodAssumption DEF Init
<1>1. TypeOK
  <2>1. /\ memoryWatcher \in [Pid -> 0..StartPeriod \cup {Off}]
        /\ watchdog \in [Pid -> 0..WatchPeriod \cup {Off}]
    OBVIOUS
  <2>2. QED BY <2>1 DEF TypeOK
<1>2. OneLifeCycle /\ FlagMeansAsked /\ ShutdownOrder
  BY DEF OneLifeCycle, StorageManaged, live, FlagMeansAsked, ShutdownOrder
<1>3. QED BY <1>1, <1>2 DEF IInv

LEMMA LaunchCases ==
  launcherStorageServer
    => \/ UNCHANGED <<handleVars, procVars, watchVars, spawnFailed>>
       \/ ~shuttingDown /\ (SpawnWorks \/ SpawnFails \/ SpawnThrows)
BY DEF launcherStorageServer

LEMMA TypeStep == TypeOK /\ [Next]_vars => TypeOK'
<1> SUFFICES ASSUME TypeOK, [Next]_vars PROVE TypeOK'
  OBVIOUS
<1> USE PidAssumption, PeriodAssumption DEF TypeOK
<1>1. ASSUME launcherStorageServer
      PROVE  /\ storageServer' \in {"null", "open", "killed"}
             /\ pid' \in Pid \cup {NoPid}
             /\ proc' \in [Pid -> {"none"} \cup Alive \cup Exit]
             /\ memoryWatcher' \in [Pid -> 0..StartPeriod \cup {Off}]
             /\ spawnFailed' \in BOOLEAN
             /\ UNCHANGED <<sent, watchdog, strays, test, replied>>
  <2>1. CASE SpawnWorks
    BY <2>1 DEF SpawnWorks
  <2>2. CASE SpawnFails \/ SpawnThrows
    BY <2>2 DEF SpawnFails, SpawnThrows
  <2>3. CASE UNCHANGED <<handleVars, procVars, watchVars, spawnFailed>>
    BY <2>3
  <2>4. QED BY <1>1, <2>1, <2>2, <2>3, LaunchCases
<1>2. ASSUME shutdown_storage
      PROVE  /\ storageServer' \in {"null", "open", "killed"}
             /\ sent' \in [Pid -> {"none", "SIGINT", "SIGKILL"}]
  BY <1>2 DEF shutdown_storage
<1>3. CASE startStorageServer
  BY <1>1, <1>3 DEF startStorageServer, BeginShutdown
<1>4. CASE RelaunchFires
  BY <1>1, <1>4 DEF RelaunchFires
<1>5. ASSUME NEW p \in Pid, MemoryWatcherFires(p) PROVE TypeOK'
  BY <1>5 DEF MemoryWatcherFires
<1>6. ASSUME NEW p \in Pid, WatchdogFires(p) PROVE TypeOK'
  BY <1>6 DEF WatchdogFires
<1>7. ASSUME NEW p \in Pid, ServerReplies(p) PROVE TypeOK'
  BY <1>7 DEF ServerReplies
<1>8. ASSUME NEW p \in Pid, EndTest(p)
      PROVE  /\ test' \in [Pid -> {"none", "startup", "watch"}]
             /\ replied' \subseteq {q \in Pid : test'[q] # "none"}
  BY <1>8 DEF EndTest
<1>9. ASSUME NEW p \in Pid, TestSucceeds(p) PROVE TypeOK'
  <2>1. memoryWatcher' \in [Pid -> 0..StartPeriod \cup {Off}]
    BY <1>9 DEF TestSucceeds
  <2>2. watchdog' \in [Pid -> 0..WatchPeriod \cup {Off}]
    BY <1>9 DEF TestSucceeds
  <2>3. strays' = strays \/ strays' = strays \cup {WatchPeriod}
    BY <1>9 DEF TestSucceeds
  <2>4. strays' \subseteq 0..WatchPeriod
    <3>1. WatchPeriod \in 0..WatchPeriod
      OBVIOUS
    <3>2. strays \subseteq 0..WatchPeriod
      OBVIOUS
    <3>3. QED BY <2>3, <3>1, <3>2
  <2>5. EndTest(p) /\ UNCHANGED <<handleVars, procVars, relaunches, launchVars, shutdownVars>>
    BY <1>9 DEF TestSucceeds
  <2>6. QED BY <1>8, <2>1, <2>2, <2>4, <2>5
<1>10. ASSUME NEW p \in Pid, TestFails(p) PROVE TypeOK'
  BY <1>2, <1>8, <1>10 DEF TestFails
<1>11. ASSUME NEW answered \in BOOLEAN, StrayFires(answered) PROVE TypeOK'
  BY <1>2, <1>11 DEF StrayFires
<1>12. ASSUME NEW p \in Pid, OnClose(p) PROVE TypeOK'
  <2>1. /\ proc' \in [Pid -> {"none"} \cup Alive \cup Exit]
        /\ sent' \in [Pid -> {"none", "SIGINT", "SIGKILL"}]
        /\ storageServer' \in {"null", "open", "killed"}
    BY <1>12 DEF OnClose
  <2>2. /\ memoryWatcher' \in [Pid -> 0..StartPeriod \cup {Off}]
        /\ watchdog' \in [Pid -> 0..WatchPeriod \cup {Off}]
    BY <1>12 DEF OnClose
  <2>3. relaunches' \subseteq 0..RelaunchDelay
    BY <1>12 DEF OnClose
  <2>4. QED BY <1>12, <2>1, <2>2, <2>3 DEF OnClose
<1>13. CASE shutdown_everything
  BY <1>2, <1>13 DEF shutdown_everything, BeginShutdown
<1>14. CASE AllDaemonsDown
  BY <1>14 DEF AllDaemonsDown
<1>15. ASSUME NEW p \in Pid, ServerUp(p) \/ ServerHangs(p) \/ ServerExits(p)
       PROVE  TypeOK'
  BY <1>15 DEF ServerUp, ServerHangs, ServerExits, Becomes
<1>16. CASE Tick
  <2>1. /\ memoryWatcher' \in [Pid -> 0..StartPeriod \cup {Off}]
        /\ watchdog' \in [Pid -> 0..WatchPeriod \cup {Off}]
    BY <1>16 DEF Tick, Urgent, Down, Off
  <2>2. strays' \subseteq 0..WatchPeriod /\ relaunches' \subseteq 0..RelaunchDelay
    BY <1>16 DEF Tick, Urgent
  <2>3. QED BY <1>16, <2>1, <2>2 DEF Tick
<1>17. CASE UNCHANGED vars
  BY <1>17 DEF vars
<1>18. QED
  BY <1>3, <1>4, <1>5, <1>6, <1>7, <1>9, <1>10, <1>11, <1>12, <1>13, <1>14,
     <1>15, <1>16, <1>17 DEF Next, Server, Timers

(* One life cycle: a launch needs the first launch or the relaunch that is
   due, with which there is no process; and only a 'close' makes one due. *)
LEMMA LifeCycleStep == TypeOK /\ OneLifeCycle /\ [Next]_vars => OneLifeCycle'
<1> SUFFICES ASSUME TypeOK, OneLifeCycle, [Next]_vars PROVE OneLifeCycle'
  OBVIOUS
<1> USE PidAssumption DEF OneLifeCycle, StorageManaged, live
<1>1. ASSUME \A p \in Pid : proc[p] = "none", relaunches' = {}, ~rpcPolling',
             SpawnWorks
      PROVE  OneLifeCycle'
  <2>1. PICK p \in Pid : pid' = p /\ proc' = [proc EXCEPT ![p] = "booting"]
    BY <1>1 DEF SpawnWorks
  <2>2. storageServer' = "open"
    BY <1>1 DEF SpawnWorks
  <2>3. QED BY <1>1, <2>1, <2>2 DEF TypeOK
<1>2. ASSUME \A p \in Pid : proc[p] = "none", relaunches' = {}, ~rpcPolling',
             UNCHANGED proc
      PROVE  OneLifeCycle'
  BY <1>2
<1>3. CASE startStorageServer
  <2>1. /\ \A p \in Pid : proc[p] = "none"
        /\ relaunches' = {} /\ ~rpcPolling'
    BY <1>3 DEF startStorageServer
  <2>2. SpawnWorks \/ UNCHANGED proc
    BY <1>3, LaunchCases DEF startStorageServer, SpawnFails, SpawnThrows
  <2>3. QED BY <1>1, <1>2, <2>1, <2>2
<1>4. CASE RelaunchFires
  <2>1. /\ \A p \in Pid : proc[p] = "none"
        /\ relaunches' = {} /\ ~rpcPolling'
    BY <1>4 DEF RelaunchFires, TypeOK
  <2>2. SpawnWorks \/ UNCHANGED proc
    BY <1>4, LaunchCases DEF RelaunchFires, SpawnFails, SpawnThrows
  <2>3. QED BY <1>1, <1>2, <2>1, <2>2
<1>5. ASSUME UNCHANGED <<pid, proc, relaunches, rpcPolling>>,
             storageServer # "null" => storageServer' # "null"
      PROVE  OneLifeCycle'
  BY <1>5
<1>6. ASSUME shutdown_storage PROVE storageServer # "null" => storageServer' # "null"
  BY <1>6 DEF shutdown_storage
<1>7. ASSUME NEW p \in Pid,
             \/ MemoryWatcherFires(p) \/ WatchdogFires(p) \/ ServerReplies(p)
             \/ TestSucceeds(p) \/ TestFails(p)
      PROVE  OneLifeCycle'
  BY <1>5, <1>6, <1>7 DEF MemoryWatcherFires, WatchdogFires, ServerReplies,
                          TestSucceeds, TestFails
<1>8. ASSUME NEW answered \in BOOLEAN, StrayFires(answered) PROVE OneLifeCycle'
  BY <1>5, <1>6, <1>8 DEF StrayFires
<1>9. CASE shutdown_everything
  BY <1>5, <1>6, <1>9 DEF shutdown_everything
<1>10. CASE AllDaemonsDown
  <2>1. live = {}
    BY <1>10 DEF AllDaemonsDown, storage_running
  <2>2. live' = {}
    BY <1>10, <2>1 DEF AllDaemonsDown
  <2>3. QED BY <1>10, <2>2 DEF AllDaemonsDown
<1>11. ASSUME NEW p \in Pid, OnClose(p) PROVE OneLifeCycle'
  <2>1. relaunches = {} /\ ~rpcPolling' /\ \A q \in Pid : proc'[q] = "none"
    BY <1>11 DEF OnClose, TypeOK
  <2>2. \A m, n \in relaunches' : m = n
    BY <1>11, <2>1 DEF OnClose
  <2>3. QED BY <2>1, <2>2
<1>12. ASSUME NEW p \in Pid, ServerUp(p) \/ ServerHangs(p) \/ ServerExits(p)
       PROVE  OneLifeCycle'
  <2>1. PICK s \in Alive \cup Exit : proc' = [proc EXCEPT ![p] = s]
    BY <1>12 DEF ServerUp, ServerHangs, ServerExits, Becomes
  <2>2. /\ p \in live
        /\ UNCHANGED <<storageServer, pid, relaunches, rpcPolling>>
    BY <1>12 DEF ServerUp, ServerHangs, ServerExits, Becomes
  <2>3. \A q \in Pid : proc'[q] # "none" => proc[q] # "none"
    BY <2>1, <2>2 DEF TypeOK
  <2>4. live' \subseteq live
    BY <2>1, <2>2 DEF TypeOK
  <2>5. QED BY <2>2, <2>3, <2>4
<1>13. CASE Tick
  <2>1. relaunches = {} => relaunches' = {}
    BY <1>13 DEF Tick
  <2>2. \A m, n \in relaunches' : m = n
    BY <1>13 DEF Tick
  <2>3. QED BY <1>13, <2>1, <2>2 DEF Tick
<1>14. CASE UNCHANGED vars
  BY <1>14 DEF vars
<1>15. QED
  BY <1>3, <1>4, <1>7, <1>8, <1>9, <1>10, <1>11, <1>12, <1>13, <1>14
  DEF Next, Server, Timers

(* Whoever sets the flag of a running server has just sent it SIGINT. *)
LEMMA FlagStep ==
  TypeOK /\ OneLifeCycle /\ FlagMeansAsked /\ [Next]_vars => FlagMeansAsked'
<1> SUFFICES ASSUME TypeOK, OneLifeCycle, FlagMeansAsked, [Next]_vars
             PROVE  FlagMeansAsked'
  OBVIOUS
<1> USE PidAssumption DEF TypeOK, OneLifeCycle, StorageManaged, FlagMeansAsked, live
<1>1. ASSUME shutdown_storage, UNCHANGED proc PROVE FlagMeansAsked'
  <2>1. SUFFICES ASSUME NEW p \in live, storageServer' = "killed"
                 PROVE  sent'[p] # "none"
    BY <1>1
  <2>2. p = pid /\ storage_running
    BY DEF storage_running
  <2>3. QED BY <1>1, <2>2 DEF shutdown_storage
<1>2. CASE startStorageServer
  BY <1>2, LaunchCases DEF startStorageServer, SpawnWorks, SpawnFails, SpawnThrows
<1>3. CASE RelaunchFires
  BY <1>3, LaunchCases DEF RelaunchFires, SpawnWorks, SpawnFails, SpawnThrows
<1>4. ASSUME UNCHANGED <<storageServer, proc, sent>> PROVE FlagMeansAsked'
  BY <1>4
<1>5. ASSUME NEW p \in Pid,
             \/ MemoryWatcherFires(p) \/ WatchdogFires(p) \/ ServerReplies(p)
             \/ TestSucceeds(p) \/ TestFails(p)
      PROVE  FlagMeansAsked'
  BY <1>1, <1>4, <1>5 DEF MemoryWatcherFires, WatchdogFires, ServerReplies,
                          TestSucceeds, TestFails
<1>6. ASSUME NEW answered \in BOOLEAN, StrayFires(answered) PROVE FlagMeansAsked'
  BY <1>1, <1>4, <1>6 DEF StrayFires
<1>7. CASE shutdown_everything
  BY <1>1, <1>7 DEF shutdown_everything
<1>8. CASE AllDaemonsDown
  BY <1>8 DEF AllDaemonsDown
<1>9. ASSUME NEW p \in Pid, OnClose(p) PROVE FlagMeansAsked'
  BY <1>9 DEF OnClose
<1>10. ASSUME NEW p \in Pid, ServerUp(p) \/ ServerHangs(p) \/ ServerExits(p)
       PROVE  FlagMeansAsked'
  <2>1. UNCHANGED <<storageServer, sent>> /\ live' \subseteq live
    BY <1>10 DEF ServerUp, ServerHangs, ServerExits, Becomes
  <2>2. QED BY <2>1
<1>11. CASE Tick
  BY <1>11 DEF Tick
<1>12. CASE UNCHANGED vars
  BY <1>12 DEF vars
<1>13. QED
  BY <1>2, <1>3, <1>5, <1>6, <1>7, <1>8, <1>9, <1>10, <1>11, <1>12
  DEF Next, Server, Timers

LEMMA ShutdownStep == ShutdownOrder /\ [Next]_vars => ShutdownOrder'
<1> SUFFICES ASSUME ShutdownOrder, [Next]_vars PROVE ShutdownOrder'
  OBVIOUS
<1> USE DEF ShutdownOrder
<1>1. CASE startStorageServer \/ shutdown_everything
  BY <1>1 DEF startStorageServer, shutdown_everything, BeginShutdown
<1>2. CASE AllDaemonsDown
  BY <1>2 DEF AllDaemonsDown
<1>3. ASSUME UNCHANGED shutdownVars PROVE ShutdownOrder'
  BY <1>3
<1>4. CASE RelaunchFires \/ Tick \/ UNCHANGED vars
  BY <1>3, <1>4 DEF RelaunchFires, Tick, vars
<1>5. CASE \E answered \in BOOLEAN : StrayFires(answered)
  BY <1>3, <1>5 DEF StrayFires
<1>6. ASSUME NEW p \in Pid,
             Server(p) \/ Timers(p) \/ OnClose(p) \/ TestSucceeds(p) \/ TestFails(p)
      PROVE  UNCHANGED shutdownVars
  BY <1>6 DEF Server, Timers, OnClose, TestSucceeds, TestFails, ServerUp, ServerHangs,
              ServerExits, ServerReplies, Becomes, MemoryWatcherFires, WatchdogFires
<1>7. QED BY <1>1, <1>2, <1>3, <1>4, <1>5, <1>6 DEF Next

LEMMA Invariance == Spec => []IInv
<1>1. IInv /\ [Next]_vars => IInv'
  BY TypeStep, LifeCycleStep, FlagStep, ShutdownStep DEF IInv
<1>2. QED BY InitIInv, <1>1, PTL DEF Spec

(* SIGKILL takes a running server whose flag is set. *)
LEMMA AskedStep ==
  IInv /\ [Next]_vars => [\A p \in Pid : sent'[p] = "SIGKILL" => sent[p] # "none"]_vars
<1> SUFFICES ASSUME IInv, [Next]_vars, NEW p \in Pid, sent'[p] = "SIGKILL"
             PROVE  sent[p] # "none"
  OBVIOUS
<1> USE DEF IInv, TypeOK
<1>1. CASE UNCHANGED sent
  BY <1>1
<1>2. CASE shutdown_storage
  BY <1>2 DEF shutdown_storage, FlagMeansAsked, storage_running
<1>3. ASSUME NEW q \in Pid, OnClose(q) PROVE sent[p] # "none"
  BY <1>3 DEF OnClose
<1>4. CASE startStorageServer \/ RelaunchFires \/ AllDaemonsDown \/ Tick \/ UNCHANGED vars
  BY <1>1, <1>4, LaunchCases DEF startStorageServer, RelaunchFires, AllDaemonsDown,
     Tick, vars, SpawnWorks, SpawnFails, SpawnThrows
<1>5. CASE shutdown_everything \/ \E answered \in BOOLEAN : StrayFires(answered)
  BY <1>1, <1>2, <1>5 DEF shutdown_everything, StrayFires
<1>6. ASSUME NEW q \in Pid, Server(q) \/ Timers(q) \/ TestSucceeds(q) \/ TestFails(q)
      PROVE  sent[p] # "none"
  BY <1>1, <1>2, <1>6 DEF Server, Timers, TestSucceeds, TestFails, ServerUp,
     ServerHangs, ServerExits, ServerReplies, Becomes, MemoryWatcherFires, WatchdogFires
<1>7. QED BY <1>3, <1>4, <1>5, <1>6 DEF Next

(* The refinement: tests, timers and escalation are stutters of Daemon. *)
LEMMA DaemonStep == IInv /\ [Next]_vars => [D!Next]_(D!vars)
<1> SUFFICES ASSUME IInv, [Next]_vars PROVE D!Next \/ UNCHANGED D!vars
  OBVIOUS
<1> USE PidAssumption DEF IInv, OneLifeCycle, StorageManaged, TypeOK, live
<1>1. ASSUME \A p \in Pid : proc[p] = "none", launcherStorageServer, UNCHANGED shutdownVars
      PROVE  D!Next \/ UNCHANGED D!vars
  <2>1. CASE ~shuttingDown /\ SpawnWorks
    <3>1. PICK p \in Pid : proc' = [proc EXCEPT ![p] = "booting"]
      BY <2>1 DEF SpawnWorks
    <3>2. live' # {} /\ \A q \in Pid : proc'[q] \notin Exit
      BY <1>1, <3>1
    <3>3. live = {} /\ storageServer' = "open"
      BY <1>1, <2>1 DEF SpawnWorks
    <3>4. QED BY <1>1, <2>1, <3>2, <3>3 DEF D!Next, D!Launch
  <2>2. CASE ~shuttingDown /\ SpawnFails
    BY <1>1, <2>2 DEF SpawnFails, D!Next, D!Launch
  <2>3. CASE UNCHANGED <<handleVars, procVars, watchVars>>
    BY <1>1, <2>3 DEF D!vars
  <2>4. QED BY <1>1, <2>1, <2>2, <2>3, LaunchCases DEF SpawnThrows
<1>2. CASE startStorageServer
  <2>1. \A p \in Pid : proc[p] = "none"
    BY <1>2 DEF startStorageServer
  <2>2. CASE launcherStorageServer /\ UNCHANGED shutdownVars
    BY <1>1, <2>1, <2>2
  <2>3. CASE /\ ~shuttingDown /\ storageServer' = "killed"
             /\ BeginShutdown /\ UNCHANGED procVars
    BY <2>1, <2>3 DEF BeginShutdown, ShutdownOrder, D!Next, D!Launch
  <2>4. QED BY <1>2, <2>2, <2>3 DEF startStorageServer
<1>3. CASE RelaunchFires
  BY <1>1, <1>3 DEF RelaunchFires
<1>4. ASSUME shutdown_storage, UNCHANGED <<proc, shutdownVars>>
      PROVE  D!Next \/ UNCHANGED D!vars
  <2>1. CASE storageServer = "open"
    BY <1>4, <2>1 DEF shutdown_storage, D!Next, D!Ask
  <2>2. CASE storageServer # "open"
    BY <1>4, <2>2 DEF shutdown_storage, D!vars
  <2>3. QED BY <2>1, <2>2
<1>5. ASSUME UNCHANGED <<storageServer, proc, shutdownVars>> PROVE UNCHANGED D!vars
  BY <1>5 DEF D!vars
<1>6. ASSUME NEW p \in Pid,
             \/ MemoryWatcherFires(p) \/ WatchdogFires(p) \/ ServerReplies(p)
             \/ TestSucceeds(p) \/ TestFails(p)
      PROVE  D!Next \/ UNCHANGED D!vars
  BY <1>4, <1>5, <1>6 DEF MemoryWatcherFires, WatchdogFires, ServerReplies,
                          TestSucceeds, TestFails
<1>7. CASE Tick \/ UNCHANGED vars \/ \E answered \in BOOLEAN : StrayFires(answered)
  BY <1>4, <1>5, <1>7 DEF Tick, vars, StrayFires
<1>8. CASE shutdown_everything
  BY <1>8 DEF shutdown_everything, shutdown_storage, BeginShutdown, D!Next, D!Shutdown,
              D!Marked
<1>9. CASE AllDaemonsDown
  <2>1. live = {}
    BY <1>9 DEF AllDaemonsDown, storage_running
  <2>2. QED BY <1>9, <2>1 DEF AllDaemonsDown, ShutdownOrder, D!Next, D!AllDown
<1>10. ASSUME NEW p \in Pid, OnClose(p) PROVE D!Next
  <2>1. /\ \E q \in Pid : proc[q] \in Exit
        /\ \A q \in Pid : proc'[q] = "none"
        /\ live = {} /\ live' = {}
    BY <1>10 DEF OnClose
  <2>2. storageServer' \in {"null", "killed"} /\ UNCHANGED shutdownVars
    BY <1>10 DEF OnClose
  <2>3. QED BY <2>1, <2>2 DEF D!Next, D!Close
<1>11. ASSUME NEW p \in Pid, ServerUp(p) \/ ServerHangs(p)
       PROVE  UNCHANGED D!vars
  <2>1. UNCHANGED <<storageServer, shutdownVars>>
    BY <1>11 DEF ServerUp, ServerHangs, Becomes
  <2>2. p \in live /\ p \in live'
    BY <1>11 DEF ServerUp, ServerHangs, Becomes
  <2>3. \A q \in Pid : proc[q] \notin Exit /\ proc'[q] \notin Exit
    BY <1>11 DEF ServerUp, ServerHangs, Becomes
  <2>4. QED BY <2>1, <2>2, <2>3 DEF D!vars
<1>12. ASSUME NEW p \in Pid, ServerExits(p) PROVE D!Next
  <2>1. UNCHANGED <<storageServer, shutdownVars>>
    BY <1>12 DEF ServerExits, Becomes
  <2>2. live # {} /\ live' = {} /\ \E q \in Pid : proc'[q] \in Exit
    BY <1>12 DEF ServerExits, Becomes
  <2>3. QED BY <2>1, <2>2 DEF D!Next, D!End
<1>13. QED
  BY <1>2, <1>3, <1>6, <1>7, <1>8, <1>9, <1>10, <1>11, <1>12 DEF Next, Server, Timers
---------------------------------------------------------------------------
\* The variables keep their types: no timer runs below zero and no reply is
\* delivered to a closure that waits for none.
THEOREM TypeCorrect == Spec => []TypeOK
BY Invariance, PTL DEF IInv

\* There is at most one storage server, and the launcher holds its handle.
THEOREM Managed == Spec => []StorageManaged
BY Invariance, PTL DEF IInv, OneLifeCycle

\* SIGKILL never comes before SIGINT, whoever asks and in whatever order.
THEOREM Asked == Spec => AskedFirst
<1>1. QED BY Invariance, AskedStep, PTL DEF Spec, AskedFirst

\* The storage server under this launcher is a supervised daemon.
THEOREM Refinement == Spec => ImplementsDaemon
<1>1. Init => D!Init
  BY DEF Init, D!Init, live
<1>2. QED BY Invariance, <1>1, DaemonStep, PTL DEF Spec, ImplementsDaemon, D!Spec
===========================================================================
