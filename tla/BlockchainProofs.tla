------------------------- MODULE BlockchainProofs -------------------------
(***************************************************************************)
(* Proofs about Blockchain, for every set of pids, both configurations and *)
(* every delay.  The inductive invariant IInv is the type invariant with   *)
(*   OneLifeCycle   a lokid is alive, closing or due, and only one is;     *)
(*   ShutdownOrder  the shutdown's timer follows the shutdown;             *)
(*   OneRequest     the lock belongs to one request.                       *)
(* The second part is about the height watch on top of it: its steps are   *)
(* steps of Blockchain, and with the types of its own variables, IInv and  *)
(*   Covered        a lokid that runs has a chain which will not end       *)
(*                  before a restart's lock is released, or a request      *)
(*                  polls it and nobody can tell                           *)
(* it is inductive, and implies Watched.                                   *)
(***************************************************************************)
EXTENDS HeightCheck, TLAPS

\* The definitions every step is made of.
USE DEF handleVars, processVars, restartVars, shutdownVars

LEMMA InitIInv == Init => IInv
BY PidAssumption, ConfigAssumption
DEF Init, IInv, TypeOK, OneLifeCycle, ShutdownOrder, OneRequest, Handle

(* The variables have their types: each action puts in a set only values of
   that set's type, and a timer counts down from its delay to 0. *)
LEMMA TypeStep == TypeOK /\ [Next]_vars => TypeOK'
<1> SUFFICES ASSUME TypeOK, [Next]_vars PROVE TypeOK'
  OBVIOUS
<1> USE PidAssumption, ConfigAssumption, DelayAssumption
    DEF TypeOK, Handle, Relaunch, Request, Polling
<1>1. CASE startLokid
  BY <1>1 DEF startLokid, launchLokid, Spawn, SpawnReported, SpawnThrows
<1>2. ASSUME NEW p \in Pid, LokidExits(p) PROVE TypeOK'
  BY <1>2 DEF LokidExits
<1>3. ASSUME NEW c \in Handle, OnClose(c) PROVE TypeOK'
  <2>1. [of |-> c, left |-> RelaunchDelay] \in Relaunch
    OBVIOUS
  <2>2. relaunches' \subseteq Relaunch
    BY <1>3, <2>1 DEF OnClose, BeginShutdown
  <2>3. QED BY <1>3, <2>2 DEF OnClose, BeginShutdown
<1>4. ASSUME NEW t \in relaunches, RelaunchFires(t) PROVE TypeOK'
  BY <1>4 DEF RelaunchFires, launchLokid, Spawn, SpawnReported, SpawnThrows
<1>5. requestBlockchainRestart => /\ requests' \subseteq Request
                                  /\ restart' \in BOOLEAN
                                  /\ requestBlockchainRestartLock' \in BOOLEAN
                                  /\ loki_daemon' \in {"null", "open", "killed"}
                                  /\ signalled' \subseteq Pid
  <2>1. [oldVal |-> restart, left |-> Polling] \in Request
    OBVIOUS
  <2>2. shutdown_blockchain => /\ loki_daemon' \in {"null", "open", "killed"}
                               /\ signalled' \subseteq Pid
    BY DEF shutdown_blockchain
  <2>3. QED BY <2>1, <2>2 DEF requestBlockchainRestart
<1>6. CASE StorageContactFailures \/ HeightStuck
  BY <1>5, <1>6 DEF StorageContactFailures, HeightStuck
<1>7. ASSUME NEW r \in requests, PollSeesDown(r) PROVE TypeOK'
  BY <1>7 DEF PollSeesDown
<1>8. ASSUME NEW r \in requests, ReleaseLock(r) PROVE TypeOK'
  BY <1>8 DEF ReleaseLock
<1>9. CASE TypeExit
  BY <1>9 DEF TypeExit
<1>10. CASE shutdown_everything
  BY <1>10 DEF shutdown_everything, BeginShutdown, shutdown_blockchain
<1>11. CASE AllDaemonsDown
  BY <1>11 DEF AllDaemonsDown
<1>12. CASE Tick
  <2>1. \A t \in relaunches : [t EXCEPT !.left = @ - 1] \in Relaunch
    BY <1>12 DEF Tick, Urgent
  <2>2. \A r \in requests : r.left # Polling => [r EXCEPT !.left = @ - 1] \in Request
    BY <1>12 DEF Tick, Urgent
  <2>3. relaunches' \subseteq Relaunch /\ requests' \subseteq Request
    BY <1>12, <2>1, <2>2 DEF Tick
  <2>4. QED BY <1>12, <2>3 DEF Tick
<1>13. CASE UNCHANGED vars
  BY <1>13 DEF vars
<1>14. QED
  BY <1>1, <1>2, <1>3, <1>4, <1>5, <1>6, <1>7, <1>8, <1>9, <1>10, <1>11, <1>12,
     <1>13 DEF Next, Environment, Launcher, Lokid

(* One life cycle: a launch needs the one pending relaunch to fire, and what
   arms a relaunch is the one pending 'close' of the one lokid. *)
LEMMA LifeCycleStep ==
  TypeOK /\ OneLifeCycle /\ ShutdownOrder /\ [Next]_vars
    => OneLifeCycle' /\ ShutdownOrder'
<1> SUFFICES ASSUME TypeOK, OneLifeCycle, ShutdownOrder, [Next]_vars
             PROVE  OneLifeCycle' /\ ShutdownOrder'
  OBVIOUS
<1> USE PidAssumption DEF OneLifeCycle, ShutdownOrder
<1>1. CASE startLokid
  BY <1>1 DEF startLokid, launchLokid, Spawn, SpawnReported, SpawnThrows
<1>2. ASSUME NEW p \in Pid, LokidExits(p) PROVE OneLifeCycle' /\ ShutdownOrder'
  BY <1>2 DEF LokidExits
<1>3. ASSUME NEW c \in Handle, OnClose(c) PROVE OneLifeCycle' /\ ShutdownOrder'
  <2>1. running = {} /\ running' = {} /\ relaunches = {} /\ closing' = {}
    BY <1>3 DEF OnClose
  <2>2. \A t, u \in relaunches' : t = u
    BY <1>3, <2>1 DEF OnClose
  <2>3. ShutdownOrder'
    BY <1>3, <2>1 DEF OnClose, BeginShutdown
  <2>4. QED BY <1>3, <2>1, <2>2, <2>3 DEF OnClose
<1>4. ASSUME NEW t \in relaunches, RelaunchFires(t)
      PROVE  OneLifeCycle' /\ ShutdownOrder'
  <2>1. running = {} /\ closing = {} /\ relaunches' = {}
    BY <1>4 DEF RelaunchFires
  <2>2. QED BY <1>4, <2>1 DEF RelaunchFires, launchLokid, Spawn, SpawnReported, SpawnThrows
<1>5. CASE StorageContactFailures
  BY <1>5 DEF StorageContactFailures, requestBlockchainRestart, shutdown_blockchain
<1>6. CASE HeightStuck
  BY <1>6 DEF HeightStuck, requestBlockchainRestart, shutdown_blockchain
<1>7. ASSUME NEW r \in requests, PollSeesDown(r)
      PROVE  OneLifeCycle' /\ ShutdownOrder'
  BY <1>7 DEF PollSeesDown
<1>8. ASSUME NEW r \in requests, ReleaseLock(r)
      PROVE  OneLifeCycle' /\ ShutdownOrder'
  BY <1>8 DEF ReleaseLock
<1>9. CASE TypeExit
  BY <1>9 DEF TypeExit
<1>10. CASE shutdown_everything
  BY <1>10 DEF shutdown_everything, BeginShutdown, shutdown_blockchain, TypeOK
<1>11. CASE AllDaemonsDown
  BY <1>11 DEF AllDaemonsDown, blockchain_running
<1>12. CASE Tick
  <2>1. \A t, u \in relaunches' : t = u
    BY <1>12 DEF Tick
  <2>2. relaunches = {} => relaunches' = {}
    BY <1>12 DEF Tick
  <2>3. QED BY <1>12, <2>1, <2>2 DEF Tick
<1>13. CASE UNCHANGED vars
  BY <1>13 DEF vars
<1>14. QED
  BY <1>1, <1>2, <1>3, <1>4, <1>5, <1>6, <1>7, <1>8, <1>9, <1>10, <1>11, <1>12,
     <1>13 DEF Next, Environment, Launcher, Lokid

(* One request: the lock keeps a second one out, so what a release puts back
   is the configured value; and the release's timer starts only when the
   stopped lokid is gone, so that its 'close' finds the setting on. *)
LEMMA RequestStep == IInv /\ [Next]_vars => OneRequest'
<1> SUFFICES ASSUME IInv, [Next]_vars PROVE OneRequest'
  OBVIOUS
<1> USE DEF IInv, OneRequest
<1>1. CASE startLokid
  BY <1>1 DEF startLokid, launchLokid, Spawn, SpawnReported, SpawnThrows
<1>2. ASSUME NEW p \in Pid, LokidExits(p) PROVE OneRequest'
  BY <1>2 DEF LokidExits, OneLifeCycle
<1>3. ASSUME NEW c \in Handle, OnClose(c) PROVE OneRequest'
  BY <1>3 DEF OnClose, BeginShutdown, OneLifeCycle
<1>4. ASSUME NEW t \in relaunches, RelaunchFires(t) PROVE OneRequest'
  BY <1>4 DEF RelaunchFires, launchLokid, Spawn, SpawnReported, SpawnThrows
<1>5. CASE StorageContactFailures \/ HeightStuck
  <2>1. CASE shuttingDown \/ requestBlockchainRestartLock
    BY <1>5, <2>1
    DEF StorageContactFailures, HeightStuck, requestBlockchainRestart
  <2>2. CASE ~shuttingDown /\ ~requestBlockchainRestartLock
    <3> DEFINE new == [oldVal |-> restart, left |-> Polling]
    <3>1. /\ requests' = {new} /\ restart' = TRUE
          /\ requestBlockchainRestartLock' = TRUE
          /\ UNCHANGED <<running, closing, exitRequested, shutdownVars>>
      BY <1>5, <2>2
      DEF StorageContactFailures, HeightStuck, requestBlockchainRestart
    <3>2. new.oldVal = restart /\ new.left = Polling
      OBVIOUS
    <3>3. QED BY <2>2, <3>1, <3>2
  <2>3. QED BY <2>1, <2>2 DEF TypeOK
<1>6. ASSUME NEW r \in requests, PollSeesDown(r) PROVE OneRequest'
  <2> DEFINE new == [r EXCEPT !.left = ReleaseDelay]
  <2>1. r \in Request
    BY DEF TypeOK
  <2>2. new.oldVal = r.oldVal /\ new.left = ReleaseDelay
    BY <2>1 DEF Request
  <2>3. requests' = {new}
    BY <1>6 DEF PollSeesDown
  <2>4. loki_daemon = "killed" => running = {}
    BY <1>6 DEF PollSeesDown, blockchain_running, OneLifeCycle
  <2>5. QED BY <1>6, <2>2, <2>3, <2>4 DEF PollSeesDown
<1>7. ASSUME NEW r \in requests, ReleaseLock(r) PROVE OneRequest'
  <2>1. requests' = {} /\ r.left = 0
    BY <1>7 DEF ReleaseLock
  <2>2. 0 # Polling /\ 0 # ReleaseDelay
    BY DelayAssumption DEF Polling
  <2>3. CASE shuttingDown
    BY <1>7, <2>1, <2>3 DEF ReleaseLock
  <2>4. CASE ~shuttingDown /\ ~exitRequested
    <3>1. restart' = ConfigRestart /\ ~requestBlockchainRestartLock'
      BY <1>7, <2>4 DEF ReleaseLock
    <3>2. ~(loki_daemon = "killed" /\ (running # {} \/ closing # {}))
      BY <1>7, <2>1, <2>2, <2>4
    <3>3. QED BY <1>7, <2>1, <3>1, <3>2 DEF ReleaseLock
  <2>5. CASE ~shuttingDown /\ exitRequested
    BY <1>7, <2>1, <2>5 DEF ReleaseLock
  <2>6. QED BY <2>3, <2>4, <2>5 DEF TypeOK
<1>8. CASE TypeExit
  BY <1>8 DEF TypeExit
<1>9. CASE shutdown_everything
  BY <1>9 DEF shutdown_everything, BeginShutdown
<1>10. CASE AllDaemonsDown
  BY <1>10 DEF AllDaemonsDown, ShutdownOrder
<1>11. CASE Tick
  <2> DEFINE Aged(r) == IF r.left = Polling THEN r ELSE [r EXCEPT !.left = @ - 1]
  <2>1. requests' = {Aged(r) : r \in requests}
    BY <1>11 DEF Tick
  <2>2. \A r \in requests : Aged(r).oldVal = r.oldVal
    BY DEF TypeOK, Request
  <2>3. \A r \in requests : r.left = Polling => Aged(r).left = Polling
    OBVIOUS
  <2>4. closing = {}
    BY <1>11 DEF Tick, Urgent
  <2> HIDE DEF Aged
  <2>5. \A q, r \in requests' : q = r
    BY <2>1
  <2>6. requests' = {} <=> requests = {}
    BY <2>1
  <2>7. /\ UNCHANGED <<loki_daemon, running, closing, restart, exitRequested>>
        /\ UNCHANGED <<requestBlockchainRestartLock, shuttingDown>>
    BY <1>11 DEF Tick
  <2>8. ASSUME ~shuttingDown, ~exitRequested, NEW a \in requests'
        PROVE  /\ restart' /\ a.oldVal = ConfigRestart
               /\ loki_daemon = "killed" /\ running # {} => a.left = Polling
    <3>1. PICK r \in requests : a = Aged(r)
      BY <2>1
    <3>2. restart /\ r.oldVal = ConfigRestart
          /\ (loki_daemon = "killed" /\ running # {} => r.left = Polling)
      BY <2>8
    <3>3. QED BY <2>2, <2>3, <2>7, <3>1, <3>2
  <2>9. QED BY <2>4, <2>5, <2>6, <2>7, <2>8
<1>12. CASE UNCHANGED vars
  BY <1>12 DEF vars
<1>13. QED
  BY <1>1, <1>2, <1>3, <1>4, <1>5, <1>6, <1>7, <1>8, <1>9, <1>10, <1>11, <1>12
  DEF Next, Environment, Launcher, Lokid

LEMMA Invariance == Spec => []IInv
<1>1. IInv /\ [Next]_vars => IInv'
  BY TypeStep, LifeCycleStep, RequestStep DEF IInv
<1>2. QED BY InitIInv, <1>1, PTL DEF Spec
---------------------------------------------------------------------------
\* The variables keep their types: no timer runs below zero.
THEOREM TypeCorrect == Spec => []TypeOK
BY Invariance, PTL DEF IInv

\* There is at most one lokid, and the launcher holds its handle.
THEOREM Managed == Spec => []LokidManaged
<1>1. IInv => LokidManaged
  BY DEF IInv, OneLifeCycle, LokidManaged
<1>2. QED BY Invariance, <1>1, PTL

\* "All daemons down." is true when it is said and stays true.
THEOREM Down == Spec => []DownMeansDown
<1>1. IInv => DownMeansDown
  BY DEF IInv, ShutdownOrder, DownMeansDown
<1>2. QED BY Invariance, <1>1, PTL

\* A finished restart leaves the configured restart setting behind.
THEOREM Restored == Spec => []RestartRestored
<1>1. IInv => RestartRestored
  BY DEF IInv, OneRequest, RestartRestored
<1>2. QED BY Invariance, <1>1, PTL

\* The 'close' of a lokid stopped for a restart finds the setting on.
THEOREM SurvivesClose == Spec => []RestartSurvivesClose
<1>1. IInv => RestartSurvivesClose
  BY DEF IInv, OneRequest, RestartSurvivesClose
<1>2. QED BY Invariance, <1>1, PTL

\* No step of a launcher that is shutting down launches a lokid.
THEOREM NoLaunch == Spec => NoLaunchAfterShutdown
<1>1. [Next]_vars => [shuttingDown => running' \subseteq running]_vars
  <2> SUFFICES ASSUME Next, shuttingDown PROVE running' \subseteq running
    OBVIOUS
  <2> QED
    BY DEF Next, Environment, Launcher, Lokid, startLokid, LokidExits, OnClose,
           RelaunchFires, launchLokid, StorageContactFailures, HeightStuck,
           PollSeesDown, ReleaseLock, TypeExit, shutdown_everything,
           AllDaemonsDown, Tick
<1>2. QED BY <1>1, PTL DEF Spec, NoLaunchAfterShutdown

(* The refinement: what the lock, the setting and the timers do is a stutter
   of Daemon; a launch needs that no lokid is up or closing, which IInv gives. *)
LEMMA DaemonInit == Init => D!Init
BY DEF Init, D!Init

LEMMA DaemonStep == IInv /\ [Next]_vars => [D!Next]_(D!vars)
<1> SUFFICES ASSUME IInv, [Next]_vars PROVE D!Next \/ UNCHANGED D!vars
  BY DEF D!vars
<1> USE DEF IInv, OneLifeCycle
<1>1. ASSUME Spawn, ~shuttingDown, running = {}, closing = {},
             UNCHANGED shutdownVars
      PROVE  D!Next \/ UNCHANGED D!vars
  <2>1. CASE SpawnReported
    BY <1>1, <2>1, PidAssumption DEF SpawnReported, D!Next, D!Launch
  <2>2. CASE SpawnThrows /\ loki_daemon' = "open"
    BY <1>1, <2>2 DEF SpawnThrows, D!Next, D!Launch
  <2>3. CASE SpawnThrows /\ UNCHANGED loki_daemon
    BY <1>1, <2>3 DEF SpawnThrows, D!vars
  <2>4. QED BY <1>1, <2>1, <2>2, <2>3 DEF Spawn, SpawnThrows
<1>2. CASE startLokid
  BY <1>1, <1>2 DEF startLokid, launchLokid
<1>3. ASSUME NEW p \in Pid, LokidExits(p) PROVE D!Next
  <2>1. running # {} /\ running' = {} /\ closing' # {}
    BY <1>3 DEF LokidExits
  <2>2. QED BY <1>3, <2>1 DEF LokidExits, D!Next, D!End
<1>4. ASSUME NEW c \in Handle, OnClose(c) PROVE D!Next
  <2>1. closing # {} /\ closing' = {} /\ UNCHANGED running
    BY <1>4 DEF OnClose
  <2>2. UNCHANGED shuttingDown \/ shuttingDown' = TRUE
    BY <1>4 DEF OnClose, BeginShutdown
  <2>3. UNCHANGED (shutDownTimer = "cleared")
    BY <1>4 DEF OnClose, BeginShutdown
  <2>4. loki_daemon' = "killed"
    BY <1>4 DEF OnClose
  <2>5. QED BY <2>1, <2>2, <2>3, <2>4 DEF TypeOK, D!Next, D!Close
<1>5. ASSUME NEW t \in relaunches, RelaunchFires(t)
      PROVE  D!Next \/ UNCHANGED D!vars
  BY <1>1, <1>5 DEF RelaunchFires, launchLokid, D!vars
<1>6. CASE StorageContactFailures \/ HeightStuck
  <2>1. UNCHANGED <<running, closing, shutdownVars>>
    BY <1>6 DEF StorageContactFailures, HeightStuck
  <2>2. UNCHANGED loki_daemon \/ (loki_daemon = "open" /\ loki_daemon' = "killed")
    BY <1>6 DEF StorageContactFailures, HeightStuck, requestBlockchainRestart,
                shutdown_blockchain
  <2>3. QED BY <2>1, <2>2 DEF D!Next, D!Ask, D!vars
<1>7. CASE TypeExit \/ Tick \/ \E r \in requests : PollSeesDown(r) \/ ReleaseLock(r)
  BY <1>7 DEF TypeExit, Tick, PollSeesDown, ReleaseLock, D!vars
<1>8. CASE shutdown_everything
  BY <1>8 DEF shutdown_everything, BeginShutdown, shutdown_blockchain,
              D!Next, D!Shutdown, D!Marked
<1>9. CASE AllDaemonsDown
  <2>1. running = {}
    BY <1>9 DEF AllDaemonsDown, blockchain_running
  <2>2. QED BY <1>9, <2>1 DEF AllDaemonsDown, ShutdownOrder, D!Next, D!AllDown
<1>10. CASE UNCHANGED vars
  BY <1>10 DEF vars, D!vars
<1>11. QED
  BY <1>2, <1>3, <1>4, <1>5, <1>6, <1>7, <1>8, <1>9, <1>10
  DEF Next, Environment, Launcher, Lokid

\* lokid under this launcher is a supervised daemon.
THEOREM Refinement == Spec => ImplementsDaemon
BY Invariance, DaemonInit, DaemonStep, PTL DEF Spec, ImplementsDaemon, D!Spec
---------------------------------------------------------------------------
(* The watch on the height, which runs beside all this.                     *)

(* A step of the watch is one of lokid's supervision, or leaves it alone. *)
LEMMA HeightInit == HInit => Init
BY DEF HInit

LEMMA HeightStep == [HNext]_allVars => [Next]_vars
BY DEF HNext, allVars, Launch, Close, HAllDaemonsDown, Check, Ask, AnswerError,
       AnswerHeight, NewBlock, HTick, Environment, Restarting, Next, Launcher

\* Adding the watch takes nothing from lokid's supervision: what is true of
\* every behaviour of Blockchain is true with the watch running.
THEOREM HeightImplements == HSpec => Spec
BY HeightInit, HeightStep, PTL DEF HSpec, Spec

LEMMA HeightInvariance == HSpec => []IInv
BY HeightImplements, Invariance
---------------------------------------------------------------------------
(* Where a chain of checks stands: armed, asking or off. *)
LEMMA ChainStates ==
  /\ 0..CheckPeriod \subseteq 0..Off
  /\ Asking \in 0..Off /\ Off \in 0..Off
  /\ FirstCheck \in 0..CheckPeriod /\ CheckPeriod \in 0..CheckPeriod
  /\ Asking \notin 0..CheckPeriod /\ Off \notin 0..CheckPeriod /\ Asking # Off
BY CheckAssumption DEF Asking, Off

LEMMA StuckTimeNat == StuckTime \in Nat
BY CheckAssumption DEF StuckTime

(* A launch starts a chain, unless as many run already as are told apart. *)
LEMMA StartChecksStarts ==
  ASSUME HTypeOK, StartChecks
  PROVE  /\ checks' \in [Chain -> 0..Off]
         /\ getHeightTimer' \in Chain \cup {NoChain}
         /\ \E c \in Chain : checks'[c] # Off
<1>1. CASE \E c \in Chain : checks[c] = Off
  <2> DEFINE c == CHOOSE d \in Chain : checks[d] = Off
  <2>1. c \in Chain
    BY <1>1
  <2> HIDE DEF c
  <2>2. checks' = [checks EXCEPT ![c] = FirstCheck] /\ getHeightTimer' = c
    BY <1>1 DEF StartChecks, c
  <2>3. QED BY <2>1, <2>2, ChainStates DEF HTypeOK
<1>2. CASE ~ \E c \in Chain : checks[c] = Off
  <2>1. 1 \in Chain
    BY CheckAssumption DEF Chain
  <2>2. QED BY <1>2, <2>1 DEF StartChecks, HTypeOK
<1>3. QED BY <1>1, <1>2

LEMMA HeightTypeStep == HTypeOK /\ [HNext]_allVars => HTypeOK'
<1> SUFFICES ASSUME HTypeOK, [HNext]_allVars PROVE HTypeOK'
  OBVIOUS
<1> USE ChainStates, StuckTimeNat DEF HTypeOK
<1>1. CASE Launch
  BY <1>1, StartChecksStarts DEF Launch, ChecksOfLaunch, StartChecks, checkVars
<1>2. CASE Close
  BY <1>2 DEF Close, CancelCheck
<1>3. CASE HAllDaemonsDown
  BY <1>3 DEF HAllDaemonsDown
<1>4. ASSUME NEW c \in Chain, Ask(c) PROVE HTypeOK'
  BY <1>4 DEF Ask
<1>5. ASSUME NEW c \in Chain, AnswerError(c) PROVE HTypeOK'
  BY <1>5 DEF AnswerError, EndChain, Rearm
<1>6. ASSUME NEW c \in Chain, AnswerHeight(c) PROVE HTypeOK'
  BY <1>6 DEF AnswerHeight, EndChain, Rearm
<1>7. CASE NewBlock
  BY <1>7 DEF NewBlock
<1>8. CASE HTick
  <2>1. \A c \in Chain : Armed(c) => checks[c] - 1 \in 0..CheckPeriod
    BY <1>8, CheckAssumption DEF HTick, Armed, Off
  <2>2. checks' \in [Chain -> 0..Off]
    BY <1>8, <2>1 DEF HTick
  <2>3. QED BY <1>8, <2>2 DEF HTick
<1>9. CASE UNCHANGED checkVars
  BY <1>9 DEF checkVars
<1>10. QED
  BY <1>1, <1>2, <1>3, <1>4, <1>5, <1>6, <1>7, <1>8, <1>9
  DEF HNext, Check, allVars

(* A chain that an answer arms again outlasts a lock that is being released. *)
LEMMA RearmCovers ==
  ASSUME HTypeOK, TypeOK', NEW c \in Chain, Rearm(c)
  PROVE  Covered'
<1>1. checks'[c] = CheckPeriod
  BY DEF Rearm, HTypeOK
<1>2. CheckPeriod # Off /\ Armed(c)'
  BY <1>1, CheckAssumption DEF Armed, Off
<1>3. \A r \in requests' : r.left = Polling \/ r.left < CheckPeriod
  BY CheckAssumption, ReleaseAssumption, DelayAssumption
  DEF TypeOK, Request, Polling
<1>4. QED BY <1>1, <1>2, <1>3 DEF Covered, StrayPoll

(* The watch goes on: a chain ends only when it asks for the restart that
   kills the handle, or during a restart, when another one is armed. *)
LEMMA CoveredStep ==
  IInv /\ HTypeOK /\ Covered /\ [HNext]_allVars => Covered'
<1> SUFFICES ASSUME IInv, HTypeOK, Covered, [HNext]_allVars,
                    ~shuttingDown', running' # {}, loki_daemon' = "open"
             PROVE  Covered'
  BY DEF Covered
<1> USE DEF StrayPoll
<1>1. IInv'
  BY HeightStep, TypeStep, LifeCycleStep, RequestStep DEF IInv
<1>2. CASE Launch
  <2>1. StartChecks
    <3>1. ChecksOfLaunch /\ launchLokid /\ ~shuttingDown
      BY <1>2 DEF Launch, startLokid, RelaunchFires
    <3>2. running = {}
      BY <1>2 DEF Launch, startLokid, RelaunchFires, IInv, OneLifeCycle
    <3>3. SpawnReported
      BY <3>1, <3>2 DEF launchLokid, Spawn, SpawnThrows
    <3>4. UNCHANGED spawnThrew
      BY <3>3 DEF SpawnReported
    <3>5. ~spawnThrew
      BY <1>2 DEF Launch, startLokid, RelaunchFires, IInv, OneLifeCycle
    <3>6. QED BY <3>1, <3>4, <3>5 DEF ChecksOfLaunch
  <2>2. QED BY <2>1, StartChecksStarts DEF StartChecks, Covered
<1>3. CASE Close \/ HAllDaemonsDown
  BY <1>3 DEF Close, OnClose, HAllDaemonsDown, AllDaemonsDown
<1>4. ASSUME NEW c \in Chain, Ask(c) PROVE Covered'
  <2>1. /\ UNCHANGED <<shuttingDown, running, loki_daemon, requests, lastHeight>>
        /\ checks' = [checks EXCEPT ![c] = Asking] /\ checks[c] = 0
    BY <1>4 DEF Ask, vars
  <2>2. \A r \in requests : ~ (r.left < 0)
    BY DelayAssumption DEF IInv, TypeOK, Request, Polling
  <2>3. ASSUME NEW d \in Chain, checks[d] # Off,
               \/ requests = {} \/ lastHeight = "none"
               \/ Armed(d) /\ \A r \in requests : r.left < checks[d]
        PROVE  Covered'
    <3>1. checks'[d] # Off
      BY <2>1, <2>3, ChainStates DEF HTypeOK
    <3>2. CASE d = c
      BY <2>1, <2>2, <2>3, <3>1, <3>2 DEF Covered
    <3>3. CASE d # c
      <4>1. checks'[d] = checks[d]
        BY <2>1, <3>3 DEF HTypeOK
      <4>2. QED BY <2>1, <2>3, <4>1 DEF Covered, Armed
    <3>4. QED BY <3>2, <3>3
  <2>4. QED BY <2>1, <2>3 DEF Covered
<1>5. ASSUME NEW c \in Chain, AnswerError(c) PROVE Covered'
  <2>1. loki_daemon # "null"
    BY <1>5 DEF AnswerError, vars
  <2>2. Rearm(c)
    BY <1>5, <2>1 DEF AnswerError
  <2>3. QED BY <1>1, <2>2, RearmCovers DEF IInv
<1>6. ASSUME NEW c \in Chain, AnswerHeight(c) PROVE Covered'
  <2>1. CASE Rearm(c)
    BY <1>1, <2>1, RearmCovers DEF IInv
  <2>2. CASE HeightStuck /\ EndChain(c) /\ lastHeight = "same" /\ UNCHANGED lastHeight
    <3>1. /\ UNCHANGED <<shuttingDown, running, loki_daemon, requests>>
          /\ requests # {} /\ ~shuttingDown /\ loki_daemon = "open"
      BY <2>2 DEF HeightStuck, requestBlockchainRestart, shutdown_blockchain, IInv,
                  OneRequest
    <3>2. ASSUME NEW d \in Chain, Armed(d),
                 \A r \in requests : r.left < checks[d]
          PROVE  Covered'
      <4>1. checks[c] = Asking
        BY <1>6 DEF AnswerHeight
      <4>2. d # c
        BY <3>2, <4>1, CheckAssumption DEF Armed, Asking
      <4>3. checks'[d] = checks[d] /\ checks[d] # Off
        BY <2>2, <3>2, <4>2, CheckAssumption DEF EndChain, HTypeOK, Armed, Off
      <4>4. QED BY <3>1, <3>2, <4>3 DEF Covered, Armed
    <3>3. QED BY <2>2, <3>1, <3>2 DEF Covered
  <2>3. QED
    BY <1>6, <2>1, <2>2 DEF AnswerHeight, vars
<1>7. CASE NewBlock
  BY <1>7 DEF NewBlock, vars, Covered, Armed
<1>8. CASE HTick
  <2> DEFINE Aged(r) == IF r.left = Polling THEN r ELSE [r EXCEPT !.left = @ - 1]
  <2>1. /\ requests' = {Aged(r) : r \in requests}
        /\ UNCHANGED <<shuttingDown, running, loki_daemon, lastHeight>>
    BY <1>8 DEF HTick, Tick
  <2>2. \A r \in requests :
          /\ r.left \in 0..Polling
          /\ r.left = Polling => Aged(r) = r
          /\ r.left # Polling => Aged(r).left = r.left - 1
    BY DEF IInv, TypeOK, Request
  <2>3. \A c \in Chain : Armed(c) => checks'[c] = checks[c] - 1
    BY <1>8 DEF HTick
  <2>4. \A c \in Chain : ~Armed(c) => checks'[c] = checks[c]
    BY <1>8 DEF HTick
  <2>5. ASSUME NEW c \in Chain, checks[c] # Off PROVE checks'[c] # Off
    BY <2>3, <2>4, <2>5, CheckAssumption DEF Armed, HTypeOK, Off
  <2> HIDE DEF Aged
  <2>6. CASE \E r \in requests : r.left = Polling
    BY <2>1, <2>2, <2>6 DEF Covered
  <2>7. ASSUME NEW c \in Chain, checks[c] # Off, requests = {} \/ lastHeight = "none"
        PROVE  Covered'
    BY <2>1, <2>5, <2>7 DEF Covered
  <2>8. ASSUME NEW c \in Chain, Armed(c), \A r \in requests : r.left < checks[c],
               ~ \E r \in requests : r.left = Polling
        PROVE  Covered'
    <3>1. checks'[c] = checks[c] - 1 /\ checks[c] \in Nat /\ CheckPeriod \in Nat
      BY <2>3, <2>8, CheckAssumption DEF HTypeOK, Off
    <3>2. Armed(c)' /\ checks'[c] # Off
      BY <3>1, <2>8 DEF Armed, Off
    <3>3. \A r \in requests' : r.left < checks'[c]
      <4> SUFFICES ASSUME NEW r \in requests PROVE Aged(r).left < checks'[c]
        BY <2>1
      <4>1. Polling \in Nat
        BY DelayAssumption DEF Polling
      <4>2. r.left \in Nat /\ Aged(r).left = r.left - 1 /\ r.left < checks[c]
        BY <2>2, <2>8, <4>1
      <4>3. QED BY <3>1, <4>2
    <3>4. QED BY <3>2, <3>3 DEF Covered
  <2>9. QED BY <2>1, <2>6, <2>7, <2>8 DEF Covered
<1>9. CASE Environment /\ UNCHANGED checkVars
  <2>1. ~ Lokid
    BY DEF Lokid, LokidExits, IInv, OneLifeCycle
  <2>2. ~ shutdown_everything
    BY DEF shutdown_everything, BeginShutdown
  <2>3. CASE StorageContactFailures
    <3>1. loki_daemon' = "killed" \/ UNCHANGED <<shuttingDown, running, loki_daemon, requests>>
      BY <2>3 DEF StorageContactFailures, requestBlockchainRestart, shutdown_blockchain,
                  IInv, TypeOK
    <3>2. QED BY <1>9, <3>1 DEF Covered, checkVars, Armed
  <2>4. CASE TypeExit
    BY <1>9, <2>4 DEF TypeExit, Covered, checkVars, Armed
  <2>5. QED BY <1>9, <2>1, <2>2, <2>3, <2>4 DEF Environment
<1>10. CASE Restarting /\ UNCHANGED checkVars
  <2>1. PICK r \in requests : PollSeesDown(r) \/ ReleaseLock(r)
    BY <1>10 DEF Restarting
  <2>2. ~ PollSeesDown(r)
    BY DEF PollSeesDown, blockchain_running, IInv, OneLifeCycle
  <2>3. requests' = {} /\ r.left = 0 /\ requests = {r}
        /\ UNCHANGED <<shuttingDown, running, loki_daemon>>
    BY <2>1, <2>2 DEF ReleaseLock, IInv, OneRequest
  <2>4. Polling # 0
    BY DelayAssumption DEF Polling
  <2>5. QED BY <1>10, <2>3, <2>4 DEF Covered, checkVars
<1>11. CASE UNCHANGED allVars
  BY <1>11 DEF allVars, vars, checkVars, Covered, Armed
<1>12. QED
  BY <1>2, <1>3, <1>4, <1>5, <1>6, <1>7, <1>8, <1>9, <1>10, <1>11
  DEF HNext, Check

LEMMA HeightInvariants == HSpec => []HInv
<1>1. HInit => HTypeOK /\ Covered
  BY ChainStates, StuckTimeNat DEF HInit, Init, HTypeOK, Covered
<1>2. IInv /\ HTypeOK /\ Covered /\ [HNext]_allVars => HTypeOK' /\ Covered'
  BY HeightTypeStep, CoveredStep
<1>3. QED BY HeightInvariance, <1>1, <1>2, PTL DEF HSpec, HInv
---------------------------------------------------------------------------
\* The chains, their timer and the stuck counter keep their types.
THEOREM HeightTypeCorrect == HSpec => []HTypeOK
BY HeightInvariants, PTL DEF HInv

\* A lokid that runs has a chain that will ask for its height, also while a
\* restart's lock is held; unless the request that holds it was made in the
\* second before this lokid was launched, and polls it.
THEOREM WatchHolds == HSpec => []Watched
<1>1. HInv => Watched
  BY DEF HInv, IInv, OneRequest, TypeOK, Covered, Watched
<1>2. QED BY HeightInvariants, <1>1, PTL
===========================================================================
