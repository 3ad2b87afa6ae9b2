--------------------------- MODULE LokinetProofs ---------------------------
(***************************************************************************)
(* Proofs about Lokinet, for all delays and process ids: types, one managed*)
(* lokinet, the grace period of stop, and that Lokinet implements Daemon.  *)
(* The inductive invariant is the type invariant, OneLifeCycle and the     *)
(* grace period, which needs it: the process that gets SIGKILL is the one  *)
(* whose SIGINT started the monitor.                                       *)
(***************************************************************************)
EXTENDS Lokinet, TLAPS

USE DEF handleVars, processVars, stopVars

LEMMA InitIInv == Init => IInv
<1> SUFFICES ASSUME Init PROVE IInv
  OBVIOUS
<1> USE PidAssumption, DelayAssumption DEF Init
<1>1. TypeOK
  <2>1. sent \in [Pid -> {"none", "SIGINT", "SIGKILL"}]
    OBVIOUS
  <2>2. monitor \in 0..NoMonitor
    BY DEF NoMonitor
  <2>3. retries \in 0..(MaxRetries + 1)
    OBVIOUS
  <2>4. shuttingDown \in BOOLEAN /\ exited \in BOOLEAN
    OBVIOUS
  <2>5. QED BY <2>1, <2>2, <2>3, <2>4 DEF TypeOK, Handle
<1>2. LastStop
  BY DEF LastStop
<1>3. OneLifeCycle /\ GraceGiven
  BY DEF OneLifeCycle, GraceGiven
<1>4. QED BY <1>1, <1>2, <1>3 DEF IInv

\* What a launch may do, if it does anything.
Launches ==
  /\ ~shuttingDown
  /\ Spawn \/ NoIni

LEMMA LaunchCases ==
  launchLokinet => Launches \/ UNCHANGED <<handleVars, processVars, exited>>
BY DEF launchLokinet, Launches

LEMMA TypeStep == TypeOK /\ LastStop /\ [Next]_vars => TypeOK' /\ LastStop'
<1> SUFFICES ASSUME TypeOK, LastStop, [Next]_vars PROVE TypeOK' /\ LastStop'
  OBVIOUS
<1> USE PidAssumption, DelayAssumption DEF TypeOK, LastStop, Handle, NoMonitor
<1>1. ASSUME launchLokinet
      PROVE  /\ lokinet' \in {"null", "open", "killed"} /\ pid' \in Handle
             /\ running' \subseteq Pid /\ closing' \subseteq Handle
             /\ sent' \in [Pid -> {"none", "SIGINT", "SIGKILL"}]
             /\ exited' \in BOOLEAN /\ (exited => exited')
  BY <1>1, LaunchCases DEF Launches, Spawn, NoIni
<1>2. CASE preLaunchLokinet \/ IniExits \/ AskLokid \/ LokidRefuses
  BY <1>2 DEF preLaunchLokinet, IniExits, AskLokid, LokidRefuses
<1>3. CASE LokidAnswers \/ RelaunchFires
  BY <1>1, <1>3 DEF LokidAnswers, RelaunchFires
<1>4. CASE ~exited /\ stop
  <2>1. /\ lokinet' \in {"null", "open", "killed"} /\ shuttingDown' \in BOOLEAN
        /\ UNCHANGED <<startup, pid, running, closing, relaunches>>
    BY <1>4 DEF stop
  <2>2. sent' \in [Pid -> {"none", "SIGINT", "SIGKILL"}]
    BY <1>4 DEF stop
  <2>3. monitor' = monitor \/ monitor' = 0
    BY <1>4 DEF stop
  <2>4. \/ UNCHANGED <<retries, exited>>
        \/ /\ retries' = retries + 1
           /\ exited' = IF retries' > MaxRetries THEN TRUE ELSE exited
    BY <1>4 DEF stop
  <2>5. retries' \in 0..(MaxRetries + 1) /\ exited' \in BOOLEAN /\ LastStop'
    <3>1. CASE UNCHANGED <<retries, exited>>
      BY <3>1
    <3>2. CASE retries' = retries + 1 /\ retries' > MaxRetries /\ exited' = TRUE
      <4>1. retries \in 0..MaxRetries
        BY <1>4
      <4>2. QED BY <3>2, <4>1
    <3>3. CASE retries' = retries + 1 /\ ~(retries' > MaxRetries) /\ UNCHANGED exited
      BY <3>3
    <3>4. QED BY <2>4, <3>1, <3>2, <3>3
  <2>6. monitor' \in 0..NoMonitor
    BY <2>3
  <2>7. QED BY <2>1, <2>2, <2>5, <2>6
<1>5. CASE MonitorSeesDown \/ MonitorKills
  <2>1. sent' \in [Pid -> {"none", "SIGINT", "SIGKILL"}]
    BY <1>5 DEF MonitorSeesDown, MonitorKills
  <2>2. monitor' \in 0..NoMonitor
    BY <1>5 DEF MonitorSeesDown, MonitorKills
  <2>3. QED BY <1>5, <2>1, <2>2 DEF MonitorSeesDown, MonitorKills
<1>6. CASE Tick
  <2>1. relaunches' \subseteq 0..RelaunchDelay
    BY <1>6 DEF Tick, Urgent
  <2>2. QED BY <1>6, <2>1 DEF Tick
<1>7. ASSUME NEW c \in Handle, OnClose(c) PROVE TypeOK' /\ LastStop'
  BY <1>7 DEF OnClose
<1>8. ASSUME NEW p \in Pid, LokinetExits(p) PROVE TypeOK' /\ LastStop'
  BY <1>8 DEF LokinetExits
<1>9. CASE UNCHANGED vars
  BY <1>9 DEF vars
<1>10. QED
  BY <1>2, <1>3, <1>4, <1>5, <1>6, <1>7, <1>8, <1>9 DEF Next, Supervision

(* One life cycle: a launch needs the answer that ends the start-up, or the
   one relaunch that is due; and only the one 'close' of the one lokinet makes
   one due. *)
LEMMA LifeCycleStep == TypeOK /\ OneLifeCycle /\ [Next]_vars => OneLifeCycle'
<1> SUFFICES ASSUME TypeOK, OneLifeCycle, [Next]_vars PROVE OneLifeCycle'
  OBVIOUS
<1> USE PidAssumption DEF OneLifeCycle
<1>1. ASSUME Launches, running = {}, closing = {}, relaunches' = {}, startup' = "done"
      PROVE  OneLifeCycle'
  BY <1>1 DEF Launches, Spawn, NoIni
<1>2. CASE preLaunchLokinet \/ IniExits \/ AskLokid \/ LokidRefuses
  BY <1>2 DEF preLaunchLokinet, IniExits, AskLokid, LokidRefuses
<1>3. CASE LokidAnswers
  <2>1. /\ running = {} /\ closing = {} /\ relaunches' = {} /\ startup' = "done"
        /\ launchLokinet
    BY <1>3 DEF LokidAnswers
  <2>2. QED BY <1>1, <2>1, LaunchCases
<1>4. CASE RelaunchFires
  <2>1. /\ running = {} /\ closing = {} /\ relaunches' = {} /\ startup' = "done"
        /\ launchLokinet
    BY <1>4 DEF RelaunchFires, TypeOK
  <2>2. QED BY <1>1, <2>1, LaunchCases
<1>5. CASE stop
  BY <1>5 DEF stop
<1>6. CASE MonitorSeesDown \/ MonitorKills
  BY <1>6 DEF MonitorSeesDown, MonitorKills
<1>7. CASE Tick
  <2>1. relaunches = {} => relaunches' = {}
    BY <1>7 DEF Tick
  <2>2. \A m, n \in relaunches' : m = n
    BY <1>7 DEF Tick
  <2>3. QED BY <1>7, <2>1, <2>2 DEF Tick
<1>8. ASSUME NEW c \in Handle, OnClose(c) PROVE OneLifeCycle'
  <2>1. running = {} /\ running' = {} /\ closing' = {} /\ relaunches = {}
    BY <1>8 DEF OnClose
  <2>2. startup' = "done" /\ lokinet' = "killed"
    BY <1>8 DEF OnClose
  <2>3. \A m, n \in relaunches' : m = n
    BY <1>8, <2>1 DEF OnClose
  <2>4. QED BY <2>1, <2>2, <2>3
<1>9. ASSUME NEW p \in Pid, LokinetExits(p) PROVE OneLifeCycle'
  BY <1>9 DEF LokinetExits
<1>10. CASE UNCHANGED vars
  BY <1>10 DEF vars
<1>11. QED
  BY <1>2, <1>3, <1>4, <1>5, <1>6, <1>7, <1>8, <1>9, <1>10 DEF Next, Supervision

(* The grace period: the only lokinet is the handle's, so that a stop that
   starts the monitor afresh makes its last signal SIGINT. *)
LEMMA GraceStep ==
  TypeOK /\ OneLifeCycle /\ GraceGiven /\ [Next]_vars => GraceGiven'
<1> SUFFICES ASSUME TypeOK, OneLifeCycle, GraceGiven, [Next]_vars PROVE GraceGiven'
  OBVIOUS
<1> USE PidAssumption, DelayAssumption DEF TypeOK, OneLifeCycle, GraceGiven
<1>1. CASE preLaunchLokinet \/ IniExits \/ AskLokid \/ LokidRefuses
  BY <1>1 DEF preLaunchLokinet, IniExits, AskLokid, LokidRefuses
<1>2. CASE LokidAnswers \/ RelaunchFires
  <2>1. running = {} /\ launchLokinet /\ UNCHANGED monitor
    BY <1>2 DEF LokidAnswers, RelaunchFires
  <2>2. \A p \in running' : sent'[p] = "none"
    BY <2>1, LaunchCases DEF Launches, Spawn, NoIni
  <2>3. QED BY <2>2
<1>3. CASE stop
  <2>1. CASE lokinet = "open"
    <3>1. \A p \in running' : sent'[p] = "SIGINT"
      BY <1>3, <2>1 DEF stop
    <3>2. QED BY <3>1
  <2>2. CASE lokinet # "open"
    BY <1>3, <2>2 DEF stop
  <2>3. QED BY <2>1, <2>2
<1>4. CASE MonitorSeesDown
  BY <1>4 DEF MonitorSeesDown
<1>5. CASE MonitorKills
  BY <1>5 DEF MonitorKills
<1>6. CASE Tick
  BY <1>6 DEF Tick, NoMonitor
<1>7. ASSUME NEW c \in Handle, OnClose(c) PROVE GraceGiven'
  BY <1>7 DEF OnClose
<1>8. ASSUME NEW p \in Pid, LokinetExits(p) PROVE GraceGiven'
  BY <1>8 DEF LokinetExits
<1>9. CASE UNCHANGED vars
  BY <1>9 DEF vars
<1>10. QED
  BY <1>1, <1>2, <1>3, <1>4, <1>5, <1>6, <1>7, <1>8, <1>9 DEF Next, Supervision

LEMMA Invariance == Spec => []IInv
<1>1. IInv /\ [Next]_vars => IInv'
  BY TypeStep, LifeCycleStep, GraceStep DEF IInv
<1>2. QED BY InitIInv, <1>1, PTL DEF Spec

(* The refinement: start-up and escalation are stutters of Daemon. *)
LEMMA DaemonStep == IInv /\ [Next]_vars => [D!Next]_(D!vars)
<1> SUFFICES ASSUME IInv, [Next]_vars PROVE D!Next \/ UNCHANGED D!vars
  OBVIOUS
<1> USE DEF IInv, OneLifeCycle
<1>1. ASSUME launchLokinet, running = {}, closing = {}, UNCHANGED shuttingDown
      PROVE  D!Next \/ UNCHANGED D!vars
  <2>1. CASE Launches /\ Spawn
    BY <1>1, <2>1, PidAssumption DEF Launches, Spawn, D!Next, D!Launch, D!vars
  <2>2. CASE NoIni \/ UNCHANGED <<handleVars, processVars, exited>>
    BY <1>1, <2>2 DEF NoIni, D!vars
  <2>3. QED BY <1>1, <2>1, <2>2, LaunchCases DEF Launches
<1>2. CASE \/ preLaunchLokinet \/ IniExits \/ AskLokid \/ LokidRefuses \/ Tick
           \/ MonitorSeesDown \/ MonitorKills \/ UNCHANGED vars
  BY <1>2 DEF preLaunchLokinet, IniExits, AskLokid, LokidRefuses, Tick, MonitorSeesDown,
              MonitorKills, vars, D!vars
<1>3. CASE LokidAnswers \/ RelaunchFires
  BY <1>1, <1>3 DEF LokidAnswers, RelaunchFires
<1>4. CASE stop
  BY <1>4 DEF stop, D!Next, D!Shutdown, D!Marked
<1>5. ASSUME NEW c \in Handle, OnClose(c) PROVE D!Next
  <2>1. closing # {} /\ closing' = {} /\ UNCHANGED <<running, shuttingDown>>
    BY <1>5 DEF OnClose
  <2>2. lokinet' = "killed"
    BY <1>5 DEF OnClose
  <2>3. QED BY <2>1, <2>2 DEF TypeOK, D!Next, D!Close
<1>6. ASSUME NEW p \in Pid, LokinetExits(p) PROVE D!Next
  <2>1. running # {} /\ running' = {} /\ closing' # {}
    BY <1>6 DEF LokinetExits
  <2>2. QED BY <1>6, <2>1 DEF LokinetExits, D!Next, D!End
<1>7. QED BY <1>2, <1>3, <1>4, <1>5, <1>6 DEF Next, Supervision
---------------------------------------------------------------------------
\* The variables keep their types: no timer runs below zero, and no stop comes
\* after the one that makes the launcher exit.
THEOREM TypeCorrect == Spec => []TypeOK
BY Invariance, PTL DEF IInv

\* There is at most one lokinet, and the launcher holds its handle.
THEOREM Managed == Spec => []LokinetManaged
<1>1. IInv => LokinetManaged
  BY DEF IInv, OneLifeCycle, LokinetManaged
<1>2. QED BY Invariance, <1>1, PTL

\* SIGKILL comes at least KillDelay after SIGINT, whatever else is requested.
THEOREM Grace == Spec => []GraceGiven
BY Invariance, PTL DEF IInv

\* lokinet under this launcher is a supervised daemon.
THEOREM Refinement == Spec => ImplementsDaemon
<1>1. Init => D!Init
  BY DEF Init, D!Init
<1>2. QED BY Invariance, <1>1, DaemonStep, PTL DEF Spec, ImplementsDaemon, D!Spec
===========================================================================
