------------------------------- MODULE Suite -------------------------------
(***************************************************************************)
(* The daemons together, and what they share: the shutdown, the file       *)
(* pids.json in which the launcher tells other processes what it runs, and *)
(* the command "stop" (index.js), which goes by that file and by           *)
(* launcher.pid.  Each daemon is one of module Daemon.                     *)
(*                                                                         *)
(* savePids takes a snapshot of the handles and, if the file exists, writes*)
(* it in the callback of an fs.access: snapshots wait in writes, and can   *)
(* overtake each other.  A pid in the file matters only if it is that of   *)
(* the daemon's present process, so the file is the set of daemons whose   *)
(* present process it names; a launch makes older mentions void.           *)
(***************************************************************************)
EXTENDS Naturals, SequencesExt

CONSTANTS
  Enabled,        \* the daemons configured: "lokid", "lokinet", "storage"
  MaxWrites       \* bound: snapshots waiting for their fs.access

ASSUME EnabledAssumption ==
  "lokid" \in Enabled /\ Enabled \subseteq {"lokid", "lokinet", "storage"}
ASSUME BoundAssumption == MaxWrites \in Nat \ {0}

VARIABLES
  handle, up, closing,  \* of each daemon, as in Daemon
  signalled,      \* the daemons that exist and were told to end
  hung,           \* those that would not react to SIGINT or SIGTERM
  shuttingDown,
  shutDownTimer,  \* "null", "on", "cleared"
  launcher,       \* "running" or "gone"
  sigterm,        \* a signal for the launcher that it has not handled
  launcherPid,    \* launcher.pid exists
  pidsJson,       \* pids.json exists
  listed,         \* the daemons whose present process it names
  writes,         \* the snapshots of pending saves
  lokinetPidwatcher,  \* the 30 s interval is set
  stop            \* the command: "idle", "waiting", "success", "nothing"

daemonVars == <<handle, up, closing, signalled>>
shutdownVars == <<shuttingDown, shutDownTimer, launcherPid, lokinetPidwatcher>>
fileVars == <<pidsJson, listed, writes>>
processVars == <<launcher, sigterm, stop, hung>>
vars == <<daemonVars, shutdownVars, fileVars, processVars>>

DaemonsOK ==
  /\ handle \in [Enabled -> {"null", "open", "killed"}]
  /\ up \in [Enabled -> BOOLEAN] /\ closing \in [Enabled -> BOOLEAN]
  /\ signalled \subseteq {d \in Enabled : up[d]}
  /\ hung \subseteq {d \in Enabled : up[d]}

ShutdownOK ==
  /\ shuttingDown \in BOOLEAN /\ shutDownTimer \in {"null", "on", "cleared"}
  /\ launcherPid \in BOOLEAN /\ lokinetPidwatcher \in BOOLEAN

FilesOK ==
  /\ pidsJson \in BOOLEAN
  /\ listed \subseteq Enabled /\ (listed # {} => pidsJson)
  /\ writes \in Seq(SUBSET Enabled) /\ Len(writes) <= MaxWrites

ProcessesOK ==
  /\ launcher \in {"running", "gone"} /\ sigterm \in BOOLEAN
  /\ stop \in {"idle", "waiting", "success", "nothing"}

TypeOK == DaemonsOK /\ ShutdownOK /\ FilesOK /\ ProcessesOK

Init ==
  /\ handle = [d \in Enabled |-> "null"]
  /\ up = [d \in Enabled |-> FALSE] /\ closing = [d \in Enabled |-> FALSE]
  /\ signalled = {} /\ hung = {}
  /\ shuttingDown = FALSE /\ shutDownTimer = "null"
  /\ launcher = "running" /\ sigterm = FALSE /\ launcherPid = TRUE
  /\ pidsJson = FALSE /\ listed = {} /\ writes = <<>>
  /\ lokinetPidwatcher = FALSE
  /\ stop = "idle"
---------------------------------------------------------------------------
(* Building blocks. *)

\* savePids with the handles of the next state; stale are the daemons whose
\* process has just been replaced.
savePids(stale) ==
  LET snapshot == {d \in Enabled : handle'[d] = "open"}
      age(s) == s \ stale
  IN IF pidsJson
     THEN /\ Len(writes) < MaxWrites
          /\ writes' = Append([i \in DOMAIN writes |-> age(writes[i])], snapshot)
          /\ listed' = age(listed)
          /\ UNCHANGED pidsJson
     ELSE /\ pidsJson' = TRUE
          /\ listed' = snapshot
          /\ writes' = [i \in DOMAIN writes |-> age(writes[i])]

\* getProcessState: the daemons in the file that exist.
running == {d \in listed : up[d]}

\* shutdown_everything, the handles being h: every daemon is told to end.
shutdownEverything(h) ==
  /\ shuttingDown' = TRUE
  /\ handle' = [d \in Enabled |-> IF h[d] = "open" THEN "killed" ELSE h[d]]
  /\ signalled' = signalled \cup {d \in Enabled : up[d] /\ h[d] = "open"}
  /\ shutDownTimer' = IF shutDownTimer = "null" THEN "on" ELSE shutDownTimer
  /\ launcherPid' = FALSE /\ lokinetPidwatcher' = FALSE
---------------------------------------------------------------------------
(* The launcher. *)

\* A launch or a relaunch; every one that works saves the pids.  lokinet's
\* first launch starts its pid watcher.
Launch(d) ==
  /\ ~shuttingDown
  /\ handle[d] # "open" /\ ~up[d] /\ ~closing[d]
  /\ handle' = [handle EXCEPT ![d] = "open"]
  /\ \/ /\ up' = [up EXCEPT ![d] = TRUE]
        /\ savePids({d})
        /\ UNCHANGED closing
     \/ /\ d # "storage"
        /\ closing' = [closing EXCEPT ![d] = TRUE]
        /\ savePids({d})
        /\ UNCHANGED up
     \/ /\ d = "storage" /\ handle[d] # "null"
        /\ UNCHANGED <<up, closing, fileVars>>
  /\ lokinetPidwatcher' = (lokinetPidwatcher \/ d = "lokinet")
  /\ UNCHANGED <<signalled, shuttingDown, shutDownTimer, launcherPid, processVars>>

\* Without a first storage server the suite is not started at all.
StorageStartFails ==
  /\ "storage" \in Enabled /\ ~shuttingDown /\ handle["storage"] = "null"
  /\ ~closing["storage"]
  /\ shutdownEverything([handle EXCEPT !["storage"] = "open"])
  /\ UNCHANGED <<up, closing, fileVars, processVars>>

\* The 'close' handlers: lokinet's saves the pids, lokid's may be what ends
\* the suite, the storage server's may null the handle, and does nothing if
\* it is null.
OnClose(d) ==
  /\ closing[d]
  /\ closing' = [closing EXCEPT ![d] = FALSE]
  /\ \/ /\ d = "lokid"
        /\ handle' = [handle EXCEPT ![d] = "killed"]
        /\ UNCHANGED <<signalled, shutdownVars, fileVars>>
     \/ /\ d = "lokid" /\ ~shuttingDown
        /\ shutdownEverything([handle EXCEPT ![d] = "killed"])
        /\ UNCHANGED fileVars
     \/ /\ d = "storage"
        /\ \E h \in {"null", "killed"} :
             /\ handle[d] = "null" => h = "null"
             /\ handle' = [handle EXCEPT ![d] = h]
        /\ UNCHANGED <<signalled, shutdownVars, fileVars>>
     \/ /\ d = "lokinet"
        /\ handle' = [handle EXCEPT ![d] = "killed"]
        /\ savePids({})
        /\ UNCHANGED <<signalled, shutdownVars>>
  /\ UNCHANGED <<up, processVars>>

\* lokid's restart, and the storage server's watchdog.
AskToEnd(d) ==
  /\ d # "lokinet" /\ handle[d] = "open"
  /\ handle' = [handle EXCEPT ![d] = "killed"]
  /\ signalled' = IF up[d] THEN signalled \cup {d} ELSE signalled
  /\ UNCHANGED <<up, closing, shutdownVars, fileVars, processVars>>

\* SIGTERM, SIGINT.
shutdown_everything ==
  /\ sigterm /\ sigterm' = FALSE
  /\ shutdownEverything(handle)
  /\ UNCHANGED <<up, closing, fileVars, launcher, stop, hung>>

\* A daemon's log line that is saved with the pids, and SIGHUP.
SaveStatus ==
  /\ pidsJson \/ \E d \in Enabled : up[d]
  /\ UNCHANGED handle /\ savePids({})
  /\ UNCHANGED <<up, closing, signalled, shutdownVars, processVars>>

PidwatcherFires_Never ==
  /\ lokinetPidwatcher
  /\ UNCHANGED vars

\* Every 30 s: the file does not have lokinet's pid.
PidwatcherFires ==
  /\ lokinetPidwatcher
  /\ "lokinet" \notin listed
  /\ UNCHANGED handle /\ savePids({})
  /\ UNCHANGED <<up, closing, signalled, shutdownVars, processVars>>

\* The callback of fs.access: it found the file, or it had been removed.  If
\* the file is removed after that, the write creates it again.
WriteLands(i) ==
  /\ writes' = RemoveAt(writes, i)
  /\ \/ pidsJson' = TRUE /\ listed' = writes[i]
     \/ ~pidsJson /\ UNCHANGED <<pidsJson, listed>>
  /\ UNCHANGED <<daemonVars, shutdownVars, processVars>>

AllDaemonsDown_LokidOnly ==
  /\ shutDownTimer = "on"
  /\ ~up["lokid"]
  /\ shutDownTimer' = "cleared"
  /\ handle' = [d \in Enabled |-> IF d = "lokinet" THEN handle[d] ELSE "null"]
  /\ pidsJson' = FALSE /\ listed' = {}
  /\ UNCHANGED <<up, closing, signalled, writes, shuttingDown, launcherPid,
                 lokinetPidwatcher, processVars>>

\* "All daemons down.", and clearPids.
AllDaemonsDown ==
  /\ shutDownTimer = "on"
  /\ \A d \in Enabled : ~up[d]
  /\ shutDownTimer' = "cleared"
  /\ handle' = [d \in Enabled |-> IF d = "lokinet" THEN handle[d] ELSE "null"]
  /\ pidsJson' = FALSE /\ listed' = {}
  /\ UNCHANGED <<up, closing, signalled, writes, shuttingDown, launcherPid,
                 lokinetPidwatcher, processVars>>

Launcher ==
  \/ \E d \in Enabled : Launch(d) \/ OnClose(d) \/ AskToEnd(d)
  \/ StorageStartFails \/ shutdown_everything \/ SaveStatus
  \/ PidwatcherFires \/ AllDaemonsDown
  \/ \E i \in DOMAIN writes : WriteLands(i)

\* Killed, out of memory, or process.exit in lokinet.js.
LauncherDies ==
  /\ launcher = "running" /\ launcher' = "gone"
  /\ writes' = <<>>
  /\ UNCHANGED <<daemonVars, shutdownVars, pidsJson, listed, sigterm, stop, hung>>
---------------------------------------------------------------------------
(* The daemons, and "stop". *)

DaemonEnds(d) ==
  /\ up[d]
  /\ up' = [up EXCEPT ![d] = FALSE]
  /\ closing' = [closing EXCEPT ![d] = TRUE]
  /\ signalled' = signalled \ {d} /\ hung' = hung \ {d}
  /\ UNCHANGED <<handle, shutdownVars, fileVars, launcher, sigterm, stop>>

\* A storage server that hangs, a lokinet that cannot be stopped but by SIGKILL
\* (lokinet.js:1549).
DaemonHangs(d) ==
  /\ d # "lokid" /\ up[d]
  /\ hung' = hung \cup {d}
  /\ UNCHANGED <<daemonVars, shutdownVars, fileVars, launcher, sigterm, stop>>

Stop_LauncherOnly ==
  /\ stop = "idle"
  /\ stop' = IF running # {} THEN "waiting" ELSE "nothing"
  /\ sigterm' = (launcherPid /\ launcher = "running")
  /\ UNCHANGED <<daemonVars, shutdownVars, fileVars, launcher, hung>>

\* stopLauncher signals the launcher; without one (a stale launcher.pid is
\* removed) it signals the daemons in the file.
Stop ==
  /\ stop = "idle"
  /\ stop' = IF running # {} THEN "waiting" ELSE "nothing"
  /\ \/ /\ launcherPid /\ launcher = "running"
        /\ sigterm' = TRUE
        /\ UNCHANGED <<signalled, launcherPid>>
     \/ /\ ~launcherPid \/ launcher = "gone"
        /\ signalled' = signalled \cup running
        /\ launcherPid' = FALSE
        /\ UNCHANGED sigterm
  /\ UNCHANGED <<handle, up, closing, shuttingDown, shutDownTimer,
                 lokinetPidwatcher, fileVars, launcher, hung>>

\* shutdownMonitor, every second: "Successfully shutdown."
shutdownMonitor ==
  /\ stop = "waiting" /\ running = {}
  /\ stop' = "success"
  /\ UNCHANGED <<daemonVars, shutdownVars, fileVars, launcher, sigterm, hung>>

StopAgain ==
  /\ stop \in {"success", "nothing"} /\ stop' = "idle"
  /\ UNCHANGED <<daemonVars, shutdownVars, fileVars, launcher, sigterm, hung>>

Next ==
  \/ launcher = "running" /\ (Launcher \/ LauncherDies)
  \/ \E d \in Enabled : DaemonEnds(d) \/ DaemonHangs(d)
  \/ Stop \/ shutdownMonitor \/ StopAgain

Spec == Init /\ [][Next]_vars
---------------------------------------------------------------------------
(* Properties. *)

\* In the suite each daemon is still one of module Daemon, although they share
\* one shutdown, which one daemon's 'close' or failed start begins for all,
\* and which ends when all are down (daemon.js:133-241).
D(d) == INSTANCE Daemon WITH
  handle <- handle[d], up <- up[d], closing <- closing[d],
  allDown <- shutDownTimer = "cleared"

EachIsDaemon ==
  /\ \A d \in Enabled : D(d)!Init
  /\ [][\A d \in Enabled : D(d)!Next \/ UNCHANGED D(d)!vars]_vars

\* What the launcher's code takes for granted of the three: a child does not
\* live and close at once, a child whose handle was dropped is gone, the one
\* shutdown has flagged every handle, and it said "All daemons down." after
\* the last of them had ended.
OneEnd == \A d \in Enabled : ~(up[d] /\ closing[d])
Dropped == ~shuttingDown => \A d \in Enabled : handle[d] = "null" => ~up[d]
AllFlagged == shuttingDown => \A d \in Enabled : handle[d] # "open"
TimerOfShutdown == shutDownTimer # "null" => shuttingDown
DownMeansDown == shutDownTimer = "cleared" => \A d \in Enabled : ~up[d]

SInv ==
  /\ TypeOK /\ OneEnd /\ Dropped
  /\ AllFlagged /\ TimerOfShutdown /\ DownMeansDown

\* A daemon that was told to end does, unless it hangs.  A lokinet that hangs
\* is killed 15 s after the shutdown, by the launcher; a storage server is not
\* always (Storage), so nothing is assumed of one that hangs.
DaemonObeys(d) == d \in signalled \ hung /\ DaemonEnds(d)

LokinetKilled ==
  /\ launcher = "running" /\ shuttingDown
  /\ "lokinet" \in signalled /\ DaemonEnds("lokinet")

Fairness ==
  /\ WF_vars(launcher = "running" /\ shutdown_everything)
  /\ WF_vars(launcher = "running" /\ AllDaemonsDown)
  /\ WF_vars(launcher = "running" /\ PidwatcherFires)
  /\ WF_vars(launcher = "running" /\ \E i \in DOMAIN writes : WriteLands(i))
  /\ \A d \in Enabled : WF_vars(DaemonObeys(d))
  /\ WF_vars(LokinetKilled)
  /\ WF_vars(shutdownMonitor)

LiveSpec == Spec /\ Fairness

\* Although overlapping saves can leave an older snapshot in the file, a
\* lokinet that runs on gets into it (daemon.js:771-785).
LokinetListed ==
  (launcher = "running" /\ lokinetPidwatcher /\ up["lokinet"])
    ~> ("lokinet" \in listed \/ ~up["lokinet"] \/ shuttingDown \/ launcher = "gone")

\* "stop" does not wait for ever: what it waits for has been signalled, by
\* the launcher or, without one, by itself (index.js:415-437, lib.js:941-977).
\* Three times it may: the launcher died with the signal unhandled; a storage
\* server hangs; lokinet hangs, and no launcher is left to send it SIGKILL.
Unstoppable == {d \in hung : d = "storage" \/ launcher = "gone"}

StopEnds ==
  stop = "waiting" ~> \/ stop # "waiting" \/ (launcher = "gone" /\ sigterm)
                      \/ [](running \subseteq Unstoppable)

\* index.js:435 "Successfully shutdown.": then no daemon is left; not even when
\* the launcher had the second between two looks (index.js:433) to handle the
\* signal and every 'close', and to finish its writes.
Settled ==
  launcher = "running" /\ ~sigterm /\ writes = <<>> /\ \A d \in Enabled : ~closing[d]

StopTruthful ==
  [][Settled /\ stop = "waiting" /\ stop' = "success" => \A d \in Enabled : ~up[d]]_vars
===========================================================================
