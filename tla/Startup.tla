------------------------------- MODULE Startup -------------------------------
(***************************************************************************)
(* Starting the launcher (start.js, startLauncherDaemon of daemon.js) after*)
(* whatever an earlier one left behind: launcher.pid, pids.json, daemons   *)
(* without a launcher.  "start" checks in the foreground, verifies the     *)
(* ports with an outside server, and runs a detached "daemon-start", which *)
(* checks again, writes launcher.pid and starts the daemons.  The two are  *)
(* one launcher here.                                                      *)
(*                                                                         *)
(* lokinet is enabled and stands for the storage server too: both are told *)
(* to end by the same steps.  pids.json is the set of pids it names (no    *)
(* file is the empty set) and a save writes it at once; Suite has the late *)
(* saves.  Pids are not reused by other programs.                          *)
(*                                                                         *)
(* Timing.  Starts overlap while they verify their ports, which takes up to*)
(* a minute.  What takes milliseconds (a check and its port probe) and what*)
(* a user waits for (a launcher on its way out) is not overlapped by the   *)
(* check of another start: Settled.                                        *)
(***************************************************************************)
EXTENDS Naturals

CONSTANTS
  Launcher,       \* the launcher processes
  LokidPid, LokinetPid,  \* the process ids of daemons
  MaxDeaths       \* bound: launchers that die without a shutdown

ASSUME PidAssumption == LokidPid \cap LokinetPid = {}
ASSUME NoneAssumption == {"none", "stale"} \cap Launcher = {}
ASSUME BoundAssumption == MaxDeaths \in Nat

Pid == LokidPid \cup LokinetPid

VARIABLES
  pc,             \* of each launcher, see TypeOK
  seen,           \* its "running": the daemons of pids.json that existed
  children,       \* the daemons it launched
  proc,           \* of each pid: "none", "starting", "serving" (lokid has
                  \* its rpc port), and once told to end: "ending" (it still
                  \* has the port), "flushing"
  launcherPid,    \* what launcher.pid names: "none" without a file, "stale"
  listed,         \* the pids in pids.json
  deaths

fileVars == <<launcherPid, listed>>
vars == <<pc, seen, children, proc, fileVars, deaths>>

Phase == {"none", "starting", "serving", "ending", "flushing"}

TypeOK ==
  /\ pc \in [Launcher -> {"idle", "looking", "verifying", "forked", "relooking",
                          "locked", "up", "failing", "stopping"}]
  /\ seen \in [Launcher -> SUBSET {"lokid", "lokinet"}]
  /\ children \in [Launcher -> SUBSET Pid]
  /\ proc \in [Pid -> Phase]
  /\ launcherPid \in Launcher \cup {"none", "stale"}
  /\ listed \subseteq Pid
  /\ deaths \in 0..MaxDeaths
  /\ \A l \in Launcher :
       /\ seen[l] # {} => pc[l] \in {"looking", "relooking"}
       /\ children[l] # {} => pc[l] \in {"up", "stopping"}

Init ==
  /\ pc = [l \in Launcher |-> "idle"] /\ seen = [l \in Launcher |-> {}]
  /\ children = [l \in Launcher |-> {}] /\ proc = [p \in Pid |-> "none"]
  /\ launcherPid = "none" /\ listed = {}
  /\ deaths = 0
---------------------------------------------------------------------------
(* Building blocks. *)

Alive == {p \in Pid : proc[p] # "none"}
Untold == {p \in Pid : proc[p] \in {"starting", "serving"}}
Told(S) ==
  [p \in Pid |-> IF p \notin S \cap Untold THEN proc[p]
                ELSE IF proc[p] = "starting" THEN "flushing" ELSE "ending"]

\* getProcessState: the daemons that pids.json names and that exist.
running ==
  {d \in {"lokid", "lokinet"} :
     \E p \in listed \cap Alive :
       p \in IF d = "lokid" THEN LokidPid ELSE LokinetPid}

\* savePids, the daemons being proc': those that have not been told to end.
savePids(l) ==
  listed' = {p \in children'[l] : proc'[p] \in {"starting", "serving"}}

\* killLokinetAndStorageServer: without lokid nothing that is left may stay,
\* and what is left after it does not count as running.
killStrays ==
  IF "lokid" \in running THEN [left |-> running, proc |-> proc]
  ELSE [left |-> {}, proc |-> Told(listed \cap LokinetPid)]

Settled ==
  \A l \in Launcher : pc[l] \notin {"looking", "relooking", "failing", "stopping"}
---------------------------------------------------------------------------
(* A start. *)

\* areWeRunning: a live launcher ends this start; a stale file is removed.
areWeRunning_FileOnly == launcherPid # "none"

areWeRunning == launcherPid \in Launcher

\* The first check, of "start", and the second, of "daemon-start".
Check_Once(l) ==
  /\ pc[l] \in {"idle", "forked"} /\ Settled
  /\ \/ /\ areWeRunning /\ pc[l] = "idle"
        /\ UNCHANGED vars
     \/ /\ ~areWeRunning \/ pc[l] = "forked"
        /\ launcherPid' = IF areWeRunning THEN launcherPid ELSE "none"
        /\ proc' = killStrays.proc
        /\ seen' = [seen EXCEPT ![l] = killStrays.left]
        /\ pc' = [pc EXCEPT ![l] = IF pc[l] = "idle" THEN "looking" ELSE "relooking"]
        /\ UNCHANGED <<children, listed, deaths>>

Check(l) ==
  /\ pc[l] \in {"idle", "forked"} /\ Settled
  /\ \/ /\ areWeRunning
        /\ pc' = [pc EXCEPT ![l] = "idle"]
        /\ UNCHANGED <<seen, children, proc, fileVars, deaths>>
     \/ /\ ~areWeRunning
        /\ launcherPid' = "none"
        /\ proc' = killStrays.proc
        /\ seen' = [seen EXCEPT ![l] = killStrays.left]
        /\ pc' = [pc EXCEPT ![l] = IF pc[l] = "idle" THEN "looking" ELSE "relooking"]
        /\ UNCHANGED <<children, listed, deaths>>

\* lokid's rpc port.
portIsFree == \A p \in LokidPid : proc[p] \notin {"serving", "ending"}

Probed_PortOnly(l) ==
  /\ pc[l] \in {"looking", "relooking"}
  /\ \/ /\ ~portIsFree
        /\ pc' = [pc EXCEPT ![l] = "failing"]
        /\ launcherPid' = "none"
     \/ /\ portIsFree /\ pc[l] = "looking"
        /\ pc' = [pc EXCEPT ![l] = "verifying"]
        /\ UNCHANGED launcherPid
     \/ /\ portIsFree /\ pc[l] = "relooking"
        /\ pc' = [pc EXCEPT ![l] = "locked"]
        /\ launcherPid' = l
  /\ seen' = [seen EXCEPT ![l] = {}]
  /\ UNCHANGED <<children, proc, listed, deaths>>

\* start.js:461 asks for pids.loki where savePids writes pids.lokid: every
\* start goes this way, and a lokid that runs ends it, by shutdown_everything
\* or without a word.
Probed(l) ==
  /\ pc[l] \in {"looking", "relooking"}
  /\ \/ /\ ~portIsFree
        /\ pc' = [pc EXCEPT ![l] = "failing"]
        /\ launcherPid' = "none"
     \/ /\ portIsFree /\ seen[l] # {}
        /\ pc' = [pc EXCEPT ![l] = "idle"]
        /\ UNCHANGED launcherPid
     \/ /\ portIsFree /\ seen[l] = {} /\ pc[l] = "looking"
        /\ pc' = [pc EXCEPT ![l] = "verifying"]
        /\ UNCHANGED launcherPid
     \/ /\ portIsFree /\ seen[l] = {} /\ pc[l] = "relooking"
        /\ pc' = [pc EXCEPT ![l] = "locked"]
        /\ launcherPid' = l
  /\ seen' = [seen EXCEPT ![l] = {}]
  /\ UNCHANGED <<children, proc, listed, deaths>>

\* testOpenPorts, then the fork; or a port that is not open: process.exit.
Verified(l) ==
  /\ pc[l] = "verifying"
  /\ pc' = [pc EXCEPT ![l] = "forked"]
  /\ UNCHANGED <<seen, children, proc, fileVars, deaths>>

NotVerified(l) ==
  /\ pc[l] = "verifying"
  /\ pc' = [pc EXCEPT ![l] = "idle"]
  /\ UNCHANGED <<seen, children, proc, fileVars, deaths>>

\* getPublicIPv4; without an address the launcher exits, lock and all.
GotPublicIP(l) ==
  /\ pc[l] = "locked"
  /\ pc' = [pc EXCEPT ![l] = "up"]
  /\ UNCHANGED <<seen, children, proc, fileVars, deaths>>

NoPublicIP(l) ==
  /\ pc[l] = "locked"
  /\ pc' = [pc EXCEPT ![l] = "idle"]
  /\ launcherPid' = IF launcherPid = l THEN "stale" ELSE launcherPid
  /\ UNCHANGED <<seen, children, proc, listed, deaths>>
---------------------------------------------------------------------------
(* A launcher that is up, and its end. *)

\* A launch or relaunch; lokinet waits for lokid's rpc.
LaunchLokid(l, p) ==
  /\ pc[l] = "up" /\ p \in LokidPid \ Alive
  /\ children[l] \cap LokidPid \cap Alive = {}
  /\ proc' = [proc EXCEPT ![p] = "starting"]
  /\ children' = [children EXCEPT ![l] = (@ \cap Alive) \cup {p}]
  /\ savePids(l)
  /\ UNCHANGED <<pc, seen, launcherPid, deaths>>

LaunchLokinet(l, p) ==
  /\ pc[l] = "up" /\ p \in LokinetPid \ Alive
  /\ children[l] \cap LokinetPid \cap Alive = {}
  /\ \E q \in children[l] \cap LokidPid : proc[q] = "serving"
  /\ proc' = [proc EXCEPT ![p] = "serving"]
  /\ children' = [children EXCEPT ![l] = (@ \cap Alive) \cup {p}]
  /\ savePids(l)
  /\ UNCHANGED <<pc, seen, launcherPid, deaths>>

SaveStatus(l) ==
  /\ pc[l] \in {"up", "stopping"}
  /\ UNCHANGED <<pc, seen, children, proc, launcherPid, deaths>>
  /\ savePids(l)

\* A signal, the "stop" command, or lokid's last 'close'.
shutdown_everything(l) ==
  /\ pc[l] = "up"
  /\ pc' = [pc EXCEPT ![l] = "stopping"]
  /\ proc' = Told(children[l])
  /\ launcherPid' = "none"
  /\ UNCHANGED <<seen, children, listed, deaths>>

\* clearPids, whether the launcher was up or its start failed.
AllDaemonsDown(l) ==
  /\ pc[l] \in {"failing", "stopping"}
  /\ children[l] \cap Alive = {}
  /\ pc' = [pc EXCEPT ![l] = "idle"]
  /\ children' = [children EXCEPT ![l] = {}]
  /\ listed' = {}
  /\ UNCHANGED <<seen, proc, launcherPid, deaths>>

Dies(l) ==
  /\ pc[l] # "idle" /\ deaths < MaxDeaths
  /\ deaths' = deaths + 1
  /\ pc' = [pc EXCEPT ![l] = "idle"]
  /\ seen' = [seen EXCEPT ![l] = {}] /\ children' = [children EXCEPT ![l] = {}]
  /\ launcherPid' = IF launcherPid = l THEN "stale" ELSE launcherPid
  /\ UNCHANGED <<proc, listed>>

\* stopLauncher without a launcher to signal.
StopOrphans ==
  /\ ~areWeRunning
  /\ launcherPid' = "none"
  /\ proc' = Told(listed)
  /\ UNCHANGED <<pc, seen, children, listed, deaths>>
---------------------------------------------------------------------------
(* The daemons, whether they have a launcher or not. *)

LokidBinds(p) ==
  /\ p \in LokidPid /\ proc[p] = "starting"
  /\ portIsFree
  /\ proc' = [proc EXCEPT ![p] = "serving"]
  /\ UNCHANGED <<pc, seen, children, fileVars, deaths>>

LokidReleases(p) ==
  /\ p \in LokidPid /\ proc[p] = "ending"
  /\ proc' = [proc EXCEPT ![p] = "flushing"]
  /\ UNCHANGED <<pc, seen, children, fileVars, deaths>>

DaemonEnds(p) ==
  /\ p \in Alive
  /\ proc' = [proc EXCEPT ![p] = "none"]
  /\ UNCHANGED <<pc, seen, children, fileVars, deaths>>

Start ==
  \E l \in Launcher :
    \/ Check(l) \/ Probed(l) \/ Verified(l) \/ NotVerified(l)
    \/ GotPublicIP(l) \/ NoPublicIP(l)

Running ==
  \E l \in Launcher :
    \/ \E p \in Pid : LaunchLokid(l, p) \/ LaunchLokinet(l, p)
    \/ SaveStatus(l) \/ shutdown_everything(l) \/ AllDaemonsDown(l) \/ Dies(l)

Next ==
  \/ Start \/ Running \/ StopOrphans
  \/ \E p \in Pid : LokidBinds(p) \/ LokidReleases(p) \/ DaemonEnds(p)

Spec == Init /\ [][Next]_vars
---------------------------------------------------------------------------
(* Properties. *)

\* Although several starts verify their ports at once, one launcher gets past
\* launcher.pid, and the file names it as long as it runs (lib.js:317-405,
\* start.js:369, daemon.js:821): no failed start removes it.
OneLauncher ==
  \A l \in Launcher : pc[l] \in {"locked", "up"} =>
    /\ launcherPid = l
    /\ \A k \in Launcher : pc[k] \in {"locked", "up"} => k = l

\* However many launchers died or failed to start before, there is never a
\* second lokid beside one that nobody told to end: a launcher's death leaves
\* a lokid that pids.json names or whose port is taken (start.js:375-482).
OneLokid == \A p, q \in LokidPid \cap Untold : p = q

Orphans == Alive \ UNION {children[l] : l \in Launcher}

Fairness ==
  /\ WF_vars(\E l \in Launcher : Check(l))
  /\ \A l \in Launcher : WF_vars(Probed(l)) /\ WF_vars(AllDaemonsDown(l))
  /\ SF_vars(\E l \in Launcher : Verified(l))
  /\ SF_vars(\E l \in Launcher : GotPublicIP(l))
  /\ \A p \in Pid : WF_vars(proc[p] \in {"ending", "flushing"} /\ DaemonEnds(p))

LiveSpec == Spec /\ Fairness

\* What a dead launcher leaves behind (a stale launcher.pid, a pids.json that
\* names the dead, stray daemons) never keeps a user who tries again, with
\* open ports, from a running suite; only a lokid that lives on does.
NeverStuck ==
  []<>(\/ \E l \in Launcher : pc[l] = "up"
       \/ Orphans \cap LokidPid \cap Untold # {})
---------------------------------------------------------------------------
(* What the source says and the code does not do. *)

\* start.js:502 "adopt responsibility of watching the existing suite": a start
\* that finds the lokid of pids.json does not shut down.
Adopts ==
  [][\A l \in Launcher : "lokid" \in seen[l] => pc'[l] # "failing"]_vars
---------------------------------------------------------------------------
(* The inductive invariant behind OneLauncher and OneLokid. *)

\* One launcher at a time is between its check and its end; the others verify.
Active == {"looking", "relooking", "locked", "up", "failing", "stopping"}

OneActive ==
  /\ \A k, l \in Launcher : pc[k] \in Active /\ pc[l] \in Active => k = l
  /\ \A l \in Launcher : pc[l] \in {"locked", "up"} => launcherPid = l

\* An untold lokid can be found: pids.json names it or it has the port, and
\* one that waits for the port has no other before it.
Findable ==
  /\ \A p \in LokidPid \cap Untold : p \in listed \/ proc[p] = "serving"
  /\ (\E p \in LokidPid : proc[p] = "starting") => portIsFree

\* What the launcher found, or did not find, is still so.
StillTrue ==
  \A l \in Launcher :
    /\ pc[l] \in {"looking", "relooking"} /\ seen[l] = {}
         => LokidPid \cap Untold \cap listed = {}
    /\ pc[l] = "failing" => \A p \in LokidPid : proc[p] # "starting"
    /\ pc[l] \in {"locked", "up", "stopping"}
         => \A p \in LokidPid : p \in children[l] \/ proc[p] \in {"none", "flushing"}
    /\ pc[l] = "stopping" => children[l] \cap Untold = {}

IInv == TypeOK /\ OneActive /\ OneLokid /\ Findable /\ StillTrue
===========================================================================
