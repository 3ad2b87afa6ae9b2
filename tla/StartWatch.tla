----------------------------- MODULE StartWatch -----------------------------
(***************************************************************************)
(* How a verified start goes on (daemon.js, startLauncherDaemon: doStart). *)
(* The foreground process spawns the launcher in the background and asks   *)
(* for its status every 5 s until it can give a verdict on the terminal;   *)
(* an interactive launcher, or the one in the background, goes on itself.  *)
(* A tick is 5 s.                                                          *)
(***************************************************************************)
EXTENDS LauncherStatus, Naturals

CONSTANTS
  Limit,          \* how long everything may take (1 min)
  StorageLimit,   \* the storage server, if the rest is fine (1.5 min)
  RpcLimit        \* its RPC server, if the rest is fine (1.75 min)

ASSUME WatchAssumption ==
  /\ Limit \in Nat /\ StorageLimit \in Nat /\ RpcLimit \in Nat
  /\ Limit < StorageLimit /\ StorageLimit < RpcLimit

VARIABLES
  background,     \* is the launcher to be put in the background?
  stage,          \* how far the start is
  child,          \* the background launcher: "none", "up", "ended", "closed"
  pollTimer,      \* areWeRunningYet's next turn, or NoPoll
  waited,         \* the time since startTime, as far as it matters
  diff,           \* the same when the status was asked for
  outcome         \* why this process has ended

watchVars == <<background, stage, child, pollTimer, waited, diff, outcome>>

NoPoll == 2
Stage == {"begin", "resolving", "connecting", "testing", "watching", "launched",
          "stuck", "exited"}
Outcome == {"none", "success", "syncing", "storage timeout", "storage rpc timeout",
            "timeout", "crashed", "not verified", "disconnected"}

WatchTypeOK ==
  /\ StatusTypeOK
  /\ background \in BOOLEAN /\ stage \in Stage
  /\ child \in {"none", "up", "ended", "closed"}
  /\ pollTimer \in 0..NoPoll
  /\ waited \in 0..(RpcLimit + 1) /\ diff \in 0..(RpcLimit + 1)
  /\ outcome \in Outcome

WatchInit ==
  /\ StatusInit
  /\ background \in BOOLEAN /\ stage = "begin"
  /\ child = "none" /\ pollTimer = NoPoll
  /\ waited = 0 /\ diff = 0 /\ outcome = "none"
---------------------------------------------------------------------------
exit(why) == stage' = "exited" /\ outcome' = why

\* Spawn the launcher and watch it, or be it.
doStart ==
  /\ IF background
     THEN stage' = "watching" /\ child' = "up" /\ pollTimer' = 1 /\ waited' = 0
     ELSE stage' = "launched" /\ UNCHANGED <<child, pollTimer, waited>>
  /\ UNCHANGED <<background, diff, outcome>>

ChildEnds ==
  /\ stage = "watching" /\ child = "up"
  /\ child' = "ended"
  /\ UNCHANGED <<background, stage, pollTimer, waited, diff, outcome, statusVars>>

crashHandler ==
  /\ stage = "watching" /\ child = "ended"
  /\ child' = "closed"
  /\ exit("crashed")
  /\ UNCHANGED <<background, pollTimer, waited, diff, statusVars>>

areWeRunningYet_Restarts ==
  /\ stage = "watching" /\ pollTimer = 0
  /\ pollTimer' = NoPoll
  /\ diff' = 0 /\ waited' = 0
  /\ \E running \in SUBSET Process, socketExists \in BOOLEAN :
       /\ "launcher" \in running => child = "up"
       /\ getLauncherStatus(running, socketExists)
  /\ UNCHANGED <<background, stage, child, outcome>>

\* launcher.pid is the child's, and the rest is its doing.
areWeRunningYet ==
  /\ stage = "watching" /\ pollTimer = 0
  /\ pollTimer' = NoPoll
  /\ diff' = waited
  /\ \E running \in SUBSET Process, socketExists \in BOOLEAN :
       /\ "launcher" \in running => child = "up"
       /\ getLauncherStatus(running, socketExists)
  /\ UNCHANGED <<background, stage, child, waited, outcome>>

GiveUpAfter(limit, why) ==
  IF diff > limit THEN exit(why) /\ UNCHANGED pollTimer
                  ELSE pollTimer' = 1 /\ UNCHANGED <<stage, outcome>>

\* The checklist is judged: saved says that pids.json has a configuration, and
\* network that lokinet runs or is not wanted.  A question that was not asked
\* does not stand in the way, and networkIsFine has a value only if the chain
\* is fine and not syncing.
judge(saved, syncing, network) ==
  LET chainIsFine == /\ {"launcher", "lokid"} \subseteq seen
                     /\ socketWorks # "down" /\ saved /\ rpc # "down"
      networkIsFine == chainIsFine /\ network
      storageRuns == StorageEnabled => "storage" \in seen
      storageWaits == StorageEnabled /\ networkIsFine
  IN  \/ /\ chainIsFine /\ syncing
         /\ exit("syncing") /\ UNCHANGED pollTimer
      \/ /\ networkIsFine /\ ~syncing /\ storageRuns /\ storageRpc # "down"
         /\ exit("success") /\ UNCHANGED pollTimer
      \/ /\ storageWaits /\ ~syncing /\ ~storageRuns
         /\ GiveUpAfter(StorageLimit, "storage timeout")
      \/ /\ storageWaits /\ ~syncing /\ storageRuns /\ storageRpc = "down"
         /\ GiveUpAfter(RpcLimit, "storage rpc timeout")
      \/ /\ ~(chainIsFine /\ (syncing \/ network))
         /\ GiveUpAfter(Limit, "timeout")

\* getLauncherStatus calls back.
Judge ==
  /\ status = "told" /\ status' = "idle"
  /\ \E saved, syncing, network \in BOOLEAN : judge(saved, syncing, network)
  /\ IF stage' = "exited" THEN UNCHANGED <<diff, seen, rpc, storageRpc, socketWorks>>
     ELSE diff' = 0 /\ forget
  /\ late' = FALSE
  /\ UNCHANGED <<background, child, waited>>

StatusProbe ==
  /\ stage = "watching"
  /\ RpcAnswers \/ RpcTimesOut \/ StorageAnswers \/ StorageTimesOut \/ SocketAnswers
  /\ UNCHANGED watchVars

WatchUrgent == child = "ended" \/ pollTimer = 0 \/ StatusUrgent
---------------------------------------------------------------------------
\* "Start up successful!" is said of a launcher that was up, and of a lokid and,
\* if enabled, of a storage server that were running and whose RPC servers have
\* answered this very check, never of one that only was not asked or timed out
\* (daemon.js:888-906, lib.js:717-731).
SuccessTruthful ==
  outcome = "success" =>
    /\ {"launcher", "lokid"} \subseteq seen /\ child # "closed"
    /\ rpc = "up"
    /\ StorageEnabled => "storage" \in seen /\ storageRpc = "up"

\* Whatever the background launcher does or fails to do, the terminal gets a
\* verdict, unless the answer of lokid's RPC server was lost (daemon.js:908-934).
ParentVerdict == stage = "watching" ~> stage = "exited" \/ rpc = "lost"

\* "won't take longer than 5s" (lib.js:676): whoever asks for the status is told,
\* if it lives to hear it.
StatusAnswers == status = "asked" ~> status # "asked" \/ stage = "exited"
---------------------------------------------------------------------------
\* The inductive invariant behind SuccessTruthful: an answer is awaited only
\* while the caller is not told, and who is running was asked.
WatchInv ==
  /\ stage # "exited" => outcome = "none" /\ child # "closed"
  /\ "asked" \in {rpc, storageRpc, socketWorks} => status = "asked"
  /\ status = "told" => rpc # "lost"
  /\ status # "idle" =>
       /\ "lokid" \in seen => rpc # "unneeded"
       /\ StorageEnabled /\ "storage" \in seen => storageRpc # "unneeded"
  /\ SuccessTruthful
===========================================================================
