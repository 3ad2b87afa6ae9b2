---------------------------- MODULE HeightCheck ----------------------------
(***************************************************************************)
(* The watch on lokid's block height (getHeight, daemon.js), on top of     *)
(* Blockchain.  A launch starts a chain of checks: 60 s later, and then    *)
(* every 4 minutes, it asks lokid for its height over RPC; the answer      *)
(* comes back in a later callback and arms the next check.  More than      *)
(* StuckLimit answers in a row without a new block request a restart.      *)
(*                                                                         *)
(* The chains do not belong to a lokid: they read and write the fields of  *)
(* whatever the module-level handle is when they run.                      *)
(***************************************************************************)
EXTENDS Blockchain

CONSTANTS
  FirstCheck,   \* ticks from a launch to the first check (60 s)
  CheckPeriod,  \* ticks from an answer to the next check (4 min)
  StuckLimit,   \* equal heights that are tolerated (10)
  MaxChains     \* bound: chains of checks told apart; a launch beyond it
                \* starts none

ASSUME CheckAssumption ==
  /\ FirstCheck \in 1..CheckPeriod
  /\ CheckPeriod \in Nat \ {0} /\ StuckLimit \in Nat
  /\ MaxChains \in Nat \ {0}

\* The lock of a restart is released before a lokid that was launched under it
\* is asked for its height (45 s and 60 s, daemon.js:1727 and 1691).
ASSUME ReleaseAssumption == ReleaseDelay < FirstCheck

VARIABLES
  checks,         \* each chain: the ticks to its next check, Asking or Off
  getHeightTimer, \* the chain whose timer the handle holds, or NoChain
  lastHeight,     \* "none", "same", "old": compared with lokid's height now
  heightStuckCounter,
  still           \* history: ticks lokid has been up without a new block,
                  \* counted up to StuckTime

checkVars == <<checks, getHeightTimer, lastHeight, heightStuckCounter, still>>
allVars == <<vars, checkVars>>

Chain == 1..MaxChains
NoChain == 0
Asking == CheckPeriod + 1
Off == CheckPeriod + 2
Armed(c) == checks[c] <= CheckPeriod
StuckTime == StuckLimit * CheckPeriod

HTypeOK ==
  /\ checks \in [Chain -> 0..Off]
  /\ getHeightTimer \in Chain \cup {NoChain}
  /\ lastHeight \in {"none", "same", "old"}
  /\ heightStuckCounter \in Nat
  /\ still \in 0..StuckTime

HInit ==
  /\ Init
  /\ checks = [c \in Chain |-> Off]
  /\ getHeightTimer = NoChain
  /\ lastHeight = "none" /\ heightStuckCounter = 0 /\ still = 0
---------------------------------------------------------------------------
\* The end of launchLokid: a fresh handle, and its first check.
StartChecks ==
  /\ lastHeight' = "none" /\ heightStuckCounter' = 0 /\ still' = 0
  /\ IF \E c \in Chain : checks[c] = Off
     THEN LET c == CHOOSE d \in Chain : checks[d] = Off
          IN /\ checks' = [checks EXCEPT ![c] = FirstCheck]
             /\ getHeightTimer' = c
     ELSE checks' = checks /\ getHeightTimer' = NoChain

\* A launch that throws starts no check; the handle it may leave has no timer.
ChecksOfLaunch ==
  IF ~spawnThrew' THEN StartChecks
  ELSE /\ UNCHANGED <<checks, still>>
       /\ \/ /\ UNCHANGED handleVars
             /\ UNCHANGED <<getHeightTimer, lastHeight, heightStuckCounter>>
          \/ /\ handleVars' # handleVars
             /\ getHeightTimer' = NoChain
             /\ lastHeight' = "none" /\ heightStuckCounter' = 0

\* 'close' cancels the check whose timer the handle holds: none if that chain
\* is waiting for an answer, or if the handle had been nulled.
CancelCheck ==
  /\ checks' = IF getHeightTimer # NoChain /\ Armed(getHeightTimer)
               THEN [checks EXCEPT ![getHeightTimer] = Off] ELSE checks
  /\ getHeightTimer' = NoChain
  /\ UNCHANGED <<lastHeight, heightStuckCounter, still>>

\* getHeight up to its await.
Ask_Always(c) ==
  /\ checks[c] = 0
  /\ checks' = [checks EXCEPT ![c] = Asking]
  /\ UNCHANGED <<vars, getHeightTimer, lastHeight, heightStuckCounter, still>>

Ask(c) ==
  /\ checks[c] = 0
  /\ checks' = [checks EXCEPT ![c] = IF shuttingDown THEN Off ELSE Asking]
  /\ getHeightTimer' = IF shuttingDown THEN NoChain ELSE getHeightTimer
  /\ UNCHANGED <<vars, lastHeight, heightStuckCounter, still>>

Rearm(c) ==
  /\ checks' = [checks EXCEPT ![c] = CheckPeriod]
  /\ getHeightTimer' = c

EndChain(c) ==
  /\ checks' = [checks EXCEPT ![c] = Off]
  /\ UNCHANGED getHeightTimer

\* The rest of getHeight, when the request failed.
AnswerError_Ends(c) ==
  /\ checks[c] = Asking
  /\ EndChain(c)
  /\ UNCHANGED <<vars, lastHeight, heightStuckCounter, still>>

AnswerError(c) ==
  /\ checks[c] = Asking
  /\ IF loki_daemon = "null" THEN EndChain(c) ELSE Rearm(c)
  /\ UNCHANGED <<vars, lastHeight, heightStuckCounter, still>>

\* The rest of getHeight, when lokid told its height.
AnswerHeight_Forgets(c) ==
  /\ checks[c] = Asking
  /\ running # {} \/ closing # {}
  /\ Rearm(c)
  /\ heightStuckCounter' = 0
  /\ UNCHANGED <<vars, still, lastHeight>>

AnswerHeight(c) ==
  /\ checks[c] = Asking
  /\ running # {} \/ closing # {}
  /\ UNCHANGED still
  /\ \/ /\ loki_daemon = "null"
        /\ EndChain(c)
        /\ UNCHANGED <<vars, lastHeight, heightStuckCounter>>
     \/ /\ loki_daemon # "null" /\ lastHeight # "same"
        /\ Rearm(c)
        /\ lastHeight' = "same"
        /\ heightStuckCounter' = IF lastHeight = "none" THEN heightStuckCounter ELSE 0
        /\ UNCHANGED vars
     \/ /\ loki_daemon # "null" /\ lastHeight = "same"
        /\ heightStuckCounter' = heightStuckCounter + 1
        /\ UNCHANGED lastHeight
        /\ IF heightStuckCounter' > StuckLimit
           THEN HeightStuck /\ EndChain(c)
           ELSE UNCHANGED vars /\ Rearm(c)

\* lokid adds a block.
NewBlock ==
  /\ running # {}
  /\ lastHeight' = IF lastHeight = "same" THEN "old" ELSE lastHeight
  /\ still' = 0
  /\ UNCHANGED <<vars, checks, getHeightTimer, heightStuckCounter>>

HTick ==
  /\ Tick
  /\ \A c \in Chain : checks[c] # 0
  /\ checks' = [c \in Chain |-> IF Armed(c) THEN checks[c] - 1 ELSE checks[c]]
  /\ still' = IF still < StuckTime /\ running # {} THEN still + 1 ELSE still
  /\ UNCHANGED <<getHeightTimer, lastHeight, heightStuckCounter>>
---------------------------------------------------------------------------
Launch ==
  \/ startLokid /\ ChecksOfLaunch
  \/ \E t \in relaunches :
       /\ RelaunchFires(t)
       /\ IF shuttingDown THEN UNCHANGED checkVars ELSE ChecksOfLaunch

Close == \E c \in Handle : OnClose(c) /\ CancelCheck

\* The handle is nulled, and with it the timer's id is lost.
HAllDaemonsDown ==
  /\ AllDaemonsDown
  /\ getHeightTimer' = NoChain
  /\ UNCHANGED <<checks, lastHeight, heightStuckCounter, still>>

Check == \E c \in Chain : Ask(c) \/ AnswerError(c) \/ AnswerHeight(c)

Restarting == \E r \in requests : PollSeesDown(r) \/ ReleaseLock(r)

HNext ==
  \/ Launch \/ Close \/ HAllDaemonsDown \/ Check \/ NewBlock \/ HTick
  \/ (Environment \/ Restarting) /\ UNCHANGED checkVars

HSpec == HInit /\ [][HNext]_allVars
---------------------------------------------------------------------------
(* Properties. *)

\* A restart request made after lokid's 'close', in the second before the
\* relaunch, polls the new lokid (daemon.js:1712): it holds the lock until that
\* lokid ends by itself.
StrayPoll == loki_daemon = "open" /\ \E r \in requests : r.left = Polling

\* A lokid that runs is watched: some chain will ask for its height, whatever
\* became of the chains of its predecessors, of the requests that failed and of
\* the checks that came while a restart's lock was held (daemon.js:1654-1691).
\* The one exception is a lokid under a stray poll: a chain that asks for its
\* restart ends, and gets none.
Watched ==
  running # {} /\ loki_daemon = "open" /\ ~shuttingDown
    => StrayPoll \/ \E c \in Chain : checks[c] # Off

\* A stall is noticed: lokid does not stay up, for ever without a new block,
\* with nobody restarting it; unless a stray poll holds the lock, when nobody
\* does, although daemon.js:1674 says so.
StallNoticed ==
  []<>(still < StuckTime \/ StrayPoll \/ shuttingDown \/ running = {})

\* After a shutdown no check stays armed or waits: neither keeps the launcher
\* from exiting (daemon.js:1648, lib.js:1293).
ChecksDrain == shuttingDown ~> [](\A c \in Chain : checks[c] = Off)

\* Node runs the timers and delivers the events.  lokid obeys.  A request that
\* hangs fails once the launcher shuts down (httpPost's watchdog).
HFairness ==
  /\ WF_allVars(Launch) /\ WF_allVars(Close) /\ WF_allVars(HTick)
  /\ WF_allVars(HAllDaemonsDown) /\ WF_allVars(Restarting /\ UNCHANGED checkVars)
  /\ WF_allVars(LokidObeys /\ UNCHANGED checkVars)
  /\ \A c \in Chain : /\ WF_allVars(Ask(c))
                      /\ WF_allVars(shuttingDown /\ AnswerError(c))

\* A stall can only be noticed if the RPC server of a stalled lokid answers
\* now and then.
LiveHSpec == HSpec /\ HFairness /\ \A c \in Chain : SF_allVars(AnswerHeight(c))
---------------------------------------------------------------------------
(* The inductive invariant behind Watched. *)

\* While a restart's lock is held nobody asks for a restart, and a chain that
\* would have to may end for nothing.  None does before the release: not as
\* long as the handle is fresh, for its first answer only records a height,
\* and then one chain is armed for longer than the lock is held.  Of a stray
\* poll nothing can be said.
Covered ==
  ~shuttingDown /\ running # {} /\ loki_daemon = "open" =>
    \/ StrayPoll
    \/ \E c \in Chain :
         /\ checks[c] # Off
         /\ \/ requests = {} \/ lastHeight = "none"
            \/ Armed(c) /\ \A r \in requests : r.left < checks[c]

HInv == IInv /\ HTypeOK /\ Covered
===========================================================================
