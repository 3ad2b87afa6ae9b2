# A verification project for oxen-rancher

oxen-rancher ("the launcher") is a Node program that starts, watches, restarts
and stops the three daemons of an Oxen service node: lokid (the blockchain),
the storage server, and lokinet (the network). This directory holds TLA+
models of its core, TLC configurations that check them and TLAPS proofs about
them. Line numbers are those of the repository's files.

1. Inventory
2. Modules and plan
3. From the code to the models
4. Runs, bounds and what they show
5. Fairness
6. Proofs
7. Mutants
8. What the code does not do
9. What is not modelled

## 1. Inventory

| part | source | state it keeps | operations | what makes it correct |
|---|---|---|---|---|
| lokid supervision | `daemon.js` 65-101, 1355-1634, 1696-1727, 1823-1868 | the handle `loki_daemon` and its killed flag, relaunch timers, `requestBlockchainRestartLock`, `config.blockchain.restart`, `exitRequested` | launch, 'close', relaunch, restart request, exit, shutdown | one lokid, always with a handle; a restart completes and leaves the settings alone; no launch after a shutdown |
| height watch | `daemon.js` 1634-1694 | a timer, a height and a counter on the handle | `getHeight` every 4 min over RPC | a lokid that runs is watched, a stall leads to a restart, nothing outlives a shutdown |
| storage server supervision | `daemon.js` 103-126, 253-718, `lib.js` 602-645 | the handle `storageServer`, two intervals per launch, the contact-failure window | launch, RPC test, 'close', relaunch, shutdown | a hung server is replaced, a server that ended is launched again, one server at a time |
| lokinet supervision | `lokinet.js` 1127-1607 | the handle `lokinet`, its own `shuttingDown`, `retries`, the kill monitor | start-up waits, launch, 'close', `stop` | launched again until stopped; SIGINT, 15 s, SIGKILL; stopped for good |
| shutdown | `daemon.js` 133-243 | `shuttingDown`, `shutDownTimer` | `shutdown_everything`, its 5 s interval | says "All daemons down." when they are, leaves nothing in the event loop |
| pids.json, launcher.pid | `lib.js` 308-461 | the two files | `savePids`, `clearPids`, `getPids`, `setStartupLock`, `areWeRunning` | the files name what runs |
| `stop` command | `index.js` 409-498, `lib.js` 907-1010 | none | SIGTERM to the launcher or to the daemons, watch the pids | ends, and says "Successfully shutdown." only when it is so |
| start-up | `start.js`, `daemon.js` 797-1132, `lokinet.js` 292-305 | the phase of each start | check, probe the RPC port, verify ports, fork, check again, lock, start | one launcher, one lokid, whatever an earlier launcher left behind |
| port verification | `daemon.js` 957-1132, `lib.networkTest.js` | one connection, its timer, `portTestCallback`, a timeout and an interval shared by all tests, `shutdownFinal` | connect to one of the testing servers, test each port, go on or exit | verified means that every port was tested and fine; the verification ends |
| start-up progress | `daemon.js` 797-955 | `startTime`, the poll timer, the child | fork, `areWeRunningYet`, `crashHandler` | the terminal gets one verdict, and a success is one |
| lokinet's ini | `lokinet.js` 1-783, 783-1123 | `params`, `done` and `genSnCallbackFired`, shared by six lookups | `generateINI`, `getPublicIPv4`, `getNetworkIP`, `findFreePort53`, `readResolv` | one ini, drafted from all lookups, with an address two services agree on |
| HTTP and RPC | `lib.js` 1270-1390, `lokinet.js` 20-290 | a request with a watchdog | `httpPost`, `httpGet` | one answer per request |
| status | `lib.js` 676-904, `modes/status.js` | a checklist, a need, a timer | `getLauncherStatus`, its three probes | whoever asks is told, by 5 s |
| framing | `lets_tcp.js` | `buf`, `haveEnough` per connection | `send`, `checkForData` | messages arrive whole, once, in order |
| console | `daemon.js` 1780-1948, `modes/client.js` | connections | lines to lokid's stdin, its output to all | - |
| configuration | `config.js`, `start.js` 42-163, `daemon.js` 1143-1330 | the config object | read ini, command line and loki.conf; defaults; `portChecks`; lokid's options | no two daemons on one port, all of them on one network, and lokid asked where it listens |
| other modes | `modes/*.js`, `web_api.js`, `uid.js`, `src/lib/*` | none | downloads, prequalification, permissions, systemd | - |

How they interact. All the supervision lives in one Node process: every timer,
child event, RPC answer, signal and keystroke is a callback that runs
atomically up to its next `await` or return, and may run between any two
others. The callbacks share module-level handles that one of them saves and
another replaces. `shutdown_everything` reaches into every component; a
component reaches it back (lokid's last 'close', a storage server that cannot
be started). Other processes (`stop`, `status`, a second `start`) see only
launcher.pid, pids.json, the process table and lokid's RPC port. Before any of
that, `config.js` settles the configuration that every component reads, and a
start verifies its ports with a testing server on the Internet.

What is hard: a child's death, the sight of it in the process table and its
'close' event are three moments; RPC answers come back after the child they are
about; timers that were armed before a shutdown or a restart run after it; a
setting is borrowed for the length of a restart; file writes wait for a callback
and overtake each other; launchers die and leave files, ports and daemons
behind. `PROJECT.json` lists each hazard at its line, with the properties
that cover it.

## 2. Modules and plan

| module | what it models | about it |
|---|---|---|
| `Daemon` | what the launcher promises of any daemon: at most one process, the handle's; no launch after a shutdown; "all down" only then | the abstract specification of the next three |
| `Blockchain` | supervision of lokid | implements `Daemon`; proofs in `BlockchainProofs` |
| `HeightCheck` | the getHeight chains | extends `Blockchain`: each of its steps is a step of `Blockchain` or leaves it alone; proofs in `BlockchainProofs` |
| `Storage` | supervision of the storage server | implements `Daemon`; proofs in `StorageProofs` |
| `Lokinet` | supervision of lokinet | implements `Daemon`; proofs in `LokinetProofs` |
| `LokinetIni` | the join of six lookups that drafts lokinet's ini | extends `Lokinet`: each of its steps is a step of `Lokinet` or leaves it alone; proofs in `LokinetIniProofs` |
| `Suite` | the three together: shared shutdown, pids.json, `stop`, a launcher that dies | each of them alone is a `Daemon`; proofs in `SuiteProofs` |
| `Startup` | overlapping starts after launchers that died | proofs in `StartupProofs` |
| `Framing` | messages over a TCP stream cut anywhere | used by `PortTest` |
| `LauncherStatus` | `getLauncherStatus`: what is looked up, asked, timed out and told | used by `StartWatch` |
| `StartWatch` | the fork of the background launcher, its crash, `areWeRunningYet` | extends `LauncherStatus`, used by `PortTest` |
| `PortTest` | the verification of a start, from the name lookup to the last port | extends `StartWatch` and `Framing`: the whole of a foreground start; proofs of all four in `PortTestProofs` |
| `Config` | from the user's settings to lokid's options | a check of the algorithm over all small inputs; proofs in `ConfigProofs` |

The three supervision modules are detailed, one daemon each. Their product is
far beyond TLC, and what they share is only the handle, the process, the
'close' and the shutdown, which is exactly the state of `Daemon`. So each
detailed module is shown to implement `Daemon` (checked by TLC and proved), and
`Suite` composes daemons at that level of detail. Where one part hands over to
another, the two are composed in full: the ini and the supervision of lokinet
(`LokinetIni`), and framing, port tests, fork and status (`PortTest`).

The order was: supervision and its abstract specification, pids.json and `stop`,
start-up; then the ini join, the verification and the verdict of a start, the
configuration. What could follow:

1. The contact-failure window of `daemon.js` 484-507, under `Blockchain` (section 8
   says what it does).
2. The console and the socket server.
3. `Suite` with the detailed supervision in place of `Daemon`, in a proof, since
   the product is out of TLC's reach.

## 3. From the code to the models

Common conventions. A handler is one action, up to its next `await`; the rest
of it is another. Definitions keep the code's names. A handle is `"null"`,
`"open"` or `"killed"` (its `killed` flag). The process of a daemon is apart from
its handle; `closing` says that the process is gone and the 'close' event is to
come. A timer is the number of ticks it has left; what the code does within a
second of its cause (a due timer, a 'close') is `Urgent` and comes before the
next tick, in any order among itself. Sentinels that are not times (`Off`,
`Asking`, `Polling`, `NoMonitor`) are numbers above the range of the timer.
Logging and wording are left out. The `map` of `PROJECT.json` gives the lines of
each definition.

**Blockchain** (tick: 15 s). `launchLokid` does not look at what runs: it
declines only when the launcher shuts down. `Spawn` has the outcomes of `spawn`: a
process; a handle without pid and a 'close'; an exception, which leaves the handle as
it was or, when descriptors run out, a handle without pid whose 'close' nobody
hears (`SpawnThrows`; `spawnThrew` is a history variable). The 'close' handler marks the handle of the moment, then relaunches in
30 s or, with restart off, begins the shutdown. `requestBlockchainRestart`
takes the lock, borrows `restart`, sends SIGINT, polls until lokid is gone, and
45 s later puts the setting back. It is called by the storage server's log
(`StorageContactFailures`) and by `getHeight` (`HeightStuck`). `relaunches` and
`requests` are sets of closures, since nothing in the code prevents several.
How long lokid takes to obey is unbounded.

**HeightCheck** (same tick). A chain of checks is a timer, or an answer awaited.
Chains are not tied to the lokid they were started for: they read the
module-level handle when they run, so the model keeps any number of them (up to
`MaxChains`), and only the timer stored in the handle can be cancelled. The
height itself is abstracted to how the stored height compares with lokid's now.
`still` is a history variable: for how long lokid has run without a block.
`StrayPoll` names the state in which a restart request polls the successor of the lokid
it was made for.

**Storage** (tick: 10 s). A launch makes a closure per process: `memoryWatcher`,
later `watchdog`, and at most one RPC test. The test asks the port, and its
result is acted upon in a later callback, even one after the 'close' of its
server (`TestSucceeds` with `proc[p] = "none"`: a watchdog that nothing will clear,
kept in `strays`). `shutdown_storage` sends SIGINT or, if the flag says it was
asked before, SIGKILL. Exit code 1 nulls the handle, and a 'close' that finds the
handle null throws halfway (`daemon.js` 574), after it cleared the intervals. A launch
that comes to nothing leaves a handle without pid (`SpawnFails`: the code returns
before it sets up anything) or throws (`SpawnThrows`); `spawnFailed` records it.

**Lokinet** (tick: 15 s). `startServiceNode` waits for the ini and for lokid's
RPC server, and then launches; every 'close' relaunches in 30 s. `stop` may be
called again: the fourth repeat makes the launcher exit. The monitor of `stop`
looks every second and sends SIGKILL after 15 s. `Spawn` has the four outcomes of
`spawn`: a process; a handle without pid and a 'close'; a throw with no earlier
handle, which is fatal; a throw with one, after which the code goes on with the
dead child.

**Suite** has no ticks: it is about orders. `hung` holds the daemons that do not react to
SIGINT or SIGTERM (`DaemonHangs`). pids.json is the set of daemons
whose present process it names; `writes` are the snapshots of saves that wait
for their `fs.access`; they land in any order, also after `clearPids`. `Stop` is
`stopLauncher`, `shutdownMonitor` the loop of `index.js` 416-437. `LauncherDies`
stands for a kill and for `process.exit`.

**Startup**. `pc[l]` follows one launcher: `idle`, `looking` (checked, the probe
of the RPC port is out), `verifying` (in the foreground, ports being verified by
an outside server), `forked`, `relooking` (the second check, in the background),
`locked` (launcher.pid written, asking for the public address), `up`, `stopping`,
`failing` (a start that called `shutdown_everything`). The foreground and its
detached child are one launcher. lokid's `ending` has the port and `flushing` no
longer has it, as lokid keeps writing its database after its RPC server is gone.

**LokinetIni** (tick of `Lokinet`). `generateINI` (783) starts the lookups; each
calls `markDone` with its result, which `params` shares, and the last one to be
missing drafts the ini, behind `genSnCallbackFired`. A lookup may report more
than once: `getNetworkIP` calls back on connection and again at its timeout
(`TimesOut`), which starts a second scan for a DNS address; a request aborted
after a stop calls back twice (`WatchdogAborts`). `getPublicIPv4` keeps the two
answers of every round in a closure of its own (`rounds`), and asks again when
they differ. `IniExits` and `preLaunchLokinet` are where `Lokinet` takes over. What the ini says
besides addresses, resolvers and the DNS address is left out.

**Framing**. A byte is the message it belongs to and its place in it, so that a
wrong cut is seen; `Data` delivers any piece of the stream, `AwaitData` and
`TakePacket` are the turns of `checkForData`.

**LauncherStatus**. `getLauncherStatus` looks up processes and the socket, asks
lokid and the storage server, and tells when nothing in `need` is left
(`checkDone`). `RpcTimesOut` is the timer that throws (section 8), after which `rpc` is
`"lost"`.

**StartWatch** (tick: 5 s). `doStart` forks or goes on itself; `areWeRunningYet`
asks for the status, and `judge` compares the checklist with the three limits.
`waited` is the time since `startTime`, as far as the last limit.

**PortTest** (tick: 5 s). A port is fine, closed or used by another program. A testing
server answers a request once, can be wrong about an open port, and may refuse,
connect late, close or never answer; it does not call a closed port good.
`handler` is the module-level `portTestCallback`, and `timer` and `sending` are
the timeout and the interval that all tests of a connection share. The
result of a TCP or incoming UDP test is told when the temporary server has closed
(`verdict`, `ServerClosed`). `shutdownFinal` is the latest client's, whichever
connection closes (`ServerDisconnects`).

**Config**. A user gives some settings (`given`), `Check` is `checkConfig` and
`Start` is `setupBlockchainForStart` and `configureLokid`; each function of `config.js`
is an operator from a configuration to the next one, in the order they are called.
`loki.conf` is read twice, from the directory of the network as it is known each
time. `Listens` is what lokid makes of the options it is given, `Running` all that
listens: the storage server too when it is disabled, since `startStorageServer` launches
it beside lokinet (`StorageLaunched`; it needs the path of a program). `Socket` is the path of lokid's
socket, as far as the network's directory goes; whether a storage server asks by port or by
socket is a matter of its version (`AsksAtPort`, `AsksAtSocket`).

## 4. Runs, bounds and what they show

| run | instance | shows |
|---|---|---|
| `blockchain` | 2 pids, relaunch 2 ticks, release 3, restart *not* configured | `LokidManaged`, `RestartRestored`, `RestartSurvivesClose`, `Relaunched`, `ShutdownDrains`, `ImplementsDaemon` |
| `height` | 2 pids, 2 chains, release 2, first check 3, period 3, limit 1, restart configured | `Watched`, `StallNoticed`, `ChecksDrain`, `Relaunched` |
| `storage` | 2 pids, test periods 1 and 4, relaunch 3 | `StorageManaged`, `AskedFirst`, `HungKilled`, `StorageRelaunched`, `ShutdownStops`, `ImplementsDaemon` |
| `storage_exit` | the same | `IntervalsCleared` is violated |
| `lokinet` | the ini join and the supervision: 1 address, 2 local resolvers, 2 DNS candidates, 1 disagreement; 2 pids, relaunch 1, kill 1, exit 2, 1 retry | `DraftComplete`, `AddressTold`, `IniSettles`, `LokinetManaged`, `GraceGiven`, `LokinetRelaunched`, `StopDrains`, `ImplementsDaemon` |
| `suite` | three daemons, 2 waiting saves | `EachIsDaemon`, `LokinetListed`, `StopEnds` |
| `suite_stop` | the same | `StopTruthful` is violated |
| `startup` | 2 launchers, 3 lokid and 2 lokinet pids, 2 deaths | `OneLauncher`, `OneLokid`, `NeverStuck` |
| `startup_adopt` | 1 launcher, 2 lokid pids, 1 lokinet pid, 1 death | `Adopts` is violated |
| `start_daemon` | 2 testing servers, 2 TCP and 2 UDP ports, connect 1 tick, test 2, send 1, limits 1, 2 and 3, 7 bytes under way | types, `FramesIntact`, `StartVerified`, `NoStaleTimer`, `SuccessTruthful`, `VerificationEnds`, `ParentVerdict` |
| `status_late` | 1 server, 1 port | `StatusAnswers` is violated |
| `config` | any 4 settings, ini ports 0, 7000 and 38157, lokid 3, 5, 7, 8 and 9, storage 2.1 at the default path and 1.x, 2.0 or 2.1 elsewhere | `NoClash`, `SuiteAgrees`, `DefaultsAccepted` |

Why these bounds are enough. *Pids*: two are one more than may ever exist at a
time, so a second daemon would show; a pid can be given again once its process
ended. *Delays*: they keep the order of the real ones (relaunch before release in
`Blockchain`: 30 s and 45 s; kill monitor before the exit limit; the test of a
starting server more often than that of a running one), and only that order
can matter to handlers that compare nothing but zero. The delays of
`Blockchain`, `Storage` and `Lokinet` are arbitrary in the proofs. *Chains* in
`HeightCheck`: two, so that an old chain meets the present one; a launch that finds
both taken starts none, which makes `Watched` harder to satisfy; the lock of a restart is released before
the first check of a lokid that was launched under it (`ReleaseAssumption`: 45 s
at `daemon.js` 1727 and 60 s at 1691), on which `Watched` rests. *StuckLimit* 1
for the code's 10: the counter has to be counted up, reset and shared by two
chains, for which one is enough. *Writes*: two waiting saves can overtake
each other. *Launchers*: two can overlap, and a third adds only a further copy of
one of them (the properties of `startup` were also checked with three launchers
and three deaths). *Deaths* in `Startup`: the second one kills a launcher that
already found what the first left. *LokinetIni*: an address and "" (no
answer) can agree and disagree, one disagreement brings a second round, whose
answers must not mix with the first's, and two make it give up; with two
resolvers one is not the last, with two candidates a scan goes on. The join is proved
for any number of each. *PortTest*: with two servers one can be
late while the other is used, two TCP ports make one test follow another of its kind,
and the delays keep their order (a connection takes longer than a test in the code,
but the timers never run at the same time); *7 bytes* hold two messages,
one behind the other. *Config*: four settings are enough for two ports to meet on
a network named in two places; 7000 meets itself, and 38157 is a default of one
network only. Port 0 stands for the '0' of the ini. No constraint and no
symmetry is used.

Deadlock is checked except where the system may really stop: `LokinetIni` after
`process.exit`, `Suite` and `Startup` when nobody starts, stops or runs anything,
`PortTest` after an exit and where a start waits for ever (section 8), `Config` when the
suite is launched or refused.
`Blockchain`, `HeightCheck` and `Storage` go on ticking.

Two properties in one line each, since they carry most of the argument:
`RestartSurvivesClose` is why the lock of a restart has to be held until 45 s after
lokid is *seen* down, not after it is asked; `LokidManaged` is what the comment
at `daemon.js` 1369 fears, a second lokid or one without a handle, and holds only
because closing, due and running exclude each other.

## 5. Fairness

Weak fairness is assumed of what Node does by itself: it runs timers, delivers
'close' events and RPC outcomes, polls, and lets time pass. Of the daemons:
lokid obeys SIGINT and "exit" some time later (`LokidObeys`); a storage server that
is not hung obeys SIGINT and any server obeys SIGKILL (`ServerObeys`); lokinet is
only assumed to obey SIGKILL. In `Suite` a
daemon that was signalled ends unless it hangs, a lokinet that hangs is killed by a
launcher that lives (`LokinetKilled`), and nothing is assumed of a storage server that
hangs, which is not always killed (`Storage`); `StopEnds` says what a stop then waits
for. Nothing makes users, signals, crashes or deaths
happen. The places that need more:

* `LiveHSpec` adds strong fairness of `AnswerHeight`: a lokid that does not
  move on must still answer RPC now and then for `StallNoticed`. Without it the
  property fails, since an unanswered request is awaited for ever (section 8). A
  request that hangs is assumed to fail once the launcher shuts down
  (`lib.js` 1293).
* `Startup` assumes, for `NeverStuck`, a user who tries again (weak fairness of
  some check) and whose ports are open and address found if it is tried again and
  again (strong fairness of `Verified` and `GotPublicIP`, each of which may
  fail any number of times before).
* `TestSucceeds` and `TestFails` of `Storage` are one fair disjunction: a test ends
  (`lib.js` 602-645 has a 5 s limit), in no particular way.
* `LiveIniSpec` adds `LookupsAnswer`: each question of the join is answered, in no
  particular way. `httpGet` has no timeout that ends a request (section 8), so
  that without it `IniSettles` fails.
* `LiveSpec` of `PortTest` is fair only to what Node itself does (timers, polls, messages
  that have arrived): no server and no daemon has to answer. This is why
  `VerificationEnds` and `ParentVerdict` say what a start may wait for.

`Config` has no liveness.

## 6. Proofs

TLAPS checks, for every value of the constants that satisfies the modules'
assumptions (named `...Assumption` and evaluated by TLC in every run):

| module | theorems |
|---|---|
| `BlockchainProofs` | `TypeCorrect`, `Managed` (`LokidManaged`), `Restored` (`RestartRestored`), `SurvivesClose` (`RestartSurvivesClose`), `Down` (`DownMeansDown`), `NoLaunch` (`NoLaunchAfterShutdown`), `Refinement` (`ImplementsDaemon`); of `HeightCheck`: `HeightImplements` (every behaviour is one of `Blockchain`), `HeightTypeCorrect`, `WatchHolds` (`Watched`) |
| `StorageProofs` | `TypeCorrect`, `Managed` (`StorageManaged`), `Asked` (`AskedFirst`), `Refinement` |
| `LokinetProofs` | `TypeCorrect`, `Managed` (`LokinetManaged`), `Grace` (`GraceGiven`), `Refinement` |
| `LokinetIniProofs` | `IniImplements` (every behaviour is one of `Lokinet`), `IniManaged`, `IniRefinement` (`ImplementsDaemon`), `Complete` (`DraftComplete`), `Agreed` (`AddressTold`) |
| `SuiteProofs` | `TypeCorrect`, `Down` (`DownMeansDown`), `Composition` (`EachIsDaemon`) |
| `PortTestProofs` | `PortTypeCorrect` (`TypeOK`), `Intact` (`FramesIntact`), `Verified` (`StartVerified`), `TimersEnd` (`NoStaleTimer`), `Truthful` (`SuccessTruthful`) |
| `StartupProofs` | `TypeCorrect`, `SingleLauncher` (`OneLauncher`), `SingleLokid` (`OneLokid`) |
| `ConfigProofs` | `NoClashHolds` (`NoClash`), `SuiteAgreesHolds` (`SuiteAgrees`), `DefaultsAcceptedHolds` (`DefaultsAccepted`) |

They hold for any set of pids, any delays and periods, restart configured or
not, any number of chains of height checks, of saves that wait, of launchers and
deaths, any set of testing servers and number of TCP ports, any limits of the
progress check, any set of addresses, resolvers and candidates, any number of
disagreements, and any ports, versions and number of settings. The types other
than `PortTest`'s, `DownMeansDown` and `NoLaunchAfterShutdown` are only proved: no
run lists them. (The last is a part of `ImplementsDaemon`.)

The argument of the three supervision modules is the same. None of the safety
properties is inductive: nothing in `launchLokid` looks at what is running, so a
step from an arbitrary state could make a second lokid. The strengthening,
`OneLifeCycle`, says that a daemon is in exactly one of these conditions:
awaited (its first launch is still to come), alive, closing, or due to be
relaunched; and that of each kind there is one. Every action moves it along
that cycle: the first launch and the relaunch consume what is due, the end of
the process consumes the live one, and only the one 'close' makes a relaunch due.
To it each module adds:

* `Blockchain`: `OneRequest`, that the lock belongs to one closure, which remembers
  the configured value, and that this closure still polls while the lokid it
  stopped lives (hence the two restart properties); `ShutdownOrder` (hence `Down`).
* `Storage`: `FlagMeansAsked`, that a live server whose handle is flagged was sent a
  signal. It is what the code's escalation relies on although others write
  the flag; with it, `AskedFirst` follows step by step.
* `Lokinet`: `GraceGiven` itself, inductive once the only lokinet is known to be the
  handle's; `LastStop`, for the bound of `retries`.

`Refinement` maps each step to one of `Daemon` or to a stutter under the mapping in
the module (`up` is "some process lives", `closing` "some 'close' is to come", `allDown`
is the cleared timer). It uses the invariant where the code does not look:
a launch is `Daemon`'s only because nothing lives or closes, and the shutdown may
report "all down" only because what it looks at, the handle's pid, is all there is.

`HeightCheck` inherits as `LokinetIni` does below: its steps are steps of
`Blockchain` (`HeightImplements`), so that `IInv` holds with the watch. `Watched` is
not inductive even then. A check that finds the stall long enough asks for
a restart and arms no other; if the lock was held, nobody would watch that lokid
any more. This happens, to a lokid under a stray poll: a request made in the last second before
the relaunch finds the new lokid running and holds the lock for its whole life.
`Watched` and `StallNoticed` except that state (`StrayPoll`), and without the
exception TLC refutes both. `Covered` says why it does not happen otherwise: while a request
waits for its 45 s, either the handle is fresh, whose first answer only records a height, or
some chain is armed for longer than every lock is held. Both rest on
`ReleaseAssumption`; with a lock held for longer than the first check waits, TLC finds
a lokid that is not watched.

`Suite`: here the shared part of the state is what is delicate. `SInv` says of it what
each action takes for granted: a child does not live and close at once
(`OneEnd`), a daemon whose handle was nulled before the shutdown is gone (`Dropped`), the
one shutdown has flagged every handle (`AllFlagged`), the timer is that of the
shutdown (`TimerOfShutdown`), and it reports what is so (`DownMeansDown`). With it,
`DaemonStep` maps each step of the suite, for each daemon separately, to a step of
`Daemon` or a stutter. A shutdown is one action in the suite and, seen by
the daemons, different ones: lokid's last 'close' is `Close` for lokid and
`Shutdown` for the others, a storage server that fails to start is `Launch` for it.

`PortTest` is proved with the modules it extends, by one invariant, `PInv`:

* `FInv` for `FramesIntact`: what is under way, in the buffer and on the wire, is
  a row of frames (`FrameOrder`) of which the first may have lost its header. All
  the proof needs of the cutting of the stream is that the bytes not yet read are
  the end of what was sent. `FramesIntact` alone says nothing of the second frame.
* `WatchInv` for `SuccessTruthful`: a part that was seen is asked, and as long as
  an answer is out nobody has been told.
* `OutsideTests` and `ReportsOwed` for `StartVerified` and `NoStaleTimer`: what the
  server has to report is about the test under way. A TCP test is owed one report,
  and has at most one under way; an incoming UDP test is reported by the packet
  itself; the outgoing one, which may be reported several times, is the last, so
  that no later test can take its report for its own. Without that order
  `StartVerified` would not hold, since a report does not say what it is about
  (`lib.networkTest.js` 167-178).

`Startup`: `OneActive` (only one launcher is between its check and its end, because
a check is not overlapped, `Settled`) gives `OneLauncher`. `OneLokid` needs
`Findable` (a lokid nobody told to end is named by pids.json or has the port: that is
what a start can see) and `StillTrue` (what a start found when it looked is
still so when it acts on it).

`LokinetIni` inherits: a step of the join is a step of `Lokinet` or none
(`IniImplements`), so what is proved of `Lokinet` holds of it. For its own two
properties the invariant is `JoinInv`: no more resolvers are out than `checksLeft`
counts (`Asked`), so the last to report leaves none; the rounds after the current one
have not begun (`Rounds`), so that a new round overwrites no answer on which
`params` rests; and what a lookup reported is in `params` (`Results`).

`Config` computes everything from `given`, so `CInv` says just that: what the checks
found and what was launched are the values of the operators, and the settings are
well-formed. The work is in the operators. A lemma for each step of the
configuration says what it does to each field (`SetNetworkFields` to `LaunchedFields`).
`NetFlow` follows the network through both readings of loki.conf: lokid is told
the network the launcher believes in, and the second reading finds a file the first
did not only if it ends on that file's network, the case `SameConf` leaves out. With
it, `LaunchedPorts` shows that the second reading changes no port, and
`ListensThere` that an option left out because it repeats a default is restored by
lokid to the same value. What runs is then part of what was checked
(`RunningConfigured`), and `Conflicts` was empty; but for a storage server that is
disabled and launched, which was not checked and which `NoClash` excepts. For the
socket, `NetFlow` also says that the network of the check and that of lokid have one
directory.

Only model-checked: liveness, which is out of the prover's reach, with
`ENABLED`. Every safety invariant, action property and refinement that a passing run
checks is also proved.

## 7. Mutants

A definition whose name is another's with an underscore and a word after it is `X` with a plausible bug in it: a dropped guard
(`AllDaemonsDown_Unchecked`, `launchLokid_Always`, `requestBlockchainRestart_NoLock`, `PollSeesDown_Blind`,
`ConnectTimesOut_Unchecked`, `startTest_Trusting`), a missing effect (`OnClose_Forgets`, `OnClose_NoRelaunch`,
`AnswerError_Ends`, `PidwatcherFires_Never`, `AwaitData_Forgets`, `PacketArrives_KeepsTimer`,
`TestTimesOut_Silent`), a wrong value (`ResolverAnswers_OffByOne`, `areWeRunningYet_Restarts`,
`DefaultQun_Storage`, `CheckBlockchainConfig_KeepsZero`), something done twice or at once (`LokidAnswers_Twice`,
`TestFails_Relaunches`, `shutdown_storage_Hard`, `stop_Impatient`), a check that looks
at half of what it should (`Probed_PortOnly`, `areWeRunning_FileOnly`, `Check_Once`,
`AllDaemonsDown_LokidOnly`, `CallsBack_First`, `checkDone_AnyTask`, `Conflicts_OwnClass`). No specification uses them. Each property of
a passing run is violated when the mutant `PROJECT.json` names takes the place of the
definition.

## 8. What the code does not do

Found by a run, each with the line it contradicts (`findings` in `PROJECT.json`):

* The reply to a storage RPC test that is delivered after 'close' starts a
  watchdog that nothing clears: it kills later servers that are still starting, and
  the launcher never exits (`daemon.js` 551).
* `stop` can say "Successfully shutdown." while lokid is still flushing its database:
  a save during the shutdown leaves killed handles out of pids.json (`lib.js` 423).
* A start that finds a running lokid in pids.json shuts down: the test is of
  `pids.loki`, the field is `lokid` (`start.js` 461). The recovery mode behind it is
  unreachable, and calls `waitForLokiKey` of `daemon.js` without importing it
  (539, 587).
* The 5 s timer of `getLauncherStatus` claims lokid's answer and then throws, since
  the promise of `httpPost` has no `ref`: who asked is never told (`lib.js` 765;
  "won't take longer than 5s", 676).

Met while modelling. The models have these behaviours, and where a property
excepts one, its comment says so; no run states them:

* A `spawn` of lokid that throws, in a relaunch or a first launch, is the last:
  `launchLokid` (`daemon.js` 1381, 1388, 1416) has no `try`, the exception goes to the log
  (24), no 'close' comes and no timer is set (1609 "configured to be restarted. Will
  do so in 30s."). `Relaunched` excepts it.
* A restart request made in the last second before a pending relaunch polls the
  *new* lokid and holds the lock, with `restart` borrowed, for that lokid's whole life. If
  that lokid stalls, its check asks in vain for a restart and arms no other
  (`daemon.js` 1712; 1674 "detected stuck blockchain, restarting"). `Watched` and `StallNoticed` except it (`StrayPoll`).
* A relaunch of the storage server whose spawn throws or returns no process is the last one
  (`daemon.js` 325-331; 590 says that a crashed one needs to be restarted).
  `StorageRelaunched` excepts it.
* `exit` typed in the 30 s before a relaunch does not stop it: the timer looks at
  neither `restart` nor `exitRequested` (`daemon.js` 1611; "force restart off", 865).
* A getHeight chain that awaits its answer while lokid closes survives into the next
  lokid, so that two chains count the same stall: the "40 mins of being stuck"
  (`daemon.js` 1671) can be 20.
* `httpPost` sets a timeout and no handler for it, and so does `httpGet`: a height
  request that lokid never answers ends the watch on that lokid.
* A storage server that hangs before it first answered has no watchdog, so nothing
  replaces it; it also holds up a shutdown, unless that is asked for twice, and a
  `stop`, which then waits for ever. So does a lokinet that obeys only SIGKILL, if the
  launcher that would send it is dead (`Unstoppable`).
* A `spawn` that throws during a relaunch of lokinet leaves the launcher with the
  dead child's handle, and nothing pending (`lokinet.js` 1209).
* The 30 s branch of lokinet's monitor is unreachable (`lokinet.js` 1566, after 1557).
* `process.exit` after the fourth `stop` leaves lokid and the storage server running;
  so does a relaunch of lokinet that finds its ini gone (`lokinet.js` 1184).
* pids.json can be written again after `clearPids`, by a save that waits for its
  `fs.access` or by lokinet's `onStop`.
* Two services that both answer nothing agree, so that the ini tells routers an
  empty public address (`lokinet.js` 243, 256; "trust more than one source", 210).
* When `getNetworkIP` fails, `generateINI`'s callback reads a `done` that is not in its
  scope and throws, so that no ini is ever drafted (`lokinet.js` 652). With
  `network.profiling` alone configured, the ini of lokinet 0.8 throws too (738).
* `rpcCheck` takes a 404 or 403 for a free port, and does not try the next
  port it settles on.
* Without a callback, `getPublicIPv4` (`lib.js` 1418) never resolves after one
  disagreement: the retry drops the promise (`lokinet.js` 265).
* If the testing host's name does not resolve, `tryAndConnect` throws, and the start
  neither launches nor exits (`daemon.js` 966; `ResolveFails`).
* A used TCP port whose report is lost, and a used outgoing UDP port, are waited for
  without end (`Waits` in `PortTest`).
* A connection that was given up, opens late and then closes can end a launcher that
  has started: `netWrap.disconnect` is the latest client's (`lib.networkTest.js` 206).
* A frame of length zero stalls the connection: `haveEnough` 0 also means that no
  header was read (`lets_tcp.js` 202).
* `areWeRunningYet` counts what was not asked as fine (`networkIsFine` and `socketWorks`
  undefined), and asks nothing more once lokid's RPC answer was lost.

In the configuration, excepted by the properties of `Config` (`SameConf`, the network
"demo", the disabled storage server of `NoClash`, the test networks of `SocketAgrees`), or
outside its inputs:

* With lokinet enabled and storage disabled, the storage server is launched anyway
  (`daemon.js` 686) if the path of its program is known, on a port that `portChecks` left
  out (`config.js` 833; 892 "please make sure they are all unique values"). It is given
  neither `--testnet` nor lokid's RPC port (709), and lokid
  `--storage-server-port undefined` (`daemon.js` 1251). Without that path the launch throws.
* On a test network `oxend_rpc_socket` is a socket of the data directory (`config.js` 743),
  while lokid's is below the directory of the network, where lokinet is told to ask (628).
* With only `launcher.network` set, the checks read mainnet's loki.conf, whose
  ports are kept, and `start.js` 55 reads that of the network: its ports were
  checked for conflicts by nobody, and the storage server is told another RPC port.
* lokid has no network "demo" and gets `--testnet`, but the launcher's table of defaults gives
  demo ports of its own (38160, 38159), takes them for lokid's defaults and leaves
  them out: it asks 38160 while lokid listens on 38157 (`config.js` 549, 615;
  `start.js` 60).
* With both `launcher.network` and `blockchain.network` set, the latter is not
  normalized: "testnet" then means mainnet (`config.js` 117-123).
* The name of lokid's socket is `oxend.sock` for version 9 alone (`config.js` 387, 629): a
  lokid 10 is looked for at `lokid.sock`.
* The port 0 on the command line or in loki.conf is read again after the check and stays
  0 in the launcher's configuration.
* `network.public_port` is 1090 on testnets, since it is set before `network.testnet` is
  (`config.js` 660); the web API's port is not among those checked; `isPortUsed` reads a
  `config` it does not have.
* `start.js` 208 tests the functions `isBlockchainBinary3X` and `...4Xor5X`, not their
  results, so that lokinet's `checkConfig` is never called there.

Not modelled, but read:

* The contact-failure list drops its five newest times where it means to drop the
  oldest (`splice(-5)`, `daemon.js` 488): the first failure ever reported stays in
  it, and 15 minutes after that one no number of failures requests a restart (496 "5 in
  15 mins").

Left outside the models by an assumption that is stated there (`Settled` in
`Startup`: starts overlap while ports are verified, not within milliseconds, and a user
waits for a `stop` to finish):

* Two `daemon-start`s within milliseconds can both find no launcher, and
  interactive starts check only once.
* A launcher that is still stopping removes the pids.json of the next one.
* A failed start removes the pids.json that named the daemons an earlier
  launcher left; later starts no longer find a stray lokinet.
* With lokinet disabled, an orphaned storage server makes a start end without a
  word (`start.js` 451, 475).

## 9. What is not modelled

* The contact-failure window (`Blockchain` has its outcome as an action that may
  happen at any time, so that what it would do is among what is checked).
* The text of lokinet's ini, `generateClientINI` and `startClient`, which no start of the
  suite calls; of `httpGet` and `httpPost` all but the outcome; the bandwidth tests.
* Of the servers this host runs for a port test (`serveTCP`, `serveUDP`;
  `lib.networkTest.js` 345, 395), frames that peers send them. They reach the handler
  of the testing server's messages (`lets_tcp.js` 325-327, 371), which does not
  ask where a report came from: `StartVerified` takes it that only the testing server
  reports. And `cantbind` (`lib.networkTest.js` 410), which a public port that is not a number
  gives at once (`lets_tcp.js` 483): a result other than good, like a timeout.
* Of the configuration, the ZMQ port, addresses given on the command line, the parsing of
  the ini and of arguments, and paths and directories other than the network's
  directory of lokid's sockets and the path of the storage server's program. The ports lokid takes
  when its loki.conf and its command line disagree: both say the same in `Config`.
* The console and the socket server: they carry lines to lokid's stdin; of what
  they do only `exit` changes the launcher's state. Interactive and cimode starts.
* Configurations without lokinet or without a storage server in `Startup`; a
  configuration is fixed while the launcher runs, and `Suite` takes the set of
  daemons as a constant.
* The one-shot modes, the web API, users and permissions, systemd: no state
  that outlives a call and no interaction with the launcher.
* Of the environment: pids that the operating system gives to unrelated
  programs, a foreign server on lokid's or the storage server's port, and
  failures of the file system. A 'close' is taken to be delivered
  within a tick of the death; memory and descriptors are taken to suffice except for the
  `spawn` of a daemon, whose failures (an 'error', a throw) are all in the models.
