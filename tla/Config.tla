------------------------------- MODULE Config -------------------------------
(***************************************************************************)
(* From what the user wrote to what is launched: the configuration of      *)
(* config.js, completed by start.js and turned into lokid's command line   *)
(* by daemon.js.  A user sets up to MaxSet of the Settings, in the ini     *)
(* file, on the command line ("--...") or in a loki.conf ("conf...."), and *)
(* the launcher then works out every port and network, refuses a           *)
(* configuration whose ports conflict, and launches.                       *)
(*                                                                         *)
(* An undefined value is None; port 0 is the string '0' of the ini file.   *)
(* Every option of one name has the same value on the command line and in  *)
(* loki.conf: which of the two lokid prefers is not known here.  The ZMQ   *)
(* port, which has no default, is handled like the others and left out,    *)
(* and so are addresses on the command line, the user's own directories,   *)
(* the paths of keys and of programs, except that the one to the storage   *)
(* server may be given or not, and the length of lokinet's interface name. *)
(*                                                                         *)
(* A name with an underscore is the definition it begins with, changed by  *)
(* a plausible bug; the properties are tried against it.                   *)
(***************************************************************************)
EXTENDS Naturals, FiniteSets

CONSTANTS
  None,       \* not set
  IniPorts,   \* the values a port has in the ini file
  OptionPort, \* the value a port has on the command line or in loki.conf
  PublicIp,   \* an address of this machine other than 127.0.0.1
  Versions,   \* the major versions of lokid; 8 is 8.1.3 or later of 8
  InstalledStorage, \* the version of the storage server at the default path
  MaxSet      \* bound: how many settings a user gives

ASSUME PortAssumption == IniPorts \subseteq Nat /\ OptionPort \in Nat \ {0}
ASSUME VersionAssumption == Versions \subseteq Nat \ {0} /\ MaxSet \in Nat
ASSUME StorageAssumption == InstalledStorage \in {10, 20, 21}
ASSUME NoneAssumption ==
  /\ None \notin Nat
  /\ None \notin {"main", "test", "testnet", "demo", "staging", "stagenet"}

VARIABLES
  given,  \* what the user set: a function on some of the Settings
  stage,  \* "written", "checked", "refused" or "launched"
  config, \* the launcher's config
  lokid   \* the options lokid was launched with

vars == <<given, stage, config, lokid>>

-----------------------------------------------------------------------------
(* The user's files and command line.                                      *)

Local == "127.0.0.1"
Any == "0.0.0.0"

PortSettings ==
  {"rpc_port", "p2p_port", "qun_port", "network.rpc_port", "storage.port",
   "storage.lmq_port"}
OptionPorts ==
  {"--rpc", "--p2p", "--qun", "conf.rpc", "conf.p2p", "conf.qun"}
Settings ==
  PortSettings \cup OptionPorts
    \cup {"launcher.network", "blockchain.network", "--net", "conf.net",
          "conf.dir", "rpc_ip", "p2p_ip", "network.enabled",
          "storage.enabled", "storage.binary_path", "version"}

(* Of the storage server: 1.x, 2.0, and 2.1 or later.                       *)
StorageVersions == {10, 20, 21}

Values(setting) ==
  CASE setting \in PortSettings -> IniPorts
    [] setting \in OptionPorts -> {OptionPort}
    [] setting \in {"launcher.network", "blockchain.network"}
         -> {"test", "testnet", "demo", "staging"}
    [] setting = "--net" -> {"testnet", "stagenet"}
    [] setting = "conf.net" -> {"testnet"}
    [] setting = "conf.dir" -> {"testnet"}
    [] setting \in {"rpc_ip", "p2p_ip"} -> {Any, PublicIp}
    [] setting = "version" -> Versions
    [] setting = "storage.binary_path" -> StorageVersions
    [] OTHER -> BOOLEAN

Get(setting) == IF setting \in DOMAIN given THEN given[setting] ELSE None

Or(value, default) == IF value = None THEN default ELSE value

FromDisk ==
  [launcherNet |-> Get("launcher.network"), net |-> Get("blockchain.network"),
   rpc |-> Get("rpc_port"), p2p |-> Get("p2p_port"), qun |-> Get("qun_port"),
   rpcIp |-> Get("rpc_ip"), p2pIp |-> Get("p2p_ip"), qunIp |-> None,
   lokinet |-> Get("network.enabled"), lokinetTestnet |-> None,
   lokinetRpc |-> Get("network.rpc_port"),
   storage |-> Get("storage.enabled"), storageTestnet |-> None,
   storagePort |-> Get("storage.port"), lmqPort |-> Get("storage.lmq_port"),
   storageBinary |-> Get("storage.binary_path"),
   storageRpc |-> None, storageSocket |-> None, zmqSocket |-> None]

(* The major version of lokid's binary: 0 when it cannot be asked.          *)
Version == Or(Get("version"), 0)

-----------------------------------------------------------------------------
(* Networks, and the options lokid and the launcher both read.              *)

Normalize(ask) ==
  CASE ask \in {"test", "testnet"} -> "test"
    [] ask = "demo" -> "demo"
    [] ask = "staging" -> "staging"
    [] OTHER -> "main"

DirOf(net) ==
  CASE net = "staging" -> "stagenet"
    [] net \in {"demo", "test"} -> "testnet"
    [] OTHER -> "main"

CliOptions == [net |-> Get("--net"), rpc |-> Get("--rpc"),
               p2p |-> Get("--p2p"), qun |-> Get("--qun")]

(* There is one loki.conf, in the directory of mainnet or of testnet.       *)
ConfDir == Or(Get("conf.dir"), "main")

ConfOptions(dir) ==
  IF dir = ConfDir
  THEN [net |-> Get("conf.net"), rpc |-> Get("conf.rpc"),
        p2p |-> Get("conf.p2p"), qun |-> Get("conf.qun")]
  ELSE [k \in {"net", "rpc", "p2p", "qun"} |-> None]

SetNetwork(c, options) ==
  CASE options.net = "stagenet" -> [c EXCEPT !.net = "staging"]
    [] options.net = "testnet" -> [c EXCEPT !.net = "test"]
    [] OTHER -> c

(* loki.conf overrides the command line, and both override the ini.  It is  *)
(* the loki.conf of the network as it is known at this point.               *)
ReadOptions(c) ==
  LET fromCli == SetNetwork(c, CliOptions)
      file == ConfOptions(DirOf(fromCli.net))
      options == [k \in DOMAIN file |-> Or(file[k], CliOptions[k])]
  IN  [SetNetwork(fromCli, options) EXCEPT !.rpc = Or(options.rpc, @),
                                           !.p2p = Or(options.p2p, @),
                                           !.qun = Or(options.qun, @)]

ConfigureNetworks(c) ==
  IF c.launcherNet # None
  THEN LET net == Normalize(c.launcherNet)
       IN  [c EXCEPT !.launcherNet = net, !.net = Or(@, net)]
  ELSE IF c.net # None
       THEN LET net == Normalize(c.net)
            IN  [c EXCEPT !.launcherNet = net, !.net = net]
       ELSE c

PrecheckConfig(c) == ConfigureNetworks(ReadOptions(c))

-----------------------------------------------------------------------------
(* Defaults.                                                                *)

DefaultRpc(net) == CASE net = "test" -> 38157
                     [] net = "demo" -> 38160
                     [] net = "staging" -> 38057
                     [] OTHER -> 22023

DefaultP2p(net) == CASE net = "test" -> 38156
                     [] net = "demo" -> 38159
                     [] net = "staging" -> 38056
                     [] OTHER -> 22022

DefaultQun_Storage(net) == CASE net = "test" -> 38155
                             [] net = "staging" -> 38059
                             [] OTHER -> 22025

DefaultQun(net) == CASE net = "test" -> 38159
                     [] net = "staging" -> 38059
                     [] OTHER -> 22025

Fill(port, default) == IF port \in {None, 0} THEN default ELSE port

(* lokinet is off by default beside lokid 3 to 5, storage beside lokid 3.   *)
CheckLauncherConfig(c) ==
  [c EXCEPT !.lokinet = Or(@, Version \notin {3, 4, 5}),
            !.storage = Or(@, Version # 3)]

(* A socket in the data directory, or in that of the network below it.      *)
Socket(dir, name) == [dir |-> dir, name |-> name]

LokidSocket(net) ==
  Socket(DirOf(net), IF Version = 9 THEN "oxend.sock" ELSE "lokid.sock")

CheckBlockchainConfig_KeepsZero(c) ==
  LET net == Or(c.net, "main")
  IN  [c EXCEPT !.net = net,
                !.rpc = Or(@, DefaultRpc(net)),
                !.qun = Fill(@, DefaultQun(net)),
                !.zmqSocket = LokidSocket(net),
                !.rpcIp = Or(@, Local)]

CheckBlockchainConfig(c) ==
  LET net == Or(c.net, "main")
  IN  [c EXCEPT !.net = net,
                !.rpc = Fill(@, DefaultRpc(net)),
                !.qun = Fill(@, DefaultQun(net)),
                !.zmqSocket = LokidSocket(net),
                !.rpcIp = Or(@, Local)]

IsTestnet(c) == c.net \in {"test", "demo"}

CheckNetworkConfig(c) ==
  IF c.lokinet
  THEN [c EXCEPT !.lokinetTestnet = IsTestnet(c), !.lokinetRpc = Or(@, 1190)]
  ELSE c

CheckStorageConfig(c) ==
  IF c.storage
  THEN [c EXCEPT
          !.storageTestnet = IsTestnet(c),
          !.storagePort = Or(@, IF IsTestnet(c) THEN 38155 ELSE 22021),
          !.lmqPort = Or(@, IF IsTestnet(c) THEN 38154 ELSE 22020),
          !.storageBinary = Or(@, InstalledStorage),
          !.storageRpc = c.rpc,
          !.storageSocket = Socket("main", "oxend.sock")]
  ELSE c

PrequalPorts(c) ==
  LET p2pIp == Or(c.p2pIp, Any)
  IN  [c EXCEPT !.p2p = Fill(@, DefaultP2p(c.net)),
                !.p2pIp = p2pIp, !.qunIp = p2pIp]

CheckedConfig ==
  PrequalPorts(CheckStorageConfig(CheckNetworkConfig(CheckBlockchainConfig(
    CheckLauncherConfig(PrecheckConfig(FromDisk))))))

-----------------------------------------------------------------------------
(* portChecks.                                                              *)

Listener(type, ip, port) == [type |-> type, ip |-> ip, port |-> port]

Configured(c) ==
  {Listener("p2p", c.p2pIp, c.p2p), Listener("rpc", c.rpcIp, c.rpc),
   Listener("qun", c.qunIp, c.qun)}
    \cup (IF c.lokinet THEN {Listener("lokinet", Local, c.lokinetRpc)} ELSE {})
    \cup (IF c.storage THEN {Listener("storage", Any, c.storagePort),
                             Listener("lmq", Any, c.lmqPort)}
                       ELSE {})

Conflicts_OwnClass(c) ==
  {l \in Configured(c) :
     \E t \in Configured(c) :
       t.ip = l.ip /\ t.port = l.port /\ t.type # l.type}

(* A listener conflicts with those of its own class, and with those on all  *)
(* addresses; on all addresses, with every class.                           *)
Conflicts(c) ==
  LET class(l) == CASE l.ip = Local -> "localhosts"
                    [] l.ip = Any -> "alls"
                    [] OTHER -> "ips"
      against(l) == IF class(l) = "alls" THEN {"localhosts", "ips", "alls"}
                                         ELSE {class(l), "alls"}
  IN  {l \in Configured(c) :
         \E t \in Configured(c) : /\ class(t) \in against(l)
                                  /\ t.port = l.port /\ t.type # l.type}

-----------------------------------------------------------------------------
(* The launch.                                                              *)

(* start.js reads loki.conf again, the one of the network known by now.     *)
SetupBlockchainForStart(c) ==
  LET again == ReadOptions(c)
  IN  [again EXCEPT !.p2p = IF @ = 0 THEN None ELSE @]

Unless(default, port) == IF port \in {None, 0, default} THEN None ELSE port

(* Options that repeat a default are left out, and those the user gave are  *)
(* passed on as they are.                                                   *)
ConfigureLokid(c) ==
  LET rpc == IF Version >= 8 /\ c.rpcIp # Local
             THEN c.rpc
             ELSE Unless(DefaultRpc(c.net), c.rpc)
      flag == CASE c.net \in {"test", "demo"} -> "testnet"
                [] c.net = "staging" -> "stagenet"
                [] OTHER -> None
  IN  [net |-> Or(Get("--net"), flag),
       rpc |-> Or(Get("--rpc"), rpc),
       p2p |-> Or(Get("--p2p"), Unless(DefaultP2p(c.net), c.p2p)),
       qun |-> Or(Get("--qun"), IF Version \in {3, 4, 5} THEN None
                                ELSE Unless(DefaultQun(c.net), c.qun))]

(* startStorageServer launches a storage server beside lokinet even if it is*)
(* not enabled.  Nothing about it has been checked then, and no default set *)
(* but this one for its port; without a path to the program its version     *)
(* cannot be read, and the launch throws.                                   *)
StorageLaunched(c) == (c.storage \/ c.lokinet) /\ c.storageBinary # None

StoragePort(c) == Or(c.storagePort, 8080)

(* 2.1 asks lokid at the socket it is given, and before it at the port.     *)
AsksAtPort(c) == c.storage /\ c.storageBinary \in {10, 20}
AsksAtSocket(c) == c.storage /\ c.storageBinary = 21

Init ==
  /\ given = << >>
  /\ stage = "written"
  /\ config = None
  /\ lokid = None

(* The user sets one thing more.                                            *)
Write ==
  /\ stage = "written"
  /\ Cardinality(DOMAIN given) < MaxSet
  /\ \E s \in Settings \ DOMAIN given : \E v \in Values(s) :
       given' = [t \in DOMAIN given \cup {s} |-> IF t = s THEN v ELSE given[t]]
  /\ UNCHANGED <<stage, config, lokid>>

(* index.js checks the configuration; one with conflicts ends the process.  *)
Check ==
  /\ stage = "written"
  /\ config' = CheckedConfig
  /\ stage' = IF Conflicts(config') = {} THEN "checked" ELSE "refused"
  /\ UNCHANGED <<given, lokid>>

Start ==
  /\ stage = "checked"
  /\ config' = SetupBlockchainForStart(config)
  /\ lokid' = ConfigureLokid(config')
  /\ stage' = "launched"
  /\ UNCHANGED given

Next == Write \/ Check \/ Start

Spec == Init /\ [][Next]_vars

-----------------------------------------------------------------------------
(* What lokid makes of its options: those it is given, else its loki.conf,  *)
(* else the default of its network.  It has no network "demo".              *)

LokidNet == CASE lokid.net = "testnet" -> "test"
              [] lokid.net = "stagenet" -> "staging"
              [] OTHER -> "main"

Listens ==
  LET file == ConfOptions(DirOf(LokidNet))
      port(k, default) == Or(lokid[k], Or(file[k], default))
  IN  [rpc |-> port("rpc", DefaultRpc(LokidNet)),
       p2p |-> port("p2p", DefaultP2p(LokidNet)),
       qun |-> port("qun", DefaultQun(LokidNet))]

(* A 2.x without an lmq_port is told --lmq-port undefined, and ends.        *)
StorageListens ==
  IF StorageLaunched(config)
       /\ (config.storageBinary = 10 \/ config.lmqPort # None)
  THEN {Listener("storage", Any, StoragePort(config))}
         \cup (IF config.storageBinary = 10 THEN {}
               ELSE {Listener("lmq", Any, config.lmqPort)})
  ELSE {}

Running ==
  {Listener("p2p", config.p2pIp, Listens.p2p),
   Listener("rpc", config.rpcIp, Listens.rpc)}
    \cup (IF Version \in {3, 4, 5} THEN {}
          ELSE {Listener("qun", config.qunIp, Listens.qun)})
    \cup {l \in Configured(config) : l.type = "lokinet"}
    \cup StorageListens

(* The loki.conf that lokid reads was there to be read at the first check.  *)
SameConf ==
  LET first == DirOf(SetNetwork(FromDisk, CliOptions).net)
  IN  ConfDir = DirOf(config.net) => ConfDir = first

-----------------------------------------------------------------------------
(* Properties.                                                              *)

(* No two of these listeners are on one port of one address.               *)
Apart(listeners) ==
  \A l, m \in listeners :
    l # m /\ l.port = m.port => Any \notin {l.ip, m.ip} /\ l.ip # m.ip

(* No two programs listen on one port of one address once the checks have   *)
(* let the configuration pass (config.js:848-895), whatever was defaulted,  *)
(* read from loki.conf or left out of lokid's options (daemon.js:1184).     *)
(* Not so on the demo network, not with a loki.conf first read by           *)
(* start.js:55, after the checks, and not for the storage server that is    *)
(* launched beside lokinet although it is disabled, as the checks leave its *)
(* ports out (config.js:833, daemon.js:686).                                *)
NoClash ==
  stage = "launched" /\ config.net # "demo" /\ SameConf
    => Apart(IF config.storage THEN Running ELSE Running \ StorageListens)

(* The launcher asks lokid's RPC server, and sends a storage server that    *)
(* asks by port there, where it listens: the port travels through four      *)
(* tables of defaults and two readings (config.js:541-655, start.js:55,     *)
(* daemon.js:285-303, 1150-1187).                                           *)
RpcAgrees ==
  config.net # "demo" /\ SameConf
    => /\ config.rpc = Listens.rpc
       /\ AsksAtPort(config) => config.storageRpc = Listens.rpc

(* What storage and lokinet were told of the network at the check           *)
(* (config.js:666, 717) is what lokid is told later.  A storage server that *)
(* is launched although it is disabled was told nothing (config.js:709).    *)
NetworkAgrees ==
  /\ config.lokinet => (config.lokinetTestnet <=> LokidNet = "test")
  /\ config.storage => (config.storageTestnet <=> LokidNet = "test")

(* lokid's socket is in the directory of its network (config.js:628), and   *)
(* lokinet and a storage server 2.1 or later are told to ask there: each    *)
(* was told at the check (config.js:629, 743).  Not so the storage server   *)
(* on a test network, where the code leaves that directory out, nor beside  *)
(* a lokid that is not of version 9, whose socket has the other name.       *)
SocketAgrees ==
  /\ config.lokinet => config.zmqSocket = LokidSocket(LokidNet)
  /\ AsksAtSocket(config) /\ Version = 9 /\ LokidNet = "main"
       => config.storageSocket = LokidSocket(LokidNet)

(* The enabled daemons agree on the network, on lokid's socket and on its   *)
(* RPC port; for the latter, with the first two exceptions of NoClash.      *)
SuiteAgrees == stage = "launched" => RpcAgrees /\ NetworkAgrees /\ SocketAgrees

(* A user who names no port is never refused: the defaults of no network    *)
(* and no version conflict (config.js:589-744, 984-1003).                   *)
DefaultsAccepted ==
  stage = "refused"
    => DOMAIN given \cap (PortSettings \cup OptionPorts) # {}
=============================================================================
