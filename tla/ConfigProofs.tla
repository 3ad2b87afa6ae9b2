---------------------------- MODULE ConfigProofs ----------------------------
(***************************************************************************)
(* Proofs about Config, for all ports, versions and numbers of settings:   *)
(* a configuration that passed the checks is launched without a clash, and *)
(* the launcher asks lokid where it listens.  The invariant says that      *)
(* given is well-formed and what config and lokid are computed from it.    *)
(***************************************************************************)
EXTENDS Config, TLAPS

GivenOK ==
  /\ DOMAIN given \subseteq Settings
  /\ \A s \in DOMAIN given : given[s] \in Values(s)

CInv ==
  /\ GivenOK
  /\ stage = "checked" => config = CheckedConfig /\ Conflicts(CheckedConfig) = {}
  /\ stage = "launched" =>
       /\ Conflicts(CheckedConfig) = {}
       /\ config = SetupBlockchainForStart(CheckedConfig)
       /\ lokid = ConfigureLokid(config)
  /\ stage = "refused" => Conflicts(CheckedConfig) # {}

-----------------------------------------------------------------------------
(* What the user may have set.                                              *)

LEMMA GetValue ==
  ASSUME GivenOK, NEW s \in Settings
  PROVE  Get(s) \in Values(s) \cup {None}
BY DEF GivenOK, Get

LEMMA Inputs ==
  ASSUME GivenOK
  PROVE  /\ \A s \in OptionPorts : Get(s) \in {None, OptionPort}
         /\ \A s \in PortSettings : Get(s) = None \/ Get(s) \in Nat
         /\ Get("--net") \in {None, "testnet", "stagenet"}
         /\ Get("conf.net") \in {None, "testnet"}
         /\ ConfDir \in {"main", "testnet"}
         /\ Get("launcher.network") \in {None, "test", "testnet", "demo", "staging"}
         /\ Get("blockchain.network") \in {None, "test", "testnet", "demo", "staging"}
<1>1. \A s \in OptionPorts : Get(s) \in {None, OptionPort}
  <2> SUFFICES ASSUME NEW s \in OptionPorts PROVE Get(s) \in {None, OptionPort}
    OBVIOUS
  <2>1. Get(s) \in Values(s) \cup {None}
    BY GetValue DEF Settings
  <2>2. Values(s) = {OptionPort}
    BY DEF Values, OptionPorts, PortSettings
  <2> QED BY <2>1, <2>2
<1>2. \A s \in PortSettings : Get(s) = None \/ Get(s) \in Nat
  <2> SUFFICES ASSUME NEW s \in PortSettings PROVE Get(s) = None \/ Get(s) \in Nat
    OBVIOUS
  <2>1. Get(s) \in Values(s) \cup {None}
    BY GetValue DEF Settings
  <2>2. Values(s) = IniPorts
    BY DEF Values, PortSettings, OptionPorts
  <2> QED BY <2>1, <2>2, PortAssumption
<1>3. Get("--net") \in {None, "testnet", "stagenet"}
  BY GetValue DEF Settings, Values, OptionPorts, PortSettings
<1>4. Get("conf.net") \in {None, "testnet"}
  BY GetValue DEF Settings, Values, OptionPorts, PortSettings
<1>5. ConfDir \in {"main", "testnet"}
  BY GetValue DEF Settings, Values, OptionPorts, PortSettings, ConfDir, Or
<1>6. /\ Get("launcher.network") \in {None, "test", "testnet", "demo", "staging"}
      /\ Get("blockchain.network") \in {None, "test", "testnet", "demo", "staging"}
  BY GetValue DEF Settings, Values, OptionPorts, PortSettings
<1> QED BY <1>1, <1>2, <1>3, <1>4, <1>5, <1>6

LEMMA NoneDiffers ==
  /\ None # OptionPort /\ OptionPort # 0 /\ None # 0
  /\ \A x \in {"main", "test", "testnet", "demo", "staging", "stagenet"} : None # x
<1>1. None # OptionPort /\ OptionPort # 0 /\ None # 0
  BY PortAssumption, NoneAssumption
<1>2. \A x \in {"main", "test", "testnet", "demo", "staging", "stagenet"} : None # x
  BY NoneAssumption
<1> QED BY <1>1, <1>2

PortKeys == {"rpc", "p2p", "qun"}

LEMMA OptionValues ==
  ASSUME GivenOK, NEW dir
  PROVE  /\ DOMAIN ConfOptions(dir) = PortKeys \cup {"net"}
         /\ \A k \in PortKeys : /\ CliOptions[k] \in {None, OptionPort}
                                /\ ConfOptions(dir)[k] \in {None, OptionPort}
                                /\ dir # ConfDir => ConfOptions(dir)[k] = None
         /\ CliOptions.net \in {None, "testnet", "stagenet"}
         /\ ConfOptions(dir).net \in {None, "testnet"}
         /\ dir # ConfDir => ConfOptions(dir).net = None
<1> USE Inputs
<1>1. CASE dir = ConfDir
  BY <1>1 DEF ConfOptions, CliOptions, PortKeys, OptionPorts
<1>2. CASE dir # ConfDir
  BY <1>2 DEF ConfOptions, CliOptions, PortKeys, OptionPorts
<1> QED BY <1>1, <1>2

-----------------------------------------------------------------------------
(* What each step of the configuration does to a record of these fields.    *)

Fields ==
  {"launcherNet", "net", "rpc", "p2p", "qun", "rpcIp", "p2pIp", "qunIp",
   "lokinet", "lokinetTestnet", "lokinetRpc", "storage", "storageTestnet",
   "storagePort", "lmqPort", "storageBinary", "storageRpc", "storageSocket",
   "zmqSocket"}

LEMMA FromDiskFields ==
  /\ DOMAIN FromDisk = Fields
  /\ FromDisk.launcherNet = Get("launcher.network")
  /\ FromDisk.net = Get("blockchain.network")
  /\ FromDisk.rpc = Get("rpc_port") /\ FromDisk.p2p = Get("p2p_port")
  /\ FromDisk.qun = Get("qun_port")
  /\ FromDisk.lokinetRpc = Get("network.rpc_port")
  /\ FromDisk.storagePort = Get("storage.port")
  /\ FromDisk.lmqPort = Get("storage.lmq_port")
BY DEF FromDisk, Fields

NetAfter(net, option) ==
  CASE option = "stagenet" -> "staging"
    [] option = "testnet" -> "test"
    [] OTHER -> net

LEMMA SetNetworkFields ==
  ASSUME NEW c, DOMAIN c = Fields, NEW options
  PROVE  /\ DOMAIN SetNetwork(c, options) = Fields
         /\ SetNetwork(c, options).net = NetAfter(c.net, options.net)
         /\ \A f \in Fields \ {"net"} : SetNetwork(c, options)[f] = c[f]
<1>1. CASE options.net = "stagenet"
  BY <1>1 DEF SetNetwork, NetAfter, Fields
<1>2. CASE options.net = "testnet"
  BY <1>2 DEF SetNetwork, NetAfter, Fields
<1>3. CASE options.net \notin {"testnet", "stagenet"}
  BY <1>3 DEF SetNetwork, NetAfter
<1> QED BY <1>1, <1>2, <1>3

(* The directory of the loki.conf that is read, when the network is net.    *)
ReadDir(net) == DirOf(NetAfter(net, CliOptions.net))

LEMMA ReadOptionsFields ==
  ASSUME GivenOK, NEW c, DOMAIN c = Fields
  PROVE  LET file == ConfOptions(ReadDir(c.net))
         IN  /\ DOMAIN ReadOptions(c) = Fields
             /\ \A k \in PortKeys :
                  ReadOptions(c)[k] = Or(Or(file[k], CliOptions[k]), c[k])
             /\ ReadOptions(c).net = NetAfter(NetAfter(c.net, CliOptions.net),
                                             Or(file.net, CliOptions.net))
             /\ \A f \in Fields \ (PortKeys \cup {"net"}) :
                  ReadOptions(c)[f] = c[f]
<1> DEFINE fromCli == SetNetwork(c, CliOptions)
           file == ConfOptions(DirOf(fromCli.net))
           options == [k \in DOMAIN file |-> Or(file[k], CliOptions[k])]
           set == SetNetwork(fromCli, options)
<1>1. /\ DOMAIN fromCli = Fields /\ fromCli.net = NetAfter(c.net, CliOptions.net)
      /\ \A f \in Fields \ {"net"} : fromCli[f] = c[f]
  BY SetNetworkFields
<1>2. DOMAIN file = PortKeys \cup {"net"}
  BY OptionValues
<1>3. \A k \in PortKeys \cup {"net"} : options[k] = Or(file[k], CliOptions[k])
  BY <1>2
<1>4. /\ DOMAIN set = Fields
      /\ set.net = NetAfter(fromCli.net, options.net)
      /\ \A f \in Fields \ {"net"} : set[f] = fromCli[f]
  <2> HIDE DEF fromCli, options
  <2> QED BY <1>1, SetNetworkFields
<1>5. ReadOptions(c) = [set EXCEPT !.rpc = Or(options.rpc, @),
                                   !.p2p = Or(options.p2p, @),
                                   !.qun = Or(options.qun, @)]
  BY DEF ReadOptions
<1>6. ReadDir(c.net) = DirOf(fromCli.net)
  BY <1>1 DEF ReadDir
<1> HIDE DEF set, options, fromCli
<1>7. /\ DOMAIN ReadOptions(c) = Fields
      /\ \A k \in PortKeys : ReadOptions(c)[k] = Or(options[k], set[k])
      /\ \A f \in Fields \ PortKeys : ReadOptions(c)[f] = set[f]
  BY <1>4, <1>5 DEF Fields, PortKeys
<1> QED
  BY <1>1, <1>3, <1>4, <1>6, <1>7 DEF Fields, PortKeys

NetConfigured(launcherNet, net) ==
  CASE launcherNet # None -> Or(net, Normalize(launcherNet))
    [] launcherNet = None /\ net # None -> Normalize(net)
    [] OTHER -> net

LEMMA ConfigureNetworksFields ==
  ASSUME NEW c, DOMAIN c = Fields
  PROVE  /\ DOMAIN ConfigureNetworks(c) = Fields
         /\ ConfigureNetworks(c).net = NetConfigured(c.launcherNet, c.net)
         /\ \A f \in Fields \ {"net", "launcherNet"} :
              ConfigureNetworks(c)[f] = c[f]
<1>1. CASE c.launcherNet # None
  BY <1>1 DEF ConfigureNetworks, NetConfigured, Fields
<1>2. CASE c.launcherNet = None /\ c.net # None
  BY <1>2 DEF ConfigureNetworks, NetConfigured, Fields
<1>3. CASE c.launcherNet = None /\ c.net = None
  BY <1>3 DEF ConfigureNetworks, NetConfigured
<1> QED BY <1>1, <1>2, <1>3

(* What the checks make of the configuration r that loki.conf and the       *)
(* command line have completed.                                             *)
LEMMA CheckedFields ==
  ASSUME GivenOK
  PROVE  LET r == ReadOptions(FromDisk)
             c == CheckedConfig
         IN  /\ DOMAIN c = Fields
             /\ c.net = Or(NetConfigured(r.launcherNet, r.net), "main")
             /\ c.rpc = Fill(r.rpc, DefaultRpc(c.net))
             /\ c.p2p = Fill(r.p2p, DefaultP2p(c.net))
             /\ c.qun = Fill(r.qun, DefaultQun(c.net))
             /\ c.zmqSocket = LokidSocket(c.net)
             /\ c.lokinet => /\ c.lokinetTestnet = IsTestnet(c)
                             /\ c.lokinetRpc = Or(r.lokinetRpc, 1190)
             /\ c.storage =>
                  /\ c.storageTestnet = IsTestnet(c)
                  /\ c.storageRpc = c.rpc
                  /\ c.storageSocket = Socket("main", "oxend.sock")
                  /\ c.storagePort =
                       Or(r.storagePort, IF IsTestnet(c) THEN 38155 ELSE 22021)
                  /\ c.lmqPort =
                       Or(r.lmqPort, IF IsTestnet(c) THEN 38154 ELSE 22020)
<1> DEFINE r == ReadOptions(FromDisk)
           p == ConfigureNetworks(r)
           l == CheckLauncherConfig(p)
           b == CheckBlockchainConfig(l)
           n == CheckNetworkConfig(b)
           s == CheckStorageConfig(n)
           c == PrequalPorts(s)
<1>1. DOMAIN r = Fields
  BY FromDiskFields, ReadOptionsFields
<1>2. /\ DOMAIN p = Fields
      /\ p.net = NetConfigured(r.launcherNet, r.net)
      /\ \A f \in Fields \ {"net", "launcherNet"} : p[f] = r[f]
  <2> HIDE DEF r
  <2> QED BY <1>1, ConfigureNetworksFields
<1> HIDE DEF r, p
<1>3. /\ DOMAIN l = Fields
      /\ \A f \in Fields \ {"lokinet", "storage"} : l[f] = p[f]
  BY <1>2 DEF CheckLauncherConfig, Fields
<1> HIDE DEF l
<1>4. /\ DOMAIN b = Fields
      /\ b.net = Or(l.net, "main")
      /\ b.rpc = Fill(l.rpc, DefaultRpc(b.net))
      /\ b.qun = Fill(l.qun, DefaultQun(b.net))
      /\ b.zmqSocket = LokidSocket(b.net)
      /\ \A f \in Fields \ {"net", "rpc", "qun", "rpcIp", "zmqSocket"} : b[f] = l[f]
  BY <1>3 DEF CheckBlockchainConfig, Fields
<1> HIDE DEF b
<1>5. /\ DOMAIN n = Fields
      /\ n.lokinet => /\ n.lokinetTestnet = IsTestnet(b)
                      /\ n.lokinetRpc = Or(b.lokinetRpc, 1190)
      /\ \A f \in Fields \ {"lokinetTestnet", "lokinetRpc"} : n[f] = b[f]
  <2>1. CASE b.lokinet
    <3> DEFINE rpc == Or(b.lokinetRpc, 1190)
               net == IsTestnet(b)
    <3>1. n = [b EXCEPT !.lokinetTestnet = net, !.lokinetRpc = rpc]
      BY <2>1 DEF CheckNetworkConfig, n
    <3> HIDE DEF rpc, net
    <3>2. /\ DOMAIN n = Fields /\ n.lokinetTestnet = net /\ n.lokinetRpc = rpc
          /\ \A f \in Fields \ {"lokinetTestnet", "lokinetRpc"} : n[f] = b[f]
      BY <1>4, <3>1 DEF Fields
    <3> QED BY <3>2 DEF rpc, net
  <2>2. CASE ~b.lokinet
    BY <1>4, <2>2 DEF CheckNetworkConfig
  <2> QED BY <2>1, <2>2
<1> HIDE DEF n
<1> DEFINE Set == {"storageTestnet", "storagePort", "lmqPort", "storageBinary",
                   "storageRpc", "storageSocket"}
<1>6. /\ DOMAIN s = Fields
      /\ s.storage =>
           /\ s.storageTestnet = IsTestnet(n)
           /\ s.storageRpc = n.rpc
           /\ s.storageSocket = Socket("main", "oxend.sock")
           /\ s.storagePort = Or(n.storagePort, IF IsTestnet(n) THEN 38155 ELSE 22021)
           /\ s.lmqPort = Or(n.lmqPort, IF IsTestnet(n) THEN 38154 ELSE 22020)
      /\ \A f \in Fields \ Set : s[f] = n[f]
  <2>1. CASE n.storage
    <3> DEFINE net == IsTestnet(n)
               port == Or(n.storagePort, IF IsTestnet(n) THEN 38155 ELSE 22021)
               lmq == Or(n.lmqPort, IF IsTestnet(n) THEN 38154 ELSE 22020)
               binary == Or(n.storageBinary, InstalledStorage)
               socket == Socket("main", "oxend.sock")
    <3>1. s = [n EXCEPT !.storageTestnet = net, !.storagePort = port,
                        !.lmqPort = lmq, !.storageBinary = binary,
                        !.storageRpc = n.rpc, !.storageSocket = socket]
      BY <2>1 DEF CheckStorageConfig, s
    <3> HIDE DEF net, port, lmq, binary, socket
    <3>2. /\ DOMAIN s = Fields /\ s.storageTestnet = net
          /\ s.storageSocket = socket
          /\ s.storageRpc = n.rpc /\ s.storagePort = port /\ s.lmqPort = lmq
          /\ \A f \in Fields \ Set : s[f] = n[f]
      <4>1. DOMAIN s = Fields
        BY <1>5, <3>1
      <4>2. ASSUME NEW f \in Fields \ Set
            PROVE  s[f] = n[f]
        <5>1. /\ f \in DOMAIN n /\ f # "storageTestnet" /\ f # "storagePort"
              /\ f # "lmqPort" /\ f # "storageRpc"
              /\ f # "storageBinary" /\ f # "storageSocket"
          BY <1>5
        <5> QED BY <3>1, <5>1
      <4>3. /\ "storageTestnet" \in DOMAIN n /\ "storagePort" \in DOMAIN n
            /\ "lmqPort" \in DOMAIN n /\ "storageRpc" \in DOMAIN n
            /\ "storageSocket" \in DOMAIN n
        BY <1>5 DEF Fields
      <4>4. s.storageTestnet = net
        BY <4>3, <3>1
      <4>5. s.storageRpc = n.rpc
        BY <4>3, <3>1
      <4>6. s.storagePort = port
        BY <4>3, <3>1
      <4>7. s.lmqPort = lmq
        BY <4>3, <3>1
      <4>8. s.storageSocket = socket
        BY <4>3, <3>1
      <4> QED BY <4>1, <4>2, <4>4, <4>5, <4>6, <4>7, <4>8
    <3> QED BY <3>2 DEF net, port, lmq, socket
  <2>2. CASE ~n.storage
    BY <1>5, <2>2 DEF CheckStorageConfig
  <2> QED BY <2>1, <2>2
<1> HIDE DEF s
<1>7. /\ DOMAIN c = Fields
      /\ c.p2p = Fill(s.p2p, DefaultP2p(s.net))
      /\ \A f \in Fields \ {"p2p", "p2pIp", "qunIp"} : c[f] = s[f]
  <2> DEFINE ip == Or(s.p2pIp, Any)
             p2p == Fill(s.p2p, DefaultP2p(s.net))
  <2>1. c = [s EXCEPT !.p2p = p2p, !.p2pIp = ip, !.qunIp = ip]
    BY DEF PrequalPorts
  <2> HIDE DEF ip, p2p
  <2>2. /\ DOMAIN c = Fields /\ c.p2p = p2p
        /\ \A f \in Fields \ {"p2p", "p2pIp", "qunIp"} : c[f] = s[f]
    <3>1. DOMAIN c = Fields
      BY <1>6, <2>1
    <3>2. ASSUME NEW f \in Fields \ {"p2p", "p2pIp", "qunIp"}
          PROVE  c[f] = s[f]
      <4>1. f \in DOMAIN s /\ f # "p2p" /\ f # "p2pIp" /\ f # "qunIp"
        BY <1>6
      <4> QED BY <2>1, <4>1
    <3>3. "p2p" \in DOMAIN s
      BY <1>6 DEF Fields
    <3>4. c.p2p = p2p
      BY <3>3, <2>1
    <3> QED BY <3>1, <3>2, <3>4
  <2> QED BY <2>2 DEF p2p
<1>8. CheckedConfig = c
  BY DEF CheckedConfig, PrecheckConfig, c, s, n, b, l, p, r
<1> HIDE DEF c
<1>9. /\ c.net = b.net /\ c.rpc = b.rpc /\ c.qun = b.qun /\ s.net = b.net
      /\ IsTestnet(c) = IsTestnet(b) /\ IsTestnet(n) = IsTestnet(b)
      /\ c.lokinet = n.lokinet /\ c.lokinetRpc = n.lokinetRpc
      /\ c.lokinetTestnet = n.lokinetTestnet
      /\ c.storage = s.storage /\ c.storageTestnet = s.storageTestnet
      /\ c.storageRpc = s.storageRpc /\ n.rpc = b.rpc
      /\ c.storageSocket = s.storageSocket /\ c.zmqSocket = b.zmqSocket
      /\ c.storagePort = s.storagePort /\ c.lmqPort = s.lmqPort
  BY <1>5, <1>6, <1>7 DEF Fields, IsTestnet
<1>10. /\ b.net = Or(NetConfigured(r.launcherNet, r.net), "main")
       /\ b.rpc = Fill(r.rpc, DefaultRpc(b.net))
       /\ b.qun = Fill(r.qun, DefaultQun(b.net))
       /\ s.p2p = r.p2p
       /\ b.lokinetRpc = r.lokinetRpc /\ b.zmqSocket = LokidSocket(b.net)
       /\ n.storagePort = r.storagePort /\ n.lmqPort = r.lmqPort
  BY <1>2, <1>3, <1>4, <1>5, <1>6 DEF Fields
<1>11. c.lokinet => /\ c.lokinetTestnet = IsTestnet(c)
                    /\ c.lokinetRpc = Or(r.lokinetRpc, 1190)
  BY <1>5, <1>9, <1>10
<1>12. c.storage =>
         /\ c.storageTestnet = IsTestnet(c)
         /\ c.storageRpc = c.rpc
         /\ c.storageSocket = Socket("main", "oxend.sock")
         /\ c.storagePort = Or(r.storagePort, IF IsTestnet(c) THEN 38155 ELSE 22021)
         /\ c.lmqPort = Or(r.lmqPort, IF IsTestnet(c) THEN 38154 ELSE 22020)
  BY <1>6, <1>9, <1>10
<1>13. c.zmqSocket = LokidSocket(c.net)
  BY <1>9, <1>10
<1> QED
  BY <1>7, <1>8, <1>9, <1>10, <1>11, <1>12, <1>13 DEF r

-----------------------------------------------------------------------------
(* The networks.  The second reading of loki.conf may change the network    *)
(* again only if the first did not find the file, and what lokid is told is *)
(* what the launcher believes, except for "demo".                           *)

LokidNetOf(net, option) ==
  CASE option # None -> NetAfter(net, option)
    [] option = None /\ net \in {"test", "demo"} -> "test"
    [] option = None /\ net = "staging" -> "staging"
    [] OTHER -> "main"

NetsAgree(cli, conf, confDir, launcher, ini) ==
  LET file(dir) == IF dir = confDir THEN conf ELSE None
      first == DirOf(NetAfter(ini, cli))
      read == NetAfter(NetAfter(ini, cli), Or(file(first), cli))
      net == Or(NetConfigured(launcher, read), "main")
      dirNow == DirOf(NetAfter(net, cli))
      final == NetAfter(NetAfter(net, cli), Or(file(dirNow), cli))
      lokidNet == LokidNetOf(final, cli)
  IN  /\ net \in {"main", "test", "testnet", "demo", "staging"}
      /\ final \in {"main", "test", "testnet", "demo", "staging"}
      /\ dirNow = confDir => DirOf(final) = confDir \/ first = confDir
      /\ final # "demo" =>
           \/ lokidNet = final
           \/ lokidNet = "main" /\ final \in {"main", "testnet"}
      /\ net \in {"test", "demo"} <=> lokidNet = "test"
      /\ DirOf(net) = DirOf(lokidNet)

LEMMA NetFlow ==
  ASSUME NEW cli \in {None, "testnet", "stagenet"},
         NEW conf \in {None, "testnet"},
         NEW confDir \in {"main", "testnet"},
         NEW launcher \in {None, "test", "testnet", "demo", "staging"},
         NEW ini \in {None, "test", "testnet", "demo", "staging"}
  PROVE  NetsAgree(cli, conf, confDir, launcher, ini)
<1> USE NoneDiffers DEF DirOf, NetAfter, Or, LokidNetOf
<1> DEFINE file(dir) == IF dir = confDir THEN conf ELSE None
           first == DirOf(NetAfter(ini, cli))
           read == NetAfter(NetAfter(ini, cli), Or(file(first), cli))
           net == Or(NetConfigured(launcher, read), "main")
           dirNow == DirOf(NetAfter(net, cli))
           final == NetAfter(NetAfter(net, cli), Or(file(dirNow), cli))
           lokidNet == LokidNetOf(final, cli)
           Goal == /\ net \in {"main", "test", "testnet", "demo", "staging"}
                   /\ final \in {"main", "test", "testnet", "demo", "staging"}
                   /\ dirNow = confDir => DirOf(final) = confDir \/ first = confDir
                   /\ final # "demo" =>
                        \/ lokidNet = final
                        \/ lokidNet = "main" /\ final \in {"main", "testnet"}
                   /\ net \in {"test", "demo"} <=> lokidNet = "test"
                   /\ DirOf(net) = DirOf(lokidNet)
<1> SUFFICES Goal
  BY DEF NetsAgree
<1>1. CASE cli = "stagenet"
  <2>1. read = "staging"
    BY <1>1
  <2> HIDE DEF read
  <2>2. net = "staging"
    BY <2>1 DEF NetConfigured, Normalize
  <2> HIDE DEF net
  <2>3. final = "staging" /\ dirNow = "stagenet"
    BY <1>1, <2>2
  <2> HIDE DEF final, dirNow, first
  <2> QED BY <1>1, <2>2, <2>3
<1>2. CASE cli = "testnet"
  <2>1. read = "test"
    BY <1>2
  <2> HIDE DEF read
  <2>2. net = "test"
    BY <2>1 DEF NetConfigured, Normalize
  <2> HIDE DEF net
  <2>3. final = "test" /\ dirNow = "testnet"
    BY <1>2, <2>2
  <2> HIDE DEF final, dirNow, first
  <2> QED BY <1>2, <2>2, <2>3
<1>3. CASE cli = None
  <2>1. CASE first = confDir /\ conf = "testnet"
    <3>1. read = "test"
      BY <1>3, <2>1
    <3> HIDE DEF read
    <3>2. net = "test"
      BY <3>1 DEF NetConfigured, Normalize
    <3> HIDE DEF net
    <3>3. final = "test"
      BY <1>3, <3>2
    <3> HIDE DEF final
    <3>4. lokidNet = "test"
      BY <1>3, <3>3
    <3> HIDE DEF lokidNet, first
    <3> QED BY <2>1, <3>2, <3>3, <3>4
  <2>2. CASE ~(first = confDir /\ conf = "testnet")
    <3>1. read = ini
      BY <1>3, <2>2
    <3> HIDE DEF read
    <3>2. /\ net \in {"main", "test", "testnet", "demo", "staging"}
          /\ net \in {"main", "testnet"} => ini \in {None, "testnet"}
      <4>1. CASE launcher = None
        BY <3>1, <4>1 DEF NetConfigured, Normalize
      <4>2. CASE launcher # None
        BY <3>1, <4>2 DEF NetConfigured, Normalize
      <4> QED BY <4>1, <4>2
    <3> HIDE DEF net
    <3>3. CASE net \in {"main", "testnet"}
      <4>1. final = net
        BY <1>3, <2>2, <3>2, <3>3
      <4>2. dirNow = DirOf(final)
        BY <1>3, <3>3, <4>1
      <4> HIDE DEF final, dirNow, first
      <4> QED BY <1>3, <3>3, <4>1, <4>2
    <3>4. CASE net \in {"test", "demo"}
      <4>1. final \in {net, "test"} /\ dirNow = "testnet"
        BY <1>3, <3>4
      <4> HIDE DEF final, dirNow, first
      <4> QED BY <1>3, <3>4, <4>1
    <3>5. CASE net = "staging"
      <4>1. final = "staging" /\ dirNow = "stagenet"
        BY <1>3, <3>5
      <4> HIDE DEF final, dirNow, first
      <4> QED BY <1>3, <3>5, <4>1
    <3> QED BY <3>2, <3>3, <3>4, <3>5
  <2> QED BY <2>1, <2>2
<1> QED BY <1>1, <1>2, <1>3

FirstDir == ReadDir(FromDisk.net)
Launched == SetupBlockchainForStart(CheckedConfig)

(* The configuration lokid is launched with has the fields of the checked   *)
(* one, except for what loki.conf and the command line say of network and   *)
(* ports.                                                                   *)
LEMMA LaunchedFields ==
  ASSUME GivenOK
  PROVE  LET c == CheckedConfig
             file == ConfOptions(ReadDir(c.net))
             again(k) == Or(Or(file[k], CliOptions[k]), c[k])
         IN  /\ Launched.net = NetAfter(NetAfter(c.net, CliOptions.net),
                                        Or(file.net, CliOptions.net))
             /\ Launched.rpc = again("rpc") /\ Launched.qun = again("qun")
             /\ Launched.p2p = IF again("p2p") = 0 THEN None ELSE again("p2p")
             /\ \A f \in Fields \ (PortKeys \cup {"net"}) : Launched[f] = c[f]
<1> DEFINE c == CheckedConfig
           again == ReadOptions(c)
<1>1. DOMAIN c = Fields
  BY CheckedFields
<1> HIDE DEF c
<1>2. /\ DOMAIN again = Fields
      /\ \A k \in PortKeys :
           again[k] = Or(Or(ConfOptions(ReadDir(c.net))[k], CliOptions[k]), c[k])
      /\ again.net = NetAfter(NetAfter(c.net, CliOptions.net),
                        Or(ConfOptions(ReadDir(c.net)).net, CliOptions.net))
      /\ \A f \in Fields \ (PortKeys \cup {"net"}) : again[f] = c[f]
  BY <1>1, ReadOptionsFields
<1>3. Launched = [again EXCEPT !.p2p = IF @ = 0 THEN None ELSE @]
  BY DEF Launched, SetupBlockchainForStart, c
<1> HIDE DEF again
<1>4. /\ Launched.p2p = IF again.p2p = 0 THEN None ELSE again.p2p
      /\ \A f \in Fields \ {"p2p"} : Launched[f] = again[f]
  BY <1>2, <1>3 DEF Fields
<1> QED BY <1>2, <1>4 DEF c, Fields, PortKeys

(* NetFlow, said of the variables: now that config and lokid are those of   *)
(* the launch.                                                              *)
LEMMA LaunchNets ==
  ASSUME GivenOK, config = Launched, lokid = ConfigureLokid(config)
  PROVE  /\ CheckedConfig.net \in {"main", "test", "testnet", "demo", "staging"}
         /\ config.net \in {"main", "test", "testnet", "demo", "staging"}
         /\ ReadDir(CheckedConfig.net) = ConfDir
              => DirOf(config.net) = ConfDir \/ FirstDir = ConfDir
         /\ config.net # "demo" =>
              \/ LokidNet = config.net
              \/ LokidNet = "main" /\ config.net \in {"main", "testnet"}
         /\ IsTestnet(CheckedConfig) <=> LokidNet = "test"
         /\ DirOf(CheckedConfig.net) = DirOf(LokidNet)
<1> DEFINE cli == CliOptions.net
           conf == Get("conf.net")
           launcher == Get("launcher.network")
           ini == Get("blockchain.network")
           file(dir) == IF dir = ConfDir THEN conf ELSE None
           first == DirOf(NetAfter(ini, cli))
           read == NetAfter(NetAfter(ini, cli), Or(file(first), cli))
           net == Or(NetConfigured(launcher, read), "main")
           dir2 == DirOf(NetAfter(net, cli))
           final == NetAfter(NetAfter(net, cli), Or(file(dir2), cli))
<1>1. /\ cli \in {None, "testnet", "stagenet"} /\ conf \in {None, "testnet"}
      /\ ConfDir \in {"main", "testnet"}
      /\ launcher \in {None, "test", "testnet", "demo", "staging"}
      /\ ini \in {None, "test", "testnet", "demo", "staging"}
  BY Inputs DEF CliOptions
<1>2. \A dir : ConfOptions(dir).net = file(dir)
  BY DEF ConfOptions
<1>3. FirstDir = first
  BY FromDiskFields DEF FirstDir, ReadDir
<1>4. /\ ReadOptions(FromDisk).net = read
      /\ ReadOptions(FromDisk).launcherNet = launcher
  BY FromDiskFields, ReadOptionsFields, <1>2 DEF ReadDir, Fields, PortKeys
<1> HIDE DEF file, first, read
<1>5. CheckedConfig.net = net
  BY <1>4, CheckedFields
<1>6. config.net = final
  BY <1>2, <1>5, LaunchedFields DEF ReadDir
<1>7. ReadDir(CheckedConfig.net) = dir2
  BY <1>5 DEF ReadDir
<1>8. LokidNet = LokidNetOf(final, cli)
  <2>1. lokid.net = Or(cli, CASE final \in {"test", "demo"} -> "testnet"
                              [] final = "staging" -> "stagenet"
                              [] OTHER -> None)
    <3> HIDE DEF final
    <3> QED BY <1>6 DEF ConfigureLokid, CliOptions
  <2> HIDE DEF final, cli
  <2> QED
    BY <1>1, <2>1, NoneDiffers DEF LokidNet, LokidNetOf, NetAfter, Or
<1>9. /\ net \in {"main", "test", "testnet", "demo", "staging"}
      /\ final \in {"main", "test", "testnet", "demo", "staging"}
      /\ dir2 = ConfDir => DirOf(final) = ConfDir \/ first = ConfDir
      /\ final # "demo" =>
           \/ LokidNetOf(final, cli) = final
           \/ LokidNetOf(final, cli) = "main" /\ final \in {"main", "testnet"}
      /\ net \in {"test", "demo"} <=> LokidNetOf(final, cli) = "test"
      /\ DirOf(net) = DirOf(LokidNetOf(final, cli))
  <2> HIDE DEF cli, conf, launcher, ini
  <2>1. NetsAgree(cli, conf, ConfDir, launcher, ini)
    BY <1>1, NetFlow
  <2> QED BY <2>1 DEF NetsAgree, file, first, read
<1> HIDE DEF net, final, dir2, cli
<1> QED BY <1>3, <1>5, <1>6, <1>7, <1>8, <1>9 DEF IsTestnet

-----------------------------------------------------------------------------
(* The ports.                                                               *)

Default(k, net) == CASE k = "rpc" -> DefaultRpc(net)
                     [] k = "p2p" -> DefaultP2p(net)
                     [] OTHER -> DefaultQun(net)

LEMMA DefaultPorts ==
  ASSUME NEW k, NEW net
  PROVE  /\ Default(k, net) \in Nat \ {0}
         /\ Default(k, net) # None
<1>1. DefaultRpc(net) \in Nat \ {0}
  BY DEF DefaultRpc
<1>2. DefaultP2p(net) \in Nat \ {0}
  BY DEF DefaultP2p
<1>3. DefaultQun(net) \in Nat \ {0}
  BY DEF DefaultQun
<1>4. Default(k, net) \in Nat \ {0}
  BY <1>1, <1>2, <1>3 DEF Default
<1> QED BY <1>4, NoneAssumption

(* A checked port is set, and it is the one the command line or the         *)
(* loki.conf read first asks for.                                           *)
LEMMA CheckedPorts ==
  ASSUME GivenOK, NEW k \in PortKeys
  PROVE  /\ CheckedConfig[k] \notin {None, 0}
         /\ CliOptions[k] # None => CheckedConfig[k] = OptionPort
         /\ ConfOptions(FirstDir)[k] # None => CheckedConfig[k] = OptionPort
<1> DEFINE file == ConfOptions(FirstDir)[k]
           cli == CliOptions[k]
           old == FromDisk[k]
<1>1. file \in {None, OptionPort} /\ cli \in {None, OptionPort}
  BY OptionValues
<1>2. CheckedConfig[k] = Fill(Or(Or(file, cli), old), Default(k, CheckedConfig.net))
  BY FromDiskFields, ReadOptionsFields, CheckedFields
     DEF PortKeys, Default, FirstDir
<1> HIDE DEF file, cli, old
<1> QED
  BY <1>1, <1>2, DefaultPorts, NoneDiffers DEF Fill, Or, file, cli

LEMMA LaunchedPorts ==
  ASSUME GivenOK, config = Launched, lokid = ConfigureLokid(config), SameConf,
         NEW k \in PortKeys
  PROVE  config[k] = CheckedConfig[k]
<1> DEFINE file == ConfOptions(ReadDir(CheckedConfig.net))[k]
           cli == CliOptions[k]
           port == CheckedConfig[k]
<1>1. file \in {None, OptionPort} /\ cli \in {None, OptionPort}
  BY OptionValues
<1>2. file # None => port = OptionPort
  <2> SUFFICES ASSUME file # None PROVE port = OptionPort
    OBVIOUS
  <2>1. ReadDir(CheckedConfig.net) = ConfDir
    BY OptionValues
  <2>2. ConfDir = DirOf(config.net) => ConfDir = FirstDir
    BY SetNetworkFields, FromDiskFields DEF SameConf, FirstDir, ReadDir
  <2>3. FirstDir = ConfDir
    BY <2>1, <2>2, LaunchNets
  <2> QED BY <2>1, <2>3, CheckedPorts
<1>3. port \notin {None, 0} /\ (cli # None => port = OptionPort)
  BY CheckedPorts
<1>4. config[k] \in {Or(Or(file, cli), port),
                    IF Or(Or(file, cli), port) = 0 THEN None ELSE Or(Or(file, cli), port)}
  BY LaunchedFields DEF PortKeys
<1> HIDE DEF file, cli, port
<1>5. Or(Or(file, cli), port) = port
  BY <1>1, <1>2, <1>3 DEF Or
<1> QED BY <1>3, <1>4, <1>5 DEF port

(* The launcher knows where lokid listens.                                  *)
LEMMA ListensThere ==
  ASSUME GivenOK, config = Launched, lokid = ConfigureLokid(config), SameConf,
         config.net # "demo",
         NEW k \in PortKeys, k = "qun" => Version \notin {3, 4, 5}
  PROVE  Listens[k] = CheckedConfig[k]
<1> DEFINE file == ConfOptions(DirOf(LokidNet))[k]
           cli == CliOptions[k]
           port == CheckedConfig[k]
           default == Default(k, config.net)
<1>1. file \in {None, OptionPort} /\ cli \in {None, OptionPort}
  BY OptionValues
<1>2. port = config[k] /\ port \notin {None, 0} /\ (cli # None => port = OptionPort)
  BY LaunchedPorts, CheckedPorts
<1>3. DirOf(LokidNet) = DirOf(config.net) /\ Default(k, LokidNet) = default
  BY LaunchNets DEF DirOf, Default, DefaultRpc, DefaultP2p, DefaultQun
<1>4. file # None => port = OptionPort
  <2> SUFFICES ASSUME file # None PROVE port = OptionPort
    OBVIOUS
  <2>1. DirOf(LokidNet) = ConfDir
    BY OptionValues
  <2>2. FirstDir = ConfDir
    BY <1>3, <2>1, SetNetworkFields, FromDiskFields DEF SameConf, FirstDir, ReadDir
  <2> QED BY <2>1, <2>2, CheckedPorts
<1>5. lokid[k] \in {Or(cli, config[k]), Or(cli, Unless(default, config[k]))}
  BY DEF ConfigureLokid, CliOptions, PortKeys, Default
<1>6. Listens[k] = Or(lokid[k], Or(file, default))
  BY <1>3 DEF Listens, PortKeys, Default
<1>7. default # None
  BY DefaultPorts
<1> HIDE DEF file, cli, port, default
<1>8. Or(lokid[k], Or(file, default)) = port
  BY <1>1, <1>2, <1>4, <1>5, <1>7, NoneDiffers DEF Or, Unless
<1> QED BY <1>6, <1>8 DEF port

-----------------------------------------------------------------------------
(* The invariant.                                                           *)

LEMMA WriteGiven ==
  ASSUME GivenOK, Write
  PROVE  GivenOK'
<1>1. PICK s \in Settings \ DOMAIN given : \E v \in Values(s) :
        given' = [t \in DOMAIN given \cup {s} |-> IF t = s THEN v ELSE given[t]]
  BY DEF Write
<1>2. PICK v \in Values(s) :
        given' = [t \in DOMAIN given \cup {s} |-> IF t = s THEN v ELSE given[t]]
  BY <1>1
<1> QED BY <1>2 DEF GivenOK

(* The launch computes everything from given, which no longer changes.      *)
LEMMA ReadOptionsFixed ==
  ASSUME given' = given, NEW CONSTANT c
  PROVE  ReadOptions(c)' = ReadOptions(c)
<1>1. CliOptions' = CliOptions
  BY DEF CliOptions, Get
<1>2. ConfDir' = ConfDir
  BY DEF ConfDir, Get
<1>3. /\ Get("conf.net")' = Get("conf.net") /\ Get("conf.rpc")' = Get("conf.rpc")
      /\ Get("conf.p2p")' = Get("conf.p2p") /\ Get("conf.qun")' = Get("conf.qun")
  BY DEF Get
<1> DEFINE fromCli == SetNetwork(c, CliOptions)
           file == ConfOptions(DirOf(fromCli.net))
           options == [k \in DOMAIN file |-> Or(file[k], CliOptions[k])]
           read == [SetNetwork(fromCli, options) EXCEPT
                      !.rpc = Or(options.rpc, @), !.p2p = Or(options.p2p, @),
                      !.qun = Or(options.qun, @)]
<1>4. fromCli' = fromCli
  BY <1>1
<1> HIDE DEF fromCli
<1>5. file' = file
  BY <1>2, <1>3, <1>4 DEF ConfOptions
<1> HIDE DEF file
<1>6. options' = options
  BY <1>1, <1>5
<1> HIDE DEF options
<1>7. read' = read
  BY <1>4, <1>6
<1>8. ReadOptions(c) = read /\ ReadOptions(c)' = read'
  BY DEF ReadOptions, options, file, fromCli
<1> HIDE DEF read
<1> QED BY <1>7, <1>8

LEMMA CheckedFixed ==
  ASSUME given' = given
  PROVE  CheckedConfig' = CheckedConfig
<1>1. FromDisk' = FromDisk
  BY DEF FromDisk, Get
<1>2. Version' = Version
  BY DEF Version, Get
<1>3. ReadOptions(FromDisk)' = ReadOptions(FromDisk)
  BY <1>1, ReadOptionsFixed
<1>4. PrecheckConfig(FromDisk)' = PrecheckConfig(FromDisk)
  BY <1>3 DEF PrecheckConfig
<1>5. CheckLauncherConfig(PrecheckConfig(FromDisk))'
         = CheckLauncherConfig(PrecheckConfig(FromDisk))
  BY <1>2, <1>4 DEF CheckLauncherConfig
<1> DEFINE l == CheckLauncherConfig(PrecheckConfig(FromDisk))
<1>6. CheckBlockchainConfig(l)' = CheckBlockchainConfig(l)
  <2> HIDE DEF l
  <2> QED BY <1>2, <1>5 DEF l, CheckBlockchainConfig, LokidSocket
<1> QED BY <1>6 DEF CheckedConfig

LEMMA SetupFixed ==
  ASSUME given' = given, NEW CONSTANT c
  PROVE  SetupBlockchainForStart(c)' = SetupBlockchainForStart(c)
BY ReadOptionsFixed DEF SetupBlockchainForStart

LEMMA LokidFixed ==
  ASSUME given' = given, NEW CONSTANT c
  PROVE  ConfigureLokid(c)' = ConfigureLokid(c)
<1>1. /\ Get("--net")' = Get("--net") /\ Get("--rpc")' = Get("--rpc")
      /\ Get("--p2p")' = Get("--p2p") /\ Get("--qun")' = Get("--qun")
      /\ Version' = Version
  BY DEF Get, Version
<1> QED BY <1>1 DEF ConfigureLokid

LEMMA CInvHolds == Spec => []CInv
<1>1. Init => CInv
  BY DEF Init, CInv, GivenOK
<1>2. CInv /\ [Next]_vars => CInv'
  <2> SUFFICES ASSUME CInv, [Next]_vars PROVE CInv'
    OBVIOUS
  <2>1. CASE Write
    <3>1. stage' = "written"
      BY <2>1 DEF Write
    <3>2. GivenOK'
      BY <2>1, WriteGiven DEF CInv
    <3> QED BY <3>1, <3>2 DEF CInv
  <2>2. ASSUME given' = given
        PROVE  GivenOK' /\ CheckedConfig' = CheckedConfig
    BY <2>2, CheckedFixed DEF CInv, GivenOK
  <2>3. CASE Check
    <3>1. /\ given' = given /\ config' = CheckedConfig
          /\ stage' = (IF Conflicts(config') = {} THEN "checked" ELSE "refused")
      BY <2>3 DEF Check
    <3>2. GivenOK' /\ CheckedConfig' = CheckedConfig
      BY <2>2, <3>1
    <3>3. Conflicts(CheckedConfig)' = Conflicts(config')
      BY <3>1, <3>2
    <3> QED BY <3>1, <3>2, <3>3 DEF CInv
  <2>4. CASE Start
    <3>1. GivenOK' /\ CheckedConfig' = CheckedConfig
      BY <2>2, <2>4 DEF Start
    <3>2. /\ stage' = "launched" /\ Conflicts(CheckedConfig) = {}
          /\ config' = SetupBlockchainForStart(CheckedConfig)
          /\ lokid' = ConfigureLokid(config')
      BY <2>4 DEF CInv, Start
    <3>3. Conflicts(CheckedConfig)' = Conflicts(CheckedConfig)
      BY <3>1
    <3>4. SetupBlockchainForStart(CheckedConfig)' = SetupBlockchainForStart(CheckedConfig)
      BY <2>4, <3>1, SetupFixed DEF Start
    <3>5. ConfigureLokid(config)' = ConfigureLokid(config')
      BY <2>4, LokidFixed DEF Start
    <3> QED BY <3>1, <3>2, <3>3, <3>4, <3>5 DEF CInv
  <2>5. CASE UNCHANGED vars
    <3>1. GivenOK' /\ CheckedConfig' = CheckedConfig
      BY <2>2, <2>5 DEF vars
    <3>2. Conflicts(CheckedConfig)' = Conflicts(CheckedConfig)
      BY <3>1
    <3>3. SetupBlockchainForStart(CheckedConfig)' = SetupBlockchainForStart(CheckedConfig)
      BY <2>5, <3>1, SetupFixed DEF vars
    <3>4. ConfigureLokid(config)' = ConfigureLokid(config)
      BY <2>5, LokidFixed DEF vars
    <3> QED BY <2>5, <3>1, <3>2, <3>3, <3>4 DEF CInv, vars
  <2> QED BY <2>1, <2>3, <2>4, <2>5 DEF Next
<1> QED BY <1>1, <1>2, PTL DEF Spec

-----------------------------------------------------------------------------
(* The properties.                                                          *)

LEMMA OneOfEachType ==
  ASSUME NEW c, NEW l \in Configured(c), NEW m \in Configured(c),
         l.type = m.type
  PROVE  l = m
BY DEF Configured, Listener

(* What lokid, lokinet and an enabled storage server listen on was checked. *)
LEMMA RunningConfigured ==
  ASSUME GivenOK, config = Launched, lokid = ConfigureLokid(config), SameConf,
         config.net # "demo"
  PROVE  /\ Running \ StorageListens \subseteq Configured(CheckedConfig)
         /\ config.storage => StorageListens \subseteq Configured(CheckedConfig)
<1> DEFINE c == CheckedConfig
<1>1. /\ Listens.p2p = c.p2p /\ Listens.rpc = c.rpc
      /\ Version \notin {3, 4, 5} => Listens.qun = c.qun
  BY ListensThere DEF PortKeys
<1>2. /\ config.p2pIp = c.p2pIp /\ config.rpcIp = c.rpcIp /\ config.qunIp = c.qunIp
      /\ config.lokinet = c.lokinet /\ config.lokinetRpc = c.lokinetRpc
      /\ config.storage = c.storage /\ config.storagePort = c.storagePort
      /\ config.lmqPort = c.lmqPort
  BY LaunchedFields DEF Fields, PortKeys
<1>3. c.storage => c.storagePort # None
  BY CheckedFields, NoneAssumption DEF Or
<1> HIDE DEF c
<1>4. {l \in Configured(config) : l.type = "lokinet"} \subseteq Configured(c)
  BY <1>2 DEF Configured, Listener
<1>5. /\ Listener("p2p", config.p2pIp, Listens.p2p) \in Configured(c)
      /\ Listener("rpc", config.rpcIp, Listens.rpc) \in Configured(c)
      /\ Version \notin {3, 4, 5}
           => Listener("qun", config.qunIp, Listens.qun) \in Configured(c)
  BY <1>1, <1>2 DEF Configured
<1>6. Running \ StorageListens \subseteq Configured(c)
  BY <1>4, <1>5 DEF Running
<1>7. ASSUME config.storage PROVE StorageListens \subseteq Configured(c)
  <2>1. StoragePort(config) = c.storagePort
    BY <1>2, <1>3, <1>7 DEF StoragePort, Or
  <2>2. /\ Listener("storage", Any, StoragePort(config)) \in Configured(c)
        /\ Listener("lmq", Any, config.lmqPort) \in Configured(c)
    BY <1>2, <1>7, <2>1 DEF Configured
  <2> QED BY <2>2 DEF StorageListens
<1> QED BY <1>6, <1>7 DEF c

(* A configuration the checks let pass is launched without two programs on  *)
(* one port of one address, for all ports and versions and whatever was     *)
(* set; the cases NoClash leaves out are the demo network, a loki.conf that *)
(* only the second reading finds, and the storage server that is launched   *)
(* although it is disabled (config.js:848-895, daemon.js:686, 1184).        *)
THEOREM NoClashHolds == Spec => []NoClash
<1>1. CInv => NoClash
  <2> SUFFICES ASSUME CInv, stage = "launched", config.net # "demo", SameConf,
                      NEW l \in IF config.storage THEN Running
                               ELSE Running \ StorageListens,
                      NEW m \in IF config.storage THEN Running
                               ELSE Running \ StorageListens,
                      l # m, l.port = m.port,
                      Any \in {l.ip, m.ip} \/ l.ip = m.ip
               PROVE  FALSE
    BY DEF NoClash, Apart
  <2> DEFINE c == CheckedConfig
  <2>1. l \in Configured(c) /\ m \in Configured(c)
    BY RunningConfigured DEF CInv, Launched
  <2>2. Conflicts(c) = {}
    BY DEF CInv
  <2> HIDE DEF c
  <2>3. l.type # m.type
    BY <2>1, OneOfEachType
  <2>4. l \in Conflicts(c) \/ m \in Conflicts(c)
    BY <2>1, <2>3 DEF Conflicts, Any, Local
  <2> QED BY <2>2, <2>4
<1> QED BY <1>1, CInvHolds, PTL

(* The launcher, and a storage server that asks by port, ask lokid's RPC    *)
(* server where it listens, lokinet asks at lokid's socket, and so does a   *)
(* storage server of mainnet, and the enabled daemons are on one network    *)
(* (config.js:541-744, start.js:55, daemon.js:285-303, 1150-1187).          *)
THEOREM SuiteAgreesHolds == Spec => []SuiteAgrees
<1>1. CInv => SuiteAgrees
  <2> SUFFICES ASSUME CInv, stage = "launched"
               PROVE  RpcAgrees /\ NetworkAgrees /\ SocketAgrees
    BY DEF SuiteAgrees
  <2> DEFINE c == CheckedConfig
  <2>1. GivenOK /\ config = Launched /\ lokid = ConfigureLokid(config)
    BY DEF CInv, Launched
  <2>2. /\ config.storage = c.storage /\ config.storageRpc = c.storageRpc
        /\ config.storageTestnet = c.storageTestnet
        /\ config.storageSocket = c.storageSocket
        /\ config.zmqSocket = c.zmqSocket /\ config.lokinet = c.lokinet
        /\ config.lokinetTestnet = c.lokinetTestnet
    BY <2>1, LaunchedFields DEF Fields, PortKeys
  <2>3. RpcAgrees
    <3> SUFFICES ASSUME config.net # "demo", SameConf
                 PROVE  /\ config.rpc = Listens.rpc
                        /\ config.storage => config.storageRpc = Listens.rpc
      BY DEF RpcAgrees, AsksAtPort
    <3>1. config.rpc = c.rpc
      BY <2>1, LaunchedPorts DEF PortKeys
    <3>2. Listens.rpc = c.rpc
      BY <2>1, ListensThere DEF PortKeys
    <3>3. c.storage => c.storageRpc = c.rpc
      BY <2>1, CheckedFields
    <3> HIDE DEF c
    <3> QED BY <2>2, <3>1, <3>2, <3>3
  <2>4. NetworkAgrees
    <3>1. IsTestnet(c) <=> LokidNet = "test"
      BY <2>1, LaunchNets
    <3>2. /\ c.lokinet => c.lokinetTestnet = IsTestnet(c)
          /\ c.storage => c.storageTestnet = IsTestnet(c)
      BY <2>1, CheckedFields
    <3> HIDE DEF c
    <3> QED BY <2>2, <3>1, <3>2 DEF NetworkAgrees
  <2>5. SocketAgrees
    <3>1. c.zmqSocket = LokidSocket(LokidNet)
      <4>1. c.zmqSocket = LokidSocket(c.net)
        BY <2>1, CheckedFields
      <4>2. DirOf(c.net) = DirOf(LokidNet)
        BY <2>1, LaunchNets
      <4> HIDE DEF c
      <4> QED BY <4>1, <4>2 DEF LokidSocket
    <3>2. c.storage => c.storageSocket = Socket("main", "oxend.sock")
      BY <2>1, CheckedFields
    <3> HIDE DEF c
    <3>3. Version = 9 /\ LokidNet = "main"
            => LokidSocket(LokidNet) = Socket("main", "oxend.sock")
      BY DEF LokidSocket, DirOf
    <3> QED BY <2>2, <3>1, <3>2, <3>3 DEF SocketAgrees, AsksAtSocket
  <2> QED BY <2>3, <2>4, <2>5
<1> QED BY <1>1, CInvHolds, PTL

LEMMA DefaultsDiffer ==
  ASSUME GivenOK, DOMAIN given \cap (PortSettings \cup OptionPorts) = {},
         NEW l \in Configured(CheckedConfig), NEW m \in Configured(CheckedConfig),
         l.type # m.type
  PROVE  l.port # m.port
<1> DEFINE c == CheckedConfig
           r == ReadOptions(FromDisk)
           port == [p2p |-> DefaultP2p(c.net), rpc |-> DefaultRpc(c.net),
                    qun |-> DefaultQun(c.net), lokinet |-> 1190,
                    storage |-> IF IsTestnet(c) THEN 38155 ELSE 22021,
                    lmq |-> IF IsTestnet(c) THEN 38154 ELSE 22020]
<1>1. \A s \in PortSettings \cup OptionPorts : Get(s) = None
  BY DEF Get
<1>2. /\ r.rpc = None /\ r.p2p = None /\ r.qun = None
      /\ r.lokinetRpc = None /\ r.storagePort = None /\ r.lmqPort = None
  <2>1. \A k \in PortKeys : CliOptions[k] = None /\ ConfOptions(FirstDir)[k] = None
    BY <1>1 DEF CliOptions, ConfOptions, PortKeys, OptionPorts
  <2>2. \A k \in PortKeys : r[k] = FromDisk[k]
    BY <2>1, ReadOptionsFields, FromDiskFields DEF FirstDir, Or
  <2>3. \A f \in {"lokinetRpc", "storagePort", "lmqPort"} : r[f] = FromDisk[f]
    BY ReadOptionsFields, FromDiskFields DEF Fields, PortKeys
  <2> HIDE DEF r
  <2> QED BY <1>1, <2>2, <2>3, FromDiskFields DEF PortKeys, PortSettings
<1>3. /\ c.p2p = port.p2p /\ c.rpc = port.rpc /\ c.qun = port.qun
      /\ c.lokinet => c.lokinetRpc = port.lokinet
      /\ c.storage => c.storagePort = port.storage /\ c.lmqPort = port.lmq
  <2> HIDE DEF r
  <2> QED BY <1>2, CheckedFields DEF Fill, Or, r
<1> HIDE DEF c
<1>4. \A x \in Configured(c) : x.type \in DOMAIN port /\ x.port = port[x.type]
  <2> HIDE DEF port
  <2>1. DOMAIN port = {"p2p", "rpc", "qun", "lokinet", "storage", "lmq"}
    BY DEF port
  <2> QED BY <1>3, <2>1 DEF Configured, Listener
<1>5. \A t, u \in DOMAIN port : t # u => port[t] # port[u]
  <2>1. CASE c.net = "test"
    BY <2>1 DEF DefaultP2p, DefaultRpc, DefaultQun, IsTestnet
  <2>2. CASE c.net = "demo"
    BY <2>2 DEF DefaultP2p, DefaultRpc, DefaultQun, IsTestnet
  <2>3. CASE c.net = "staging"
    BY <2>3 DEF DefaultP2p, DefaultRpc, DefaultQun, IsTestnet
  <2>4. CASE c.net \notin {"test", "demo", "staging"}
    BY <2>4 DEF DefaultP2p, DefaultRpc, DefaultQun, IsTestnet
  <2> QED BY <2>1, <2>2, <2>3, <2>4
<1> HIDE DEF port
<1> QED BY <1>4, <1>5 DEF c

(* The default ports of no network and no version conflict: only a port the *)
(* user names gets a configuration refused (config.js:589-744, 984-1003).   *)
THEOREM DefaultsAcceptedHolds == Spec => []DefaultsAccepted
<1>1. CInv => DefaultsAccepted
  <2> SUFFICES ASSUME CInv, stage = "refused",
                      DOMAIN given \cap (PortSettings \cup OptionPorts) = {}
               PROVE  FALSE
    BY DEF DefaultsAccepted
  <2>1. GivenOK /\ Conflicts(CheckedConfig) # {}
    BY DEF CInv
  <2>2. \A l, m \in Configured(CheckedConfig) : l.type # m.type => l.port # m.port
    BY <2>1, DefaultsDiffer
  <2>3. Conflicts(CheckedConfig) = {}
    BY <2>2 DEF Conflicts
  <2> QED BY <2>1, <2>3
<1> QED BY <1>1, CInvHolds, PTL
=============================================================================
