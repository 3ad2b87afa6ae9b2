----------------------------- MODULE LokinetIni -----------------------------
(***************************************************************************)
(* How lokinet gets its configuration (lokinet.js): generateINI starts six *)
(* lookups, each reports to markDone when its callback runs, and the last  *)
(* of them drafts the ini file, once.  Then Lokinet goes on: a step of     *)
(* this module is a step of Lokinet or leaves its variables alone.         *)
(*                                                                         *)
(* Lookups: the bootstrap file (httpGet), the upstream resolvers           *)
(* (readResolv), lokinet's RPC port (httpGet), an address for its DNS      *)
(* server (findFreePort53), the network interface (getNetworkIP) and the   *)
(* public address (getPublicIPv4: two services have to agree).             *)
(***************************************************************************)
EXTENDS Lokinet, FiniteSets

CONSTANTS
  Address,        \* addresses a public IP service may give
  LocalResolver,  \* this host's own addresses in resolv.conf
  Candidates,     \* addresses tried for lokinet's DNS server (3)
  MaxIpRetries    \* disagreements about the public address tolerated (50)

ASSUME IniAssumption ==
  /\ Candidates \in Nat \ {0} /\ MaxIpRetries \in Nat
  /\ IsFiniteSet(LocalResolver)
  /\ {"", "none", "out", "unused", "undefined", "configured", "private"} \cap Address = {}

VARIABLES
  dns_ip,         \* an address for the DNS server is configured
  done,           \* the lookups that called markDone
  fired,          \* genSnCallbackFired
  requests,       \* the httpGet calls under way
  resolvers,      \* local resolvers that have not told if they are lokinet
  checksLeft,     \* readResolv's counter
  servers,        \* the local resolvers that are not lokinet
  rounds,         \* getPublicIPv4: each call's two answers
  ipRetries,      \* getPublicIPv4_retries
  socket,         \* getNetworkIP's: "connecting", "ending", "over"
  scans,          \* findFreePort53: the candidate each call asks, or 0
  params,         \* the results that the lookups share
  draft,          \* the ini file: one or none
  threw           \* an exception has made the ini impossible

lookupVars == <<requests, resolvers, checksLeft, servers, rounds, ipRetries,
                socket, scans>>
joinVars == <<dns_ip, done, fired, params, draft, threw>>
iniVars == <<lookupVars, joinVars>>

Lookup == {"bootstrap", "upstream", "rpcCheck", "dnsBind", "netIf", "publicIP"}
Answer == Address \cup {""}
Interface == Address \cup {"private"}
Round == 1..(MaxIpRetries + 1)
Service == {1, 2}
Scan == {1, 2}
Params == [bootstrap : BOOLEAN, upstream : SUBSET LocalResolver,
           free53Ip : 0..Candidates, interfaceIP : Interface \cup {"undefined"},
           publicIP : Answer \cup {"undefined"}]
ConfiguredBind == Candidates + 1

IniTypeOK ==
  /\ TypeOK
  /\ dns_ip \in BOOLEAN
  /\ done \subseteq Lookup /\ fired \in BOOLEAN
  /\ requests \subseteq {"bootstrap", "rpcCheck"}
  /\ resolvers \subseteq LocalResolver /\ servers \subseteq LocalResolver
  /\ checksLeft \in 0..Cardinality(LocalResolver)
  /\ rounds \in [Round -> [Service -> Answer \cup {"out", "unused"}]]
  /\ ipRetries \in 0..(MaxIpRetries + 2)
  /\ socket \in {"connecting", "ending", "over"}
  /\ scans \in [Scan -> 0..Candidates]
  /\ params \in Params
  /\ fired => draft # {} \/ threw \/ exited
  /\ threw \in BOOLEAN

\* generateINI: what is configured is done at once, the rest is asked for.
IniInit ==
  /\ Init
  /\ dns_ip \in BOOLEAN
  /\ requests \in {{"rpcCheck"}, {"rpcCheck", "bootstrap"}}
  /\ done = ({"bootstrap"} \ requests) \cup (IF dns_ip THEN {"dnsBind"} ELSE {})
                                       \cup (IF LocalResolver = {} THEN {"upstream"} ELSE {})
  /\ fired = FALSE
  /\ resolvers = LocalResolver /\ servers = {}
  /\ checksLeft = Cardinality(LocalResolver)
  /\ rounds = [r \in Round |-> [i \in Service |-> IF r = 1 THEN "out" ELSE "unused"]]
  /\ ipRetries = 0
  /\ socket = "connecting"
  /\ scans = [s \in Scan |-> 0]
  /\ params = [bootstrap |-> "bootstrap" \in done, upstream |-> {},
               free53Ip |-> 0, interfaceIP |-> "undefined", publicIP |-> "undefined"]
  /\ draft = {} /\ threw = FALSE
---------------------------------------------------------------------------
(* The join. *)

\* The address lokinet tells other routers: none if the interface has it.
publicAddress(p) == IF p.publicIP # p.interfaceIP THEN p.publicIP ELSE "none"

\* forceNatOff and public_ip override it.
applyConfig(p, address) ==
  [address |-> address, upstream |-> p.upstream,
   bind |-> IF dns_ip THEN ConfiguredBind ELSE p.free53Ip]

\* Without a way to bootstrap the launcher exits; with network.profiling alone
\* applyConfig throws for an ini of lokinet 0.8, which has no network section.
\* Both, like the way to bootstrap and the seed mode, are the user's choice,
\* which is read here only.
Draft(p) ==
  \/ /\ threw' = TRUE
     /\ UNCHANGED <<draft, vars>>
  \/ /\ \E address \in {publicAddress(p), "none", "configured"} :
          draft' = {applyConfig(p, address)}
     /\ preLaunchLokinet
     /\ UNCHANGED threw
  \/ /\ ~p.bootstrap
     /\ IniExits
     /\ UNCHANGED <<draft, threw>>

\* A lookup tells its result p; some do so again later on.
markDone(lookup, p) ==
  /\ params' = p
  /\ done' = done \cup {lookup}
  /\ IF shuttingDown \/ fired \/ ~(done' = Lookup)
     THEN UNCHANGED <<fired, draft, threw, vars>>
     ELSE fired' = TRUE /\ Draft(p)
  /\ UNCHANGED dns_ip

Silent == UNCHANGED <<joinVars, vars>>
---------------------------------------------------------------------------
(* The lookups. *)

BootstrapAnswers ==
  /\ "bootstrap" \in requests
  /\ requests' = requests \ {"bootstrap"}
  /\ \E found \in BOOLEAN : markDone("bootstrap", [params EXCEPT !.bootstrap = found])
  /\ UNCHANGED <<resolvers, checksLeft, servers, rounds, ipRetries, socket, scans>>

\* If anything answers there, lokinet gets the next port, which is not asked.
RpcPortAnswers ==
  /\ "rpcCheck" \in requests
  /\ requests' = requests \ {"rpcCheck"}
  /\ markDone("rpcCheck", params)
  /\ UNCHANGED <<resolvers, checksLeft, servers, rounds, ipRetries, socket, scans>>

ResolverAnswers_OffByOne(r) ==
  /\ r \in resolvers
  /\ resolvers' = resolvers \ {r}
  /\ \E isLokinet \in BOOLEAN : servers' = IF isLokinet THEN servers ELSE servers \cup {r}
  /\ checksLeft' = checksLeft - 1
  /\ IF checksLeft' > 1 THEN Silent
     ELSE markDone("upstream", [params EXCEPT !.upstream = servers'])
  /\ UNCHANGED <<requests, rounds, ipRetries, socket, scans>>

\* The name localhost.loki resolves, or not.
ResolverAnswers(r) ==
  /\ r \in resolvers
  /\ resolvers' = resolvers \ {r}
  /\ \E isLokinet \in BOOLEAN : servers' = IF isLokinet THEN servers ELSE servers \cup {r}
  /\ checksLeft' = IF shuttingDown THEN checksLeft ELSE checksLeft - 1
  /\ IF shuttingDown \/ checksLeft' > 0 THEN Silent
     ELSE markDone("upstream", [params EXCEPT !.upstream = servers'])
  /\ UNCHANGED <<requests, rounds, ipRetries, socket, scans>>

CallsBack_First(r, i, value, n) ==
  /\ rounds[r][i] = "out"
  /\ rounds' = [rounds EXCEPT ![r][i] = value]
  /\ markDone("publicIP", [params EXCEPT !.publicIP = value])
  /\ UNCHANGED <<requests, resolvers, checksLeft, servers, ipRetries, socket, scans>>

CallsBack_GivesUp(r, i, value, n) ==
  /\ rounds[r][i] = "out"
  /\ LET answered == [rounds EXCEPT ![r][i] = value]
         pair == answered[r]
     IN  /\ rounds' = answered
         /\ IF pair[1] = pair[2]
            THEN markDone("publicIP", [params EXCEPT !.publicIP = value])
            ELSE Silent
  /\ UNCHANGED <<requests, resolvers, checksLeft, servers, ipRetries, socket, scans>>

\* A service's answer, of which its callback tells n times.  Once both services
\* of a round have answered, they agree, or another round is asked.
CallsBack(r, i, value, n) ==
  /\ rounds[r][i] = "out"
  /\ LET answered == [rounds EXCEPT ![r][i] = value]
         pair == answered[r]
         again == (ipRetries + 2)..(ipRetries + n + 1)
     IN  \/ /\ "out" \in {pair[1], pair[2]}
            /\ rounds' = answered
            /\ Silent /\ UNCHANGED ipRetries
         \/ /\ "out" \notin {pair[1], pair[2]} /\ pair[1] = pair[2]
            /\ rounds' = answered
            /\ markDone("publicIP", [params EXCEPT !.publicIP = value])
            /\ UNCHANGED ipRetries
         \/ /\ "out" \notin {pair[1], pair[2]} /\ pair[1] # pair[2]
            /\ ipRetries' = ipRetries + n
            /\ rounds' = [q \in Round |-> IF q \in again THEN [j \in Service |-> "out"]
                                                        ELSE answered[q]]
            /\ IF ipRetries' > MaxIpRetries THEN IniExits ELSE UNCHANGED vars
            /\ UNCHANGED joinVars
  /\ UNCHANGED <<requests, resolvers, checksLeft, servers, socket, scans>>

\* An error, and a page that is not there, make the answer ''.
ServiceAnswers(r, i) == \E value \in Answer : CallsBack(r, i, value, 1)

\* httpGet's watchdog aborts a request after stop(): it calls back, and the
\* abort raises an error, which calls back again.
WatchdogAborts(r, i) == shuttingDown /\ CallsBack(r, i, "", 2)

\* generateINI's callback of getNetworkIP, with an address.
Detected(a) ==
  /\ markDone("netIf", [params EXCEPT !.interfaceIP = a])
  /\ scans' = IF dns_ip THEN scans
              ELSE [scans EXCEPT ![IF socket = "connecting" THEN 1 ELSE 2] = 1]
  /\ UNCHANGED <<requests, resolvers, checksLeft, servers, rounds, ipRetries>>

Connected ==
  /\ socket = "connecting" /\ socket' = "ending"
  /\ \E a \in Interface : Detected(a)

\* The socket has an address; it may have told it already.
TimesOut ==
  /\ socket \in {"connecting", "ending"} /\ socket' = "over"
  /\ \E a \in Interface : Detected(a)

\* generateINI's callback then reads a variable "done" that is not in scope.
ConnectFails ==
  /\ socket \in {"connecting", "ending"} /\ socket' = "over"
  /\ threw' = (threw \/ socket = "connecting")
  /\ UNCHANGED <<requests, resolvers, checksLeft, servers, rounds, ipRetries, scans,
                 dns_ip, done, fired, params, draft, vars>>

\* An address is free if no DNS server answers there.
CandidateAnswers(s) ==
  /\ scans[s] # 0
  /\ \/ /\ scans' = [scans EXCEPT ![s] = 0]
        /\ markDone("dnsBind", [params EXCEPT !.free53Ip = scans[s]])
     \/ /\ scans[s] < Candidates
        /\ scans' = [scans EXCEPT ![s] = @ + 1]
        /\ Silent
     \/ /\ scans[s] = Candidates
        /\ scans' = [scans EXCEPT ![s] = 0]
        /\ IniExits /\ UNCHANGED joinVars
  /\ UNCHANGED <<requests, resolvers, checksLeft, servers, rounds, ipRetries, socket>>
---------------------------------------------------------------------------
LookupStep ==
  \/ BootstrapAnswers \/ RpcPortAnswers
  \/ \E r \in LocalResolver : ResolverAnswers(r)
  \/ \E r \in Round, i \in Service : ServiceAnswers(r, i) \/ WatchdogAborts(r, i)
  \/ Connected \/ TimesOut \/ ConnectFails
  \/ \E s \in Scan : CandidateAnswers(s)

IniNext ==
  \/ ~exited /\ LookupStep
  \/ ~exited /\ Supervision /\ UNCHANGED iniVars
  \/ (\E p \in Pid : LokinetExits(p)) /\ UNCHANGED iniVars

IniSpec == IniInit /\ [][IniNext]_<<vars, iniVars>>

\* The network answers each question: httpGet itself has no timeout that ends
\* a request, and the resolvers and the connection do.
LookupsAnswer ==
  /\ WF_iniVars(~exited /\ BootstrapAnswers)
  /\ WF_iniVars(~exited /\ RpcPortAnswers)
  /\ \A r \in LocalResolver : WF_iniVars(~exited /\ ResolverAnswers(r))
  /\ \A r \in Round, i \in Service : WF_iniVars(~exited /\ ServiceAnswers(r, i))
  /\ WF_iniVars(~exited /\ socket = "connecting" /\ (Connected \/ TimesOut \/ ConnectFails))
  /\ \A s \in Scan : WF_iniVars(~exited /\ CandidateAnswers(s))

LiveIniSpec == IniSpec /\ Fairness /\ SigkillWorks /\ LookupsAnswer
---------------------------------------------------------------------------
\* The ini file is drafted from all lookups, whatever order they end in: every
\* local resolver has told what it is, there is an address for the DNS server,
\* and a public address was asked for (lokinet.js:801-826, 449-456, 660-674).
DraftComplete ==
  \A ini \in draft :
    /\ resolvers = {} /\ ini.upstream = servers
    /\ ini.bind # 0 /\ ini.address # "undefined"

Told(a) == \E r \in Round : \A i \in Service : rounds[r][i] = a

\* The address lokinet tells others is one that two services of the same round
\* gave, not one that only one of them did (lokinet.js:254-271).
AddressTold == \A ini \in draft : ini.address \in Address => Told(ini.address)

\* Lookups that are all answered end in a configuration or in an exit, unless
\* an exception gets in the way (lokinet.js:797-826, 259-266, 668-676).
IniSettles ==
  startup = "ini" ~> startup # "ini" \/ shuttingDown \/ exited \/ threw
---------------------------------------------------------------------------
(* The inductive invariant behind DraftComplete and AddressTold. *)

Asked ==
  /\ resolvers \subseteq LocalResolver /\ servers \subseteq LocalResolver
  /\ checksLeft \in Nat /\ Cardinality(resolvers) <= checksLeft
  /\ scans \in [Scan -> 0..Candidates]

\* The rounds after the last one have not begun.
Rounds ==
  /\ rounds \in [Round -> [Service -> Answer \cup {"out", "unused"}]]
  /\ ipRetries \in Nat
  /\ \A r \in Round : r > ipRetries + 1 => \A i \in Service : rounds[r][i] = "unused"

\* What a lookup has told is in the shared results.
Results ==
  /\ params \in Params
  /\ params.publicIP \in Address => Told(params.publicIP)
  /\ "upstream" \in done => resolvers = {} /\ params.upstream = servers
  /\ "dnsBind" \in done => dns_ip \/ params.free53Ip # 0
  /\ "publicIP" \in done => params.publicIP # "undefined"

JoinInv == Asked /\ Rounds /\ Results /\ DraftComplete /\ AddressTold
===========================================================================
