-------------------------- MODULE LokinetIniProofs --------------------------
(***************************************************************************)
(* Proofs about LokinetIni.  The lookups are a refinement of Lokinet: a    *)
(* step of theirs drafts the configuration, exits or leaves Lokinet alone, *)
(* so that what LokinetProofs shows of Lokinet holds with them, too.       *)
(***************************************************************************)
EXTENDS LokinetIni, LokinetProofs, FiniteSetTheorems

\* What a lookup does to Lokinet.
LEMMA JoinStep ==
  ASSUME NEW lookup, NEW p, markDone(lookup, p)
  PROVE  preLaunchLokinet \/ IniExits \/ UNCHANGED vars
BY DEF markDone, Draft

LEMMA CallsBackStep ==
  ASSUME NEW r \in Round, NEW i \in Service, NEW value, NEW n, CallsBack(r, i, value, n)
  PROVE  preLaunchLokinet \/ IniExits \/ UNCHANGED vars
<1> DEFINE answered == [rounds EXCEPT ![r][i] = value]
           pair == answered[r]
<1>1. CASE Silent
  BY <1>1 DEF Silent
<1>2. CASE markDone("publicIP", [params EXCEPT !.publicIP = value])
  BY <1>2, JoinStep
<1>3. CASE IF ipRetries' > MaxIpRetries THEN IniExits ELSE UNCHANGED vars
  BY <1>3
<1>4. QED BY <1>1, <1>2, <1>3 DEF CallsBack

LEMMA LookupStepRefines ==
  LookupStep => preLaunchLokinet \/ IniExits \/ UNCHANGED vars
<1> SUFFICES ASSUME LookupStep PROVE preLaunchLokinet \/ IniExits \/ UNCHANGED vars
  OBVIOUS
<1>1. CASE BootstrapAnswers \/ RpcPortAnswers
  BY <1>1, JoinStep DEF BootstrapAnswers, RpcPortAnswers
<1>2. ASSUME NEW r \in LocalResolver, ResolverAnswers(r)
      PROVE  preLaunchLokinet \/ IniExits \/ UNCHANGED vars
  BY <1>2, JoinStep DEF ResolverAnswers, Silent
<1>3. ASSUME NEW r \in Round, NEW i \in Service,
             ServiceAnswers(r, i) \/ WatchdogAborts(r, i)
      PROVE  preLaunchLokinet \/ IniExits \/ UNCHANGED vars
  BY <1>3, CallsBackStep DEF ServiceAnswers, WatchdogAborts
<1>4. CASE Connected \/ TimesOut
  BY <1>4, JoinStep DEF Connected, TimesOut, Detected
<1>5. CASE ConnectFails
  BY <1>5 DEF ConnectFails
<1>6. ASSUME NEW s \in Scan, CandidateAnswers(s)
      PROVE  preLaunchLokinet \/ IniExits \/ UNCHANGED vars
  BY <1>6, JoinStep DEF CandidateAnswers, Silent
<1>7. QED BY <1>1, <1>2, <1>3, <1>4, <1>5, <1>6 DEF LookupStep
---------------------------------------------------------------------------
\* lokinet with its lookups is lokinet as Lokinet has it: the configuration is
\* drafted at most once, and no late lookup disturbs the supervision.
THEOREM IniImplements == IniSpec => Spec
<1>1. IniInit => Init
  BY DEF IniInit
<1>2. [IniNext]_<<vars, iniVars>> => [Next]_vars
  <2> SUFFICES ASSUME [IniNext]_<<vars, iniVars>> PROVE Next \/ UNCHANGED vars
    OBVIOUS
  <2>1. CASE ~exited /\ LookupStep
    BY <2>1, LookupStepRefines DEF Next
  <2>2. CASE ~exited /\ Supervision
    BY <2>2 DEF Next
  <2>3. CASE \E p \in Pid : LokinetExits(p)
    BY <2>3 DEF Next
  <2>4. CASE UNCHANGED <<vars, iniVars>>
    BY <2>4
  <2>5. QED BY <2>1, <2>2, <2>3, <2>4 DEF IniNext
<1>3. QED BY <1>1, <1>2, PTL DEF IniSpec, Spec

\* One lokinet, the handle's, also with lookups that call back late or twice.
THEOREM IniManaged == IniSpec => []LokinetManaged
BY IniImplements, Managed, PTL

\* The grace period of stop holds with the lookups under way.
THEOREM IniGrace == IniSpec => []GraceGiven
BY IniImplements, Grace, PTL

\* The whole of lokinet, configuration included, is a supervised daemon.
THEOREM IniRefinement == IniSpec => ImplementsDaemon
BY IniImplements, Refinement, PTL
---------------------------------------------------------------------------
(* The join. *)

LEMMA IniConstants ==
  Candidates \in Nat /\ Candidates # 0 /\ MaxIpRetries \in Nat
BY IniAssumption

LEMMA IniInitInv == IniInit => JoinInv
<1> SUFFICES ASSUME IniInit PROVE JoinInv
  OBVIOUS
<1>1. Cardinality(LocalResolver) \in Nat
  BY IniAssumption, FS_CardinalityType
<1>2. Asked
  <2>1. resolvers = LocalResolver /\ checksLeft = Cardinality(LocalResolver)
    BY DEF IniInit
  <2>2. scans = [s \in Scan |-> 0]
    BY DEF IniInit
  <2>3. scans \in [Scan -> 0..Candidates]
    BY <2>2, IniConstants
  <2>4. servers = {}
    BY DEF IniInit
  <2>5. QED BY <1>1, <2>1, <2>3, <2>4 DEF Asked
<1>3. Rounds
  <2>1. /\ ipRetries = 0
        /\ rounds = [r \in Round |-> [i \in Service |-> IF r = 1 THEN "out" ELSE "unused"]]
    BY DEF IniInit
  <2>2. rounds \in [Round -> [Service -> Answer \cup {"out", "unused"}]]
    BY <2>1
  <2>3. \A r \in Round : r > 1 => r # 1
    BY IniConstants DEF Round
  <2>4. QED BY <2>1, <2>2, <2>3 DEF Rounds
<1>4. params \in Params
  <2> DEFINE local == "bootstrap" \in done
  <2>1. params = [bootstrap |-> local, upstream |-> {}, free53Ip |-> 0,
                  interfaceIP |-> "undefined", publicIP |-> "undefined"]
    BY DEF IniInit
  <2>2. local \in BOOLEAN
    OBVIOUS
  <2>3. 0 \in 0..Candidates
    BY IniConstants
  <2> HIDE DEF local
  <2>4. QED BY <2>1, <2>2, <2>3 DEF Params
<1>5. Results
  BY <1>4, IniAssumption DEF Results, IniInit
<1>6. draft = {}
  BY DEF IniInit
<1>7. QED BY <1>2, <1>3, <1>5, <1>6 DEF JoinInv, DraftComplete, AddressTold

\* What a lookup told stays true in a step that asks no resolver anew and
\* touches no round in which two services agree.
Stable ==
  /\ resolvers = {} => resolvers' = {} /\ servers' = servers
  /\ \A a \in Address : Told(a) => Told(a)'
  /\ dns_ip' = dns_ip

LEMMA DraftKept ==
  ASSUME Stable, DraftComplete, AddressTold, UNCHANGED draft
  PROVE  DraftComplete' /\ AddressTold'
BY DEF Stable, DraftComplete, AddressTold

\* The invariant after a lookup has called markDone.
LEMMA JoinSound ==
  ASSUME NEW lookup \in Lookup, NEW p, markDone(lookup, p), Stable, Results',
         DraftComplete, AddressTold
  PROVE  DraftComplete' /\ AddressTold'
<1>1. CASE UNCHANGED draft
  BY <1>1, DraftKept
<1>2. CASE \E a \in {publicAddress(p), "none", "configured"} : draft' = {applyConfig(p, a)}
  <2>1. CASE done' = Lookup
    <3>1. PICK a \in {publicAddress(p), "none", "configured"} : draft' = {applyConfig(p, a)}
      BY <1>2
    <3>2. /\ params' = p /\ p \in Params /\ dns_ip' = dns_ip
          /\ p.publicIP \in Address => Told(p.publicIP)'
          /\ resolvers' = {} /\ p.upstream = servers'
          /\ dns_ip \/ p.free53Ip # 0
          /\ p.publicIP # "undefined"
      BY <2>1 DEF markDone, Results, Lookup
    <3>3. a # "undefined" /\ (a \in Address => a = p.publicIP)
      BY <3>2, IniAssumption DEF publicAddress
    <3>4. ConfiguredBind # 0
      BY IniConstants DEF ConfiguredBind
    <3>5. DraftComplete'
      BY <3>1, <3>2, <3>3, <3>4 DEF DraftComplete, applyConfig
    <3>6. AddressTold'
      <4>1. SUFFICES ASSUME NEW ini \in draft', ini.address \in Address
                     PROVE  Told(ini.address)'
        BY DEF AddressTold
      <4>2. ini.address = a
        BY <3>1 DEF applyConfig
      <4>3. ini.address = p.publicIP /\ p.publicIP \in Address
        BY <3>3, <4>1, <4>2
      <4>4. QED BY <3>2, <4>3 DEF Told
    <3>7. QED BY <3>5, <3>6
  <2>2. CASE done' # Lookup
    BY <2>2, DraftKept DEF markDone
  <2>3. QED BY <2>1, <2>2
<1>3. QED BY <1>1, <1>2 DEF markDone, Draft

\* A lookup other than the public address leaves the rounds alone.
LEMMA RoundsKept ==
  ASSUME Rounds, UNCHANGED <<rounds, ipRetries>>
  PROVE  Rounds' /\ \A a : Told(a) => Told(a)'
BY DEF Rounds, Told

LEMMA JoinLeft ==
  ASSUME JoinInv, UNCHANGED joinVars, Stable, Rounds', Asked'
  PROVE  JoinInv'
<1>1. DraftComplete' /\ AddressTold'
  BY DraftKept DEF JoinInv, joinVars
<1>2. UNCHANGED <<params, done, dns_ip>>
  BY DEF joinVars
<1>3. params.publicIP \in Address => Told(params.publicIP)'
  BY <1>2 DEF JoinInv, Results, Stable, Told
<1>4. Results'
  <2>1. params' \in Params /\ (params'.publicIP \in Address => Told(params.publicIP)')
    BY <1>2, <1>3 DEF JoinInv, Results
  <2>2. params'.publicIP \in Address => Told(params.publicIP)'
    BY <1>2, <2>1 DEF Told
  <2>3. "upstream" \in done' => resolvers' = {} /\ params'.upstream = servers'
    BY <1>2 DEF JoinInv, Results, Stable
  <2>4. /\ "dnsBind" \in done' => dns_ip' \/ params'.free53Ip # 0
        /\ "publicIP" \in done' => params'.publicIP # "undefined"
    BY <1>2 DEF JoinInv, Results
  <2>5. QED BY <2>1, <2>2, <2>3, <2>4 DEF Results
<1>5. QED BY <1>1, <1>4 DEF JoinInv

LEMMA BootstrapKeeps ==
  ASSUME JoinInv, BootstrapAnswers \/ RpcPortAnswers \/ Connected \/ TimesOut
  PROVE  JoinInv'
<1> USE DEF JoinInv
<1>1. PICK lookup \in {"bootstrap", "rpcCheck", "netIf"}, p \in Params :
        /\ markDone(lookup, p)
        /\ p.upstream = params.upstream /\ p.free53Ip = params.free53Ip
        /\ p.publicIP = params.publicIP
  <2>0. params \in Params
    BY DEF Results
  <2>1. CASE BootstrapAnswers
    <3>1. PICK found \in BOOLEAN : markDone("bootstrap", [params EXCEPT !.bootstrap = found])
      BY <2>1 DEF BootstrapAnswers
    <3>2. [params EXCEPT !.bootstrap = found] \in Params
      BY <2>0 DEF Params
    <3>3. QED BY <2>0, <3>1, <3>2 DEF Params
  <2>2. CASE RpcPortAnswers
    BY <2>0, <2>2 DEF RpcPortAnswers
  <2>3. CASE Connected \/ TimesOut
    <3>1. PICK a \in Interface : markDone("netIf", [params EXCEPT !.interfaceIP = a])
      BY <2>3 DEF Connected, TimesOut, Detected
    <3>2. [params EXCEPT !.interfaceIP = a] \in Params
      BY <2>0 DEF Params
    <3>3. QED BY <2>0, <3>1, <3>2 DEF Params
  <2>4. QED BY <2>1, <2>2, <2>3
<1>2. /\ UNCHANGED <<resolvers, servers, checksLeft, rounds, ipRetries>>
      /\ scans' = scans \/ \E s \in Scan : scans' = [scans EXCEPT ![s] = 1]
  <2>1. CASE BootstrapAnswers \/ RpcPortAnswers
    BY <2>1 DEF BootstrapAnswers, RpcPortAnswers
  <2>2. CASE Connected \/ TimesOut
    BY <2>2 DEF Connected, TimesOut, Detected, Scan
  <2>3. QED BY <2>1, <2>2
<1>3. Asked'
  BY <1>2, IniConstants DEF Asked
<1>4. Rounds' /\ \A a : Told(a) => Told(a)'
  BY <1>2, RoundsKept
<1>5. params' = p /\ done' = done \cup {lookup} /\ dns_ip' = dns_ip
  BY <1>1 DEF markDone
<1>6. Stable
  BY <1>2, <1>4, <1>5 DEF Stable
<1>7. Results'
  <2>1. params'.publicIP \in Address => Told(params.publicIP)'
    BY <1>1, <1>2, <1>5 DEF Results, Told
  <2>2. QED BY <1>1, <1>2, <1>5, <2>1 DEF Results
<1>8. DraftComplete' /\ AddressTold'
  BY <1>1, <1>6, <1>7, JoinSound DEF Lookup
<1>9. QED BY <1>3, <1>4, <1>7, <1>8

\* The counter never falls below the resolvers still asked.
LEMMA ResolverKeeps ==
  ASSUME JoinInv, NEW r \in LocalResolver, ResolverAnswers(r)
  PROVE  JoinInv'
<1> USE DEF JoinInv
<1>1. /\ r \in resolvers /\ resolvers' = resolvers \ {r}
      /\ UNCHANGED <<rounds, ipRetries, scans>>
  BY DEF ResolverAnswers
<1>2. IsFiniteSet(resolvers)
  BY IniAssumption, FS_Subset DEF Asked
<1>3. /\ IsFiniteSet(resolvers') /\ Cardinality(resolvers') = Cardinality(resolvers) - 1
      /\ Cardinality(resolvers) \in Nat /\ Cardinality(resolvers') \in Nat
  BY <1>1, <1>2, FS_RemoveElement, FS_CardinalityType
<1>4. /\ checksLeft' \in Nat /\ Cardinality(resolvers') <= checksLeft'
  BY <1>1, <1>3 DEF Asked, ResolverAnswers
<1>5. Asked'
  <2>1. servers \subseteq LocalResolver /\ servers' \subseteq servers \cup {r}
    BY DEF Asked, ResolverAnswers
  <2>2. servers' \subseteq LocalResolver
    BY <2>1
  <2>3. QED BY <1>1, <1>4, <2>2 DEF Asked
<1>6. Rounds' /\ \A a : Told(a) => Told(a)'
  BY <1>1, RoundsKept
<1>7. resolvers # {} /\ "upstream" \notin done
  BY <1>1 DEF Results
<1>8. CASE Silent
  <2>1. Stable
    BY <1>6, <1>7, <1>8 DEF Stable, Silent, joinVars
  <2>2. QED BY <1>5, <1>6, <1>8, <2>1, JoinLeft DEF Silent
<1>9. CASE /\ checksLeft' <= 0
           /\ markDone("upstream", [params EXCEPT !.upstream = servers'])
  <2>1. resolvers' = {}
    BY <1>3, <1>4, <1>9, FS_EmptySet
  <2>2. Stable
    BY <1>6, <1>7, <1>9 DEF Stable, markDone
  <2>3. /\ params' = [params EXCEPT !.upstream = servers']
        /\ done' = done \cup {"upstream"} /\ dns_ip' = dns_ip
    BY <1>9 DEF markDone
  <2>4. servers' \subseteq LocalResolver
    BY <1>5 DEF Asked
  <2>5. /\ params' \in Params /\ params'.upstream = servers'
        /\ params'.free53Ip = params.free53Ip /\ params'.publicIP = params.publicIP
    BY <2>3, <2>4 DEF Results, Params
  <2>6. params'.publicIP \in Address => Told(params.publicIP)'
    BY <1>1, <2>5 DEF Results, Told
  <2>7. Results'
    BY <2>1, <2>3, <2>5, <2>6 DEF Results
  <2>8. DraftComplete' /\ AddressTold'
    BY <1>9, <2>2, <2>7, JoinSound DEF Lookup
  <2>9. QED BY <1>5, <1>6, <2>7, <2>8
<1>10. QED BY <1>4, <1>8, <1>9 DEF ResolverAnswers

\* Only rounds that have not ended, or not begun, change.
LEMMA ServiceKeeps ==
  ASSUME JoinInv, NEW r \in Round, NEW i \in Service, NEW value \in Answer,
         NEW n \in {1, 2}, CallsBack(r, i, value, n)
  PROVE  JoinInv'
<1> USE DEF JoinInv
<1> DEFINE answered == [rounds EXCEPT ![r][i] = value]
           pair == answered[r]
           again == (ipRetries + 2)..(ipRetries + n + 1)
<1>1. rounds[r][i] = "out" /\ UNCHANGED <<resolvers, checksLeft, servers, socket, scans>>
  BY DEF CallsBack
<1>2. answered \in [Round -> [Service -> Answer \cup {"out", "unused"}]]
  BY DEF Rounds
<1>3. Asked'
  BY <1>1 DEF Asked
<1>4. /\ \A q \in Round : q # r => answered[q] = rounds[q]
      /\ r <= ipRetries + 1
  <2>1. \A q \in Round : q # r => answered[q] = rounds[q]
    BY DEF Rounds
  <2>2. r <= ipRetries + 1
    BY <1>1 DEF Rounds, Round
  <2>3. QED BY <2>1, <2>2
<1>5. \A a \in Address, q \in Round :
        (\A j \in Service : rounds[q][j] = a) => q # r /\ q \notin again
  <2>1. SUFFICES ASSUME NEW a \in Address, NEW q \in Round,
                        \A j \in Service : rounds[q][j] = a
                 PROVE  q # r /\ q \notin again
    OBVIOUS
  <2>2. a # "out" /\ a # "unused"
    BY IniAssumption
  <2>3. q # r
    BY <1>1, <2>1, <2>2
  <2>4. ~(q > ipRetries + 1)
    BY <2>1, <2>2 DEF Rounds, Service
  <2>5. q \notin again
    BY <2>4 DEF Rounds, Round
  <2>6. QED BY <2>3, <2>5
<1>6. CASE rounds' = answered /\ UNCHANGED ipRetries
  <2>1. \A a \in Address : Told(a) => Told(a)'
    BY <1>4, <1>5, <1>6 DEF Told
  <2>2. Rounds'
    <3>1. \A q \in Round : q > ipRetries + 1 => \A j \in Service : answered[q][j] = "unused"
      BY <1>4 DEF Rounds, Round
    <3>2. QED BY <1>2, <1>6, <3>1 DEF Rounds
  <2>3. CASE Silent
    <3>1. Stable
      BY <1>1, <2>1, <2>3 DEF Stable, Silent, joinVars
    <3>2. QED BY <1>3, <2>2, <2>3, <3>1, JoinLeft DEF Silent
  <2>4. CASE /\ pair[1] = pair[2]
             /\ markDone("publicIP", [params EXCEPT !.publicIP = value])
    <3>1. Stable
      BY <1>1, <2>1, <2>4 DEF Stable, markDone
    <3>2. /\ params' = [params EXCEPT !.publicIP = value]
          /\ done' = done \cup {"publicIP"} /\ dns_ip' = dns_ip
      BY <2>4 DEF markDone
    <3>3. params \in Params
      BY DEF Results
    <3>4. params' \in Params /\ params'.upstream = params.upstream
          /\ params'.free53Ip = params.free53Ip /\ params'.publicIP = value
      BY <3>2, <3>3 DEF Params
    <3>5. \A j \in Service : answered[r][j] = value
      BY <2>4 DEF Rounds, Service
    <3>6. Told(params.publicIP)'
      BY <1>6, <3>4, <3>5 DEF Told
    <3>7. value # "undefined"
      BY IniAssumption DEF Answer
    <3>8. Results'
      <4>1. "upstream" \in done' => resolvers' = {} /\ params'.upstream = servers'
        BY <1>1, <3>2, <3>4 DEF Results
      <4>2. "dnsBind" \in done' => dns_ip' \/ params'.free53Ip # 0
        BY <3>2, <3>4 DEF Results
      <4>3. QED BY <3>4, <3>6, <3>7, <4>1, <4>2 DEF Results
    <3>9. DraftComplete' /\ AddressTold'
      BY <2>4, <3>1, <3>8, JoinSound DEF Lookup
    <3>10. QED BY <1>3, <2>2, <3>8, <3>9
  <2>5. CASE IF ipRetries' > MaxIpRetries THEN IniExits ELSE UNCHANGED vars
    <3>1. QED BY <1>6, <2>3, <2>4 DEF CallsBack, Rounds
  <2>6. QED BY <1>6, <2>3, <2>4 DEF CallsBack, Rounds
<1>7. CASE /\ ipRetries' = ipRetries + n
           /\ rounds' = [q \in Round |-> IF q \in again THEN [j \in Service |-> "out"]
                                                        ELSE answered[q]]
           /\ UNCHANGED joinVars
  <2>1. \A a \in Address : Told(a) => Told(a)'
    BY <1>4, <1>5, <1>7 DEF Told
  <2>2. rounds' \in [Round -> [Service -> Answer \cup {"out", "unused"}]]
    BY <1>2, <1>7
  <2>3. \A q \in Round : q > ipRetries' + 1 => \A j \in Service : rounds'[q][j] = "unused"
    <3>1. SUFFICES ASSUME NEW q \in Round, q > ipRetries' + 1
                   PROVE  \A j \in Service : rounds'[q][j] = "unused"
      OBVIOUS
    <3>2. q \notin again /\ q # r /\ q > ipRetries + 1
      BY <1>4, <1>7, <3>1 DEF Rounds, Round
    <3>3. rounds'[q] = rounds[q]
      BY <1>4, <1>7, <3>2
    <3>4. QED BY <3>2, <3>3 DEF Rounds
  <2>4. Rounds'
    BY <1>7, <2>2, <2>3 DEF Rounds
  <2>5. Stable
    BY <1>1, <1>7, <2>1 DEF Stable, joinVars
  <2>6. QED BY <1>3, <1>7, <2>4, <2>5, JoinLeft
<1>8. QED BY <1>6, <1>7 DEF CallsBack

LEMMA OtherKeeps ==
  ASSUME JoinInv, ConnectFails \/ UNCHANGED iniVars
  PROVE  JoinInv'
<1> USE DEF JoinInv
<1>1. UNCHANGED <<resolvers, checksLeft, servers, scans, rounds, ipRetries, dns_ip,
                  done, params, draft>>
  BY DEF ConnectFails, iniVars, lookupVars, joinVars
<1>2. Asked' /\ Rounds'
  BY <1>1 DEF Asked, Rounds
<1>3. Results'
  BY <1>1 DEF Results, Told
<1>4. DraftComplete' /\ AddressTold'
  BY <1>1 DEF DraftComplete, AddressTold, Told
<1>5. QED BY <1>2, <1>3, <1>4

LEMMA CandidateKeeps ==
  ASSUME JoinInv, NEW s \in Scan, CandidateAnswers(s)
  PROVE  JoinInv'
<1> USE DEF JoinInv
<1>1. /\ scans[s] # 0
      /\ UNCHANGED <<resolvers, checksLeft, servers, rounds, ipRetries>>
  BY DEF CandidateAnswers
<1>2. scans[s] \in 0..Candidates /\ scans \in [Scan -> 0..Candidates]
  BY DEF Asked
<1>3. \/ scans' = [scans EXCEPT ![s] = 0]
      \/ scans[s] < Candidates /\ scans' = [scans EXCEPT ![s] = scans[s] + 1]
  BY DEF CandidateAnswers
<1>4. scans' \in [Scan -> 0..Candidates]
  <2>1. 0 \in 0..Candidates /\ (scans[s] < Candidates => scans[s] + 1 \in 0..Candidates)
    BY <1>2, IniConstants
  <2>2. QED BY <1>2, <1>3, <2>1
<1>5. Asked'
  BY <1>1, <1>4 DEF Asked
<1>6. Rounds' /\ \A a : Told(a) => Told(a)'
  BY <1>1, RoundsKept
<1>7. CASE UNCHANGED joinVars
  <2>1. Stable
    BY <1>1, <1>6, <1>7 DEF Stable, joinVars
  <2>2. QED BY <1>5, <1>6, <1>7, <2>1, JoinLeft
<1>8. CASE markDone("dnsBind", [params EXCEPT !.free53Ip = scans[s]])
  <2>1. Stable
    BY <1>1, <1>6, <1>8 DEF Stable, markDone
  <2>2. /\ params' = [params EXCEPT !.free53Ip = scans[s]]
        /\ done' = done \cup {"dnsBind"} /\ dns_ip' = dns_ip
    BY <1>8 DEF markDone
  <2>3. /\ params' \in Params /\ params'.upstream = params.upstream
        /\ params'.free53Ip = scans[s] /\ params'.publicIP = params.publicIP
    BY <1>2, <2>2 DEF Results, Params
  <2>4. params'.publicIP \in Address => Told(params.publicIP)'
    BY <1>1, <2>3 DEF Results, Told
  <2>5. Results'
    <3>1. "upstream" \in done' => resolvers' = {} /\ params'.upstream = servers'
      BY <1>1, <2>2, <2>3 DEF Results
    <3>2. "dnsBind" \in done' => dns_ip' \/ params'.free53Ip # 0
      BY <1>1, <2>3
    <3>3. "publicIP" \in done' => params'.publicIP # "undefined"
      BY <2>2, <2>3 DEF Results
    <3>4. QED BY <2>3, <2>4, <3>1, <3>2, <3>3 DEF Results
  <2>6. DraftComplete' /\ AddressTold'
    BY <1>8, <2>1, <2>5, JoinSound DEF Lookup
  <2>7. QED BY <1>5, <1>6, <2>5, <2>6
<1>9. QED BY <1>7, <1>8 DEF CandidateAnswers, Silent

LEMMA JoinInvariance == IniSpec => []JoinInv
<1>1. JoinInv /\ [IniNext]_<<vars, iniVars>> => JoinInv'
  <2> SUFFICES ASSUME JoinInv, [IniNext]_<<vars, iniVars>> PROVE JoinInv'
    OBVIOUS
  <2>1. CASE \/ BootstrapAnswers \/ RpcPortAnswers \/ Connected \/ TimesOut
    BY <2>1, BootstrapKeeps
  <2>2. ASSUME NEW r \in LocalResolver, ResolverAnswers(r) PROVE JoinInv'
    BY <2>2, ResolverKeeps
  <2>3. ASSUME NEW r \in Round, NEW i \in Service, ServiceAnswers(r, i) \/ WatchdogAborts(r, i)
        PROVE  JoinInv'
    <3>1. PICK value \in Answer, n \in {1, 2} : CallsBack(r, i, value, n)
      BY <2>3 DEF ServiceAnswers, WatchdogAborts, Answer
    <3>2. QED BY <3>1, ServiceKeeps
  <2>4. ASSUME NEW s \in Scan, CandidateAnswers(s) PROVE JoinInv'
    BY <2>4, CandidateKeeps
  <2>5. CASE ConnectFails \/ UNCHANGED iniVars
    BY <2>5, OtherKeeps
  <2>6. QED BY <2>1, <2>2, <2>3, <2>4, <2>5 DEF IniNext, LookupStep
<1>2. QED BY IniInitInv, <1>1, PTL DEF IniSpec

\* However the lookups end, the ini file is drafted from all of them.
THEOREM Complete == IniSpec => []DraftComplete
<1>1. JoinInv => DraftComplete
  BY DEF JoinInv
<1>2. QED BY JoinInvariance, <1>1, PTL

\* However often the services disagree and are asked again, and also if the
\* watchdog calls back twice, two of them told the address that is used.
THEOREM Agreed == IniSpec => []AddressTold
<1>1. JoinInv => AddressTold
  BY DEF JoinInv
<1>2. QED BY JoinInvariance, <1>1, PTL
===========================================================================
