------------------------------ MODULE PortTest ------------------------------
(***************************************************************************)
(* The verification of a start (daemon.js: testOpenPorts, and the client   *)
(* lib.networkTest.js): one of several testing servers is connected to,    *)
(* and asked to reach this host's ports one after the other; then the      *)
(* start goes on (StartWatch) or ends.  The server's messages arrive       *)
(* through Framing.                                                        *)
(*                                                                         *)
(* A port is fine, closed (by a firewall, either way) or used by another   *)
(* program of this host.  Answers may be late or lost, and a server may    *)
(* close its connection at any time.  The temporary server of a TCP test   *)
(* reads frames from whoever connects, for the same handler (lets_tcp.js   *)
(* 325, 371): here nobody sends it any.  And a port is a number: with      *)
(* another text for one, the first UDP test ends at once, and no report is *)
(* waited for (networkTest.js:410).  A tick is 5 s.                        *)
(***************************************************************************)
EXTENDS StartWatch, Framing

CONSTANTS
  Server,         \* the testing servers
  NoServer,
  NTcp,           \* TCP ports to test (3)
  Network,        \* is network.enabled, with its two UDP tests?
  ConnectDelay,   \* how long to wait for a connection (60 s)
  TestDelay,      \* for the result of a test (10 s)
  SendDelay       \* the same when UDP packets are sent (5 s)

ASSUME PortAssumption ==
  /\ NoServer \notin Server
  /\ NTcp \in Nat \ {0} /\ Network \in BOOLEAN
  /\ ConnectDelay \in Nat \ {0} /\ TestDelay \in Nat \ {0} /\ SendDelay \in Nat \ {0}

VARIABLES
  ignore,         \* --ignore-storage-server-port-check
  addresses,      \* servers that were not tried
  current,        \* the server tried last, which has the global handlers
  conn,           \* each server's connection
  connectTimer,   \* connectTimeoutTimer
  shutdownFinal,  \* the last client's
  test,           \* the test under way, counted
  port,           \* what is the matter with its port
  handler,        \* portTestCallback: "none", "test", "inuse"
  timer,          \* timeoutTimer
  sending,        \* intTimer: a packet or a request every second
  owed,           \* the server was asked for a report
  verdict,        \* the result of a test whose temporary server is closing
  flawed,         \* some port that was tested was not fine
  verified        \* the start goes on because all tests were good

clientVars == <<addresses, current, conn, connectTimer, shutdownFinal>>
resultVars == <<test, port, handler, timer, sending, owed, verdict, flawed, verified>>
vars == <<watchVars, statusVars, frameVars, ignore, clientVars, resultVars>>

LastTest == NTcp + (IF Network THEN 2 ELSE 0)
Kind(i) == IF i <= NTcp THEN "tcp" ELSE IF i = NTcp + 1 THEN "udp in" ELSE "udp out"
Off == ConnectDelay + TestDelay + SendDelay    \* no timer, or one that has fired

ClientTypeOK ==
  /\ ignore \in BOOLEAN
  /\ addresses \subseteq Server /\ current \in Server \cup {NoServer}
  /\ conn \in [Server -> {"untried", "pending", "open", "closed"}]
  /\ connectTimer \in 0..Off /\ shutdownFinal \in BOOLEAN

ResultTypeOK ==
  /\ test \in 0..LastTest /\ port \in {"fine", "closed", "used"}
  /\ handler \in {"none", "test", "inuse"} /\ timer \in 0..Off
  /\ sending \in BOOLEAN /\ owed \in BOOLEAN
  /\ verdict \in {"none", "good", "bad", "unknown", "inuse"}
  /\ flawed \in BOOLEAN /\ verified \in BOOLEAN

TypeOK == WatchTypeOK /\ FrameTypeOK /\ ClientTypeOK /\ ResultTypeOK

Init ==
  /\ WatchInit /\ FrameInit
  /\ ignore \in BOOLEAN
  /\ addresses = {} /\ current = NoServer
  /\ conn = [s \in Server |-> "untried"]
  /\ connectTimer = Off /\ shutdownFinal = FALSE
  /\ test = 0 /\ port = "fine" /\ handler = "none" /\ timer = Off
  /\ sending = FALSE /\ owed = FALSE /\ verdict = "none"
  /\ flawed = FALSE /\ verified = FALSE
---------------------------------------------------------------------------
(* The tests. *)

startTest_Trusting(i) ==
  /\ test' = i
  /\ port' \in {"fine", "closed", "used"}
  /\ flawed' = (flawed \/ port' # "fine")
  /\ handler' = "test" /\ timer' = TestDelay
  /\ owed' = (Kind(i) = "tcp") /\ sending' = (Kind(i) # "tcp") /\ verdict' = "none"

\* A TCP or UDP port in use is found out before anything else happens.  Of the
\* two TCP then only waits for the report, which is about another program.
startTest(i) ==
  /\ test' = i
  /\ port' \in {"fine", "closed", "used"}
  /\ flawed' = (flawed \/ port' # "fine")
  /\ \/ /\ Kind(i) = "tcp"
        /\ IF port' = "used" THEN handler' = "inuse" /\ timer' = Off
                             ELSE handler' = "test" /\ timer' = TestDelay
        /\ owed' = TRUE /\ sending' = FALSE /\ verdict' = "none"
     \/ /\ Kind(i) = "udp in"
        /\ IF port' = "used"
           THEN handler' = "none" /\ timer' = Off /\ sending' = FALSE /\ verdict' = "inuse"
           ELSE handler' = "test" /\ timer' = TestDelay /\ sending' = TRUE /\ verdict' = "none"
        /\ owed' = FALSE
     \/ /\ Kind(i) = "udp out"
        /\ handler' = "test"       \* bind throws if the port is used
        /\ IF port' = "used" THEN timer' = Off /\ sending' = FALSE
                             ELSE timer' = SendDelay /\ sending' = TRUE
        /\ owed' = FALSE /\ verdict' = "none"

\* client.disconnect
disconnect ==
  /\ shutdownFinal' = TRUE
  /\ conn' = [conn EXCEPT ![current] = "closed"]
  /\ wire' = <<>>

GoOn(good) ==
  /\ disconnect /\ doStart
  /\ verified' = good /\ port' = "fine"
  /\ IF good THEN UNCHANGED <<test, flawed>> ELSE test' = 0 /\ flawed' = FALSE

\* runTest's callback, and the loop around it.
conclude(result) ==
  \/ /\ result = "good" /\ test < LastTest
     /\ startTest(test + 1)
     /\ UNCHANGED <<watchVars, wire, conn, shutdownFinal, verified>>
  \/ /\ result = "good" /\ test = LastTest
     /\ GoOn(TRUE)
     /\ handler' = "none" /\ timer' = Off /\ sending' = FALSE
     /\ owed' = FALSE /\ verdict' = "none"
  \/ /\ result # "good"
     /\ \/ ignore /\ GoOn(FALSE)
        \/ /\ ~ignore /\ exit("not verified")
           /\ UNCHANGED <<background, child, pollTimer, waited, diff, wire, conn,
                          shutdownFinal, test, port, flawed, verified>>
     /\ handler' = "none" /\ timer' = Off /\ sending' = FALSE
     /\ owed' = FALSE /\ verdict' = "none"

\* A test is over: its handler, its timer and its interval are gone.
Settled == /\ handler' = "none" /\ timer' = Off /\ sending' = FALSE /\ owed' = owed

\* netWrap.recv.  A report ends the test that waits for one: the result of a
\* TCP or incoming UDP test is told when the temporary server has closed.
recv(m) ==
  \/ /\ m = "ip" \/ handler = "none"
     /\ IF m = "ip" THEN UNCHANGED <<timer, sending>>
                    ELSE timer' = Off /\ sending' = FALSE
     /\ UNCHANGED <<watchVars, wire, conn, shutdownFinal, test, port, handler, owed, verdict,
                    flawed, verified>>
  \/ /\ m # "ip" /\ handler = "test" /\ Kind(test) # "udp out"
     /\ Settled /\ verdict' = m
     /\ UNCHANGED <<watchVars, wire, conn, shutdownFinal, test, port, flawed, verified>>
  \/ /\ m # "ip" /\ handler = "test" /\ Kind(test) = "udp out"
     /\ conclude(m)
  \/ /\ m # "ip" /\ handler = "inuse"
     /\ conclude("inuse")

\* checkForData has a message for recv, or not yet.
Received ==
  \/ /\ TakePacket /\ recv(Packet)
     /\ UNCHANGED <<statusVars, ignore, addresses, current, connectTimer>>
  \/ AwaitData /\ UNCHANGED <<watchVars, statusVars, ignore, clientVars, resultVars>>

\* The temporary server has closed.
ServerClosed ==
  /\ verdict # "none"
  /\ conclude(verdict)
  /\ UNCHANGED <<statusVars, buf, haveEnough, parsing, ignore, addresses,
                 current, connectTimer>>

TestTimesOut_Silent ==
  /\ timer = 0 /\ timer' = Off /\ handler' = "none" /\ sending' = FALSE
  /\ UNCHANGED <<watchVars, statusVars, frameVars, ignore, clientVars, test, port, owed,
                 verdict, flawed, verified>>

\* No report, and no packet, in time.  (startPortTest started no interval that
\* its timeout would have to clear.)
TestTimesOut ==
  /\ timer = 0
  /\ IF handler = "test" /\ Kind(test) = "udp out"
     THEN conclude("unknown")
     ELSE /\ timer' = Off /\ handler' = "none"
          /\ sending' = (sending /\ Kind(test) = "tcp")
          /\ verdict' = IF handler = "test" THEN "unknown" ELSE verdict
          /\ UNCHANGED <<watchVars, wire, conn, shutdownFinal, test, port, owed, flawed, verified>>
  /\ UNCHANGED <<statusVars, buf, haveEnough, parsing, ignore, addresses,
                 current, connectTimer>>

PacketArrives_KeepsTimer ==
  /\ stage = "testing" /\ Kind(test) = "udp in" /\ handler = "test"
  /\ sending /\ port = "fine"
  /\ handler' = "none" /\ sending' = FALSE /\ verdict' = "good"
  /\ UNCHANGED <<watchVars, statusVars, frameVars, ignore, clientVars, test, port, timer,
                 owed, flawed, verified>>

\* "Some bytes" arrive at the temporary UDP server.
PacketArrives ==
  /\ stage = "testing" /\ Kind(test) = "udp in" /\ handler = "test"
  /\ sending /\ port = "fine"
  /\ Settled /\ verdict' = "good"
  /\ UNCHANGED <<watchVars, statusVars, frameVars, ignore, clientVars, test, port,
                 flawed, verified>>

\* The server answers a request, once, and each packet that it gets; it can
\* be wrong about an open port, but does not reach a closed one.
ServerReports ==
  /\ stage = "testing" /\ conn[current] = "open"
  /\ \/ owed /\ owed' = FALSE
     \/ sending /\ Kind(test) = "udp out" /\ UNCHANGED owed
  /\ \E m \in {"good", "bad"} :
       /\ m = "good" => port # "closed"
       /\ Len(wire) + Len(buf) + Size[m] + Header <= MaxWire
       /\ send(m)
  /\ UNCHANGED <<watchVars, statusVars, buf, haveEnough, parsing, ignore, clientVars, test,
                 port, handler, timer, sending, verdict, flawed, verified>>
---------------------------------------------------------------------------
(* The connections. *)

Arrives ==
  /\ current \in Server /\ conn[current] = "open"
  /\ Data
  /\ UNCHANGED <<watchVars, statusVars, ignore, clientVars, resultVars>>

\* The options that skip the tests, or no component that needs them.
Skip ==
  /\ stage = "begin" /\ doStart
  /\ UNCHANGED <<statusVars, frameVars, ignore, clientVars, resultVars>>

\* testOpenPorts
Resolve ==
  /\ stage = "begin" /\ stage' = "resolving"
  /\ UNCHANGED <<background, child, pollTimer, waited, diff, outcome, statusVars,
                 frameVars, ignore, clientVars, resultVars>>

\* Without addresses tryAndConnect throws, in a callback.
ResolveFails ==
  /\ stage = "resolving" /\ stage' = "stuck"
  /\ UNCHANGED <<background, child, pollTimer, waited, diff, outcome, statusVars,
                 frameVars, ignore, clientVars, resultVars>>

tryAndConnect(servers) ==
  /\ \E s \in servers :
       /\ addresses' = servers \ {s} /\ current' = s
       /\ conn' = [conn EXCEPT ![s] = "pending"]
  /\ connectTimer' = ConnectDelay
  /\ shutdownFinal' = FALSE

Resolved ==
  /\ stage = "resolving" /\ stage' = "connecting"
  /\ \E servers \in SUBSET Server \ {{}} : tryAndConnect(servers)
  /\ UNCHANGED <<background, child, pollTimer, waited, diff, outcome, statusVars,
                 frameVars, ignore, resultVars>>

\* The server of the last try is connected in time: the tests begin.
Connects ==
  /\ stage = "connecting" /\ conn[current] = "pending"
  /\ conn' = [conn EXCEPT ![current] = "open"]
  /\ connectTimer' = Off
  /\ stage' = "testing" /\ startTest(1)
  /\ send("ip")
  /\ UNCHANGED <<background, child, pollTimer, waited, diff, outcome, statusVars,
                 buf, haveEnough, parsing, ignore, addresses, current, shutdownFinal, verified>>

\* One that was given up connects all the same, and is left alone.
ConnectsLate(s) ==
  /\ conn[s] = "pending" /\ ~(s = current /\ stage = "connecting")
  /\ conn' = [conn EXCEPT ![s] = "open"]
  /\ UNCHANGED <<watchVars, statusVars, frameVars, ignore, addresses, current,
                 connectTimer, shutdownFinal, resultVars>>

\* Nobody handles the error: the timer decides.
Refused(s) ==
  /\ conn[s] = "pending"
  /\ conn' = [conn EXCEPT ![s] = "closed"]
  /\ UNCHANGED <<watchVars, statusVars, frameVars, ignore, addresses, current,
                 connectTimer, shutdownFinal, resultVars>>

ConnectTimesOut_Unchecked ==
  /\ connectTimer = 0 /\ connectTimer' = ConnectDelay
  /\ \E s \in (IF addresses = {} THEN {"undefined"} ELSE addresses) :
       addresses' = addresses \ {s} /\ current' = s
  /\ UNCHANGED <<watchVars, conn, shutdownFinal, statusVars, frameVars, ignore, resultVars>>

ConnectTimesOut ==
  /\ connectTimer = 0
  /\ IF addresses = {}
     THEN /\ doStart /\ connectTimer' = Off
          /\ UNCHANGED <<addresses, current, conn, shutdownFinal>>
     ELSE tryAndConnect(addresses) /\ UNCHANGED watchVars
  /\ UNCHANGED <<statusVars, frameVars, ignore, resultVars>>

\* Whichever server it is, netWrap.disconnect is the last client's.
ServerDisconnects(s) ==
  /\ conn[s] = "open"
  /\ conn' = [conn EXCEPT ![s] = "closed"]
  /\ IF shutdownFinal THEN UNCHANGED <<watchVars, timer>>
     ELSE /\ exit("disconnected") /\ timer' = Off      \* stopTest
          /\ UNCHANGED <<background, child, pollTimer, waited, diff>>
  /\ UNCHANGED <<statusVars, frameVars, ignore, addresses, current, connectTimer,
                 shutdownFinal, test, port, handler, sending, owed, verdict, flawed, verified>>
---------------------------------------------------------------------------
(* Time, and the whole. *)

Counting == {connectTimer, timer} \cap (0..(Off - 1)) # {} \/ pollTimer # NoPoll
              \/ status = "asked"
Urgent == connectTimer = 0 \/ timer = 0 \/ verdict # "none" \/ WatchUrgent

Less(n, off) == IF n = off THEN off ELSE n - 1

Tick ==
  /\ Counting /\ ~Urgent
  /\ connectTimer' = Less(connectTimer, Off)
  /\ timer' = Less(timer, Off)
  /\ pollTimer' = Less(pollTimer, NoPoll)
  /\ waited' = IF stage = "watching" /\ waited <= RpcLimit THEN waited + 1 ELSE waited
  /\ late' = (status = "asked")
  /\ UNCHANGED <<background, stage, child, diff, outcome, status, seen, rpc, storageRpc,
                 socketWorks, frameVars, ignore, addresses, current, conn, shutdownFinal,
                 test, port, handler, sending, owed, verdict, flawed, verified>>

Verification ==
  \/ Skip \/ Resolve \/ ResolveFails \/ Resolved
  \/ Connects \/ ConnectTimesOut
  \/ \E s \in Server : ConnectsLate(s) \/ Refused(s) \/ ServerDisconnects(s)
  \/ Arrives \/ ServerReports
  \/ ServerClosed \/ TestTimesOut \/ PacketArrives

Watch ==
  /\ ChildEnds \/ crashHandler \/ areWeRunningYet \/ StatusProbe
  /\ UNCHANGED <<frameVars, ignore, clientVars, resultVars>>

Verdict == Judge /\ UNCHANGED <<frameVars, ignore, clientVars, resultVars>>

\* A handler that has begun runs to its end.
Next ==
  /\ stage # "exited"
  /\ \/ Received
     \/ Verdict
     \/ ~parsing /\ status # "told" /\ (Verification \/ Watch \/ Tick)

Spec == Init /\ [][Next]_vars

\* Node runs what is due; nobody else has to answer.
LiveSpec ==
  /\ Spec
  /\ WF_vars(Received) /\ WF_vars(Verdict)
  /\ WF_vars(~parsing /\ status # "told" /\ stage # "exited"
               /\ (ConnectTimesOut \/ ServerClosed \/ TestTimesOut))
  /\ WF_vars(~parsing /\ status # "told"
               /\ (crashHandler \/ areWeRunningYet \/ StatusProbe)
               /\ UNCHANGED <<frameVars, ignore, clientVars, resultVars>>)
  /\ WF_vars(~parsing /\ status # "told" /\ stage # "exited" /\ Tick)
---------------------------------------------------------------------------
\* A start that says its ports are verified has had every one of them tested,
\* and none of them is closed or used by another program, although the report
\* about a used port is a good one (networkTest.js:353-372, daemon.js:1069-1112).
\* This is if only the testing server reports: the handler does not ask which
\* connection a report came on.
StartVerified == verified => ~flawed /\ test = LastTest

\* No timeout or interval outlives its test, where it would end the next one,
\* and no test waits without one, but for the port that could not be bound to
\* (networkTest.js:166-176, 249-265, 279-315, 401-403, 435-437).
NoStaleTimer ==
  stage = "testing" =>
    /\ handler # "test" => timer = Off /\ ~sending
    /\ handler = "test" => timer # Off \/ (Kind(test) = "udp out" /\ port = "used")

\* A test of a TCP port in use waits for a report, and one of an outgoing UDP
\* port in use for nothing.
Waits == handler = "inuse" \/ (handler = "test" /\ timer = Off)

\* The verification ends in a start or in an exit, whatever the servers do, or
\* it waits as just said (networkTest.js:108-119, 203-206; daemon.js:979-1113).
VerificationEnds ==
  stage \in {"connecting", "testing"} ~> stage \notin {"connecting", "testing"} \/ Waits
---------------------------------------------------------------------------
(* The inductive invariant behind StartVerified and NoStaleTimer.            *)

\* Outside of the tests nothing is left of one that could conclude anything,
\* and the timer of the connection is that of the stage.
OutsideTests ==
  /\ stage \notin {"testing", "exited"} =>
       handler = "none" /\ timer = Off /\ ~sending /\ verdict = "none"
  /\ stage \notin {"connecting", "exited"} => connectTimer = Off
  /\ stage \in {"begin", "resolving", "connecting"} =>
       stream = <<>> /\ haveEnough = 0 /\ ~flawed
  /\ stage \in {"begin", "resolving", "connecting", "testing"} => ~verified

\* The reports in the stream.
NoReport == \A k \in 1..Len(stream) : stream[k][1] = "ip"
OneReport ==
  \A k \in 1..(Len(stream) - 1) : stream[k + 1][2] = 1 => stream[k][1] = "ip"
Reported(m) == \E k \in 1..Len(stream) : stream[k][1] = m

\* A report that is under way is about the test under way: one, and at most
\* one, is asked for by a TCP test, and only the last test can have more.  A
\* test is then good only if its port is fine.
ReportsOwed ==
  /\ test # 0 /\ Whole
  /\ Kind(test) = "tcp" => ~sending /\ IF owed THEN NoReport ELSE OneReport
  /\ Kind(test) = "udp in" => ~owed /\ NoReport
  /\ Kind(test) = "udp out" => ~owed /\ (port = "used" => ~sending /\ NoReport)
  /\ Reported("good") => port # "closed"
  /\ handler = "test" /\ port = "used" => Kind(test) = "udp out"
  /\ verdict # "none" => handler = "none"
  /\ verdict = "good" => port = "fine" /\ ~owed /\ NoReport
  /\ flawed => port # "fine"

PInv ==
  /\ TypeOK /\ WatchInv /\ FInv
  /\ OutsideTests /\ NoStaleTimer /\ StartVerified
  /\ stage = "testing" => ReportsOwed
===========================================================================
