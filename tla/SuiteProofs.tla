---------------------------- MODULE SuiteProofs ----------------------------
(***************************************************************************)
(* Proofs about Suite, for any set of daemons with lokid in it and any     *)
(* number of saves under way: types, "All daemons down." said only when    *)
(* they are, and that each of the daemons is one of module Daemon.  The    *)
(* inductive invariant is SInv: it says what the code takes for granted    *)
(* when it launches a daemon without a look at the others' state.          *)
(***************************************************************************)
EXTENDS Suite, SequenceTheorems, TLAPS

USE DEF daemonVars, shutdownVars, fileVars, processVars

(* What the operators do to the files. *)

\* Snapshots that lose the stale daemons are snapshots.
LEMMA AgedWrites ==
  ASSUME NEW w \in Seq(SUBSET Enabled), NEW stale
  PROVE  /\ [i \in DOMAIN w |-> w[i] \ stale] \in Seq(SUBSET Enabled)
         /\ Len([i \in DOMAIN w |-> w[i] \ stale]) = Len(w)
<1>1. Len(w) \in Nat /\ DOMAIN w = 1..Len(w) /\ \A i \in 1..Len(w) : w[i] \in SUBSET Enabled
  BY LenProperties, ElementOfSeq
<1>2. \A i \in 1..Len(w) : w[i] \ stale \in SUBSET Enabled
  BY <1>1
<1>3. [i \in 1..Len(w) |-> w[i] \ stale] \in Seq(SUBSET Enabled)
  BY <1>1, <1>2
<1>4. Len([i \in 1..Len(w) |-> w[i] \ stale]) = Len(w)
  BY <1>1, <1>3
<1>5. QED BY <1>1, <1>3, <1>4

\* A write that lands leaves one fewer.
LEMMA OneLanded ==
  ASSUME NEW w \in Seq(SUBSET Enabled), NEW i \in DOMAIN w
  PROVE  /\ RemoveAt(w, i) \in Seq(SUBSET Enabled)
         /\ Len(RemoveAt(w, i)) = Len(w) - 1
         /\ w[i] \subseteq Enabled
<1>1. Len(w) \in Nat /\ i \in 1..Len(w) /\ \A j \in 1..Len(w) : w[j] \in SUBSET Enabled
  BY LenProperties, ElementOfSeq
<1>2. /\ SubSeq(w, 1, i - 1) \in Seq(SUBSET Enabled)
      /\ Len(SubSeq(w, 1, i - 1)) = i - 1
  <2>1. \A j \in 1..(i - 1) : w[j] \in SUBSET Enabled
    BY <1>1
  <2>2. 1 \in Int /\ i - 1 \in Int
    BY <1>1
  <2>3. /\ SubSeq(w, 1, i - 1) \in Seq(SUBSET Enabled)
        /\ Len(SubSeq(w, 1, i - 1)) = IF 1 <= i - 1 THEN (i - 1) - 1 + 1 ELSE 0
    BY <2>1, <2>2, SubSeqProperties
  <2>4. QED BY <1>1, <2>3
<1>3. /\ SubSeq(w, i + 1, Len(w)) \in Seq(SUBSET Enabled)
      /\ Len(SubSeq(w, i + 1, Len(w))) = Len(w) - i
  <2>1. \A j \in (i + 1)..Len(w) : w[j] \in SUBSET Enabled
    BY <1>1
  <2>2. i + 1 \in Int /\ Len(w) \in Int
    BY <1>1
  <2>3. /\ SubSeq(w, i + 1, Len(w)) \in Seq(SUBSET Enabled)
        /\ Len(SubSeq(w, i + 1, Len(w)))
             = IF i + 1 <= Len(w) THEN Len(w) - (i + 1) + 1 ELSE 0
    BY <2>1, <2>2, SubSeqProperties
  <2>4. QED BY <1>1, <2>3
<1>4. RemoveAt(w, i) = SubSeq(w, 1, i - 1) \o SubSeq(w, i + 1, Len(w))
  BY DEF RemoveAt
<1> DEFINE front == SubSeq(w, 1, i - 1)
           back == SubSeq(w, i + 1, Len(w))
<1>5. \A a, b \in Seq(SUBSET Enabled) :
        a \o b \in Seq(SUBSET Enabled) /\ Len(a \o b) = Len(a) + Len(b)
  BY ConcatProperties
<1>6. front \o back \in Seq(SUBSET Enabled) /\ Len(front \o back) = Len(w) - 1
  <2>1. /\ front \in Seq(SUBSET Enabled) /\ Len(front) = i - 1
        /\ back \in Seq(SUBSET Enabled) /\ Len(back) = Len(w) - i
    BY <1>2, <1>3
  <2> HIDE DEF front, back
  <2>2. /\ front \o back \in Seq(SUBSET Enabled)
        /\ Len(front \o back) = (i - 1) + (Len(w) - i)
    BY <1>5, <2>1
  <2>3. QED BY <1>1, <2>2
<1>7. QED BY <1>1, <1>4, <1>6

LEMMA SavedFiles ==
  ASSUME FilesOK, NEW stale, savePids(stale)
  PROVE  FilesOK'
<1> DEFINE snapshot == {d \in Enabled : handle'[d] = "open"}
           aged == [i \in DOMAIN writes |-> writes[i] \ stale]
<1>1. snapshot \in SUBSET Enabled
  OBVIOUS
<1>2. aged \in Seq(SUBSET Enabled) /\ Len(aged) = Len(writes)
  BY AgedWrites DEF FilesOK
<1>3. Len(writes) \in Nat
  BY LenProperties DEF FilesOK
<1>4. CASE pidsJson
  <2>1. /\ Len(writes) < MaxWrites /\ writes' = Append(aged, snapshot)
        /\ listed' = listed \ stale /\ pidsJson'
    BY <1>4 DEF savePids, FilesOK
  <2>2. writes' \in Seq(SUBSET Enabled) /\ Len(writes') = Len(writes) + 1
    <3> HIDE DEF aged, snapshot
    <3>1. QED BY <1>1, <1>2, <2>1, AppendProperties
  <2>3. Len(writes') <= MaxWrites
    BY <1>3, <2>1, <2>2, BoundAssumption
  <2>4. QED BY <2>1, <2>2, <2>3 DEF FilesOK
<1>5. CASE ~pidsJson
  <2>1. writes' = aged /\ listed' = snapshot /\ pidsJson' = TRUE
    BY <1>5 DEF savePids
  <2>2. writes' \in Seq(SUBSET Enabled) /\ Len(writes') <= MaxWrites
    BY <1>2, <2>1 DEF FilesOK
  <2>3. QED BY <1>1, <2>1, <2>2 DEF FilesOK
<1>6. QED BY <1>4, <1>5
---------------------------------------------------------------------------
(* The inductive invariant. *)

\* What a shutdown does to the invariant, whichever handles it is given.
LEMMA ShutdownFlags ==
  ASSUME SInv, NEW h \in [Enabled -> {"null", "open", "killed"}], shutdownEverything(h),
         UNCHANGED <<up, closing, hung>>
  PROVE  /\ DaemonsOK' /\ ShutdownOK'
         /\ OneEnd' /\ Dropped' /\ AllFlagged' /\ TimerOfShutdown' /\ DownMeansDown'
<1> USE DEF SInv, TypeOK
<1>1. DaemonsOK'
  BY DEF DaemonsOK, shutdownEverything
<1>2. ShutdownOK'
  BY DEF ShutdownOK, shutdownEverything
<1>3. OneEnd' /\ Dropped' /\ AllFlagged' /\ TimerOfShutdown' /\ DownMeansDown'
  BY DEF OneEnd, Dropped, AllFlagged, TimerOfShutdown, DownMeansDown, shutdownEverything,
         ShutdownOK, DaemonsOK
<1>4. QED BY <1>1, <1>2, <1>3

LEMMA InitSInv == Init => SInv
<1> SUFFICES ASSUME Init PROVE SInv
  OBVIOUS
<1>1. FilesOK
  <2>1. writes \in Seq(SUBSET Enabled) /\ Len(writes) = 0
    BY EmptySeq DEF Init
  <2>2. pidsJson = FALSE /\ listed = {} /\ 0 <= MaxWrites
    BY BoundAssumption DEF Init
  <2>3. QED BY <2>1, <2>2 DEF FilesOK
<1>2. DaemonsOK /\ ShutdownOK /\ ProcessesOK
  BY DEF Init, DaemonsOK, ShutdownOK, ProcessesOK
<1>3. OneEnd /\ Dropped /\ AllFlagged /\ TimerOfShutdown /\ DownMeansDown
  BY DEF Init, OneEnd, Dropped, AllFlagged, TimerOfShutdown, DownMeansDown
<1>4. QED BY <1>1, <1>2, <1>3 DEF SInv, TypeOK

\* A launch starts a daemon that is down, in a launcher that is not shutting
\* down.
LEMMA LaunchStep ==
  ASSUME SInv, NEW d \in Enabled, Launch(d)
  PROVE  SInv'
<1> USE DEF SInv, TypeOK
<1>1. FilesOK'
  <2>1. CASE savePids({d})
    BY <2>1, SavedFiles
  <2>2. CASE UNCHANGED fileVars
    BY <2>2 DEF FilesOK
  <2>3. QED BY <2>1, <2>2 DEF Launch
<1>2. DaemonsOK' /\ ShutdownOK' /\ ProcessesOK'
  <2>1. /\ handle' = [handle EXCEPT ![d] = "open"]
        /\ \/ up' = [up EXCEPT ![d] = TRUE] /\ UNCHANGED closing
           \/ closing' = [closing EXCEPT ![d] = TRUE] /\ UNCHANGED up
           \/ UNCHANGED <<up, closing>>
        /\ lokinetPidwatcher' = (lokinetPidwatcher \/ d = "lokinet")
        /\ UNCHANGED <<signalled, shuttingDown, shutDownTimer, launcherPid, processVars>>
    BY DEF Launch
  <2>2. QED BY <2>1 DEF DaemonsOK, ShutdownOK, ProcessesOK
<1>3. ~shuttingDown /\ ~shuttingDown' /\ ~up[d] /\ ~closing[d] /\ UNCHANGED shutDownTimer
  BY DEF Launch
<1>4. \A e \in Enabled : ~(up'[e] /\ closing'[e])
  BY <1>3 DEF Launch, OneEnd, DaemonsOK
<1>5. \A e \in Enabled : handle'[e] = "null" => ~up'[e]
  BY <1>3 DEF Launch, Dropped, DaemonsOK
<1>6. AllFlagged' /\ TimerOfShutdown' /\ DownMeansDown'
  BY <1>3 DEF AllFlagged, TimerOfShutdown, DownMeansDown, ShutdownOK
<1>7. QED BY <1>1, <1>2, <1>4, <1>5, <1>6 DEF OneEnd, Dropped

LEMMA OnCloseStep ==
  ASSUME SInv, NEW d \in Enabled, OnClose(d)
  PROVE  SInv'
<1> USE DEF SInv, TypeOK
<1>1. /\ closing[d] /\ ~up[d] /\ closing' = [closing EXCEPT ![d] = FALSE]
      /\ UNCHANGED <<up, processVars>>
  BY DEF OnClose, OneEnd
<1>2. ProcessesOK' /\ OneEnd' /\ UNCHANGED hung
  BY <1>1 DEF ProcessesOK, OneEnd, DaemonsOK
<1>3. FilesOK'
  <2>1. CASE savePids({})
    BY <2>1, SavedFiles
  <2>2. CASE UNCHANGED fileVars
    BY <2>2 DEF FilesOK
  <2>3. QED BY <2>1, <2>2 DEF OnClose
<1>4. CASE /\ ~shuttingDown /\ d = "lokid"
           /\ shutdownEverything([handle EXCEPT !["lokid"] = "killed"])
  <2> DEFINE h == [handle EXCEPT !["lokid"] = "killed"]
  <2>1. h \in [Enabled -> {"null", "open", "killed"}]
    BY DEF DaemonsOK
  <2>2. /\ handle' \in [Enabled -> {"null", "open", "killed"}]
        /\ signalled' \subseteq {e \in Enabled : up[e]}
    BY <1>4, <2>1 DEF shutdownEverything, DaemonsOK
  <2>3. DaemonsOK'
    BY <1>1, <1>2, <2>2 DEF DaemonsOK
  <2>4. ShutdownOK'
    BY <1>4 DEF ShutdownOK, shutdownEverything
  <2>5. Dropped' /\ AllFlagged' /\ TimerOfShutdown' /\ DownMeansDown'
    BY <1>1, <1>4, <2>1
    DEF Dropped, AllFlagged, TimerOfShutdown, DownMeansDown, shutdownEverything, ShutdownOK
  <2>6. QED BY <1>2, <1>3, <2>3, <2>4, <2>5
<1>5. CASE /\ \E x \in {"null", "killed"} : handle' = [handle EXCEPT ![d] = x]
           /\ UNCHANGED <<signalled, shutdownVars>>
  <2>1. DaemonsOK' /\ ShutdownOK'
    BY <1>1, <1>5 DEF DaemonsOK, ShutdownOK
  <2>2. Dropped' /\ AllFlagged' /\ TimerOfShutdown' /\ DownMeansDown'
    BY <1>1, <1>5
    DEF Dropped, AllFlagged, TimerOfShutdown, DownMeansDown, DaemonsOK
  <2>3. QED BY <1>2, <1>3, <2>1, <2>2
<1>6. QED BY <1>4, <1>5 DEF OnClose

LEMMA FailedStartStep ==
  ASSUME SInv, StorageStartFails
  PROVE  SInv'
<1> DEFINE h == [handle EXCEPT !["storage"] = "open"]
<1>1. /\ h \in [Enabled -> {"null", "open", "killed"}]
      /\ UNCHANGED <<up, closing, fileVars, processVars>>
      /\ shutdownEverything(h)
  BY DEF StorageStartFails, SInv, TypeOK, DaemonsOK
<1>2. /\ DaemonsOK' /\ ShutdownOK'
      /\ OneEnd' /\ Dropped' /\ AllFlagged' /\ TimerOfShutdown' /\ DownMeansDown'
  <2> HIDE DEF h
  <2>1. QED BY <1>1, ShutdownFlags
<1>3. FilesOK' /\ ProcessesOK'
  BY <1>1 DEF SInv, TypeOK, FilesOK, ProcessesOK
<1>4. QED BY <1>2, <1>3 DEF SInv, TypeOK

LEMMA SignalStep ==
  ASSUME SInv, shutdown_everything
  PROVE  SInv'
<1>1. /\ handle \in [Enabled -> {"null", "open", "killed"}]
      /\ sigterm' = FALSE
      /\ UNCHANGED <<up, closing, fileVars, launcher, stop, hung>>
      /\ shutdownEverything(handle)
  BY DEF shutdown_everything, SInv, TypeOK, DaemonsOK
<1>2. /\ DaemonsOK' /\ ShutdownOK'
      /\ OneEnd' /\ Dropped' /\ AllFlagged' /\ TimerOfShutdown' /\ DownMeansDown'
  BY <1>1, ShutdownFlags
<1>3. FilesOK' /\ ProcessesOK'
  BY <1>1 DEF SInv, TypeOK, FilesOK, ProcessesOK
<1>4. QED BY <1>2, <1>3 DEF SInv, TypeOK

\* "All daemons down." comes from a look at every daemon.
LEMMA AllDownStep ==
  ASSUME SInv, AllDaemonsDown
  PROVE  SInv'
<1> USE DEF SInv, TypeOK
<1>1. /\ \A d \in Enabled : ~up[d]
      /\ shuttingDown /\ UNCHANGED shuttingDown /\ shutDownTimer' = "cleared"
      /\ handle' = [d \in Enabled |-> IF d = "lokinet" THEN handle[d] ELSE "null"]
      /\ pidsJson' = FALSE /\ listed' = {}
      /\ UNCHANGED <<up, closing, signalled, writes, launcherPid, lokinetPidwatcher, processVars>>
  BY DEF AllDaemonsDown, TimerOfShutdown
<1>2. DaemonsOK' /\ ShutdownOK' /\ FilesOK' /\ ProcessesOK'
  BY <1>1 DEF DaemonsOK, ShutdownOK, FilesOK, ProcessesOK
<1>3. OneEnd' /\ Dropped' /\ AllFlagged' /\ TimerOfShutdown' /\ DownMeansDown'
  BY <1>1 DEF OneEnd, Dropped, AllFlagged, TimerOfShutdown, DownMeansDown
<1>4. QED BY <1>2, <1>3

LEMMA StepSInv == SInv /\ [Next]_vars => SInv'
<1> SUFFICES ASSUME SInv, [Next]_vars PROVE SInv'
  OBVIOUS
<1> USE DEF SInv, TypeOK
<1>1. ASSUME UNCHANGED <<daemonVars, hung, shuttingDown, shutDownTimer>>
      PROVE  /\ OneEnd' /\ Dropped' /\ AllFlagged' /\ TimerOfShutdown' /\ DownMeansDown'
             /\ DaemonsOK'
  BY <1>1 DEF OneEnd, Dropped, AllFlagged, TimerOfShutdown, DownMeansDown, DaemonsOK
<1>2. ASSUME NEW d \in Enabled, Launch(d) PROVE SInv'
  BY <1>2, LaunchStep
<1>3. ASSUME NEW d \in Enabled, OnClose(d) PROVE SInv'
  BY <1>3, OnCloseStep
<1>4. ASSUME NEW d \in Enabled, AskToEnd(d) PROVE SInv'
  <2>1. DaemonsOK' /\ ShutdownOK' /\ FilesOK' /\ ProcessesOK'
    BY <1>4 DEF AskToEnd, DaemonsOK, ShutdownOK, FilesOK, ProcessesOK
  <2>2. OneEnd' /\ Dropped' /\ AllFlagged' /\ TimerOfShutdown' /\ DownMeansDown'
    BY <1>4 DEF AskToEnd, OneEnd, Dropped, AllFlagged, TimerOfShutdown, DownMeansDown, DaemonsOK
  <2>3. QED BY <2>1, <2>2
<1>5. CASE StorageStartFails
  BY <1>5, FailedStartStep
<1>6. CASE shutdown_everything
  BY <1>6, SignalStep
<1>7. ASSUME UNCHANGED <<daemonVars, shutdownVars, processVars>>, savePids({})
      PROVE  SInv'
  <2>1. FilesOK'
    BY <1>7, SavedFiles
  <2>2. ShutdownOK' /\ ProcessesOK'
    BY <1>7 DEF ShutdownOK, ProcessesOK
  <2>3. QED BY <1>1, <1>7, <2>1, <2>2
<1>8. CASE SaveStatus \/ PidwatcherFires
  BY <1>7, <1>8 DEF SaveStatus, PidwatcherFires
<1>9. CASE AllDaemonsDown
  BY <1>9, AllDownStep
<1>10. ASSUME NEW i \in DOMAIN writes, WriteLands(i) PROVE SInv'
  <2>1. FilesOK'
    <3>1. /\ writes' = RemoveAt(writes, i)
          /\ \/ pidsJson' = TRUE /\ listed' = writes[i]
             \/ UNCHANGED <<pidsJson, listed>>
      BY <1>10 DEF WriteLands
    <3>2. /\ writes' \in Seq(SUBSET Enabled) /\ Len(writes') = Len(writes) - 1
          /\ writes[i] \subseteq Enabled
      BY <3>1, OneLanded DEF FilesOK
    <3>3. Len(writes') <= MaxWrites
      BY <3>2, LenProperties, BoundAssumption DEF FilesOK
    <3>4. QED BY <3>1, <3>2, <3>3 DEF FilesOK
  <2>2. UNCHANGED <<daemonVars, shutdownVars, processVars>>
    BY <1>10 DEF WriteLands
  <2>3. ShutdownOK' /\ ProcessesOK'
    BY <2>2 DEF ShutdownOK, ProcessesOK
  <2>4. QED BY <1>1, <2>1, <2>2, <2>3
<1>11. CASE LauncherDies
  <2>1. FilesOK'
    <3>1. writes' \in Seq(SUBSET Enabled) /\ Len(writes') = 0
      BY <1>11, EmptySeq DEF LauncherDies
    <3>2. UNCHANGED <<pidsJson, listed>> /\ 0 <= MaxWrites
      BY <1>11, BoundAssumption DEF LauncherDies
    <3>3. QED BY <3>1, <3>2 DEF FilesOK
  <2>2. /\ UNCHANGED <<daemonVars, shutdownVars, hung>>
        /\ ProcessesOK'
    BY <1>11 DEF LauncherDies, ProcessesOK
  <2>3. ShutdownOK'
    BY <2>2 DEF ShutdownOK
  <2>4. QED BY <1>1, <2>1, <2>2, <2>3
<1>12. ASSUME NEW d \in Enabled, DaemonEnds(d) PROVE SInv'
  <2>1. DaemonsOK' /\ ShutdownOK' /\ FilesOK' /\ ProcessesOK'
    BY <1>12 DEF DaemonEnds, DaemonsOK, ShutdownOK, FilesOK, ProcessesOK
  <2>2. OneEnd' /\ Dropped' /\ AllFlagged' /\ TimerOfShutdown' /\ DownMeansDown'
    BY <1>12 DEF DaemonEnds, OneEnd, Dropped, AllFlagged, TimerOfShutdown, DownMeansDown, DaemonsOK
  <2>3. QED BY <2>1, <2>2
<1>13. CASE Stop
  <2>1. DaemonsOK' /\ ShutdownOK' /\ FilesOK' /\ ProcessesOK'
    BY <1>13 DEF Stop, running, DaemonsOK, ShutdownOK, FilesOK, ProcessesOK
  <2>2. OneEnd' /\ Dropped' /\ AllFlagged' /\ TimerOfShutdown' /\ DownMeansDown'
    BY <1>13 DEF Stop, OneEnd, Dropped, AllFlagged, TimerOfShutdown, DownMeansDown
  <2>3. QED BY <2>1, <2>2
<1>14. CASE shutdownMonitor \/ StopAgain
  <2>1. UNCHANGED <<daemonVars, shutdownVars, fileVars, hung>> /\ ProcessesOK'
    BY <1>14 DEF shutdownMonitor, StopAgain, ProcessesOK
  <2>2. ShutdownOK' /\ FilesOK'
    BY <2>1 DEF ShutdownOK, FilesOK
  <2>3. QED BY <1>1, <2>1, <2>2
<1>15. CASE UNCHANGED vars
  <2>1. UNCHANGED <<daemonVars, shutdownVars, fileVars, processVars>>
    BY <1>15 DEF vars
  <2>2. ShutdownOK' /\ FilesOK' /\ ProcessesOK'
    BY <2>1 DEF ShutdownOK, FilesOK, ProcessesOK
  <2>3. QED BY <1>1, <2>1, <2>2
<1>16. ASSUME NEW d \in Enabled, DaemonHangs(d) PROVE SInv'
  <2>1. /\ up[d] /\ hung' = hung \cup {d}
        /\ UNCHANGED <<daemonVars, shutdownVars, fileVars, launcher, sigterm, stop>>
    BY <1>16 DEF DaemonHangs
  <2>2. DaemonsOK' /\ ShutdownOK' /\ FilesOK' /\ ProcessesOK'
    BY <2>1 DEF DaemonsOK, ShutdownOK, FilesOK, ProcessesOK
  <2>3. OneEnd' /\ Dropped' /\ AllFlagged' /\ TimerOfShutdown' /\ DownMeansDown'
    BY <2>1 DEF OneEnd, Dropped, AllFlagged, TimerOfShutdown, DownMeansDown
  <2>4. QED BY <2>2, <2>3
<1>17. QED
  BY <1>2, <1>3, <1>4, <1>5, <1>6, <1>8, <1>9, <1>10, <1>11, <1>12, <1>13, <1>14, <1>15, <1>16
  DEF Next, Launcher

LEMMA Invariance == Spec => []SInv
BY InitSInv, StepSInv, PTL DEF Spec
---------------------------------------------------------------------------
(* Each daemon is one of module Daemon. *)

\* A shutdown is Daemon's for every daemon whose handle it is given as it is,
\* its timer says no more and no less than before.
LEMMA ShutdownIsDaemons ==
  ASSUME SInv, NEW h \in [Enabled -> {"null", "open", "killed"}], shutdownEverything(h),
         UNCHANGED up,
         NEW e \in Enabled, h[e] = handle[e], UNCHANGED closing[e]
  PROVE  D(e)!Shutdown
<1>1. shuttingDown' = TRUE
  BY DEF shutdownEverything
<1>2. handle'[e] = IF handle[e] = "open" THEN "killed" ELSE handle[e]
  BY DEF shutdownEverything
<1>3. (shutDownTimer' = "cleared") = (shutDownTimer = "cleared")
  BY DEF shutdownEverything
<1>4. UNCHANGED up[e]
  OBVIOUS
<1>5. QED BY <1>1, <1>2, <1>3, <1>4 DEF D!Shutdown, D!Marked

\* The launch of one daemon is Daemon's because nothing of it lives or closes,
\* and leaves the others alone.
LEMMA LaunchIsDaemons ==
  ASSUME SInv, NEW d \in Enabled, Launch(d), NEW e \in Enabled
  PROVE  D(e)!Next \/ UNCHANGED D(e)!vars
<1> USE DEF SInv, TypeOK, DaemonsOK
<1>1. /\ ~shuttingDown /\ UNCHANGED <<shuttingDown, shutDownTimer>>
      /\ ~up[d] /\ ~closing[d]
      /\ handle' = [handle EXCEPT ![d] = "open"]
      /\ \/ up' = [up EXCEPT ![d] = TRUE] /\ UNCHANGED closing
         \/ closing' = [closing EXCEPT ![d] = TRUE] /\ UNCHANGED up
         \/ UNCHANGED <<up, closing>>
  BY DEF Launch
<1>2. CASE e = d
  <2>1. ~shuttingDown /\ ~up[e] /\ ~closing[e] /\ handle'[e] = "open"
    BY <1>1, <1>2
  <2>2. up'[e] \in BOOLEAN /\ closing'[e] \in BOOLEAN /\ ~(up'[e] /\ closing'[e])
    BY <1>1, <1>2
  <2>3. shuttingDown' = FALSE /\ (shutDownTimer' = "cleared") = (shutDownTimer = "cleared")
    BY <1>1 DEF ShutdownOK
  <2>4. D(e)!Launch
    BY <2>1, <2>2, <2>3 DEF D!Launch
  <2>5. QED BY <2>4 DEF D!Next
<1>3. CASE e # d
  <2>1. UNCHANGED <<handle[e], up[e], closing[e]>>
    BY <1>1, <1>3
  <2>2. QED BY <1>1, <2>1 DEF D!vars
<1>4. QED BY <1>2, <1>3

\* A storage server that fails to start is launched and marked in one step;
\* for the others that is the shutdown.
LEMMA FailedStartIsDaemons ==
  ASSUME SInv, StorageStartFails, NEW e \in Enabled
  PROVE  D(e)!Next
<1> USE DEF SInv, TypeOK, DaemonsOK
<1> DEFINE h == [handle EXCEPT !["storage"] = "open"]
<1>1. /\ "storage" \in Enabled /\ ~shuttingDown
      /\ handle["storage"] = "null" /\ ~closing["storage"]
      /\ shutdownEverything(h) /\ UNCHANGED <<up, closing>>
  BY DEF StorageStartFails
<1>2. h \in [Enabled -> {"null", "open", "killed"}]
  OBVIOUS
<1>3. CASE e = "storage"
  <2>1. ~up[e] /\ ~closing[e] /\ up'[e] = FALSE /\ closing'[e] = FALSE
    BY <1>1, <1>3 DEF Dropped
  <2>2. shuttingDown' = TRUE /\ handle'[e] = "killed"
    BY <1>1, <1>3 DEF shutdownEverything
  <2>3. (shutDownTimer' = "cleared") = (shutDownTimer = "cleared")
    BY <1>1 DEF shutdownEverything
  <2>4. D(e)!Launch
    BY <1>1, <2>1, <2>2, <2>3 DEF D!Launch
  <2>5. QED BY <2>4 DEF D!Next
<1>4. CASE e # "storage"
  <2>1. h[e] = handle[e] /\ UNCHANGED closing[e] /\ UNCHANGED up
    BY <1>1, <1>4
  <2>2. shutdownEverything(h)
    BY <1>1
  <2>3. D(e)!Shutdown
    <3> HIDE DEF h
    <3>1. QED BY <1>2, <2>1, <2>2, ShutdownIsDaemons
  <2>4. QED BY <2>3 DEF D!Next
<1>5. QED BY <1>3, <1>4

\* A 'close' is Daemon's, of a process that is gone; when lokid's ends the
\* suite, the others see a shutdown.
LEMMA CloseIsDaemons ==
  ASSUME SInv, NEW d \in Enabled, OnClose(d), NEW e \in Enabled
  PROVE  D(e)!Next \/ UNCHANGED D(e)!vars
<1> USE DEF SInv, TypeOK, DaemonsOK
<1>1. /\ closing[d] /\ closing' = [closing EXCEPT ![d] = FALSE]
      /\ UNCHANGED up
  BY DEF OnClose
<1>2. CASE /\ ~shuttingDown /\ d = "lokid"
           /\ shutdownEverything([handle EXCEPT !["lokid"] = "killed"])
  <2> DEFINE h == [handle EXCEPT !["lokid"] = "killed"]
  <2>1. h \in [Enabled -> {"null", "open", "killed"}]
    OBVIOUS
  <2>2. CASE e = "lokid"
    <3>1. closing[e] /\ closing'[e] = FALSE /\ UNCHANGED up[e]
      BY <1>1, <1>2, <2>2
    <3>2. handle'[e] = "killed" /\ shuttingDown' = TRUE
      BY <1>2, <2>2 DEF shutdownEverything
    <3>3. (shutDownTimer' = "cleared") = (shutDownTimer = "cleared")
      BY <1>2 DEF shutdownEverything
    <3>4. D(e)!Close
      BY <3>1, <3>2, <3>3 DEF D!Close
    <3>5. QED BY <3>4 DEF D!Next
  <2>3. CASE e # "lokid"
    <3>1. h[e] = handle[e] /\ UNCHANGED closing[e]
      BY <1>1, <1>2, <2>3
    <3>2. shutdownEverything(h)
      BY <1>2
    <3>3. D(e)!Shutdown
      <4> HIDE DEF h
      <4>1. QED BY <1>1, <2>1, <3>1, <3>2, ShutdownIsDaemons
    <3>4. QED BY <3>3 DEF D!Next
  <2>4. QED BY <2>2, <2>3
<1>3. CASE /\ \E x \in {"null", "killed"} : handle' = [handle EXCEPT ![d] = x]
           /\ UNCHANGED shutdownVars
  <2>1. UNCHANGED <<shuttingDown, shutDownTimer>> /\ shuttingDown \in BOOLEAN
    BY <1>3 DEF ShutdownOK
  <2>2. CASE e = d
    <3>1. closing[e] /\ closing'[e] = FALSE /\ UNCHANGED up[e]
      BY <1>1, <2>2
    <3>2. handle'[e] \in {"null", "killed"}
      BY <1>3, <2>2
    <3>3. D(e)!Close
      BY <2>1, <3>1, <3>2 DEF D!Close
    <3>4. QED BY <3>3 DEF D!Next
  <2>3. CASE e # d
    <3>1. UNCHANGED <<handle[e], up[e], closing[e]>>
      BY <1>1, <1>3, <2>3
    <3>2. QED BY <2>1, <3>1 DEF D!vars
  <2>4. QED BY <2>2, <2>3
<1>4. QED BY <1>2, <1>3 DEF OnClose

\* The step of each action, for one daemon.
LEMMA DaemonStep ==
  ASSUME SInv, [Next]_vars, NEW e \in Enabled
  PROVE  D(e)!Next \/ UNCHANGED D(e)!vars
<1> USE DEF SInv, TypeOK
<1>1. ASSUME UNCHANGED <<handle, up, closing, shuttingDown, shutDownTimer>>
      PROVE  UNCHANGED D(e)!vars
  BY <1>1 DEF D!vars
<1>2. ASSUME NEW d \in Enabled, Launch(d) PROVE D(e)!Next \/ UNCHANGED D(e)!vars
  BY <1>2, LaunchIsDaemons
<1>3. ASSUME NEW d \in Enabled, OnClose(d) PROVE D(e)!Next \/ UNCHANGED D(e)!vars
  BY <1>3, CloseIsDaemons
<1>4. ASSUME NEW d \in Enabled, AskToEnd(d) PROVE D(e)!Next \/ UNCHANGED D(e)!vars
  <2>1. /\ handle[d] = "open" /\ handle' = [handle EXCEPT ![d] = "killed"]
        /\ UNCHANGED <<up, closing, shuttingDown, shutDownTimer>>
    BY <1>4 DEF AskToEnd
  <2>2. CASE e = d
    <3>1. handle[e] = "open" /\ handle'[e] = "killed"
      BY <2>1, <2>2 DEF DaemonsOK
    <3>2. D(e)!Ask
      BY <2>1, <3>1 DEF D!Ask
    <3>3. QED BY <3>2 DEF D!Next
  <2>3. CASE e # d
    <3>1. UNCHANGED handle[e]
      BY <2>1, <2>3 DEF DaemonsOK
    <3>2. QED BY <2>1, <3>1 DEF D!vars
  <2>4. QED BY <2>2, <2>3
<1>5. CASE StorageStartFails
  BY <1>5, FailedStartIsDaemons
<1>6. CASE shutdown_everything
  <2>1. /\ handle \in [Enabled -> {"null", "open", "killed"}]
        /\ shutdownEverything(handle) /\ UNCHANGED <<up, closing>>
    BY <1>6 DEF shutdown_everything, DaemonsOK
  <2>2. UNCHANGED up /\ UNCHANGED closing[e]
    BY <2>1
  <2>3. D(e)!Shutdown
    BY <2>1, <2>2, ShutdownIsDaemons
  <2>4. QED BY <2>3 DEF D!Next
<1>7. CASE SaveStatus \/ PidwatcherFires
  BY <1>1, <1>7 DEF SaveStatus, PidwatcherFires
<1>8. CASE AllDaemonsDown
  <2>1. /\ shutDownTimer = "on" /\ shutDownTimer' = "cleared" /\ ~up[e]
        /\ handle' = [d \in Enabled |-> IF d = "lokinet" THEN handle[d] ELSE "null"]
        /\ UNCHANGED <<up, closing, shuttingDown>>
    BY <1>8 DEF AllDaemonsDown
  <2>2. shuttingDown /\ handle[e] # "open"
    BY <2>1 DEF TimerOfShutdown, AllFlagged
  <2>3. handle'[e] \in {"null", handle[e]}
    BY <2>1
  <2>4. handle'[e] \in {"null", IF handle[e] = "open" THEN "killed" ELSE handle[e]}
    BY <2>2, <2>3
  <2>5. ~(shutDownTimer = "cleared") /\ (shutDownTimer' = "cleared") = TRUE
    BY <2>1
  <2>6. D(e)!AllDown
    BY <2>1, <2>2, <2>4, <2>5 DEF D!AllDown, D!Marked
  <2>7. QED BY <2>6 DEF D!Next
<1>9. ASSUME NEW i \in DOMAIN writes, WriteLands(i) PROVE UNCHANGED D(e)!vars
  BY <1>1, <1>9 DEF WriteLands
<1>10. ASSUME NEW d \in Enabled, DaemonEnds(d) PROVE D(e)!Next \/ UNCHANGED D(e)!vars
  <2>1. /\ up[d] /\ up' = [up EXCEPT ![d] = FALSE]
        /\ closing' = [closing EXCEPT ![d] = TRUE]
        /\ UNCHANGED <<handle, shuttingDown, shutDownTimer>>
    BY <1>10 DEF DaemonEnds
  <2>2. CASE e = d
    <3>1. up[e] /\ up'[e] = FALSE /\ closing'[e] = TRUE
      BY <2>1, <2>2 DEF DaemonsOK
    <3>2. D(e)!End
      BY <2>1, <3>1 DEF D!End
    <3>3. QED BY <3>2 DEF D!Next
  <2>3. CASE e # d
    <3>1. UNCHANGED <<up[e], closing[e]>>
      BY <2>1, <2>3 DEF DaemonsOK
    <3>2. QED BY <2>1, <3>1 DEF D!vars
  <2>4. QED BY <2>2, <2>3
<1>11. CASE LauncherDies \/ Stop \/ shutdownMonitor \/ StopAgain
  BY <1>1, <1>11 DEF LauncherDies, Stop, shutdownMonitor, StopAgain
<1>12. ASSUME NEW d \in Enabled, DaemonHangs(d) PROVE UNCHANGED D(e)!vars
  BY <1>1, <1>12 DEF DaemonHangs
<1>13. CASE UNCHANGED vars
  BY <1>1, <1>13 DEF vars
<1>14. QED
  BY <1>2, <1>3, <1>4, <1>5, <1>6, <1>7, <1>8, <1>9, <1>10, <1>11, <1>12, <1>13
  DEF Next, Launcher
---------------------------------------------------------------------------
\* The variables keep their types: no more saves wait than there are, and
\* they, like pids.json, name only daemons that are configured.
THEOREM TypeCorrect == Spec => []TypeOK
BY Invariance, PTL DEF SInv

\* The launcher that said "All daemons down." (daemon.js:233) leaves none of
\* them, whichever of them began the shutdown and whatever it interrupted.
THEOREM Down == Spec => []DownMeansDown
BY Invariance, PTL DEF SInv

\* Each of the daemons, seen alone, is a supervised daemon, although they
\* share one shutdown (daemon.js:133-241).
THEOREM Composition == Spec => EachIsDaemon
<1>1. Init => \A d \in Enabled : D(d)!Init
  BY DEF Init, D!Init
<1>2. SInv /\ [Next]_vars
        => [\A d \in Enabled : D(d)!Next \/ UNCHANGED D(d)!vars]_vars
  BY DaemonStep
<1>3. QED BY Invariance, <1>1, <1>2, PTL DEF Spec, EachIsDaemon
===========================================================================
