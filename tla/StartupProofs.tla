--------------------------- MODULE StartupProofs ---------------------------
(***************************************************************************)
(* Proofs about Startup, for any number of launchers and daemons and any   *)
(* number of deaths.  The inductive invariant IInv says that one launcher  *)
(* at a time is past its check (OneActive), that a lokid nobody told to end*)
(* can be found (Findable), and that what a launcher's check found is still*)
(* so when it acts on it (StillTrue).                                      *)
(***************************************************************************)
EXTENDS Startup, TLAPS

USE DEF fileVars, Pid, Phase

LEMMA InitIInv == Init => IInv
BY NoneAssumption, BoundAssumption
DEF Init, IInv, TypeOK, OneActive, OneLokid, Findable, StillTrue, Untold, Active

(* What Told does to a process. *)
LEMMA ToldFacts ==
  ASSUME TypeOK, NEW S, NEW p \in Pid
  PROVE  /\ Told(S)[p] \in Phase
         /\ Told(S)[p] = "none" <=> proc[p] = "none"
         /\ Told(S)[p] = "starting" <=> proc[p] = "starting" /\ p \notin S
         /\ Told(S)[p] = "serving" <=> proc[p] = "serving" /\ p \notin S
         /\ Told(S)[p] = "ending" => proc[p] \in {"ending", "serving"}
         /\ proc[p] = "flushing" => Told(S)[p] = "flushing"
<1>1. proc[p] \in Phase
  BY DEF TypeOK
<1>2. CASE p \notin S \cap Untold
  <2>1. Told(S)[p] = proc[p]
    BY <1>2 DEF Told
  <2>2. QED BY <1>1, <1>2, <2>1 DEF Untold
<1>3. CASE p \in S /\ proc[p] = "starting"
  BY <1>3 DEF Told, Untold
<1>4. CASE p \in S /\ proc[p] = "serving"
  <2>1. Told(S)[p] = "ending"
    BY <1>4 DEF Told, Untold
  <2>2. QED BY <1>4, <2>1
<1>5. QED BY <1>1, <1>2, <1>3, <1>4 DEF Untold

LEMMA ToldType == ASSUME TypeOK, NEW S
                  PROVE  Told(S) \in [Pid -> Phase]
<1>1. \A p \in Pid : Told(S)[p] \in Phase
  BY ToldFacts
<1>2. QED BY <1>1 DEF Told

(* A check tells no lokid to end; with nothing left to be seen, pids.json
   names no lokid that exists. *)
LEMMA CheckFacts ==
  ASSUME TypeOK
  PROVE  /\ killStrays.left \subseteq {"lokid", "lokinet"}
         /\ killStrays.proc \in [Pid -> Phase]
         /\ \A p \in LokidPid : killStrays.proc[p] = proc[p]
         /\ killStrays.left = {} => LokidPid \cap listed \cap Alive = {}
<1>1. \A p \in LokidPid : Told(listed \cap LokinetPid)[p] = proc[p]
  BY PidAssumption DEF Told
<1>2. QED BY <1>1, ToldType DEF killStrays, running, TypeOK
---------------------------------------------------------------------------
LEMMA TypeStep == TypeOK /\ [Next]_vars => TypeOK'
<1> SUFFICES ASSUME TypeOK, [Next]_vars PROVE TypeOK'
  OBVIOUS
<1> USE BoundAssumption DEF TypeOK
<1>1. ASSUME NEW l \in Launcher, Check(l) PROVE TypeOK'
  BY <1>1, CheckFacts DEF Check
<1>2. ASSUME NEW l \in Launcher, Probed(l) PROVE TypeOK'
  BY <1>2 DEF Probed
<1>3. ASSUME NEW l \in Launcher,
             Verified(l) \/ NotVerified(l) \/ GotPublicIP(l) \/ NoPublicIP(l)
      PROVE  TypeOK'
  BY <1>3 DEF Verified, NotVerified, GotPublicIP, NoPublicIP
<1>4. ASSUME NEW l \in Launcher, NEW p \in Pid,
             LaunchLokid(l, p) \/ LaunchLokinet(l, p)
      PROVE  TypeOK'
  BY <1>4 DEF LaunchLokid, LaunchLokinet, savePids, Alive
<1>5. ASSUME NEW l \in Launcher, SaveStatus(l) \/ AllDaemonsDown(l) \/ Dies(l)
      PROVE  TypeOK'
  BY <1>5 DEF SaveStatus, savePids, AllDaemonsDown, Dies
<1>6. ASSUME NEW l \in Launcher, shutdown_everything(l) PROVE TypeOK'
  BY <1>6, ToldType DEF shutdown_everything
<1>7. CASE StopOrphans
  BY <1>7, ToldType DEF StopOrphans
<1>8. ASSUME NEW p \in Pid, LokidBinds(p) \/ LokidReleases(p) \/ DaemonEnds(p)
      PROVE  TypeOK'
  BY <1>8 DEF LokidBinds, LokidReleases, DaemonEnds
<1>9. CASE UNCHANGED vars
  BY <1>9 DEF vars
<1>10. QED
  BY <1>1, <1>2, <1>3, <1>4, <1>5, <1>6, <1>7, <1>8, <1>9 DEF Next, Start, Running

(* One active launcher: a check passes only when launcher.pid names nobody,
   that is when none is locked or up, and when none is busy otherwise. *)
LEMMA ActiveStep == TypeOK /\ OneActive /\ [Next]_vars => OneActive'
<1> SUFFICES ASSUME TypeOK, OneActive, [Next]_vars PROVE OneActive'
  OBVIOUS
<1> USE NoneAssumption DEF TypeOK, OneActive, Active
<1>1. ASSUME NEW l \in Launcher, Check(l) PROVE OneActive'
  <2>1. \A k \in Launcher : pc[k] \in Active => areWeRunning
    BY <1>1 DEF Check, Settled, areWeRunning
  <2>2. QED BY <1>1, <2>1 DEF Check, areWeRunning
<1>2. ASSUME NEW l \in Launcher, Probed(l) PROVE OneActive'
  <2>1. \A k \in Launcher : pc[k] \in Active => k = l
    BY <1>2 DEF Probed
  <2>2. QED BY <1>2, <2>1 DEF Probed
<1>3. ASSUME NEW l \in Launcher,
             Verified(l) \/ NotVerified(l) \/ GotPublicIP(l) \/ NoPublicIP(l)
      PROVE  OneActive'
  BY <1>3 DEF Verified, NotVerified, GotPublicIP, NoPublicIP
<1>4. ASSUME NEW l \in Launcher, NEW p \in Pid,
             LaunchLokid(l, p) \/ LaunchLokinet(l, p)
      PROVE  OneActive'
  BY <1>4 DEF LaunchLokid, LaunchLokinet
<1>5. ASSUME NEW l \in Launcher, shutdown_everything(l) PROVE OneActive'
  <2>1. \A k \in Launcher : pc[k] \in Active => k = l
    BY <1>5 DEF shutdown_everything
  <2>2. QED BY <1>5, <2>1 DEF shutdown_everything
<1>6. ASSUME NEW l \in Launcher, SaveStatus(l) \/ AllDaemonsDown(l) \/ Dies(l)
      PROVE  OneActive'
  BY <1>6 DEF SaveStatus, AllDaemonsDown, Dies
<1>7. CASE StopOrphans
  BY <1>7 DEF StopOrphans, areWeRunning
<1>8. ASSUME NEW p \in Pid, LokidBinds(p) \/ LokidReleases(p) \/ DaemonEnds(p)
      PROVE  OneActive'
  BY <1>8 DEF LokidBinds, LokidReleases, DaemonEnds
<1>9. CASE UNCHANGED vars
  BY <1>9 DEF vars
<1>10. QED
  BY <1>1, <1>2, <1>3, <1>4, <1>5, <1>6, <1>7, <1>8, <1>9 DEF Next, Start, Running

(* The lokids.  A step that starts none and tells or ends some keeps them one
   and findable, as long as pids.json keeps those it names. *)
LEMMA FewerLokids ==
  ASSUME TypeOK, OneLokid, Findable,
         proc' \in [Pid -> Phase],
         \A p \in LokidPid :
           /\ proc'[p] = "starting" => proc[p] = "starting"
           /\ proc'[p] = "serving" => proc[p] = "serving"
           /\ proc'[p] = "ending" => proc[p] \in {"serving", "ending"},
         LokidPid \cap Untold' \cap listed \subseteq listed'
  PROVE  OneLokid' /\ Findable'
<1>1. LokidPid \cap Untold' \subseteq LokidPid \cap Untold
  BY DEF Untold
<1>2. OneLokid'
  BY <1>1 DEF OneLokid
<1>3. \A p \in LokidPid \cap Untold' : p \in listed' \/ proc'[p] = "serving"
  BY <1>1 DEF Findable, Untold
<1>4. (\E p \in LokidPid : proc'[p] = "starting") => portIsFree'
  BY DEF Findable, portIsFree
<1>5. QED BY <1>2, <1>3, <1>4 DEF Findable

LEMMA LokidStep == IInv /\ [Next]_vars => OneLokid' /\ Findable' /\ StillTrue'
<1> SUFFICES ASSUME IInv, [Next]_vars PROVE OneLokid' /\ Findable' /\ StillTrue'
  OBVIOUS
<1>0. TypeOK' /\ OneActive'
  BY TypeStep, ActiveStep DEF IInv
<1> USE DEF IInv
<1>1. ASSUME UNCHANGED <<proc, children, listed>>,
             \A l \in Launcher : UNCHANGED <<pc[l], seen[l]>>
                                \/ pc'[l] \in {"idle", "verifying", "forked"}
      PROVE  OneLokid' /\ Findable' /\ StillTrue'
  BY <1>1 DEF OneLokid, Findable, StillTrue, Untold, portIsFree
<1>2. ASSUME NEW l \in Launcher, Check(l)
      PROVE  OneLokid' /\ Findable' /\ StillTrue'
  <2>1. CASE areWeRunning
    BY <1>1, <1>2, <2>1 DEF Check, TypeOK
  <2>2. CASE ~areWeRunning
    <3>1. /\ \A p \in LokidPid : proc'[p] = proc[p]
          /\ UNCHANGED <<children, listed>>
          /\ pc' = [pc EXCEPT ![l] = IF pc[l] = "idle" THEN "looking" ELSE "relooking"]
          /\ seen' = [seen EXCEPT ![l] = killStrays.left]
      BY <1>2, <2>2, CheckFacts DEF Check
    <3>2. OneLokid' /\ Findable'
      BY <1>0, <3>1, FewerLokids DEF TypeOK
    <3>3. seen'[l] = {} => LokidPid \cap Untold' \cap listed' = {}
      BY <3>1, CheckFacts DEF TypeOK, Untold, Alive
    <3>4. StillTrue'
      BY <1>0, <3>1, <3>3 DEF StillTrue, TypeOK, OneActive, Active
    <3>5. QED BY <3>2, <3>4
  <2>3. QED BY <2>1, <2>2
<1>3. ASSUME NEW l \in Launcher, Probed(l)
      PROVE  OneLokid' /\ Findable' /\ StillTrue'
  <2>1. UNCHANGED <<proc, children, listed>>
    BY <1>3 DEF Probed
  <2>2. OneLokid' /\ Findable'
    BY <2>1 DEF OneLokid, Findable, Untold, portIsFree
  <2>3. \A k \in Launcher : k # l => UNCHANGED pc[k] /\ UNCHANGED seen[k]
    BY <1>3 DEF Probed, TypeOK
  <2>4. pc'[l] = "failing" => \A p \in LokidPid : proc[p] # "starting"
    BY <1>3 DEF Probed, TypeOK, Findable
  <2>5. pc'[l] = "locked" => \A p \in LokidPid : proc[p] \in {"none", "flushing"}
    BY <1>3 DEF Probed, TypeOK, Findable, StillTrue, Untold, portIsFree
  <2>6. pc'[l] \in {"failing", "idle", "verifying", "locked"}
    BY <1>3 DEF Probed, TypeOK
  <2>7. QED BY <2>1, <2>2, <2>3, <2>4, <2>5, <2>6 DEF StillTrue, Untold
<1>4. ASSUME NEW l \in Launcher, Verified(l) \/ NotVerified(l) \/ NoPublicIP(l)
      PROVE  OneLokid' /\ Findable' /\ StillTrue'
  BY <1>1, <1>4 DEF Verified, NotVerified, NoPublicIP, TypeOK
<1>5. ASSUME NEW l \in Launcher, GotPublicIP(l) \/ SaveStatus(l)
      PROVE  OneLokid' /\ Findable' /\ StillTrue'
  <2>1. pc[l] \in {"locked", "up", "stopping"} /\ UNCHANGED <<proc, children, seen>>
    BY <1>5 DEF GotPublicIP, SaveStatus
  <2>2. LokidPid \cap Untold \subseteq children[l]
    BY <2>1 DEF StillTrue, Untold
  <2>3. LokidPid \cap Untold \cap listed \subseteq listed'
    BY <1>5, <2>1, <2>2 DEF GotPublicIP, SaveStatus, savePids, Untold
  <2>4. OneLokid' /\ Findable'
    BY <1>0, <2>1, <2>3, FewerLokids DEF TypeOK, Untold
  <2>5. \A k \in Launcher : pc'[k] = pc[k] \/ (pc[k] = "locked" /\ pc'[k] = "up")
    BY <1>5 DEF GotPublicIP, SaveStatus, TypeOK
  <2>6. \A k \in Launcher : pc[k] \notin {"looking", "relooking"}
    BY <2>1 DEF OneActive, Active
  <2>7. QED BY <2>1, <2>4, <2>5, <2>6 DEF StillTrue, Untold
<1>6. ASSUME NEW l \in Launcher, NEW p \in Pid, LaunchLokid(l, p)
      PROVE  OneLokid' /\ Findable' /\ StillTrue'
  <2>1. /\ pc[l] = "up" /\ UNCHANGED pc
        /\ p \in LokidPid /\ proc[p] = "none"
        /\ proc' = [proc EXCEPT ![p] = "starting"]
        /\ children'[l] = (children[l] \cap Alive) \cup {p}
    BY <1>6 DEF LaunchLokid, Alive, TypeOK
  <2>2. \A q \in LokidPid : proc[q] \in {"none", "flushing"}
    BY <1>6, <2>1 DEF LaunchLokid, Alive, StillTrue
  <2>3. LokidPid \cap Untold' = {p}
    BY <2>1, <2>2 DEF Untold, TypeOK
  <2>4. p \in listed'
    BY <1>6, <2>1 DEF LaunchLokid, savePids, TypeOK
  <2>5. portIsFree'
    BY <2>1, <2>2 DEF portIsFree, TypeOK
  <2>6. \A k \in Launcher : pc[k] \in Active => k = l
    BY <2>1 DEF OneActive, Active
  <2>7. \A q \in LokidPid : q \in children'[l] \/ proc'[q] \in {"none", "flushing"}
    BY <2>1, <2>2 DEF TypeOK
  <2>8. QED BY <2>1, <2>3, <2>4, <2>5, <2>6, <2>7
            DEF OneLokid, Findable, StillTrue, Active
<1>7. ASSUME NEW l \in Launcher, NEW p \in Pid, LaunchLokinet(l, p)
      PROVE  OneLokid' /\ Findable' /\ StillTrue'
  <2>1. /\ pc[l] = "up" /\ UNCHANGED pc
        /\ \A q \in LokidPid : proc'[q] = proc[q]
        /\ children'[l] = (children[l] \cap Alive) \cup {p}
    BY <1>7, PidAssumption DEF LaunchLokinet, TypeOK
  <2>2. LokidPid \cap Untold \subseteq children[l] \cap Alive
    BY <2>1 DEF StillTrue, Untold, Alive
  <2>3. LokidPid \cap Untold \cap listed \subseteq listed'
    BY <1>7, <2>1, <2>2 DEF LaunchLokinet, savePids, Untold
  <2>4. OneLokid' /\ Findable'
    BY <1>0, <2>1, <2>3, FewerLokids DEF TypeOK, Untold
  <2>5. \A k \in Launcher : pc[k] \in Active => k = l
    BY <2>1 DEF OneActive, Active
  <2>6. \A q \in LokidPid : q \in children'[l] \/ proc'[q] \in {"none", "flushing"}
    BY <2>1 DEF StillTrue, Alive
  <2>7. QED BY <2>1, <2>4, <2>5, <2>6 DEF StillTrue, Active
<1>8. ASSUME NEW l \in Launcher, shutdown_everything(l)
      PROVE  OneLokid' /\ Findable' /\ StillTrue'
  <2>1. /\ pc[l] = "up" /\ pc' = [pc EXCEPT ![l] = "stopping"]
        /\ proc' = Told(children[l]) /\ UNCHANGED <<children, listed>>
    BY <1>8 DEF shutdown_everything
  <2>2. OneLokid' /\ Findable'
    BY <1>0, <2>1, ToldFacts, FewerLokids DEF TypeOK
  <2>3. \A k \in Launcher : pc[k] \in Active => k = l
    BY <2>1 DEF OneActive, Active
  <2>4. children[l] \cap Untold' = {}
    BY <2>1, ToldFacts DEF Untold
  <2>5. \A p \in LokidPid : p \in children[l] \/ proc'[p] \in {"none", "flushing"}
    BY <2>1, ToldFacts DEF StillTrue
  <2>6. QED BY <2>1, <2>2, <2>3, <2>4, <2>5 DEF StillTrue, Active, TypeOK
<1>9. ASSUME NEW l \in Launcher, AllDaemonsDown(l)
      PROVE  OneLokid' /\ Findable' /\ StillTrue'
  <2>1. /\ pc[l] \in {"failing", "stopping"} /\ pc' = [pc EXCEPT ![l] = "idle"]
        /\ UNCHANGED proc /\ listed' = {}
    BY <1>9 DEF AllDaemonsDown
  <2>2. \A p \in LokidPid : proc[p] # "starting"
    BY <1>9, <2>1 DEF AllDaemonsDown, StillTrue, Untold
  <2>3. OneLokid' /\ Findable'
    BY <2>1, <2>2 DEF OneLokid, Findable, Untold
  <2>4. \A k \in Launcher : pc'[k] \notin Active
    BY <2>1 DEF OneActive, Active, TypeOK
  <2>5. QED BY <2>3, <2>4 DEF StillTrue, Active
<1>10. ASSUME NEW l \in Launcher, Dies(l)
       PROVE  OneLokid' /\ Findable' /\ StillTrue'
  <2>1. UNCHANGED <<proc, listed>> /\ pc'[l] = "idle"
    BY <1>10 DEF Dies, TypeOK
  <2>2. \A k \in Launcher : k # l =>
          UNCHANGED pc[k] /\ UNCHANGED seen[k] /\ UNCHANGED children[k]
    BY <1>10 DEF Dies, TypeOK
  <2>3. OneLokid' /\ Findable'
    BY <2>1 DEF OneLokid, Findable, Untold, portIsFree
  <2>4. QED BY <2>1, <2>2, <2>3 DEF StillTrue, Untold
<1>11. ASSUME UNCHANGED <<pc, seen, children, listed>>,
              \A p \in Pid :
                /\ proc'[p] = "starting" => proc[p] = "starting"
                /\ proc'[p] = "serving" => proc[p] = "serving"
                /\ proc'[p] = "ending" => proc[p] \in {"serving", "ending"}
       PROVE  OneLokid' /\ Findable' /\ StillTrue'
  <2>1. OneLokid' /\ Findable'
    BY <1>0, <1>11, FewerLokids DEF TypeOK
  <2>2. Untold' \subseteq Untold
    BY <1>11 DEF Untold
  <2>3. \A p \in Pid : proc'[p] \in Phase
    BY <1>0 DEF TypeOK
  <2>4. \A p \in Pid :
          proc[p] \in {"none", "flushing"} => proc'[p] \in {"none", "flushing"}
    BY <1>11, <2>3
  <2>5. QED BY <1>11, <2>1, <2>2, <2>4 DEF StillTrue
<1>12. CASE StopOrphans
  BY <1>11, <1>12, ToldFacts DEF StopOrphans
<1>13. ASSUME NEW p \in Pid, LokidBinds(p)
       PROVE  OneLokid' /\ Findable' /\ StillTrue'
  <2>1. /\ p \in LokidPid /\ proc[p] = "starting"
        /\ proc' = [proc EXCEPT ![p] = "serving"]
        /\ UNCHANGED <<pc, seen, children, listed>>
    BY <1>13 DEF LokidBinds
  <2>2. Untold' = Untold
    BY <2>1 DEF Untold, TypeOK
  <2>3. \A q \in LokidPid : proc'[q] # "starting"
    BY <2>1 DEF OneLokid, Untold, TypeOK
  <2>4. QED BY <2>1, <2>2, <2>3 DEF OneLokid, Findable, StillTrue, Untold, TypeOK
<1>14. ASSUME NEW p \in Pid, LokidReleases(p) \/ DaemonEnds(p)
       PROVE  OneLokid' /\ Findable' /\ StillTrue'
  <2>1. UNCHANGED <<pc, seen, children, listed>>
    BY <1>14 DEF LokidReleases, DaemonEnds
  <2>2. proc' = [proc EXCEPT ![p] = "none"] \/ proc' = [proc EXCEPT ![p] = "flushing"]
    BY <1>14 DEF LokidReleases, DaemonEnds
  <2>3. QED BY <1>11, <2>1, <2>2 DEF TypeOK
<1>15. CASE UNCHANGED vars
  BY <1>1, <1>15 DEF vars
<1>16. QED
  BY <1>2, <1>3, <1>4, <1>5, <1>6, <1>7, <1>8, <1>9, <1>10, <1>12, <1>13, <1>14,
     <1>15 DEF Next, Start, Running

LEMMA Invariance == Spec => []IInv
<1>1. IInv /\ [Next]_vars => IInv'
  BY TypeStep, ActiveStep, LokidStep DEF IInv
<1>2. QED BY InitIInv, <1>1, PTL DEF Spec
---------------------------------------------------------------------------
\* The variables keep their types, and a launcher that is not up or stopping
\* has no children.
THEOREM TypeCorrect == Spec => []TypeOK
BY Invariance, PTL DEF IInv

\* One launcher runs at a time, and launcher.pid names it.
THEOREM SingleLauncher == Spec => []OneLauncher
<1>1. IInv => OneLauncher
  BY DEF IInv, OneActive, OneLauncher
<1>2. QED BY Invariance, <1>1, PTL

\* There is one lokid that nobody told to end, whoever launched it.
THEOREM SingleLokid == Spec => []OneLokid
BY Invariance, PTL DEF IInv
===========================================================================
