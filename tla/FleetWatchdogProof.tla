------------------------- MODULE FleetWatchdogProof -------------------------
(***************************************************************************)
(* Proofs about FleetWatchdog for any number of watchdog processes and     *)
(* ranks, any threshold and limit, and any faults.                         *)
(***************************************************************************)
EXTENDS FleetWatchdog, TLAPS

(* Nothing runs at first. *)
LEMMA InitActor == Init => ActorInv
BY DEF Init, ActorInv, OneActor, GivenUpIsQuiet, BusyInStage, Busy, Stages

(* What the fleet, the network and the operator do leaves the shells and    *)
(* their commands alone, and never sets the flag.                           *)
LEMMA EnvironmentActor ==
  ASSUME ActorInv, Environment
  PROVE  ActorInv'
<1>1. UNCHANGED <<pc, cmd>> /\ (giveup' => giveup)
  BY DEF Environment, RankDies, Unreach, Reach, EngineWedges, Boot, BootHung,
         Pause, Resume, ReArm, flagVars, shellVars
<1>2. QED
  BY <1>1 DEF ActorInv, OneActor, GivenUpIsQuiet, BusyInStage, Busy

(* A step of a shell that stays alive, runs no command while it takes the   *)
(* step, and leaves the other processes alone.                              *)
ShellOnly(w) ==
  /\ pc[w] # "off"
  /\ \E p \in {"loop", "probe", "canary", "wait", "recovered"} \cup Stages :
       pc' = [pc EXCEPT ![w] = p]
  /\ cmd' = cmd

(* Such a step outside the stages keeps the invariant, also one that gives  *)
(* up, because it ends at the top of the loop.                              *)
LEMMA ShellOnlyActor ==
  ASSUME ActorInv, NEW w \in Watchdogs, ShellOnly(w), ~ Busy(w),
         giveup' => pc'[w] = "loop"
  PROVE  ActorInv'
<1>1. PICK p \in {"loop", "probe", "canary", "wait", "recovered"} \cup Stages :
        pc' = [pc EXCEPT ![w] = p]
  BY DEF ShellOnly
<1>2. /\ pc \in [Watchdogs -> {"off", "loop", "probe", "canary", "wait",
                               "recovered"} \cup Stages]
      /\ DOMAIN cmd = Watchdogs
      /\ pc[w] # "off"
      /\ cmd' = cmd
  BY DEF ActorInv, ShellOnly
<1>3. \A v \in Watchdogs \ {w} : ~ Busy(v) /\ pc[v] = "off"
  BY <1>2 DEF ActorInv, OneActor
<1>4. /\ pc' \in [Watchdogs -> {"off", "loop", "probe", "canary", "wait",
                                "recovered"} \cup Stages]
      /\ \A v \in Watchdogs \ {w} : pc'[v] = "off"
      /\ \A v \in Watchdogs : Busy(v)' = Busy(v)
  BY <1>1, <1>2, <1>3 DEF Busy
<1>5. \A v \in Watchdogs : ~ Busy(v)'
  BY <1>3, <1>4
<1>6. OneActor' /\ BusyInStage'
  BY <1>4, <1>5 DEF OneActor, BusyInStage
<1>7. GivenUpIsQuiet'
  BY <1>2, <1>4, <1>5 DEF GivenUpIsQuiet
<1>8. QED BY <1>2, <1>4, <1>6, <1>7 DEF ActorInv

(* Every step of a live shell keeps the invariant.  The lock has kept the   *)
(* others away, so that giving up finds nobody at work.                     *)
LEMMA ShellActor ==
  ASSUME ActorInv, NEW w \in Watchdogs, Shell(w)
  PROVE  ActorInv'
<1>1. /\ pc \in [Watchdogs -> {"off", "loop", "probe", "canary", "wait",
                               "recovered"} \cup Stages]
      /\ DOMAIN cmd = Watchdogs
  BY DEF ActorInv
<1>2. pc[w] # "off"
  BY DEF Shell, Loop, ProbeRank, ProbeHealth, ProbeCanary, Issue, EndStage,
         WaitHealthy, WaitAgain, WaitTimeout, Recovered, Stages
<1>3. giveup => pc[w] = "loop"
  BY <1>2 DEF ActorInv, GivenUpIsQuiet
<1>4. pc[w] \notin Stages => ~ Busy(w)
  BY <1>2 DEF ActorInv, BusyInStage
<1>5. \A p : pc' = [pc EXCEPT ![w] = p] => pc'[w] = p
  BY <1>1
<1>6. pc = [pc EXCEPT ![w] = pc[w]]
  BY <1>1
<1>7. CASE Loop(w)
  <2>1. /\ pc[w] = "loop"
        /\ cmd' = cmd
        /\ giveup' = giveup
        /\ IF OffDuty THEN pc' = pc ELSE pc' = [pc EXCEPT ![w] = "probe"]
    BY <1>7 DEF Loop, flagVars
  <2>2. ShellOnly(w) /\ (giveup' => pc'[w] = "loop")
    BY <1>5, <1>6, <2>1 DEF ShellOnly, OffDuty
  <2>3. ~ Busy(w)
    BY <1>4, <2>1 DEF Stages
  <2>4. QED BY <2>2, <2>3, ShellOnlyActor
<1>8. CASE ProbeRank(w) \/ ProbeHealth(w) \/ ProbeCanary(w)
  <2>1. pc[w] \in {"probe", "canary"}
    BY <1>8 DEF ProbeRank, ProbeHealth, ProbeCanary
  <2>2. /\ cmd' = cmd
        /\ giveup' = giveup
        /\ \/ pc' = pc
           \/ \E p \in {"loop", "canary", "teardown"} : pc' = [pc EXCEPT ![w] = p]
    BY <1>8 DEF ProbeRank, ProbeHealth, ProbeCanary, ProbeFails, BeginRecovery,
                flagVars
  <2>3. ShellOnly(w)
    BY <1>2, <1>6, <2>1, <2>2 DEF ShellOnly, Stages
  <2>4. ~ Busy(w) /\ ~ giveup'
    BY <1>3, <1>4, <2>1, <2>2 DEF Stages
  <2>5. QED BY <2>3, <2>4, ShellOnlyActor
<1>9. CASE EndStage(w)
  <2>1. /\ pc[w] \in Stages
        /\ ~ Busy(w)
        /\ cmd' = cmd
        /\ giveup' = giveup
        /\ pc' = [pc EXCEPT ![w] = NextStage[pc[w]]]
    BY <1>9 DEF EndStage, Busy, flagVars
  <2>2. NextStage[pc[w]] \in {"ritual", "launch", "wait", "recovered"}
    BY <2>1 DEF NextStage, Stages
  <2>3. ShellOnly(w)
    BY <1>2, <2>1, <2>2 DEF ShellOnly, Stages
  <2>4. ~ giveup'
    BY <1>3, <2>1 DEF Stages
  <2>5. QED BY <2>1, <2>3, <2>4, ShellOnlyActor
<1>10. CASE WaitHealthy(w) \/ WaitAgain(w)
  <2>1. /\ pc[w] = "wait"
        /\ cmd' = cmd
        /\ giveup' = giveup
        /\ pc' = pc \/ pc' = [pc EXCEPT ![w] = "stop"]
    BY <1>10 DEF WaitHealthy, WaitAgain, flagVars
  <2>2. ShellOnly(w)
    BY <1>2, <1>6, <2>1 DEF ShellOnly, Stages
  <2>3. ~ Busy(w) /\ ~ giveup'
    BY <1>3, <1>4, <2>1 DEF Stages
  <2>4. QED BY <2>2, <2>3, ShellOnlyActor
<1>11. CASE WaitTimeout(w) \/ Recovered(w)
  <2>1. /\ pc[w] \in {"wait", "recovered"}
        /\ cmd' = cmd
        /\ pc' = [pc EXCEPT ![w] = "loop"]
    BY <1>11 DEF WaitTimeout, Recovered
  <2>2. ShellOnly(w) /\ pc'[w] = "loop"
    BY <1>2, <1>5, <2>1 DEF ShellOnly
  <2>3. ~ Busy(w)
    BY <1>4, <2>1 DEF Stages
  <2>4. QED BY <2>2, <2>3, ShellOnlyActor
<1>12. CASE Issue(w)
  <2>1. /\ pc[w] \in Stages
        /\ pc' = pc
        /\ giveup' = giveup
        /\ \E c : cmd' = [cmd EXCEPT ![w] = c]
    BY <1>12 DEF Issue, flagVars
  <2>2. DOMAIN cmd' = Watchdogs /\ \A v \in Watchdogs \ {w} : cmd'[v] = cmd[v]
    BY <1>1, <2>1
  <2>3. \A v \in Watchdogs \ {w} : ~ Busy(v) /\ pc[v] = "off"
    BY <1>2 DEF ActorInv, OneActor
  <2>4. \A v \in Watchdogs \ {w} : ~ Busy(v)' /\ pc'[v] = "off"
    BY <2>1, <2>2, <2>3 DEF Busy
  <2>5. ~ giveup'
    BY <1>3, <2>1 DEF Stages
  <2>6. OneActor' /\ GivenUpIsQuiet' /\ BusyInStage'
    BY <2>1, <2>4, <2>5 DEF OneActor, GivenUpIsQuiet, BusyInStage
  <2>7. QED BY <1>1, <2>1, <2>2, <2>6 DEF ActorInv
<1>13. QED
  BY <1>7, <1>8, <1>9, <1>10, <1>11, <1>12 DEF Shell

(* A watchdog starts only when neither a shell nor a child is left. *)
LEMMA StartActor ==
  ASSUME ActorInv, NEW w \in Watchdogs, Start(w)
  PROVE  ActorInv'
<1>1. /\ pc' = [pc EXCEPT ![w] = "loop"]
      /\ cmd' = cmd
      /\ \A v \in Watchdogs : pc[v] = "off" /\ ~ Busy(v)
  BY DEF Start, LockFree, Busy
<1>2. /\ pc \in [Watchdogs -> {"off", "loop", "probe", "canary", "wait",
                               "recovered"} \cup Stages]
      /\ DOMAIN cmd = Watchdogs
  BY DEF ActorInv
<1>3. /\ \A v \in Watchdogs : ~ Busy(v)'
      /\ pc' \in [Watchdogs -> {"off", "loop", "probe", "canary", "wait",
                                "recovered"} \cup Stages]
      /\ pc'[w] = "loop"
      /\ \A v \in Watchdogs \ {w} : pc'[v] = "off"
  BY <1>1, <1>2 DEF Busy
<1>4. OneActor' /\ GivenUpIsQuiet' /\ BusyInStage'
  BY <1>3 DEF OneActor, GivenUpIsQuiet, BusyInStage
<1>5. QED BY <1>1, <1>2, <1>3, <1>4 DEF ActorInv

(* A killed shell leaves at most the command it had started. *)
LEMMA KillActor ==
  ASSUME ActorInv, NEW w \in Watchdogs, Kill(w)
  PROVE  ActorInv'
<1>1. /\ pc' = [pc EXCEPT ![w] = "off"]
      /\ cmd' = cmd
      /\ giveup' = giveup
  BY DEF Kill, flagVars
<1>2. /\ pc \in [Watchdogs -> {"off", "loop", "probe", "canary", "wait",
                               "recovered"} \cup Stages]
      /\ DOMAIN cmd = Watchdogs
  BY DEF ActorInv
<1>3. /\ pc' \in [Watchdogs -> {"off", "loop", "probe", "canary", "wait",
                                "recovered"} \cup Stages]
      /\ \A v \in Watchdogs : /\ pc'[v] \in {pc[v], "off"}
                              /\ Busy(v)' = Busy(v)
  BY <1>1, <1>2 DEF Busy
<1>4. OneActor' /\ GivenUpIsQuiet' /\ BusyInStage'
  BY <1>1, <1>3 DEF ActorInv, OneActor, GivenUpIsQuiet, BusyInStage
<1>5. QED BY <1>1, <1>2, <1>3, <1>4 DEF ActorInv

(* A command ends. *)
LEMMA RunCmdActor ==
  ASSUME ActorInv, NEW w \in Watchdogs, RunCmd(w)
  PROVE  ActorInv'
<1>1. /\ pc' = pc
      /\ cmd' = [cmd EXCEPT ![w] = NoCmd]
      /\ giveup' = giveup
  BY DEF RunCmd, flagVars, shellVars
<1>2. DOMAIN cmd' = Watchdogs /\ \A v \in Watchdogs : Busy(v)' => Busy(v)
  BY <1>1 DEF ActorInv, Busy
<1>3. OneActor' /\ GivenUpIsQuiet' /\ BusyInStage'
  BY <1>1, <1>2 DEF ActorInv, OneActor, GivenUpIsQuiet, BusyInStage
<1>4. QED BY <1>1, <1>2, <1>3 DEF ActorInv

(* No two watchdogs act on the fleet, and a fleet that was given up is left *)
(* alone, whatever dies or is killed when (flock, run_on, GIVEUP_FLAG).     *)
THEOREM ActorInvHolds == Spec => []ActorInv
<1>1. ActorInv /\ [Next]_vars => ActorInv'
  <2> SUFFICES ASSUME ActorInv, [Next]_vars PROVE ActorInv'
    OBVIOUS
  <2>1. CASE UNCHANGED vars
    BY <2>1 DEF vars, flagVars, shellVars, ActorInv, OneActor, GivenUpIsQuiet,
                BusyInStage, Busy
  <2>2. CASE Environment
    BY <2>2, EnvironmentActor
  <2>3. ASSUME NEW w \in Watchdogs, Start(w) \/ Kill(w) \/ Shell(w) \/ RunCmd(w)
        PROVE  ActorInv'
    BY <2>3, StartActor, KillActor, ShellActor, RunCmdActor
  <2>4. QED BY <2>1, <2>2, <2>3 DEF Next
<1>2. QED BY <1>1, InitActor, PTL DEF Spec

(* At most one watchdog acts on the fleet at any time (flock). *)
THEOREM OneActorHolds == Spec => []OneActor
<1>1. ActorInv => OneActor
  BY DEF ActorInv
<1>2. QED BY <1>1, ActorInvHolds, PTL

(* Once given up nothing probes or relaunches the fleet (GIVEUP_FLAG). *)
THEOREM GivenUpIsQuietHolds == Spec => []GivenUpIsQuiet
<1>1. ActorInv => GivenUpIsQuiet
  BY DEF ActorInv
<1>2. QED BY <1>1, ActorInvHolds, PTL

-----------------------------------------------------------------------------
(* A shell that still probes has fewer failures than it takes, and as long  *)
(* as nobody was asked for no count of failed recoveries is at its limit;   *)
(* re-arming costs one of the faults that lift it.                          *)
CountersBelow ==
  /\ \A w \in Watchdogs :
       pc[w] \in {"loop", "probe", "canary"} => fails[w] < FAIL_THRESHOLD
  /\ \A w \in Watchdogs : failed_recoveries[w] <= MAX_RECOVERIES + faults
  /\ ~ giveup =>
       \A w \in Watchdogs : failed_recoveries[w] < MAX_RECOVERIES + faults

TypeInv == TypeOK /\ CountersBelow

USE FleetAssumption

(* The loop over RANK_ORDER counts down from the last rank. *)
LEMMA RankFacts ==
  /\ 0 \in Ranks /\ Last \in Ranks
  /\ \A k \in Ranks \cup {-1} : k >= 0 => k \in Ranks /\ k - 1 \in Ranks \cup {-1}
BY DEF Ranks, Last

LEMMA InitTypes == Init => TypeInv
<1> SUFFICES ASSUME Init PROVE TypeInv
  OBVIOUS
<1>1. cmd \in [Watchdogs -> [what : {"none", "docker_rm", "start_flusher",
                                     "launch", "stop_flusher"}, rank : Ranks]]
  BY RankFacts DEF Init, NoCmd
<1>2. /\ container \in [Ranks -> {"missing", "exited"} \cup Running]
      /\ reachable \in [Ranks -> BOOLEAN] /\ flusher \in [Ranks -> BOOLEAN]
      /\ pause \in BOOLEAN /\ giveup \in BOOLEAN
  BY DEF Init, Running
<1>3. /\ fails \in [Watchdogs -> 0 .. FAIL_THRESHOLD]
      /\ failed_recoveries \in [Watchdogs -> 0 .. MAX_RECOVERIES + MaxFaults]
      /\ waited \in [Watchdogs -> 0 .. ReadyChecks - 1]
      /\ faults \in 0 .. MaxFaults /\ relaunches \in 0 .. MAX_RECOVERIES + 1
      /\ rank \in [Watchdogs -> Ranks \cup {-1}]
  BY DEF Init
<1>4. CountersBelow
  BY DEF Init, CountersBelow
<1>5. QED BY <1>1, <1>2, <1>3, <1>4 DEF Init, TypeInv, TypeOK

(* The counters and the flag stay, or a fault lifts the limit. *)
LEMMA CountersKept ==
  ASSUME TypeInv, UNCHANGED <<pc, fails, failed_recoveries>>,
         faults' \in 0 .. MaxFaults,
         \/ faults' = faults /\ giveup' = giveup
         \/ faults' = faults + 1
  PROVE  CountersBelow'
<1>1. /\ \A v \in Watchdogs : failed_recoveries[v] \in Nat
      /\ faults \in Nat /\ MAX_RECOVERIES \in Nat
  BY DEF TypeInv, TypeOK
<1>2. \A v \in Watchdogs : failed_recoveries[v] <= MAX_RECOVERIES + faults
  BY DEF TypeInv, CountersBelow
<1>3. CASE faults' = faults /\ giveup' = giveup
  BY <1>3 DEF TypeInv, CountersBelow
<1>4. CASE faults' = faults + 1
  BY <1>1, <1>2, <1>4 DEF TypeInv, CountersBelow
<1>5. QED BY <1>3, <1>4

(* What happens to the fleet, and what the operator does. *)
LEMMA EnvironmentTypes ==
  ASSUME TypeInv, Environment
  PROVE  TypeInv'
<1>1. CASE \E r \in Ranks : RankDies(r)
  <2>1. /\ container' \in [Ranks -> {"missing", "exited"} \cup Running]
        /\ engine' \in {"down", "booting", "up", "dead", "hung"}
    BY <1>1 DEF RankDies, EngineWithout, TypeInv, TypeOK
  <2>2. CountersBelow'
    BY <1>1, CountersKept DEF RankDies, Fault, flagVars, shellVars, TypeInv, TypeOK
  <2>3. QED
    BY <1>1, <2>1, <2>2 DEF RankDies, Fault, flagVars, shellVars, TypeInv, TypeOK
<1>2. CASE \E r \in Workers : Unreach(r)
  <2>1. CountersBelow'
    BY <1>2, CountersKept DEF Unreach, Fault, flagVars, shellVars, TypeInv, TypeOK
  <2>2. QED
    BY <1>2, <2>1 DEF Unreach, Fault, flagVars, shellVars, TypeInv, TypeOK, Workers
<1>3. CASE \E r \in Workers : Reach(r)
  BY <1>3 DEF Reach, flagVars, shellVars, TypeInv, TypeOK, CountersBelow, Workers
<1>4. CASE EngineWedges \/ BootHung
  BY <1>4 DEF EngineWedges, BootHung, Fault, flagVars, shellVars, TypeInv, TypeOK,
              CountersBelow
<1>5. CASE Boot
  BY <1>5 DEF Boot, flagVars, shellVars, TypeInv, TypeOK, CountersBelow
<1>6. CASE Pause \/ Resume
  <2>1. faults' \in 0 .. MaxFaults /\ (faults' = faults \/ faults' = faults + 1)
    BY <1>6 DEF Pause, Resume, Fault, TypeInv, TypeOK
  <2>2. pause' \in BOOLEAN /\ giveup' = giveup
    BY <1>6 DEF Pause, Resume
  <2>3. CountersBelow'
    BY <1>6, <2>1, <2>2, CountersKept DEF Pause, Resume, shellVars
  <2>4. QED
    BY <1>6, <2>1, <2>2, <2>3 DEF Pause, Resume, fleetVars, shellVars, TypeInv, TypeOK
<1>7. CASE ReArm
  <2>1. faults' \in 0 .. MaxFaults /\ faults' = faults + 1
    BY <1>7 DEF ReArm, Fault, TypeInv, TypeOK
  <2>2. CountersBelow'
    BY <1>7, <2>1, CountersKept DEF ReArm, shellVars
  <2>3. giveup' = FALSE /\ pause' = pause /\ relaunches' = 0
    BY <1>7 DEF ReArm
  <2>4. giveup' \in BOOLEAN /\ pause' \in BOOLEAN
    BY <2>3 DEF TypeInv, TypeOK
  <2>5. relaunches' \in 0 .. MAX_RECOVERIES + 1
    BY <2>3
  <2>6. UNCHANGED <<container, engine, reachable, flusher, pc, rank, fails,
                    failed_recoveries, waited, cmd>>
    BY <1>7 DEF ReArm, fleetVars, shellVars
  <2>7. QED
    BY <2>1, <2>2, <2>4, <2>5, <2>6 DEF TypeInv, TypeOK
<1>8. QED
  BY <1>1, <1>2, <1>3, <1>4, <1>5, <1>6, <1>7 DEF Environment

(* A failed probe. *)
LEMMA ProbeFailsTypes ==
  ASSUME TypeInv, NEW w \in Watchdogs, pc[w] \in {"probe", "canary"}, ProbeFails(w)
  PROVE  TypeInv'
<1>1. fails[w] \in 0 .. FAIL_THRESHOLD - 1
  BY DEF TypeInv, TypeOK, CountersBelow
<1>2. fails' = [fails EXCEPT ![w] = fails[w] + 1]
  BY DEF ProbeFails, FailsNow
<1>3. CASE TooMany(FailsNow(w))
  <2>1. BeginRecovery(w)
    BY <1>3 DEF ProbeFails
  <2>2. /\ container' \in [Ranks -> {"missing", "exited"} \cup Running]
        /\ relaunches' \in 0 .. MAX_RECOVERIES + 1
    BY <2>1 DEF BeginRecovery, TypeInv, TypeOK, Running
  <2>3. QED
    BY <1>1, <1>2, <2>1, <2>2 DEF ProbeFails, BeginRecovery, flagVars, TypeInv, TypeOK,
       CountersBelow, Ranks, Last, Stages
<1>4. CASE ~ TooMany(FailsNow(w))
  BY <1>1, <1>2, <1>4 DEF ProbeFails, TooMany, FailsNow, flagVars, TypeInv, TypeOK,
     CountersBelow
<1>5. QED BY <1>3, <1>4

LEMMA ShellTypes ==
  ASSUME TypeInv, ActorInv, NEW w \in Watchdogs, Shell(w)
  PROVE  TypeInv'
<1>1. CASE Loop(w)
  <2>1. /\ pc[w] = "loop"
        /\ UNCHANGED <<container, engine, reachable, flusher, pause, giveup,
                       failed_recoveries, waited, cmd, faults, relaunches>>
    BY <1>1 DEF Loop, fleetVars, flagVars
  <2>2. CASE OffDuty
    <3>1. fails' = [fails EXCEPT ![w] = 0] /\ pc' = pc /\ rank' = rank
      BY <1>1, <2>2 DEF Loop
    <3>2. fails' \in [Watchdogs -> Nat] /\ \A v \in Watchdogs : fails'[v] \in {0, fails[v]}
      BY <3>1 DEF TypeInv, TypeOK
    <3>3. QED
      BY <2>1, <3>1, <3>2 DEF TypeInv, TypeOK, CountersBelow
  <2>3. CASE ~ OffDuty
    BY <1>1, <2>1, <2>3, RankFacts DEF Loop, TypeInv, TypeOK, CountersBelow
  <2>4. QED BY <2>2, <2>3
<1>2. CASE ProbeRank(w)
  <2>1. CASE ProbeFails(w)
    BY <1>2, <2>1, ProbeFailsTypes DEF ProbeRank
  <2>2. CASE ~ ProbeFails(w)
    <3>1. /\ rank[w] >= 0 /\ rank' = [rank EXCEPT ![w] = rank[w] - 1]
          /\ UNCHANGED <<fleetVars, flagVars, pc, fails, failed_recoveries, waited,
                         cmd, faults, relaunches>>
      BY <1>2, <2>2 DEF ProbeRank
    <3>2. rank' \in [Watchdogs -> Ranks \cup {-1}]
      BY <3>1, RankFacts DEF TypeInv, TypeOK
    <3>3. QED
      BY <3>1, <3>2 DEF fleetVars, flagVars, TypeInv, TypeOK, CountersBelow
  <2>3. QED BY <2>1, <2>2
<1>3. CASE ProbeHealth(w)
  <2>1. CASE ProbeFails(w)
    BY <1>3, <2>1, ProbeFailsTypes DEF ProbeHealth
  <2>2. CASE ~ ProbeFails(w)
    BY <1>3, <2>2 DEF ProbeHealth, fleetVars, flagVars, TypeInv, TypeOK, CountersBelow
  <2>3. QED BY <2>1, <2>2
<1>4. CASE ProbeCanary(w)
  <2>1. CASE ProbeFails(w)
    BY <1>4, <2>1, ProbeFailsTypes DEF ProbeCanary
  <2>2. CASE ~ ProbeFails(w)
    <3>1. /\ pc' = [pc EXCEPT ![w] = "loop"]
          /\ fails' = [fails EXCEPT ![w] = 0]
          /\ failed_recoveries' = [failed_recoveries EXCEPT ![w] = 0]
          /\ UNCHANGED <<fleetVars, flagVars, rank, waited, cmd, faults, relaunches>>
      BY <1>4, <2>2 DEF ProbeCanary
    <3>2. QED
      BY <3>1 DEF fleetVars, flagVars, TypeInv, TypeOK, CountersBelow
  <2>3. QED BY <2>1, <2>2
<1>5. CASE Issue(w)
  <2>1. StageCmd[pc[w]] \in {"docker_rm", "start_flusher", "launch", "stop_flusher"}
    BY <1>5 DEF Issue, StageCmd, Stages
  <2>2. /\ rank[w] \in Ranks
        /\ cmd' = [cmd EXCEPT ![w] = [what |-> StageCmd[pc[w]], rank |-> rank[w]]]
        /\ rank' = [rank EXCEPT ![w] = rank[w] - 1]
        /\ UNCHANGED <<container, engine, reachable, flusher, pause, giveup, pc, fails,
                       failed_recoveries, waited, faults, relaunches>>
    BY <1>5 DEF Issue, fleetVars, flagVars, TypeInv, TypeOK, Ranks
  <2>3. cmd' \in [Watchdogs -> [what : {"none", "docker_rm", "start_flusher", "launch",
                                       "stop_flusher"}, rank : Ranks]]
    BY <2>1, <2>2 DEF TypeInv, TypeOK
  <2>4. rank' \in [Watchdogs -> Ranks \cup {-1}]
    <3>1. rank[w] - 1 \in Ranks \cup {-1}
      BY <2>2 DEF Ranks
    <3>2. QED BY <2>2, <3>1 DEF TypeInv, TypeOK
  <2>5. QED
    BY <2>2, <2>3, <2>4 DEF TypeInv, TypeOK, CountersBelow
<1>6. CASE EndStage(w)
  <2>1. NextStage[pc[w]] \in {"ritual", "launch", "wait", "recovered"}
    BY <1>6 DEF EndStage, NextStage, Stages
  <2>2. /\ pc' = [pc EXCEPT ![w] = NextStage[pc[w]]]
        /\ waited' = [waited EXCEPT ![w] = 0]
        /\ UNCHANGED <<container, engine, reachable, flusher, pause, giveup, fails,
                       failed_recoveries, cmd, faults, relaunches>>
    BY <1>6 DEF EndStage, fleetVars, flagVars
  <2>3. rank' \in [Watchdogs -> Ranks \cup {-1}]
    BY <1>6 DEF EndStage, TypeInv, TypeOK, Ranks, Last
  <2>4. waited' \in [Watchdogs -> 0 .. ReadyChecks - 1]
    BY <2>2 DEF TypeInv, TypeOK
  <2>5. QED
    BY <2>1, <2>2, <2>3, <2>4 DEF TypeInv, TypeOK, CountersBelow, Stages
<1>7. CASE WaitHealthy(w)
  BY <1>7 DEF WaitHealthy, fleetVars, flagVars, TypeInv, TypeOK, CountersBelow, Ranks, Last,
              Stages
<1>8. CASE WaitAgain(w)
  BY <1>8 DEF WaitAgain, fleetVars, flagVars, TypeInv, TypeOK, CountersBelow
<1>9. CASE WaitTimeout(w)
  <2>1. ~ giveup
    BY <1>9 DEF WaitTimeout, ActorInv, GivenUpIsQuiet
  <2>2. failed_recoveries[w] \in 0 .. MAX_RECOVERIES + faults - 1
    BY <2>1 DEF TypeInv, TypeOK, CountersBelow
  <2>3. /\ pc' = [pc EXCEPT ![w] = "loop"]
        /\ fails' = [fails EXCEPT ![w] = 0]
        /\ failed_recoveries' = [failed_recoveries EXCEPT ![w] = failed_recoveries[w] + 1]
        /\ UNCHANGED <<container, engine, reachable, flusher, pause, rank, waited, cmd,
                       faults, relaunches>>
    BY <1>9 DEF WaitTimeout, fleetVars
  <2>4. giveup' \in BOOLEAN /\ (~ giveup' => ~ GivesUp(failed_recoveries[w] + 1))
    BY <1>9, Zenon DEF WaitTimeout
  <2>5. ~ giveup' => failed_recoveries[w] + 1 < MAX_RECOVERIES
    BY <2>2, <2>4 DEF GivesUp, TypeInv, TypeOK
  <2>6. CountersBelow'
    <3>1. MAX_RECOVERIES \in Nat /\ faults \in Nat
      BY DEF TypeInv, TypeOK
    <3>2. \A v \in Watchdogs : failed_recoveries[v] \in 0 .. MAX_RECOVERIES + faults - 1
      BY <2>1, <3>1 DEF TypeInv, TypeOK, CountersBelow
    <3>3. \A v \in Watchdogs : failed_recoveries'[v] <= MAX_RECOVERIES + faults
      BY <2>3, <3>1, <3>2 DEF TypeInv, TypeOK
    <3>4. ~ giveup' =>
            \A v \in Watchdogs : failed_recoveries'[v] < MAX_RECOVERIES + faults
      BY <2>3, <2>5, <3>1, <3>2 DEF TypeInv, TypeOK
    <3>5. QED
      BY <2>3, <3>3, <3>4 DEF TypeInv, TypeOK, CountersBelow
  <2>7. failed_recoveries' \in [Watchdogs -> 0 .. MAX_RECOVERIES + MaxFaults]
    BY <2>2, <2>3 DEF TypeInv, TypeOK
  <2>8. QED
    BY <2>3, <2>4, <2>6, <2>7 DEF TypeInv, TypeOK
<1>10. CASE Recovered(w)
  BY <1>10 DEF Recovered, fleetVars, flagVars, TypeInv, TypeOK, CountersBelow
<1>11. QED
  BY <1>1, <1>2, <1>3, <1>4, <1>5, <1>6, <1>7, <1>8, <1>9, <1>10 DEF Shell

(* What a command does on a node. *)
LEMMA RunCmdTypes ==
  ASSUME TypeInv, NEW w \in Watchdogs, RunCmd(w)
  PROVE  TypeInv'
<1>1. /\ cmd[w].rank \in Ranks
      /\ 0 \in Ranks
  BY DEF TypeInv, TypeOK, Ranks
<1>2. cmd' \in [Watchdogs -> [what : {"none", "docker_rm", "start_flusher",
                                      "launch", "stop_flusher"}, rank : Ranks]]
  BY <1>1 DEF RunCmd, NoCmd, TypeInv, TypeOK
<1>3. /\ container' \in [Ranks -> {"missing", "exited"} \cup Running]
      /\ engine' \in {"down", "booting", "up", "dead", "hung"}
      /\ faults' \in 0 .. MaxFaults /\ faults' >= faults
  BY <1>1 DEF RunCmd, Removes, Launches, SetsFlusher, EngineWithout, Fault, Running,
              fleetVars, TypeInv, TypeOK
<1>4. flusher' \in [Ranks -> BOOLEAN]
  BY <1>1 DEF RunCmd, Removes, Launches, SetsFlusher, MatchesPattern, fleetVars, TypeInv,
              TypeOK
<1>5. QED
  BY <1>2, <1>3, <1>4 DEF RunCmd, flagVars, shellVars, TypeInv, TypeOK, CountersBelow

LEMMA StepTypes ==
  ASSUME TypeInv, ActorInv, [Next]_vars
  PROVE  TypeInv'
<1>1. CASE UNCHANGED vars
  BY <1>1 DEF vars, fleetVars, flagVars, shellVars, TypeInv, TypeOK, CountersBelow
<1>2. CASE Environment
  BY <1>2, EnvironmentTypes
<1>3. ASSUME NEW w \in Watchdogs, Start(w)
      PROVE  TypeInv'
  BY <1>3 DEF Start, fleetVars, flagVars, TypeInv, TypeOK, CountersBelow
<1>4. ASSUME NEW w \in Watchdogs, Kill(w)
      PROVE  TypeInv'
  BY <1>4 DEF Kill, Fault, fleetVars, flagVars, TypeInv, TypeOK, CountersBelow
<1>5. ASSUME NEW w \in Watchdogs, Shell(w) \/ RunCmd(w)
      PROVE  TypeInv'
  BY <1>5, ShellTypes, RunCmdTypes
<1>6. QED BY <1>1, <1>2, <1>3, <1>4, <1>5 DEF Next

LEMMA TypeInvHolds == Spec => []TypeInv
<1>1. TypeInv /\ ActorInv /\ [Next]_vars => TypeInv'
  BY StepTypes
<1>2. QED BY <1>1, InitTypes, ActorInvHolds, PTL DEF Spec

(* Every variable keeps its type; the counts of failures stay bounded.      *)
THEOREM FleetTypes == Spec => []TypeOK
<1>1. TypeInv => TypeOK
  BY DEF TypeInv
<1>2. QED BY <1>1, TypeInvHolds, PTL

-----------------------------------------------------------------------------
(* With a network and removals that work, a teardown clears every rank:     *)
(* behind its loop no old container is left, but for one whose removal is   *)
(* on its way, and from the teardown to the last launch none is left at     *)
(* all.                                                                     *)
NoneOld == \A r \in Ranks : container[r] # "old"

OwnCommand ==
  \A w \in Watchdogs : pc[w] \in Stages /\ Busy(w) => cmd[w].what = StageCmd[pc[w]]

TornDown ==
  \A w \in Watchdogs : pc[w] = "teardown" =>
    \A r \in Ranks : r > rank[w] =>
      container[r] # "old" \/ cmd[w] = [what |-> "docker_rm", rank |-> r]

CleanAtLaunch ==
  \A w \in Watchdogs :
    pc[w] \in {"ritual", "launch"} \/ cmd[w].what = "launch" => NoneOld

CleanInv ==
  /\ \A r \in Ranks : reachable[r]
  /\ OwnCommand
  /\ TornDown
  /\ CleanAtLaunch

LEMMA InitClean == Init => CleanInv
BY DEF Init, CleanInv, OwnCommand, TornDown, CleanAtLaunch, NoneOld, Busy, NoCmd, Stages

(* Only the start of a recovery makes a container old. *)
NothingTurnsOld == \A r \in Ranks : container'[r] = "old" => container[r] = "old"

LEMMA EnvironmentTurnsNothingOld ==
  ASSUME TypeInv, Environment
  PROVE  NothingTurnsOld
BY DEF TypeInv, TypeOK, Running, NothingTurnsOld, Environment, RankDies, Unreach, Reach,
       EngineWedges, Boot, BootHung, Pause, Resume, ReArm, fleetVars

LEMMA RunCmdTurnsNothingOld ==
  ASSUME TypeInv, NEW w \in Watchdogs, RunCmd(w)
  PROVE  NothingTurnsOld
BY DEF TypeInv, TypeOK, Running, NothingTurnsOld, RunCmd, Removes, Launches, SetsFlusher,
       fleetVars

(* What neither moves a shell into a stage nor starts a command is clean. *)
LEMMA QuietClean ==
  ASSUME TypeInv, CleanInv, NothingTurnsOld, cmd' = cmd,
         \A r \in Ranks : reachable'[r],
         \A v \in Watchdogs : pc'[v] \in Stages => pc'[v] = pc[v] /\ rank'[v] = rank[v]
  PROVE  CleanInv'
<1>1. \A v \in Watchdogs : Busy(v)' = Busy(v)
  BY DEF Busy
<1>2. NoneOld => NoneOld'
  BY DEF NothingTurnsOld, NoneOld
<1>3. OwnCommand'
  BY <1>1 DEF CleanInv, OwnCommand
<1>4. TornDown'
  BY DEF CleanInv, TornDown, NothingTurnsOld, Stages
<1>5. CleanAtLaunch'
  BY <1>2 DEF CleanInv, CleanAtLaunch, Stages
<1>6. QED BY <1>3, <1>4, <1>5 DEF CleanInv

LEMMA EnvironmentClean ==
  ASSUME ~ SshCanFail, TypeInv, CleanInv, Environment
  PROVE  CleanInv'
<1>1. cmd' = cmd /\ pc' = pc /\ rank' = rank
  BY DEF Environment, RankDies, Unreach, Reach, EngineWedges, Boot, BootHung, Pause, Resume,
         ReArm, shellVars
<1>2. \A r \in Ranks : reachable'[r]
  BY DEF Environment, RankDies, Unreach, Reach, EngineWedges, Boot, BootHung, Pause, Resume,
         ReArm, fleetVars, CleanInv, TypeInv, TypeOK, Workers
<1>3. QED BY <1>1, <1>2, EnvironmentTurnsNothingOld, QuietClean

(* A recovery starts with no other process and no command about. *)
LEMMA BeginRecoveryClean ==
  ASSUME TypeInv, ActorInv, CleanInv, NEW w \in Watchdogs, pc[w] \in {"probe", "canary"},
         BeginRecovery(w), UNCHANGED <<reachable, cmd>>
  PROVE  CleanInv'
<1>1. /\ \A v \in Watchdogs : ~ Busy(v)
      /\ \A v \in Watchdogs \ {w} : pc[v] = "off"
  BY DEF ActorInv, OneActor, BusyInStage, Stages
<1>2. /\ \A v \in Watchdogs \ {w} : pc'[v] = "off"
      /\ pc'[w] = "teardown" /\ rank'[w] = Last
  BY <1>1 DEF BeginRecovery, TypeInv, TypeOK
<1>3. \A v \in Watchdogs : cmd'[v] = NoCmd /\ ~ Busy(v)'
  BY <1>1 DEF Busy
<1>4. OwnCommand'
  BY <1>3 DEF OwnCommand
<1>5. TornDown'
  BY <1>2 DEF TornDown, Ranks, Last
<1>6. CleanAtLaunch'
  BY <1>2, <1>3 DEF CleanAtLaunch, NoCmd
<1>7. QED BY <1>4, <1>5, <1>6 DEF CleanInv

LEMMA ProbeFailsClean ==
  ASSUME TypeInv, ActorInv, CleanInv, NEW w \in Watchdogs, pc[w] \in {"probe", "canary"},
         ProbeFails(w)
  PROVE  CleanInv'
<1>1. CASE TooMany(FailsNow(w))
  BY <1>1, BeginRecoveryClean DEF ProbeFails
<1>2. CASE ~ TooMany(FailsNow(w))
  <2>1. /\ pc' = [pc EXCEPT ![w] = "loop"]
        /\ UNCHANGED <<rank, container, reachable, cmd>>
    BY <1>2 DEF ProbeFails
  <2>2. NothingTurnsOld /\ \A r \in Ranks : reachable'[r]
    BY <2>1 DEF NothingTurnsOld, CleanInv
  <2>3. \A v \in Watchdogs : pc'[v] \in Stages => pc'[v] = pc[v] /\ rank'[v] = rank[v]
    BY <2>1 DEF TypeInv, TypeOK, Stages
  <2>4. QED BY <2>1, <2>2, <2>3, QuietClean
<1>3. QED BY <1>1, <1>2

(* A step of a shell that keeps out of the stages. *)
LEMMA AsideClean ==
  ASSUME TypeInv, CleanInv, NEW w \in Watchdogs,
         NEW p \in {"off", "loop", "probe", "canary", "wait", "recovered", "stop"},
         pc' = [pc EXCEPT ![w] = p], OwnCommand',
         rank' = rank \/ \E k : rank' = [rank EXCEPT ![w] = k],
         UNCHANGED <<container, reachable, cmd>>
  PROVE  CleanInv'
<1>1. /\ \A v \in Watchdogs \ {w} : pc'[v] = pc[v] /\ rank'[v] = rank[v]
      /\ pc'[w] = p
  BY DEF TypeInv, TypeOK
<1>2. TornDown'
  BY <1>1 DEF CleanInv, TornDown
<1>3. CleanAtLaunch'
  BY <1>1 DEF CleanInv, CleanAtLaunch, NoneOld
<1>4. QED BY <1>2, <1>3 DEF CleanInv

LEMMA IssueClean ==
  ASSUME TypeInv, CleanInv, NEW w \in Watchdogs, Issue(w)
  PROVE  CleanInv'
<1>1. /\ pc[w] \in Stages /\ cmd[w] = NoCmd /\ rank[w] \in Ranks
      /\ cmd' = [cmd EXCEPT ![w] = [what |-> StageCmd[pc[w]], rank |-> rank[w]]]
      /\ rank' = [rank EXCEPT ![w] = rank[w] - 1]
      /\ UNCHANGED <<pc, container, reachable>>
  BY RankFacts DEF Issue, fleetVars, TypeInv, TypeOK
<1>2. /\ \A v \in Watchdogs \ {w} : cmd'[v] = cmd[v] /\ rank'[v] = rank[v]
      /\ cmd'[w] = [what |-> StageCmd[pc[w]], rank |-> rank[w]]
      /\ rank'[w] = rank[w] - 1
  BY <1>1 DEF TypeInv, TypeOK
<1>3. OwnCommand'
  BY <1>1, <1>2 DEF CleanInv, OwnCommand, Busy
<1>4. TornDown'
  <2>1. ASSUME pc[w] = "teardown", NEW r \in Ranks, r > rank[w] - 1
        PROVE  container[r] # "old" \/ cmd'[w] = [what |-> "docker_rm", rank |-> r]
    <3>1. CASE r = rank[w]
      BY <1>2, <2>1, <3>1 DEF StageCmd
    <3>2. CASE r # rank[w]
      <4>1. r > rank[w]
        BY <1>1, <2>1, <3>2 DEF Ranks
      <4>2. container[r] # "old" \/ cmd[w] = [what |-> "docker_rm", rank |-> r]
        BY <2>1, <4>1 DEF CleanInv, TornDown
      <4>3. QED BY <1>1, <4>2 DEF NoCmd
    <3>3. QED BY <3>1, <3>2
  <2>2. QED BY <1>1, <1>2, <2>1 DEF CleanInv, TornDown
<1>5. CleanAtLaunch'
  BY <1>1, <1>2 DEF CleanInv, CleanAtLaunch, NoneOld, StageCmd, Stages
<1>6. QED BY <1>1, <1>3, <1>4, <1>5 DEF CleanInv

LEMMA EndStageClean ==
  ASSUME TypeInv, CleanInv, NEW w \in Watchdogs, EndStage(w)
  PROVE  CleanInv'
<1>1. /\ pc[w] \in Stages /\ cmd[w] = NoCmd /\ rank[w] = -1
      /\ pc' = [pc EXCEPT ![w] = NextStage[pc[w]]]
      /\ \E k : rank' = [rank EXCEPT ![w] = k]
      /\ UNCHANGED <<cmd, container, reachable>>
  BY DEF EndStage, fleetVars
<1>2. /\ \A v \in Watchdogs \ {w} : pc'[v] = pc[v] /\ rank'[v] = rank[v]
      /\ pc'[w] = NextStage[pc[w]]
  BY <1>1 DEF TypeInv, TypeOK
<1>3. pc'[w] \in {"ritual", "launch", "wait", "recovered"}
  BY <1>1, <1>2 DEF NextStage, Stages
<1>4. OwnCommand'
  BY <1>1, <1>2 DEF CleanInv, OwnCommand, Busy
<1>5. TornDown'
  BY <1>1, <1>2, <1>3 DEF CleanInv, TornDown
<1>6. CleanAtLaunch'
  <2>1. CASE pc[w] = "teardown"
    <3>1. \A r \in Ranks : container[r] # "old"
      <4>1. \A r \in Ranks : r > rank[w] /\ cmd[w] # [what |-> "docker_rm", rank |-> r]
        BY <1>1 DEF NoCmd, Ranks
      <4>2. QED BY <2>1, <4>1 DEF CleanInv, TornDown
    <3>2. QED BY <1>1, <3>1 DEF CleanAtLaunch, NoneOld
  <2>2. CASE pc[w] # "teardown"
    <3>1. pc'[w] \in {"ritual", "launch"} => pc[w] \in {"ritual", "launch"}
      BY <1>1, <1>2, <2>2 DEF NextStage, Stages
    <3>2. QED BY <1>1, <1>2, <3>1 DEF CleanInv, CleanAtLaunch, NoneOld
  <2>3. QED BY <2>1, <2>2
<1>7. QED BY <1>1, <1>4, <1>5, <1>6 DEF CleanInv

LEMMA RunCmdClean ==
  ASSUME ~ RemoveCanFail, TypeInv, CleanInv, NEW w \in Watchdogs, RunCmd(w)
  PROVE  CleanInv'
<1>1. /\ cmd[w].what # "none" /\ cmd[w].rank \in Ranks
      /\ cmd' = [cmd EXCEPT ![w] = NoCmd]
      /\ UNCHANGED <<pc, rank, reachable>>
  BY DEF RunCmd, shellVars, TypeInv, TypeOK
<1>2. /\ \A v \in Watchdogs \ {w} : cmd'[v] = cmd[v]
      /\ cmd'[w] = NoCmd
  BY <1>1 DEF TypeInv, TypeOK
<1>3. NothingTurnsOld
  BY RunCmdTurnsNothingOld
<1>4. OwnCommand'
  BY <1>1, <1>2 DEF CleanInv, OwnCommand, Busy
<1>5. \A r \in Ranks : cmd[w] = [what |-> "docker_rm", rank |-> r] => container'[r] # "old"
  <2>1. ASSUME NEW r \in Ranks, cmd[w] = [what |-> "docker_rm", rank |-> r]
        PROVE  container'[r] # "old"
    <3>1. CanRunOn(r)
      BY DEF CanRunOn, CleanInv
    <3>2. Removes(r)
      BY <2>1, <3>1 DEF RunCmd
    <3>3. QED BY <3>2 DEF Removes, TypeInv, TypeOK
  <2>2. QED BY <2>1
<1>6. TornDown'
  <2>1. ASSUME NEW v \in Watchdogs, pc[v] = "teardown", NEW r \in Ranks, r > rank[v]
        PROVE  container'[r] # "old" \/ cmd'[v] = [what |-> "docker_rm", rank |-> r]
    <3>1. container[r] # "old" \/ cmd[v] = [what |-> "docker_rm", rank |-> r]
      BY <2>1 DEF CleanInv, TornDown
    <3>2. CASE container[r] # "old"
      BY <1>3, <3>2 DEF NothingTurnsOld
    <3>3. CASE cmd[v] = [what |-> "docker_rm", rank |-> r]
      BY <1>2, <1>5, <3>3
    <3>4. QED BY <3>1, <3>2, <3>3
  <2>2. QED BY <1>1, <2>1 DEF TornDown
<1>7. CleanAtLaunch'
  BY <1>1, <1>2, <1>3 DEF CleanInv, CleanAtLaunch, NoneOld, NothingTurnsOld, NoCmd
<1>8. QED BY <1>1, <1>4, <1>6, <1>7 DEF CleanInv

LEMMA ShellClean ==
  ASSUME TypeInv, ActorInv, CleanInv, NEW w \in Watchdogs, Shell(w)
  PROVE  CleanInv'
<1>1. \A v \in Watchdogs : v # w => ~ Busy(v)
  BY DEF ActorInv, OneActor, Shell, Loop, ProbeRank, ProbeHealth, ProbeCanary, Issue, EndStage,
         WaitHealthy, WaitAgain, WaitTimeout, Recovered, Stages
<1>2. pc[w] \notin Stages => ~ Busy(w) \/ pc[w] = "off"
  BY DEF ActorInv, BusyInStage
<1>3. CASE Issue(w) \/ EndStage(w)
  BY <1>3, IssueClean, EndStageClean
<1>4. CASE \/ ProbeRank(w) /\ ProbeFails(w)
           \/ ProbeHealth(w) /\ ProbeFails(w)
           \/ ProbeCanary(w) /\ ProbeFails(w)
  BY <1>4, ProbeFailsClean DEF ProbeRank, ProbeHealth, ProbeCanary
<1>5. CASE \/ Loop(w) \/ WaitHealthy(w) \/ WaitAgain(w) \/ WaitTimeout(w) \/ Recovered(w)
           \/ ProbeRank(w) /\ ~ ProbeFails(w)
           \/ ProbeHealth(w) /\ ~ ProbeFails(w)
           \/ ProbeCanary(w) /\ ~ ProbeFails(w)
  <2>1. /\ pc[w] \in {"loop", "probe", "canary", "wait", "recovered"}
        /\ UNCHANGED <<container, reachable, cmd>>
    BY <1>5 DEF Loop, WaitHealthy, WaitAgain, WaitTimeout, Recovered, ProbeRank, ProbeHealth,
                ProbeCanary, fleetVars
  <2>2. \A v \in Watchdogs : ~ Busy(v)'
    BY <1>1, <1>2, <2>1 DEF Busy, Stages
  <2>3. OwnCommand'
    BY <2>2 DEF OwnCommand
  <2>4. rank' = rank \/ \E k : rank' = [rank EXCEPT ![w] = k]
    BY <1>5 DEF Loop, WaitHealthy, WaitAgain, WaitTimeout, Recovered, ProbeRank, ProbeHealth,
                ProbeCanary
  <2>5. pc = [pc EXCEPT ![w] = pc[w]]
    BY DEF TypeInv, TypeOK
  <2>6. \E p \in {"off", "loop", "probe", "canary", "wait", "recovered", "stop"} :
          pc' = [pc EXCEPT ![w] = p]
    BY <1>5, <2>1, <2>5 DEF Loop, WaitHealthy, WaitAgain, WaitTimeout, Recovered, ProbeRank,
                            ProbeHealth, ProbeCanary
  <2>7. QED BY <2>1, <2>3, <2>4, <2>6, AsideClean
<1>6. QED BY <1>3, <1>4, <1>5 DEF Shell

LEMMA StartKillClean ==
  ASSUME TypeInv, CleanInv, NEW w \in Watchdogs, Start(w) \/ Kill(w)
  PROVE  CleanInv'
<1>1. /\ \E p \in {"off", "loop"} : pc' = [pc EXCEPT ![w] = p]
      /\ rank' = rank
      /\ UNCHANGED <<container, reachable, cmd>>
  BY DEF Start, Kill, fleetVars
<1>2. OwnCommand'
  BY <1>1 DEF CleanInv, OwnCommand, Busy, Stages, TypeInv, TypeOK
<1>3. QED BY <1>1, <1>2, AsideClean

LEMMA StepClean ==
  ASSUME ~ SshCanFail, ~ RemoveCanFail, TypeInv, ActorInv, CleanInv, [Next]_vars
  PROVE  CleanInv'
<1>1. CASE UNCHANGED vars
  BY <1>1 DEF vars, fleetVars, shellVars, CleanInv, OwnCommand, TornDown, CleanAtLaunch,
              NoneOld, Busy
<1>2. CASE Environment
  BY <1>2, EnvironmentClean
<1>3. ASSUME NEW w \in Watchdogs, Start(w) \/ Kill(w) \/ Shell(w) \/ RunCmd(w)
      PROVE  CleanInv'
  BY <1>3, StartKillClean, ShellClean, RunCmdClean
<1>4. QED BY <1>1, <1>2, <1>3 DEF Next

LEMMA CleanInvHolds ==
  ASSUME ~ SshCanFail, ~ RemoveCanFail PROVE Spec => []CleanInv
<1>1. TypeInv /\ ActorInv /\ CleanInv /\ [Next]_vars => CleanInv'
  BY StepClean
<1>2. QED BY <1>1, InitClean, TypeInvHolds, ActorInvHolds, PTL DEF Spec

(* "Tear down EVERYTHING first": with a network that works and a docker     *)
(* that removes what it is told to, no rank is launched beside a container  *)
(* of an earlier boot, killed shells and commands that outlive them         *)
(* included (recover).                                                      *)
THEOREM NoOldRankHolds ==
  ASSUME ~ SshCanFail, ~ RemoveCanFail PROVE Spec => []NoOldRankAtLaunch
<1>1. CleanInv => NoOldRankAtLaunch
  BY DEF CleanInv, CleanAtLaunch, NoneOld, NoOldRankAtLaunch
<1>2. QED BY <1>1, CleanInvHolds, PTL

-----------------------------------------------------------------------------
(* With an honest /health besides, an engine that is up has served since    *)
(* the last recovery began; every other relaunch is a failed recovery of    *)
(* the shell at work, whose count gives up before there are too many.       *)
UpMeansServed ==
  engine = "up" => relaunches = 0 /\ \A r \in Ranks : container[r] \in Running

Watching(w)   == pc[w] \in {"loop", "probe", "canary"}
Relaunching(w) == pc[w] \in {"teardown", "ritual", "launch", "wait"}

RelaunchesCounted ==
  \A w \in Watchdogs :
    /\ Watching(w) => relaunches <= failed_recoveries[w]
    /\ Relaunching(w) => relaunches <= failed_recoveries[w] + 1
    /\ pc[w] \in {"stop", "recovered"} => relaunches = 0

RelaunchesLeft ==
  ~ giveup => \A w \in Watchdogs : Watching(w) => relaunches < MAX_RECOVERIES

RelaunchInv ==
  /\ engine # "hung"
  /\ UpMeansServed
  /\ RelaunchesCounted
  /\ RelaunchesLeft
  /\ BoundedRelaunches

LEMMA InitRelaunch == Init => RelaunchInv
BY DEF Init, RelaunchInv, UpMeansServed, RelaunchesCounted, RelaunchesLeft, Watching,
       Relaunching, BoundedRelaunches, Running

(* Fewer relaunches, and shells as they were. *)
LEMMA RelaunchKept ==
  ASSUME TypeInv, RelaunchInv, UNCHANGED <<pc, failed_recoveries>>,
         relaunches' \in {0, relaunches},
         giveup' = giveup \/ relaunches' = 0,
         engine' # "hung",
         engine' = "up" => relaunches' = 0 /\ \A r \in Ranks : container'[r] \in Running
  PROVE  RelaunchInv'
<1>1. /\ relaunches \in Nat /\ MAX_RECOVERIES \in Nat /\ MAX_RECOVERIES > 0
      /\ \A v \in Watchdogs : failed_recoveries[v] \in Nat
  BY DEF TypeInv, TypeOK
<1>2. relaunches' <= relaunches /\ relaunches' \in Nat
  BY <1>1
<1>3. UpMeansServed'
  BY DEF UpMeansServed, Running
<1>4. RelaunchesCounted'
  BY <1>1, <1>2 DEF RelaunchInv, RelaunchesCounted, Watching, Relaunching
<1>5. RelaunchesLeft'
  <2>1. CASE relaunches' = 0
    BY <1>1, <2>1 DEF RelaunchesLeft
  <2>2. CASE giveup' = giveup /\ relaunches' = relaunches
    BY <2>2 DEF RelaunchInv, RelaunchesLeft, Watching
  <2>3. QED BY <2>1, <2>2
<1>6. BoundedRelaunches'
  BY <1>1, <1>2 DEF RelaunchInv, BoundedRelaunches
<1>7. QED BY <1>3, <1>4, <1>5, <1>6 DEF RelaunchInv

(* Whatever takes a container away takes the engine down. *)
LEMMA EnvironmentRelaunch ==
  ASSUME ~ HealthCanLie, TypeInv, RelaunchInv, Environment
  PROVE  RelaunchInv'
<1>1. UNCHANGED <<pc, failed_recoveries>>
  BY DEF Environment, RankDies, Unreach, Reach, EngineWedges, Boot, BootHung, Pause, Resume,
         ReArm, shellVars
<1>2. relaunches' \in {0, relaunches} /\ (giveup' = giveup \/ relaunches' = 0)
  BY DEF Environment, RankDies, Unreach, Reach, EngineWedges, Boot, BootHung, Pause, Resume,
         ReArm, flagVars
<1>3. /\ engine' # "hung"
      /\ engine' = "up" => relaunches' = 0 /\ \A r \in Ranks : container'[r] \in Running
  <2>1. CASE \E r \in Ranks : RankDies(r)
    BY <2>1 DEF RankDies, EngineWithout, RelaunchInv, UpMeansServed
  <2>2. CASE Boot
    BY <2>2 DEF Boot, Running
  <2>3. CASE EngineWedges \/ BootHung
    BY <2>3 DEF EngineWedges, BootHung
  <2>4. CASE (\E r \in Workers : Unreach(r) \/ Reach(r)) \/ Pause \/ Resume
    BY <2>4 DEF Unreach, Reach, Pause, Resume, fleetVars, RelaunchInv, UpMeansServed
  <2>5. CASE ReArm
    BY <2>5 DEF ReArm, fleetVars, RelaunchInv, UpMeansServed
  <2>6. QED BY <2>1, <2>2, <2>3, <2>4, <2>5 DEF Environment
<1>4. QED BY <1>1, <1>2, <1>3, RelaunchKept

LEMMA RunCmdRelaunch ==
  ASSUME ~ HealthCanLie, TypeInv, RelaunchInv, NEW w \in Watchdogs, RunCmd(w)
  PROVE  RelaunchInv'
<1>1. UNCHANGED <<pc, failed_recoveries, relaunches, giveup>>
  BY DEF RunCmd, flagVars, shellVars
<1>2. engine' # "up" \/ UNCHANGED <<container, engine>>
  BY DEF RunCmd, Removes, Launches, SetsFlusher, EngineWithout, fleetVars
<1>3. engine' # "hung"
  BY DEF RunCmd, Removes, Launches, SetsFlusher, EngineWithout, fleetVars, RelaunchInv
<1>4. engine' = "up" => relaunches' = 0 /\ \A r \in Ranks : container'[r] \in Running
  BY <1>1, <1>2 DEF RelaunchInv, UpMeansServed
<1>5. QED BY <1>1, <1>3, <1>4, RelaunchKept

(* A recovery begins where an engine is down, nobody was asked for, and no  *)
(* other process is about.                                                  *)
LEMMA BeginRecoveryRelaunch ==
  ASSUME TypeInv, ActorInv, RelaunchInv, NEW w \in Watchdogs, pc[w] \in {"probe", "canary"},
         engine # "up", BeginRecovery(w),
         UNCHANGED <<engine, giveup, failed_recoveries>>
  PROVE  RelaunchInv'
<1>1. /\ relaunches \in Nat /\ MAX_RECOVERIES \in Nat
      /\ \A v \in Watchdogs : failed_recoveries[v] \in Nat
  BY DEF TypeInv, TypeOK
<1>2. \A v \in Watchdogs \ {w} : pc[v] = "off"
  BY DEF ActorInv, OneActor
<1>3. pc'[w] = "teardown" /\ \A v \in Watchdogs \ {w} : pc'[v] = "off"
  BY <1>2 DEF BeginRecovery, TypeInv, TypeOK
<1>4. ~ giveup
  BY DEF ActorInv, GivenUpIsQuiet
<1>5. relaunches < MAX_RECOVERIES /\ relaunches <= failed_recoveries[w]
  BY <1>4 DEF RelaunchInv, RelaunchesLeft, RelaunchesCounted, Watching
<1>6. relaunches' = relaunches + 1
  BY <1>1, <1>5 DEF BeginRecovery
<1>7. RelaunchesCounted'
  BY <1>1, <1>3, <1>5, <1>6 DEF RelaunchesCounted, Watching, Relaunching
<1>8. RelaunchesLeft'
  BY <1>3 DEF RelaunchesLeft, Watching
<1>9. BoundedRelaunches'
  BY <1>1, <1>5, <1>6 DEF BoundedRelaunches
<1>10. QED BY <1>7, <1>8, <1>9 DEF RelaunchInv, UpMeansServed

(* A step of a shell at w to pc p that leaves the relaunches alone. *)
LEMMA ShellMoveRelaunch ==
  ASSUME TypeInv, RelaunchInv, NEW w \in Watchdogs,
         NEW p \in {"off", "loop", "probe", "canary", "wait", "recovered"} \cup Stages,
         pc' = [pc EXCEPT ![w] = p],
         UNCHANGED <<engine, container, relaunches, giveup>>,
         \A v \in Watchdogs \ {w} : failed_recoveries'[v] = failed_recoveries[v],
         p \in {"loop", "probe", "canary"} =>
           /\ relaunches <= failed_recoveries'[w]
           /\ ~ giveup => relaunches < MAX_RECOVERIES,
         p \in {"teardown", "ritual", "launch", "wait"} =>
           relaunches <= failed_recoveries'[w] + 1,
         p \in {"stop", "recovered"} => relaunches = 0
  PROVE  RelaunchInv'
<1>1. pc'[w] = p /\ \A v \in Watchdogs \ {w} : pc'[v] = pc[v]
  BY DEF TypeInv, TypeOK
<1>2. RelaunchesCounted'
  BY <1>1 DEF RelaunchInv, RelaunchesCounted, Watching, Relaunching
<1>3. RelaunchesLeft'
  BY <1>1 DEF RelaunchInv, RelaunchesLeft, Watching
<1>4. QED
  BY <1>2, <1>3 DEF RelaunchInv, UpMeansServed, BoundedRelaunches

LEMMA ServedLoopRelaunch ==
  ASSUME TypeInv, RelaunchInv, NEW w \in Watchdogs, relaunches = 0,
         pc' = [pc EXCEPT ![w] = "loop"],
         failed_recoveries' = [failed_recoveries EXCEPT ![w] = 0],
         UNCHANGED <<engine, container, relaunches, giveup>>
  PROVE  RelaunchInv'
<1>1. failed_recoveries'[w] = 0 /\ \A v \in Watchdogs \ {w} :
        failed_recoveries'[v] = failed_recoveries[v]
  BY DEF TypeInv, TypeOK
<1>2. relaunches <= failed_recoveries'[w]
  BY <1>1
<1>3. relaunches < MAX_RECOVERIES
  BY DEF TypeInv, TypeOK
<1>4. QED BY <1>1, <1>2, <1>3, ShellMoveRelaunch

LEMMA ProbeFailsRelaunch ==
  ASSUME TypeInv, ActorInv, RelaunchInv, NEW w \in Watchdogs, pc[w] \in {"probe", "canary"},
         engine # "up", ProbeFails(w)
  PROVE  RelaunchInv'
<1>1. CASE TooMany(FailsNow(w))
  BY <1>1, BeginRecoveryRelaunch DEF ProbeFails, flagVars
<1>2. CASE ~ TooMany(FailsNow(w))
  <2>1. /\ pc' = [pc EXCEPT ![w] = "loop"]
        /\ UNCHANGED <<engine, container, relaunches, giveup, failed_recoveries>>
    BY <1>2 DEF ProbeFails, flagVars
  <2>2. /\ relaunches <= failed_recoveries[w]
        /\ ~ giveup => relaunches < MAX_RECOVERIES
    BY DEF RelaunchInv, RelaunchesCounted, RelaunchesLeft, Watching
  <2>3. QED BY <2>1, <2>2, ShellMoveRelaunch
<1>3. QED BY <1>1, <1>2

LEMMA WaitTimeoutRelaunch ==
  ASSUME TypeInv, ActorInv, RelaunchInv, NEW w \in Watchdogs, WaitTimeout(w)
  PROVE  RelaunchInv'
<1>1. /\ relaunches \in Nat /\ MAX_RECOVERIES \in Nat
      /\ \A v \in Watchdogs : failed_recoveries[v] \in Nat
  BY DEF TypeInv, TypeOK
<1>2. /\ pc[w] = "wait"
      /\ pc' = [pc EXCEPT ![w] = "loop"]
      /\ failed_recoveries' = [failed_recoveries EXCEPT ![w] = failed_recoveries[w] + 1]
      /\ UNCHANGED <<engine, container, relaunches>>
  BY DEF WaitTimeout, fleetVars
<1>3. ~ giveup' => ~ GivesUp(failed_recoveries[w] + 1)
  BY Zenon DEF WaitTimeout
<1>4. /\ pc'[w] = "loop" /\ failed_recoveries'[w] = failed_recoveries[w] + 1
      /\ \A v \in Watchdogs \ {w} : pc'[v] = "off"
  BY <1>2 DEF TypeInv, TypeOK, ActorInv, OneActor
<1>5. relaunches <= failed_recoveries[w] + 1
  BY <1>2 DEF RelaunchInv, RelaunchesCounted, Relaunching
<1>6. RelaunchesCounted'
  BY <1>2, <1>4, <1>5 DEF RelaunchesCounted, Watching, Relaunching
<1>7. RelaunchesLeft'
  <2>1. ~ giveup' => relaunches < MAX_RECOVERIES
    BY <1>1, <1>3, <1>5 DEF GivesUp
  <2>2. QED BY <1>2, <1>4, <2>1 DEF RelaunchesLeft, Watching
<1>8. QED
  BY <1>2, <1>6, <1>7 DEF RelaunchInv, UpMeansServed, BoundedRelaunches

LEMMA ShellRelaunch ==
  ASSUME ~ HealthCanLie, TypeInv, ActorInv, CleanInv, RelaunchInv,
         NEW w \in Watchdogs, Shell(w)
  PROVE  RelaunchInv'
<1>0. /\ relaunches \in Nat
      /\ \A v \in Watchdogs : failed_recoveries[v] \in Nat
      /\ MAX_RECOVERIES \in Nat /\ MAX_RECOVERIES > 0
      /\ rank[w] \in Ranks \cup {-1}
  BY DEF TypeInv, TypeOK
<1>a. /\ Watching(w) => /\ relaunches <= failed_recoveries[w]
                        /\ ~ giveup => relaunches < MAX_RECOVERIES
      /\ Relaunching(w) => relaunches <= failed_recoveries[w] + 1
      /\ pc[w] \in {"stop", "recovered"} => relaunches = 0
      /\ healthy => relaunches = 0
  BY DEF RelaunchInv, RelaunchesCounted, RelaunchesLeft, UpMeansServed, healthy
<1>b. pc = [pc EXCEPT ![w] = pc[w]]
  BY DEF TypeInv, TypeOK
<1>1. CASE Loop(w)
  <2>1. /\ pc[w] = "loop"
        /\ \E p \in {"loop", "probe"} : pc' = [pc EXCEPT ![w] = p]
        /\ UNCHANGED <<engine, container, relaunches, giveup, failed_recoveries>>
    BY <1>1, <1>b DEF Loop, fleetVars, flagVars
  <2>2. QED BY <1>a, <2>1, ShellMoveRelaunch DEF Watching
<1>2. CASE ProbeRank(w)
  <2>1. CASE ProbeFails(w)
    <3>1. CASE engine = "up"
      <4>1. rank[w] \in Ranks /\ CanRunOn(rank[w]) /\ container[rank[w]] \in Running
        BY <1>0, <1>2, <3>1 DEF ProbeRank, CleanInv, CanRunOn, RelaunchInv, UpMeansServed, Ranks
      <4>2. UNCHANGED <<pc, failed_recoveries, relaunches, giveup, engine, container>>
        BY <1>2, <4>1 DEF ProbeRank, fleetVars, flagVars
      <4>3. QED BY <4>2, RelaunchKept DEF RelaunchInv, UpMeansServed
    <3>2. CASE engine # "up"
      BY <1>2, <2>1, <3>2, ProbeFailsRelaunch DEF ProbeRank
    <3>3. QED BY <3>1, <3>2
  <2>2. CASE ~ ProbeFails(w)
    <3>1. UNCHANGED <<pc, failed_recoveries, relaunches, giveup, engine, container>>
      BY <1>2, <2>2 DEF ProbeRank, fleetVars, flagVars
    <3>2. QED BY <3>1, RelaunchKept DEF RelaunchInv, UpMeansServed
  <2>3. QED BY <2>1, <2>2
<1>3. CASE ProbeHealth(w)
  <2>1. CASE healthy
    <3>1. /\ pc[w] = "probe" /\ pc' = [pc EXCEPT ![w] = "canary"]
          /\ UNCHANGED <<engine, container, relaunches, giveup, failed_recoveries>>
      BY <1>3, <2>1 DEF ProbeHealth, fleetVars, flagVars
    <3>2. QED BY <1>a, <3>1, ShellMoveRelaunch DEF Watching
  <2>2. CASE ~ healthy
    BY <1>3, <2>2, ProbeFailsRelaunch DEF ProbeHealth, healthy
  <2>3. QED BY <2>1, <2>2
<1>4. CASE ProbeCanary(w)
  <2>1. CASE Canary
    <3>1. /\ pc[w] = "canary" /\ pc' = [pc EXCEPT ![w] = "loop"]
          /\ failed_recoveries' = [failed_recoveries EXCEPT ![w] = 0]
          /\ UNCHANGED <<engine, container, relaunches, giveup>>
      BY <1>4, <2>1 DEF ProbeCanary, fleetVars, flagVars
    <3>2. relaunches = 0
      BY <1>a, <2>1 DEF Canary, healthy
    <3>3. QED BY <3>1, <3>2, ServedLoopRelaunch
  <2>2. CASE ~ Canary
    BY <1>4, <2>2, ProbeFailsRelaunch DEF ProbeCanary, Canary
  <2>3. QED BY <2>1, <2>2
<1>5. CASE Issue(w)
  <2>1. UNCHANGED <<pc, failed_recoveries, relaunches, giveup, engine, container>>
    BY <1>5 DEF Issue, fleetVars, flagVars
  <2>2. QED BY <2>1, RelaunchKept DEF RelaunchInv, UpMeansServed
<1>6. CASE EndStage(w)
  <2>1. /\ pc[w] \in Stages
        /\ pc' = [pc EXCEPT ![w] = NextStage[pc[w]]]
        /\ UNCHANGED <<engine, container, relaunches, giveup, failed_recoveries>>
    BY <1>6 DEF EndStage, fleetVars, flagVars
  <2>2. \/ pc[w] \in {"teardown", "ritual", "launch"}
           /\ NextStage[pc[w]] \in {"ritual", "launch", "wait"}
        \/ pc[w] = "stop" /\ NextStage[pc[w]] = "recovered"
    BY <2>1 DEF NextStage, Stages
  <2>3. QED BY <1>a, <2>1, <2>2, ShellMoveRelaunch DEF Relaunching, Stages
<1>7. CASE WaitHealthy(w)
  <2>1. /\ pc' = [pc EXCEPT ![w] = "stop"] /\ relaunches = 0
        /\ UNCHANGED <<engine, container, relaunches, giveup, failed_recoveries>>
    BY <1>7, <1>a DEF WaitHealthy, fleetVars, flagVars
  <2>2. QED BY <2>1, ShellMoveRelaunch DEF Stages
<1>8. CASE WaitAgain(w)
  <2>1. UNCHANGED <<pc, failed_recoveries, relaunches, giveup, engine, container>>
    BY <1>8 DEF WaitAgain, fleetVars, flagVars
  <2>2. QED BY <2>1, RelaunchKept DEF RelaunchInv, UpMeansServed
<1>9. CASE WaitTimeout(w)
  BY <1>9, WaitTimeoutRelaunch
<1>10. CASE Recovered(w)
  <2>1. /\ pc[w] = "recovered" /\ pc' = [pc EXCEPT ![w] = "loop"]
        /\ failed_recoveries' = [failed_recoveries EXCEPT ![w] = 0]
        /\ UNCHANGED <<engine, container, relaunches, giveup>>
    BY <1>10 DEF Recovered, fleetVars, flagVars
  <2>2. QED BY <1>a, <2>1, ServedLoopRelaunch
<1>11. QED
  BY <1>1, <1>2, <1>3, <1>4, <1>5, <1>6, <1>7, <1>8, <1>9, <1>10 DEF Shell

LEMMA StartRelaunch ==
  ASSUME TypeInv, RelaunchInv, NEW w \in Watchdogs, Start(w)
  PROVE  RelaunchInv'
<1>1. /\ MAX_RECOVERIES \in Nat /\ MAX_RECOVERIES > 0
      /\ \A v \in Watchdogs : failed_recoveries[v] \in Nat
  BY DEF TypeInv, TypeOK
<1>2. /\ relaunches' = 0 /\ UNCHANGED <<engine, container, giveup>>
      /\ \A v \in Watchdogs : failed_recoveries'[v] \in Nat
  BY <1>1 DEF Start, fleetVars, flagVars, TypeInv, TypeOK
<1>3. QED
  BY <1>1, <1>2 DEF RelaunchInv, UpMeansServed, RelaunchesCounted, RelaunchesLeft,
                    BoundedRelaunches, Watching, Relaunching

LEMMA KillRelaunch ==
  ASSUME TypeInv, RelaunchInv, NEW w \in Watchdogs, Kill(w)
  PROVE  RelaunchInv'
<1>1. /\ pc' = [pc EXCEPT ![w] = "off"]
      /\ UNCHANGED <<engine, container, relaunches, giveup, failed_recoveries>>
  BY DEF Kill, fleetVars, flagVars
<1>2. QED BY <1>1, ShellMoveRelaunch DEF Stages

LEMMA StepRelaunch ==
  ASSUME ~ HealthCanLie, TypeInv, ActorInv, CleanInv, RelaunchInv, [Next]_vars
  PROVE  RelaunchInv'
<1>1. CASE UNCHANGED vars
  BY <1>1, RelaunchKept DEF vars, fleetVars, flagVars, shellVars, RelaunchInv, UpMeansServed
<1>2. CASE Environment
  BY <1>2, EnvironmentRelaunch
<1>3. ASSUME NEW w \in Watchdogs, Start(w) \/ Kill(w) \/ Shell(w) \/ RunCmd(w)
      PROVE  RelaunchInv'
  BY <1>3, StartRelaunch, KillRelaunch, ShellRelaunch, RunCmdRelaunch
<1>4. QED BY <1>1, <1>2, <1>3 DEF Next

(* With a network and removals that work and a /health that tells the       *)
(* truth, relaunches that never got the engine to serve end at              *)
(* MAX_RECOVERIES, whatever is killed, restarted, paused or re-armed (the   *)
(* limits of the main loop).                                                *)
THEOREM BoundedRelaunchesHolds ==
  ASSUME ~ SshCanFail, ~ RemoveCanFail, ~ HealthCanLie
  PROVE  Spec => []BoundedRelaunches
<1>1. TypeInv /\ ActorInv /\ CleanInv /\ RelaunchInv /\ [Next]_vars => RelaunchInv'
  BY StepRelaunch
<1>2. RelaunchInv => BoundedRelaunches
  BY DEF RelaunchInv
<1>3. QED
  BY <1>1, <1>2, InitRelaunch, TypeInvHolds, ActorInvHolds, CleanInvHolds, PTL DEF Spec
=============================================================================
