---------------------------- MODULE FleetWatchdog ----------------------------
(***************************************************************************)
(* fleet_watchdog.sh: the process on the head node that probes the fleet   *)
(* and, after enough failed probes, tears every rank down and relaunches   *)
(* it, until a limit of failed relaunches; with the effect on a node of    *)
(* the commands it runs there (launch-qwen38-tp4.sh among them).           *)
(*                                                                         *)
(* A watchdog process is a shell and the child it waits for.  When the     *)
(* shell is killed its child (ssh, bash -lc) runs on, and keeps the lock   *)
(* file open.  The fleet, the network and the operator are external.       *)
(***************************************************************************)
EXTENDS Integers, FiniteSets

CONSTANTS
  Watchdogs,       \* watchdog processes that may be started
  NumRanks,        \* hosts in SSH_HOSTS; rank 0 is the head
  FAIL_THRESHOLD,  \* failed probes before a recovery
  MAX_RECOVERIES,  \* failed recoveries before giving up
  ReadyChecks,     \* READY_TIMEOUT in checks of the wait loop
  MaxFaults,       \* bound on faults, kills and operator interventions
  SshCanFail,      \* TRUE: a worker node may be unreachable for a while
  RemoveCanFail,   \* TRUE: docker rm -f may fail on a node that is reached
  HealthCanLie     \* TRUE: /health may answer 200 for an engine that hangs

ASSUME FleetAssumption ==
  /\ NumRanks \in Nat \ {0}
  /\ FAIL_THRESHOLD \in Nat \ {0}
  /\ MAX_RECOVERIES \in Nat \ {0}
  /\ ReadyChecks \in Nat \ {0}
  /\ MaxFaults \in Nat
  /\ SshCanFail \in BOOLEAN
  /\ RemoveCanFail \in BOOLEAN
  /\ HealthCanLie \in BOOLEAN

VARIABLES
  container,    \* of each rank; "old": started before the latest recovery
  engine,       \* the engine the head's container serves
  reachable,    \* ssh to the rank's host works
  flusher,      \* flusher-unconditional.sh runs on the rank's host
  pause,        \* PAUSE_FLAG exists
  giveup,       \* GIVEUP_FLAG exists
  pc,           \* where the shell of a watchdog is; "off": no such process
  rank,         \* next rank of the loop over RANK_ORDER; -1: loop done
  fails,        \* consecutive failed probes
  failed_recoveries,
  waited,       \* checks of the wait loop so far
  cmd,          \* the command run_on has started and not finished
  faults,       \* faults so far
  relaunches    \* recoveries begun since the engine last served

fleetVars == <<container, engine, reachable, flusher>>
flagVars  == <<pause, giveup>>
shellVars == <<pc, rank, fails, failed_recoveries, waited>>
vars == <<fleetVars, flagVars, shellVars, cmd, faults, relaunches>>

Ranks   == 0 .. NumRanks - 1
Workers == Ranks \ {0}
Last    == NumRanks - 1            \* RANK_ORDER starts with the last rank
Running == {"old", "new"}
NoCmd   == [what |-> "none", rank |-> 0]

(* The stages of recover that run one command per rank, in RANK_ORDER. *)
Stages   == {"teardown", "ritual", "launch", "stop"}
StageCmd == [teardown |-> "docker_rm", ritual |-> "start_flusher",
             launch |-> "launch", stop |-> "stop_flusher"]
NextStage == [teardown |-> "ritual", ritual |-> "launch", launch |-> "wait",
              stop |-> "recovered"]

TypeOK ==
  /\ container \in [Ranks -> {"missing", "exited"} \cup Running]
  /\ engine \in {"down", "booting", "up", "dead", "hung"}
  /\ reachable \in [Ranks -> BOOLEAN]
  /\ flusher \in [Ranks -> BOOLEAN]
  /\ pause \in BOOLEAN
  /\ giveup \in BOOLEAN
  /\ pc \in [Watchdogs -> {"off", "loop", "probe", "canary", "wait", "recovered"}
                          \cup Stages]
  /\ rank \in [Watchdogs -> Ranks \cup {-1}]
  /\ fails \in [Watchdogs -> 0 .. FAIL_THRESHOLD]
  /\ failed_recoveries \in [Watchdogs -> 0 .. MAX_RECOVERIES + MaxFaults]
  /\ waited \in [Watchdogs -> 0 .. ReadyChecks - 1]
  /\ cmd \in [Watchdogs -> [what : {"none", "docker_rm", "start_flusher",
                                    "launch", "stop_flusher"}, rank : Ranks]]
  /\ faults \in 0 .. MaxFaults
  /\ relaunches \in 0 .. MAX_RECOVERIES + 1

(* A serving fleet, its flushers stopped, and nobody watching it. *)
Init ==
  /\ container = [r \in Ranks |-> "new"]
  /\ engine = "up"
  /\ reachable = [r \in Ranks |-> TRUE]
  /\ flusher = [r \in Ranks |-> FALSE]
  /\ pause = FALSE
  /\ giveup = FALSE
  /\ pc = [w \in Watchdogs |-> "off"]
  /\ rank = [w \in Watchdogs |-> -1]
  /\ fails = [w \in Watchdogs |-> 0]
  /\ failed_recoveries = [w \in Watchdogs |-> 0]
  /\ waited = [w \in Watchdogs |-> 0]
  /\ cmd = [w \in Watchdogs |-> NoCmd]
  /\ faults = 0
  /\ relaunches = 0

-----------------------------------------------------------------------------
(* The fleet and the operator (external). *)

Fault == faults < MaxFaults /\ faults' = faults + 1

(* What becomes of the engine when rank r is gone. *)
EngineWithout(r) ==
  IF r = 0 THEN {"down"}
  ELSE IF engine = "up"
       THEN {"dead"} \cup (IF HealthCanLie THEN {"hung"} ELSE {})
       ELSE {engine}

RankDies(r) ==
  /\ Fault
  /\ container[r] \in Running
  /\ container' = [container EXCEPT ![r] = "exited"]
  /\ engine' \in EngineWithout(r)
  /\ UNCHANGED <<reachable, flusher, flagVars, shellVars, cmd, relaunches>>

(* A collective wedges: every container keeps running. *)
EngineWedges ==
  /\ Fault
  /\ engine = "up"
  /\ engine' \in {"dead"} \cup (IF HealthCanLie THEN {"hung"} ELSE {})
  /\ UNCHANGED <<container, reachable, flusher, flagVars, shellVars, cmd,
                 relaunches>>

(* The head serves once every rank of its boot has joined. *)
Boot ==
  /\ engine = "booting"
  /\ \A r \in Ranks : container[r] = "new"
  /\ engine' = "up"
  /\ relaunches' = 0
  /\ UNCHANGED <<container, reachable, flusher, flagVars, shellVars, cmd, faults>>

(* /health answers, and the first request never returns. *)
BootHung ==
  /\ Fault
  /\ HealthCanLie
  /\ engine = "booting"
  /\ engine' = "hung"
  /\ UNCHANGED <<container, reachable, flusher, flagVars, shellVars, cmd,
                 relaunches>>

Unreach(r) ==
  /\ Fault
  /\ SshCanFail
  /\ reachable' = [reachable EXCEPT ![r] = FALSE]
  /\ UNCHANGED <<container, engine, flusher, flagVars, shellVars, cmd, relaunches>>

Reach(r) ==
  /\ ~ reachable[r]
  /\ reachable' = [reachable EXCEPT ![r] = TRUE]
  /\ UNCHANGED <<container, engine, flusher, flagVars, shellVars, cmd, faults,
                 relaunches>>

Pause ==
  /\ Fault
  /\ pause' = TRUE
  /\ UNCHANGED <<fleetVars, giveup, shellVars, cmd, relaunches>>

Resume ==
  /\ pause
  /\ pause' = FALSE
  /\ UNCHANGED <<fleetVars, giveup, shellVars, cmd, faults, relaunches>>

ReArm ==
  /\ Fault
  /\ giveup
  /\ giveup' = FALSE
  /\ relaunches' = 0
  /\ UNCHANGED <<fleetVars, pause, shellVars, cmd>>

(* The shell is killed; the child it waited for is not. *)
Kill(w) ==
  /\ Fault
  /\ pc[w] # "off"
  /\ pc' = [pc EXCEPT ![w] = "off"]
  /\ UNCHANGED <<fleetVars, flagVars, rank, fails, failed_recoveries, waited, cmd,
                 relaunches>>

-----------------------------------------------------------------------------
(* The main loop. *)

(* Mutant: the lock is the shell's alone, children do not inherit it. *)
LockFreeOfShells(w) == \A v \in Watchdogs : pc[v] = "off"

(* exec 9> ... flock -n 9: free once no shell and no child of one has the   *)
(* descriptor open.                                                         *)
LockFree(w) == \A v \in Watchdogs : pc[v] = "off" /\ cmd[v] = NoCmd

Start(w) ==
  /\ pc[w] = "off"
  /\ LockFree(w)
  /\ pc' = [pc EXCEPT ![w] = "loop"]
  /\ fails' = [fails EXCEPT ![w] = 0]
  /\ failed_recoveries' = [failed_recoveries EXCEPT ![w] = 0]
  /\ relaunches' = 0
  /\ UNCHANGED <<fleetVars, flagVars, rank, waited, cmd, faults>>

(* Mutant: the flag file is written and never looked at. *)
OffDutyUnlessPaused == pause
OffDuty == giveup \/ pause

Loop(w) ==
  /\ pc[w] = "loop"
  /\ IF OffDuty
     THEN /\ fails' = [fails EXCEPT ![w] = 0]
          /\ UNCHANGED <<pc, rank>>
     ELSE /\ pc' = [pc EXCEPT ![w] = "probe"]
          /\ rank' = [rank EXCEPT ![w] = Last]
          /\ UNCHANGED fails
  /\ UNCHANGED <<fleetVars, flagVars, failed_recoveries, waited, cmd, faults,
                 relaunches>>

(* Mutant: the failures of this iteration only. *)
FailsOfThisIteration(w) == 1
FailsNow(w) == fails[w] + 1

(* Mutant: one more probe than FAIL_THRESHOLD. *)
TooManyLate(n) == n > FAIL_THRESHOLD
TooMany(n)     == n >= FAIL_THRESHOLD

(* A recovery starts: whatever runs now belongs to an earlier boot. *)
BeginRecovery(w) ==
  /\ pc' = [pc EXCEPT ![w] = "teardown"]
  /\ rank' = [rank EXCEPT ![w] = Last]
  /\ container' = [r \in Ranks |-> IF container[r] = "new" THEN "old"
                                   ELSE container[r]]
  /\ relaunches' = IF relaunches > MAX_RECOVERIES THEN relaunches
                   ELSE relaunches + 1

ProbeFails(w) ==
  /\ fails' = [fails EXCEPT ![w] = FailsNow(w)]
  /\ IF TooMany(FailsNow(w))
     THEN BeginRecovery(w)
     ELSE /\ pc' = [pc EXCEPT ![w] = "loop"]
          /\ UNCHANGED <<rank, container, relaunches>>
  /\ UNCHANGED <<engine, reachable, flusher, flagVars, failed_recoveries, waited,
                 cmd, faults>>

(* The head is SELF: its commands do not go through ssh. *)
CanRunOn(r) == r = 0 \/ reachable[r]

ProbeRank(w) ==
  /\ pc[w] = "probe"
  /\ rank[w] >= 0
  /\ IF CanRunOn(rank[w]) /\ container[rank[w]] \in Running
     THEN /\ rank' = [rank EXCEPT ![w] = @ - 1]
          /\ UNCHANGED <<fleetVars, flagVars, pc, fails, failed_recoveries, waited,
                         cmd, faults, relaunches>>
     ELSE ProbeFails(w)

healthy == engine \in {"up", "hung"}

ProbeHealth(w) ==
  /\ pc[w] = "probe"
  /\ rank[w] = -1
  /\ IF healthy
     THEN /\ pc' = [pc EXCEPT ![w] = "canary"]
          /\ UNCHANGED <<fleetVars, flagVars, rank, fails, failed_recoveries,
                         waited, cmd, faults, relaunches>>
     ELSE ProbeFails(w)

(* Mutant: no canary request, /health decides. *)
CanaryOfHealth == healthy
Canary == engine = "up"

ProbeCanary(w) ==
  /\ pc[w] = "canary"
  /\ IF Canary
     THEN /\ pc' = [pc EXCEPT ![w] = "loop"]
          /\ fails' = [fails EXCEPT ![w] = 0]
          /\ failed_recoveries' = [failed_recoveries EXCEPT ![w] = 0]
          /\ UNCHANGED <<fleetVars, flagVars, rank, waited, cmd, faults, relaunches>>
     ELSE ProbeFails(w)

-----------------------------------------------------------------------------
(* recover *)

(* run_on starts the stage's command for the next rank; *)
Issue(w) ==
  /\ pc[w] \in Stages
  /\ cmd[w] = NoCmd
  /\ rank[w] >= 0
  /\ cmd' = [cmd EXCEPT ![w] = [what |-> StageCmd[pc[w]], rank |-> rank[w]]]
  /\ rank' = [rank EXCEPT ![w] = @ - 1]
  /\ UNCHANGED <<fleetVars, flagVars, pc, fails, failed_recoveries, waited, faults,
                 relaunches>>

(* and what it reports is not looked at, or only logged. *)
EndStage(w) ==
  /\ pc[w] \in Stages
  /\ cmd[w] = NoCmd
  /\ rank[w] = -1
  /\ pc' = [pc EXCEPT ![w] = NextStage[pc[w]]]
  /\ rank' = [rank EXCEPT ![w] = IF pc[w] \in {"teardown", "ritual"} THEN Last
                                 ELSE -1]
  /\ waited' = [waited EXCEPT ![w] = 0]
  /\ UNCHANGED <<fleetVars, flagVars, fails, failed_recoveries, cmd, faults,
                 relaunches>>

WaitHealthy(w) ==
  /\ pc[w] = "wait"
  /\ healthy
  /\ pc' = [pc EXCEPT ![w] = "stop"]
  /\ rank' = [rank EXCEPT ![w] = Last]
  /\ UNCHANGED <<fleetVars, flagVars, fails, failed_recoveries, waited, cmd, faults,
                 relaunches>>

WaitAgain(w) ==
  /\ pc[w] = "wait"
  /\ ~ healthy
  /\ waited[w] + 1 < ReadyChecks
  /\ waited' = [waited EXCEPT ![w] = @ + 1]
  /\ UNCHANGED <<fleetVars, flagVars, pc, rank, fails, failed_recoveries, cmd,
                 faults, relaunches>>

(* Mutant: one recovery too many. *)
GivesUpLate(n) == n > MAX_RECOVERIES
GivesUp(n)     == n >= MAX_RECOVERIES

(* recover returns 1: the flushers are left alone. *)
WaitTimeout(w) ==
  /\ pc[w] = "wait"
  /\ ~ healthy
  /\ waited[w] + 1 >= ReadyChecks
  /\ pc' = [pc EXCEPT ![w] = "loop"]
  /\ fails' = [fails EXCEPT ![w] = 0]
  /\ failed_recoveries' = [failed_recoveries EXCEPT ![w] = @ + 1]
  /\ giveup' = (giveup \/ GivesUp(failed_recoveries[w] + 1))
  /\ UNCHANGED <<fleetVars, pause, rank, waited, cmd, faults, relaunches>>

(* recover returns 0, on the word of /health. *)
Recovered(w) ==
  /\ pc[w] = "recovered"
  /\ pc' = [pc EXCEPT ![w] = "loop"]
  /\ fails' = [fails EXCEPT ![w] = 0]
  /\ failed_recoveries' = [failed_recoveries EXCEPT ![w] = 0]
  /\ UNCHANGED <<fleetVars, flagVars, rank, waited, cmd, faults, relaunches>>

-----------------------------------------------------------------------------
(* The commands, as they take effect on the node of rank r. *)

(* The text of start_flusher names ./flusher-unconditional.sh, so that its  *)
(* own shell is among the processes pkill -f finds; stop_flusher's is not.  *)
MatchesPattern(what) == what = "start_flusher"

(* docker rm -f ... || true: nobody hears of one that fails. *)
Removes(r) ==
  \/ /\ container' = [container EXCEPT ![r] = "missing"]
     /\ engine' \in EngineWithout(r)
     /\ UNCHANGED <<flusher, faults>>
  \/ /\ RemoveCanFail
     /\ Fault
     /\ UNCHANGED <<container, engine, flusher>>

(* launch-qwen38-tp4.sh removes the rank's container and runs a new one,    *)
(* unless a prerequisite is missing; the new one may exit at once.          *)
Launches(r) ==
  \/ /\ container' = [container EXCEPT ![r] = "new"]
     /\ engine' \in IF r = 0 THEN {"booting"} ELSE EngineWithout(r)
     /\ UNCHANGED <<flusher, faults>>
  \/ /\ Fault
     /\ container' = [container EXCEPT ![r] = "exited"]
     /\ engine' \in EngineWithout(r)
     /\ UNCHANGED flusher
  \/ /\ Fault
     /\ UNCHANGED fleetVars

(* pkill first: a shell that matches its own pattern never gets to the      *)
(* flusher it was to start.                                                 *)
SetsFlusher(r, what) ==
  /\ flusher' = [flusher EXCEPT ![r] = what = "start_flusher"
                                       /\ ~ MatchesPattern(what)]
  /\ UNCHANGED <<container, engine, faults>>

RunCmd(w) ==
  LET what == cmd[w].what
      r    == cmd[w].rank
  IN  /\ what # "none"
      /\ cmd' = [cmd EXCEPT ![w] = NoCmd]
      /\ IF ~ CanRunOn(r) THEN UNCHANGED <<container, engine, flusher, faults>>
         ELSE \/ what = "docker_rm" /\ Removes(r)
              \/ what = "launch" /\ Launches(r)
              \/ what \in {"start_flusher", "stop_flusher"} /\ SetsFlusher(r, what)
      /\ UNCHANGED <<reachable, flagVars, shellVars, relaunches>>

-----------------------------------------------------------------------------
Environment ==
  \/ \E r \in Ranks : RankDies(r)
  \/ \E r \in Workers : Unreach(r) \/ Reach(r)
  \/ EngineWedges \/ Boot \/ BootHung
  \/ Pause \/ Resume \/ ReArm

Shell(w) ==
  \/ Loop(w)
  \/ ProbeRank(w) \/ ProbeHealth(w) \/ ProbeCanary(w)
  \/ Issue(w) \/ EndStage(w)
  \/ WaitHealthy(w) \/ WaitAgain(w) \/ WaitTimeout(w) \/ Recovered(w)

Next ==
  \/ Environment
  \/ \E w \in Watchdogs : Start(w) \/ Kill(w) \/ Shell(w) \/ RunCmd(w)

Spec == Init /\ [][Next]_vars

(* A shell that lives goes on: curl and sleep are bounded, ssh is while it   *)
(* connects, and that docker then answers is assumed.  A command ends, a     *)
(* network comes back, a complete boot ends.                                 *)
Fairness ==
  /\ \A w \in Watchdogs : WF_vars(Shell(w)) /\ WF_vars(RunCmd(w))
  /\ \A r \in Workers : WF_vars(Reach(r))
  /\ WF_vars(Boot)

FairSpec == Spec /\ Fairness

-----------------------------------------------------------------------------
(* A child of w runs: a command on its way to a node. *)
Busy(w) == cmd[w] # NoCmd

(* Never do two watchdogs act on the fleet, not even when one was killed in *)
(* the middle of a command and another was started (flock on descriptor 9,  *)
(* inherited by what run_on starts).                                        *)
OneActor ==
  \A v, w \in Watchdogs : v # w /\ (Busy(v) \/ pc[v] # "off") =>
    ~ Busy(w) /\ pc[w] = "off"

(* Once given up, the fleet is left to the person who has to look at it: no *)
(* probe, no recovery, no command still on its way to a node (GIVEUP_FLAG). *)
GivenUpIsQuiet ==
  giveup => \A w \in Watchdogs : ~ Busy(w) /\ pc[w] \in {"off", "loop"}

(* Only a stage of recover, or a shell killed in one, has a command running. *)
BusyInStage ==
  \A w \in Watchdogs : Busy(w) => pc[w] \in Stages \cup {"off"}

(* The inductive invariant behind OneActor and GivenUpIsQuiet. *)
ActorInv ==
  /\ pc \in [Watchdogs -> {"off", "loop", "probe", "canary", "wait", "recovered"}
                          \cup Stages]
  /\ DOMAIN cmd = Watchdogs
  /\ OneActor
  /\ GivenUpIsQuiet
  /\ BusyInStage

(* Relaunches that never got the engine to serve are limited                *)
(* (MAX_RECOVERIES, "relaunching every few minutes hides the cause").       *)
BoundedRelaunches == relaunches <= MAX_RECOVERIES

(* "Tear down EVERYTHING first": no rank is launched while a container of   *)
(* an earlier boot still runs on another node.                              *)
NoOldRankAtLaunch ==
  \A w \in Watchdogs :
    cmd[w].what = "launch" =>
      \A r \in Ranks \ {cmd[w].rank} : container[r] # "old"

(* "Memory ritual + unconditional flusher on all nodes, for the whole       *)
(* boot": the flusher of a node runs when its rank is launched.             *)
FlusherRunsAtLaunch ==
  \A w \in Watchdogs : cmd[w].what = "launch" => flusher[cmd[w].rank]

(* As long as somebody watches and nobody paused it, a fleet that lost a    *)
(* rank, its engine or its network comes back, or a person is asked for     *)
(* (probe, recover and the limits of the main loop).                        *)
ServesOrGivesUp ==
  []<>(engine = "up" \/ giveup \/ pause \/ \A w \in Watchdogs : pc[w] = "off")
=============================================================================
