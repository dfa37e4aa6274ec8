------------------------------ MODULE Sidecar ------------------------------
(***************************************************************************)
(* The supervisor of the sidecar process (bootstrap/sidecar.go): Start     *)
(* spawns a child and waits until it answers, a goroutine restarts it with *)
(* a backoff when it exits (or probes a host that somebody else manages),  *)
(* and Stop ends it.  Start and Stop are the hooks of the server's         *)
(* lifecycle, so Stop is called once, after a Start that succeeded.        *)
(*                                                                         *)
(* Start, the goroutine and Stop share the fields under a mutex; what one  *)
(* of them does between two critical sections is a step of its own.        *)
(* Durations are left out: a timer may have fired whenever it is awaited.  *)
(***************************************************************************)
EXTENDS Integers

CONSTANTS
    Threshold,   \* failureThreshold: failures that make the sidecar unavailable
    MaxSpawns    \* bound: children of a behaviour

ASSUME SidecarAssumption == Threshold \in Nat \ {0} /\ MaxSpawns \in Nat \ {0}

Commands == 1..MaxSpawns

VARIABLES
    spawn,     \* cfg.SidecarSpawn: the child is this server's, or an external unit's
    sup,       \* the fields of SidecarSupervisor, and whether its context is cancelled
    child,     \* the process of each exec.Cmd; command 1 is the external host
    starter,   \* where Start stands
    loop,      \* where supervise or probe stands
    watched,   \* the command supervise waits for
    stopper,   \* where Stop stands
    stopping,  \* the command Stop read, 0 for none
    inARow     \* history: exits since a child last served

sidecarVars == <<spawn, sup, child, starter, loop, watched, stopper, stopping, inARow>>

Supervisor == [cmd: 0..MaxSpawns, failures: 0..Threshold, unavailable: BOOLEAN, cancelled: BOOLEAN]

SidecarTypeOK ==
    /\ spawn \in BOOLEAN
    /\ sup \in Supervisor
    /\ child \in [Commands -> {"none", "built", "forking", "refused", "booting", "serving",
                               "draining", "gone"}]
    /\ starter \in {"idle", "launching", "polling", "ready", "failed"}
    /\ loop \in {"none", "reading", "waiting", "backoff", "launching", "asking", "answered",
                 "probing", "silent", "gave up", "done"}
    /\ watched \in 0..MaxSpawns
    /\ stopper \in {"idle", "read", "termed", "waiting", "killed", "returned"}
    /\ stopping \in 0..MaxSpawns
    /\ inARow \in Nat

\* NewSidecar: unavailable until the first successful health check.
SidecarInit ==
    /\ spawn \in BOOLEAN
    /\ sup = [cmd |-> 0, failures |-> 0, unavailable |-> TRUE, cancelled |-> FALSE]
    /\ child = [p \in Commands |-> IF ~spawn /\ p = 1 THEN "serving" ELSE "none"]
    /\ starter = "idle" /\ loop = "none" /\ watched = 0
    /\ stopper = "idle" /\ stopping = 0
    /\ inARow = 0

Alive(p) == child[p] \in {"booting", "serving", "draining"}

\* command.Process is nil until Start has forked.
HasProcess(p) == p \in Commands /\ child[p] \notin {"none", "built", "forking", "refused"}

Healthy == \E p \in Commands : child[p] = "serving"

\* Signals reach the process group of a command that was started.
Signalled(p, state) == [child EXCEPT ![p] = IF Alive(p) THEN state ELSE @]

\* A node process that has not installed its handler dies of SIGTERM; one that
\* serves closes its socket and lets its requests end.
Terminated(p) == Signalled(p, IF child[p] = "booting" THEN "gone" ELSE "draining")

Fresh(p) == child[p] = "none" /\ \A q \in Commands : q < p => child[q] # "none"

\* spawn, up to command.Start.
BuildCommand(p) ==
    /\ Fresh(p)
    /\ child' = [child EXCEPT ![p] = "built"]
    /\ sup' = [sup EXCEPT !.cmd = p]

\* exec.CommandContext: the process is killed when the context is cancelled.
Doomed_Never(p) == FALSE
Doomed(p) == spawn /\ sup.cancelled /\ Alive(p)

-----------------------------------------------------------------------------
(* command.Start, by Start or by the goroutine.                             *)

\* Start refuses a context that is cancelled already.
Launch(p) ==
    /\ child[p] = "built"
    /\ child' = [child EXCEPT ![p] = IF sup.cancelled THEN "refused" ELSE "forking"]
    /\ UNCHANGED <<spawn, sup, starter, loop, watched, stopper, stopping, inARow>>

Fork(p) ==
    /\ child[p] = "forking"
    /\ child' \in {[child EXCEPT ![p] = s] : s \in {"booting", "refused"}}
    /\ UNCHANGED <<spawn, sup, starter, loop, watched, stopper, stopping, inARow>>

Launching(p) == child[p] \in {"built", "forking"}
NoneLaunching == \A p \in Commands : ~Launching(p)

-----------------------------------------------------------------------------
(* Start.                                                                   *)

StartBegins ==
    /\ starter = "idle"
    /\ IF spawn THEN starter' = "launching" /\ BuildCommand(1)
                ELSE starter' = "polling" /\ UNCHANGED <<sup, child>>
    /\ UNCHANGED <<spawn, loop, watched, stopper, stopping, inARow>>

StartSpawned ==
    /\ starter = "launching" /\ NoneLaunching
    /\ starter' = IF child[1] = "refused" THEN "failed" ELSE "polling"
    /\ UNCHANGED <<spawn, sup, child, loop, watched, stopper, stopping, inARow>>

StartReady ==
    /\ starter = "polling" /\ Healthy
    /\ starter' = "ready"
    /\ sup' = [sup EXCEPT !.unavailable = FALSE, !.failures = 0]
    /\ loop' = IF spawn THEN "reading" ELSE "probing"
    /\ UNCHANGED <<spawn, child, watched, stopper, stopping, inARow>>

\* The server does not come up; nothing ends a child that was spawned.
StartTimesOut ==
    /\ starter = "polling"
    /\ starter' = "failed"
    /\ UNCHANGED <<spawn, sup, child, loop, watched, stopper, stopping, inARow>>

-----------------------------------------------------------------------------
(* The goroutine: supervise, or probe.                                      *)

\* recordFailure
Failed ==
    LET n == IF sup.failures < Threshold THEN sup.failures + 1 ELSE Threshold IN
    [sup EXCEPT !.failures = n, !.unavailable = @ \/ n >= Threshold]

Recovered == [sup EXCEPT !.failures = 0, !.unavailable = FALSE]

SuperviseReads ==
    /\ loop = "reading"
    /\ loop' = IF HasProcess(sup.cmd) THEN "waiting" ELSE "done"
    /\ watched' = sup.cmd
    /\ UNCHANGED <<spawn, sup, child, starter, stopper, stopping, inARow>>

\* command.Wait returned: a planned stop, the last crash, or one to recover from.
ChildExited ==
    /\ loop = "waiting" /\ child[watched] = "gone"
    /\ IF sup.cancelled
       THEN loop' = "done" /\ UNCHANGED <<sup, inARow>>
       ELSE /\ sup' = Failed
            /\ inARow' = inARow + 1
            /\ loop' = IF Failed.failures >= Threshold THEN "gave up" ELSE "backoff"
    /\ UNCHANGED <<spawn, child, starter, watched, stopper, stopping>>

\* The select takes either channel that is ready.
BackoffCancelled ==
    /\ loop = "backoff" /\ sup.cancelled
    /\ loop' = "done"
    /\ UNCHANGED <<spawn, sup, child, starter, watched, stopper, stopping, inARow>>

Respawn(p) ==
    /\ loop = "backoff"
    /\ BuildCommand(p)
    /\ loop' = "launching"
    /\ UNCHANGED <<spawn, starter, watched, stopper, stopping, inARow>>

\* A respawn that failed is only logged.
Respawned(p) ==
    /\ loop = "launching" /\ ~Launching(p)
    /\ child[p] # "none" /\ \A q \in Commands : q > p => child[q] = "none"
    /\ loop' = IF child[p] = "refused" THEN "reading" ELSE "asking"
    /\ UNCHANGED <<spawn, sup, child, starter, watched, stopper, stopping, inARow>>

\* One health check, right after the spawn.
AskChild ==
    /\ loop = "asking"
    /\ loop' = IF Healthy /\ ~sup.cancelled THEN "answered" ELSE "reading"
    /\ UNCHANGED <<spawn, sup, child, starter, watched, stopper, stopping, inARow>>

ChildAnswered ==
    /\ loop = "answered" /\ spawn
    /\ sup' = Recovered
    /\ loop' = "reading"
    /\ UNCHANGED <<spawn, child, starter, watched, stopper, stopping, inARow>>

Probe ==
    /\ loop = "probing" /\ ~sup.cancelled
    /\ loop' = IF Healthy THEN "answered" ELSE "silent"
    /\ UNCHANGED <<spawn, sup, child, starter, watched, stopper, stopping, inARow>>

ProbeRecords ==
    /\ ~spawn /\ loop \in {"answered", "silent"}
    /\ sup' = IF loop = "answered" THEN Recovered ELSE Failed
    /\ loop' = "probing"
    /\ UNCHANGED <<spawn, child, starter, watched, stopper, stopping, inARow>>

ProbeEnds ==
    /\ loop = "probing" /\ sup.cancelled
    /\ loop' = "done"
    /\ UNCHANGED <<spawn, sup, child, starter, watched, stopper, stopping, inARow>>

-----------------------------------------------------------------------------
(* Stop.                                                                    *)

StopReads ==
    /\ starter = "ready" /\ stopper = "idle"
    /\ stopping' = sup.cmd
    /\ sup' = [sup EXCEPT !.cmd = 0, !.unavailable = TRUE]
    /\ stopper' = "read"
    /\ UNCHANGED <<spawn, child, starter, loop, watched, inARow>>

\* There is no process to signal: none was spawned, or its restart is on the way.
StopFindsNone ==
    /\ stopper = "read" /\ ~HasProcess(stopping)
    /\ sup' = [sup EXCEPT !.cancelled = TRUE]
    /\ stopper' = "returned"
    /\ UNCHANGED <<spawn, child, starter, loop, watched, stopping, inARow>>

StopTerminates ==
    /\ stopper = "read" /\ HasProcess(stopping)
    /\ child' = Terminated(stopping)
    /\ stopper' = "termed"
    /\ UNCHANGED <<spawn, sup, starter, loop, watched, stopping, inARow>>

StopCancels ==
    /\ stopper = "termed"
    /\ sup' = [sup EXCEPT !.cancelled = TRUE]
    /\ stopper' = "waiting"
    /\ UNCHANGED <<spawn, child, starter, loop, watched, stopping, inARow>>

StopSeesDone ==
    /\ stopper = "waiting" /\ loop \in {"gave up", "done"}
    /\ stopper' = "returned"
    /\ UNCHANGED <<spawn, sup, child, starter, loop, watched, stopping, inARow>>

\* The grace period, or the server's own deadline, is over.
StopKills ==
    /\ stopper = "waiting"
    /\ child' = Signalled(stopping, "gone")
    /\ stopper' = "killed"
    /\ UNCHANGED <<spawn, sup, starter, loop, watched, stopping, inARow>>

StopReturns ==
    /\ stopper = "killed"
    /\ stopper' = "returned"
    /\ UNCHANGED <<spawn, sup, child, starter, loop, watched, stopping, inARow>>

-----------------------------------------------------------------------------
(* The processes.                                                           *)

ContextKills(p) ==
    /\ Doomed(p)
    /\ child' = [child EXCEPT ![p] = "gone"]
    /\ UNCHANGED <<spawn, sup, starter, loop, watched, stopper, stopping, inARow>>

ChildBoots(p) ==
    /\ child[p] = "booting"
    /\ child' = [child EXCEPT ![p] = "serving"]
    /\ inARow' = 0
    /\ UNCHANGED <<spawn, sup, starter, loop, watched, stopper, stopping>>

ChildDies(p) ==
    /\ Alive(p)
    /\ child' = [child EXCEPT ![p] = "gone"]
    /\ UNCHANGED <<spawn, sup, starter, loop, watched, stopper, stopping, inARow>>

\* An external unit restarts its process.
HostReturns ==
    /\ ~spawn /\ child[1] = "gone"
    /\ child' = [child EXCEPT ![1] = "serving"]
    /\ UNCHANGED <<spawn, sup, starter, loop, watched, stopper, stopping, inARow>>

-----------------------------------------------------------------------------

StartStep == StartBegins \/ StartSpawned \/ StartReady \/ StartTimesOut

\* What the goroutine, and the exec package for it, do next.
LoopStep ==
    \/ SuperviseReads \/ ChildExited \/ AskChild \/ ChildAnswered
    \/ \E p \in Commands : Launch(p) \/ Fork(p) \/ Respawned(p)
    \/ ProbeRecords \/ ProbeEnds

StopStep ==
    \/ StopFindsNone \/ StopTerminates \/ StopCancels \/ StopSeesDone \/ StopKills \/ StopReturns

SidecarNext ==
    \/ StartStep \/ LoopStep \/ StopReads \/ StopStep
    \/ BackoffCancelled \/ Probe
    \/ \E p \in Commands : Respawn(p) \/ ContextKills(p) \/ ChildBoots(p) \/ ChildDies(p)
    \/ HostReturns

SidecarSpec == SidecarInit /\ [][SidecarNext]_sidecarVars

(***************************************************************************)
(* Fairness: a goroutine that can run does, also the one that exec starts  *)
(* to kill the child of a cancelled context.  Nothing is assumed of the    *)
(* children or of the backoff.                                             *)
(***************************************************************************)
SidecarFairSpec ==
    /\ SidecarSpec
    /\ WF_sidecarVars(LoopStep)
    /\ WF_sidecarVars(StopStep)
    /\ \A p \in Commands : WF_sidecarVars(ContextKills(p))

-----------------------------------------------------------------------------
(* Properties.                                                              *)

\* Stop returns, and afterwards no child of this server lives or is spawned
\* again, wherever in a restart the goroutine was when Stop read the command
\* (Stop, supervise, spawn).
StopEndsChild ==
    (stopper = "read" /\ spawn) ~> [](stopper = "returned" /\ \A p \in Commands : ~Alive(p))

\* Two children never run at the same time: the next is spawned when the last
\* was waited for (supervise).
OneChild ==
    spawn => \A p, q \in Commands : Alive(p) /\ Alive(q) => p = q

\* What the comment of threshold, and the log, say: it is consecutive failures
\* that make the supervisor give up.
GivesUpOnARow == loop = "gave up" => inARow >= Threshold

=============================================================================
