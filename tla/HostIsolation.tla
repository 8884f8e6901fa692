---------------------------- MODULE HostIsolation ----------------------------
(***************************************************************************)
(* The shell functions that quiet a host for a benchmark and put it back   *)
(* (benchmark/scripts/lib/bench_linux_isolation.sh) under the two drivers  *)
(* that source them, session after session in one output directory.  The   *)
(* settings of the host and the files of the directory outlive a session;  *)
(* irqbalance moves interrupts concurrently until it is stopped.           *)
(*                                                                         *)
(* An exit before the EXIT trap is set, and a kill at any time, skip the   *)
(* cleanup.  The probe that chooses a CPU is a choice; timers, sysctls and *)
(* reports are left out.  An interrupt's affinity stands for its effective *)
(* affinity too, which is a part of it.                                    *)
(***************************************************************************)
EXTENDS Integers, FiniteSets

CONSTANTS
    Cpu,            \* the CPUs online
    Sibling(_),     \* a CPU's thread_siblings_list
    Irq,            \* the device interrupts
    Fixed,          \* those whose affinity the kernel does not let change
    Environment,    \* the settings of a session
    ExecsLast,      \* bash replaces a subshell by its last command
    MaxLocks,       \* bound on the latency locks that dead sessions leave
    NULL

ASSUME IsolationAssumption ==
    /\ IsFiniteSet(Cpu) /\ Cpu # {}
    /\ \A c \in Cpu : c \in Sibling(c) /\ Sibling(c) \subseteq Cpu
    /\ Fixed \subseteq Irq
    /\ ExecsLast \in BOOLEAN /\ MaxLocks \in Nat

\* NULL, the missing file, is neither a set of governors nor a set of affinities.
ASSUME NullAssumption ==
    /\ NULL \notin [Cpu -> {"powersave", "performance"}]
    /\ \A S \in SUBSET Irq : NULL \notin [S -> SUBSET Cpu]

VARIABLES
    host,       \* governor, affinity, workqueues, irqbalance, locks
    files,      \* governors_before.txt and irq_affinity_moved.txt
    pc,         \* the step of the session to come, "idle" without one
    env,        \* the settings of the session
    bench,      \* BENCH_CPU_SELECTED
    snapshot,   \* the affinities of irq_affinity_pre_irq_tuning.txt
    locked,     \* DMA_LATENCY_PID is set
    found       \* history: what of the host the session found, to be restored

sessionVars == <<env, bench, snapshot, locked, found>>
vars == <<host, files, pc, sessionVars>>

Init ==
    /\ host \in [governor   : {[c \in Cpu |-> "powersave"]},
                 affinity   : {[i \in Irq |-> Cpu]},
                 workqueues : {Cpu},
                 irqbalance : BOOLEAN,
                 locks      : {0}]
    /\ files = [governors_before |-> NULL, irq_moved |-> NULL]
    /\ pc = "idle"
    /\ env = NULL /\ bench = NULL /\ snapshot = NULL /\ found = NULL
    /\ locked = FALSE

-----------------------------------------------------------------------------
Step(here, there) == pc = here /\ pc' = there

\* A driver is started with some settings and calls bench_linux_isolation_begin.
Begin ==
    /\ Step("idle", "set_governor")
    /\ env' \in Environment
    /\ found' = [host EXCEPT !.workqueues = NULL]
    /\ UNCHANGED <<host, files, bench, snapshot, locked>>

\* Seeded fault: the snapshot is written after the governors were set.
SetGovernorFirst ==
    /\ Step("set_governor", "reduce_noise")
    /\ IF env.SET_PERFORMANCE_GOVERNOR
       THEN /\ host'  = [host EXCEPT !.governor = [c \in Cpu |-> "performance"]]
            /\ files' = [files EXCEPT !.governors_before = [c \in Cpu |-> "performance"]]
       ELSE UNCHANGED <<host, files>>
    /\ UNCHANGED sessionVars

set_governor ==
    /\ Step("set_governor", "reduce_noise")
    /\ IF env.SET_PERFORMANCE_GOVERNOR
       THEN /\ files' = [files EXCEPT !.governors_before = host.governor]
            /\ host'  = [host EXCEPT !.governor = [c \in Cpu |-> "performance"]]
       ELSE UNCHANGED <<host, files>>
    /\ UNCHANGED sessionVars

\* STOP_IRQBALANCE has an effect only inside the two switches around it, and
\* a stop that fails is ignored.
reduce_noise ==
    /\ Step("reduce_noise", "select_cpu")
    /\ \/ env.STOP_IRQBALANCE /\ host' = [host EXCEPT !.irqbalance = FALSE]
       \/ UNCHANGED host
    /\ UNCHANGED <<files, sessionVars>>

select_cpu ==
    /\ Step("select_cpu", "apply_aggressive_isolation")
    /\ bench' \in Cpu
    /\ UNCHANGED <<host, files, env, snapshot, locked, found>>

avoid  == {bench} \cup (IF env.AVOID_IRQ_ON_SMT_SIBLINGS THEN Sibling(bench) ELSE {})
target == IF Cpu \ avoid # {} THEN Cpu \ avoid ELSE Cpu \ {bench}

\* A process is started that holds the latency lock; work queues are pinned
\* away, if the mask is not empty.
apply_aggressive_isolation ==
    /\ Step("apply_aggressive_isolation", "snapshot_kernel")
    /\ IF env.AGGRESSIVE_ISOLATION
       THEN /\ host' = [host EXCEPT
                  !.locks = @ + 1,
                  !.workqueues = IF target # {} THEN target ELSE @]
            /\ locked' = TRUE
       ELSE UNCHANGED <<host, locked>>
    /\ UNCHANGED <<files, env, bench, snapshot, found>>

snapshot_kernel ==
    /\ Step("snapshot_kernel", "move_irqs")
    /\ snapshot' = host.affinity
    /\ UNCHANGED <<host, files, env, bench, locked, found>>

\* Seeded fault: an interrupt is moved only if it can reach the bench CPU.
MoveIrqsOffBenchOnly ==
    /\ pc = "move_irqs"
    /\ pc' \in {"build", "run"}
    /\ LET moved == {i \in Irq \ Fixed : bench \in snapshot[i] /\ target # {}} IN
       IF env.AVOID_IRQ_ON_BENCH_CPU
       THEN /\ files' = [files EXCEPT !.irq_moved = [i \in moved |-> snapshot[i]]]
            /\ host'  = [host EXCEPT !.affinity =
                           [i \in Irq |-> IF i \in moved THEN target ELSE @[i]]]
       ELSE UNCHANGED <<host, files>>
    /\ UNCHANGED sessionVars

\* Whatever can reach a CPU to avoid is moved, and its affinity in the
\* snapshot logged.  The profiling driver builds before it sets its trap,
\* the other one has built before and sets it at once.
move_irqs ==
    /\ pc = "move_irqs"
    /\ pc' \in {"build", "run"}
    /\ LET moved == {i \in Irq \ Fixed : snapshot[i] \cap avoid # {} /\ target # {}} IN
       IF env.AVOID_IRQ_ON_BENCH_CPU
       THEN /\ files' = [files EXCEPT !.irq_moved = [i \in moved |-> snapshot[i]]]
            /\ host'  = [host EXCEPT !.affinity =
                           [i \in Irq |-> IF i \in moved THEN target ELSE @[i]]]
       ELSE UNCHANGED <<host, files>>
    /\ UNCHANGED sessionVars

build == Step("build", "run") /\ UNCHANGED <<host, files, sessionVars>>

\* The benchmark succeeds or fails; the trap calls bench_linux_isolation_end.
run == Step("run", "restore_irqs") /\ UNCHANGED <<host, files, sessionVars>>

\* The log may be an earlier session's.
restore_irqs ==
    /\ Step("restore_irqs", "restore_governor")
    /\ host' = IF env.RESTORE_IRQ_AFFINITY /\ files.irq_moved # NULL
               THEN [host EXCEPT !.affinity =
                       [i \in Irq |-> IF i \in DOMAIN files.irq_moved
                                      THEN files.irq_moved[i] ELSE @[i]]]
               ELSE host
    /\ UNCHANGED <<files, sessionVars>>

\* The snapshot may be an earlier session's.
restore_governor ==
    /\ Step("restore_governor", "unlock")
    /\ host' = IF env.RESTORE_GOVERNOR /\ files.governors_before # NULL
               THEN [host EXCEPT !.governor = files.governors_before]
               ELSE host
    /\ UNCHANGED <<files, sessionVars>>

\* The subshell is killed.  Where the sleep at its end is a process of its own,
\* that lives on and holds the lock.
unlock ==
    /\ Step("unlock", "done")
    /\ host' = IF locked /\ ExecsLast THEN [host EXCEPT !.locks = @ - 1] ELSE host
    /\ locked' = FALSE
    /\ UNCHANGED <<files, env, bench, snapshot, found>>

EndSession ==
    /\ pc' = "idle"
    /\ env' = NULL /\ bench' = NULL /\ snapshot' = NULL /\ found' = NULL
    /\ locked' = FALSE
    /\ UNCHANGED <<host, files>>

Exit == pc = "done" /\ EndSession

\* A step of begin or the build fails before the trap is set, or the driver
\* is killed: nothing is restored, and the lock's process lives on.
Die ==
    /\ pc \notin {"idle", "done"}
    /\ host.locks <= MaxLocks
    /\ EndSession

\* irqbalance pins an interrupt to a CPU.
Balance ==
    /\ host.irqbalance
    /\ \E i \in Irq \ Fixed, c \in Cpu :
        host' = [host EXCEPT !.affinity[i] = {c}]
    /\ UNCHANGED <<files, pc, sessionVars>>

Next ==
    \/ Begin
    \/ set_governor \/ reduce_noise \/ select_cpu
    \/ apply_aggressive_isolation \/ snapshot_kernel \/ move_irqs
    \/ build \/ run
    \/ restore_irqs \/ restore_governor \/ unlock
    \/ Exit \/ Die
    \/ Balance

Spec == Init /\ [][Next]_vars

-----------------------------------------------------------------------------
(***************************************************************************)
(* While the benchmark runs, no interrupt that can be moved, and no work   *)
(* queue, can reach the CPUs to avoid, provided there is another CPU and   *)
(* irqbalance does not run.  What is moved is decided by a snapshot taken  *)
(* a step earlier; it must not be older than the stop of irqbalance.       *)
(***************************************************************************)
BenchCpuQuiet ==
    pc = "run" /\ Cpu # {bench} =>
        LET quiet == IF avoid = Cpu THEN {bench} ELSE avoid IN
        /\ env.AVOID_IRQ_ON_BENCH_CPU /\ ~host.irqbalance =>
               \A i \in Irq \ Fixed : host.affinity[i] \cap quiet = {}
        /\ env.AGGRESSIVE_ISOLATION => host.workqueues \cap quiet = {}

(***************************************************************************)
(* A session that reaches its cleanup leaves the host as it found it in    *)
(* what it changed and was asked to restore, and holds no latency lock,    *)
(* whatever earlier sessions that died left in the host and in the         *)
(* directory.  (irqbalance, if it was running, may have moved interrupts   *)
(* before it was stopped.  The lock goes with the process that is killed   *)
(* where that is the one that sleeps.)                                     *)
(***************************************************************************)
RestoresFound ==
    pc = "done" =>
        /\ env.SET_PERFORMANCE_GOVERNOR /\ env.RESTORE_GOVERNOR =>
               host.governor = found.governor
        /\ env.AVOID_IRQ_ON_BENCH_CPU /\ env.RESTORE_IRQ_AFFINITY /\ ~found.irqbalance =>
               host.affinity = found.affinity
        /\ ExecsLast => host.locks = found.locks
=============================================================================
