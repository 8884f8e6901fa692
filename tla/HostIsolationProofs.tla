------------------------ MODULE HostIsolationProofs ------------------------
(***************************************************************************)
(* What the isolation script guarantees, for any CPUs, siblings and        *)
(* interrupts, any settings and any history of sessions, dead ones         *)
(* included.                                                               *)
(*                                                                         *)
(* Each part of the invariant follows one setting of the host through the  *)
(* steps of a session, from what was found to what is restored; nothing is *)
(* assumed of what earlier sessions left in the host or in the files.      *)
(***************************************************************************)
EXTENDS HostIsolation, TLAPS

Governor == {"powersave", "performance"}

\* The steps of a session, in order.
Tuning    == {"reduce_noise", "select_cpu", "apply_aggressive_isolation",
              "snapshot_kernel", "move_irqs"}
Benching  == {"build", "run"}
Restoring == {"restore_irqs", "restore_governor", "unlock", "done"}

HostTypeOK ==
    /\ host \in [governor : [Cpu -> Governor], affinity : [Irq -> SUBSET Cpu],
                 workqueues : SUBSET Cpu, irqbalance : BOOLEAN, locks : Int]
    /\ files = [governors_before |-> files.governors_before, irq_moved |-> files.irq_moved]
    /\ files.governors_before \in [Cpu -> Governor] \cup {NULL}
    /\ files.irq_moved # NULL =>
           /\ DOMAIN files.irq_moved \subseteq Irq
           /\ \A i \in DOMAIN files.irq_moved : files.irq_moved[i] \in SUBSET Cpu
    /\ pc \in {"idle", "set_governor"} \cup Tuning \cup Benching \cup Restoring
    /\ locked \in BOOLEAN
    /\ pc # "idle" =>
           found \in [governor : [Cpu -> Governor], affinity : [Irq -> SUBSET Cpu],
                      workqueues : {NULL}, irqbalance : BOOLEAN, locks : Int]
    /\ pc \in {"apply_aggressive_isolation", "snapshot_kernel", "move_irqs"} \cup Benching =>
           bench \in Cpu
    /\ pc = "move_irqs" => snapshot \in [Irq -> SUBSET Cpu]

\* The governors found are in the host, and then in the file.
GovernorsSaved ==
    /\ pc = "set_governor" => host.governor = found.governor
    /\ pc \in Tuning \cup Benching \cup Restoring /\ env.SET_PERFORMANCE_GOVERNOR =>
           files.governors_before = found.governor
    /\ pc \in {"unlock", "done"} /\ env.SET_PERFORMANCE_GOVERNOR /\ env.RESTORE_GOVERNOR =>
           host.governor = found.governor

\* What is not in the log of moved interrupts has not been moved.
LogComplete ==
    /\ files.irq_moved # NULL
    /\ \A i \in Irq :
        IF i \in DOMAIN files.irq_moved THEN files.irq_moved[i] = found.affinity[i]
                                        ELSE host.affinity[i] = found.affinity[i]

\* Without irqbalance nobody else moves an interrupt.
AffinitiesSaved ==
    pc # "idle" /\ ~found.irqbalance =>
        /\ ~host.irqbalance
        /\ pc \in {"set_governor"} \cup Tuning => host.affinity = found.affinity
        /\ pc = "move_irqs" => snapshot = found.affinity
        /\ pc \in Benching \cup Restoring /\ env.AVOID_IRQ_ON_BENCH_CPU => LogComplete
        /\ pc \in {"restore_governor", "unlock", "done"} /\ env.AVOID_IRQ_ON_BENCH_CPU
           /\ env.RESTORE_IRQ_AFFINITY => host.affinity = found.affinity

\* Whether this session's lock is held is what it remembers of it.
LockCounted ==
    /\ pc # "idle" /\ (pc = "done" => ExecsLast) =>
           host.locks = found.locks + (IF locked THEN 1 ELSE 0)
    /\ locked => pc \in {"snapshot_kernel", "move_irqs"} \cup Benching \cup (Restoring \ {"done"})

\* The CPUs nothing may reach while there is another one.
Quieted == IF avoid = Cpu THEN {bench} ELSE avoid

IrqsQuiet == \A i \in Irq \ Fixed : host.affinity[i] \cap Quieted = {}

\* irqbalance does not start again, so that the snapshot is still true when
\* interrupts are moved by it.
CpuQuieted ==
    /\ pc = "move_irqs" /\ ~host.irqbalance => snapshot = host.affinity
    /\ pc \in Benching /\ Cpu # {bench} /\ ~host.irqbalance /\ env.AVOID_IRQ_ON_BENCH_CPU =>
           IrqsQuiet
    /\ pc \in {"snapshot_kernel", "move_irqs"} \cup Benching /\ Cpu # {bench}
       /\ env.AGGRESSIVE_ISOLATION => host.workqueues \cap Quieted = {}

HInv == HostTypeOK /\ GovernorsSaved /\ AffinitiesSaved /\ LockCounted /\ CpuQuieted

LEMMA HostInit == Init => HInv
<1> SUFFICES ASSUME Init PROVE HInv
  OBVIOUS
<1> USE DEF Init
<1>1. HostTypeOK
  <2>1. PICK b \in BOOLEAN :
             host = [governor |-> [c \in Cpu |-> "powersave"], affinity |-> [i \in Irq |-> Cpu],
                     workqueues |-> Cpu, irqbalance |-> b, locks |-> 0]
    OBVIOUS
  <2>2. host \in [governor : [Cpu -> Governor], affinity : [Irq -> SUBSET Cpu],
                  workqueues : SUBSET Cpu, irqbalance : BOOLEAN, locks : Int]
    BY <2>1 DEF Governor
  <2> QED BY <2>2 DEF HostTypeOK, Tuning, Benching, Restoring
<1>2. GovernorsSaved /\ AffinitiesSaved /\ LockCounted /\ CpuQuieted
  BY DEF GovernorsSaved, AffinitiesSaved, LockCounted, CpuQuieted, Tuning, Benching, Restoring
<1> QED BY <1>1, <1>2 DEF HInv

\* There is another CPU to move to, and it is none of those to avoid.
LEMMA TargetIs ==
    ASSUME bench \in Cpu, Cpu # {bench}
    PROVE  /\ target # {} /\ target \subseteq Cpu
           /\ target \cap Quieted = {}
           /\ Quieted \subseteq avoid
<1>1. avoid \subseteq Cpu /\ bench \in avoid
  BY IsolationAssumption DEF avoid
<1> QED BY <1>1 DEF target, Quieted

LEMMA TargetInCpu == target \subseteq Cpu
BY DEF target

\* One lemma per step of a session.

LEMMA BeginKeeps == ASSUME HInv, Begin PROVE HInv'
<1> USE DEF HInv, Begin, Step, sessionVars, Tuning, Benching, Restoring
<1>1. HostTypeOK'
  BY TargetInCpu DEF HostTypeOK, Governor
<1>2. GovernorsSaved'
  BY DEF HostTypeOK, GovernorsSaved
<1>3. AffinitiesSaved'
  BY DEF HostTypeOK, AffinitiesSaved, LogComplete
<1>4. LockCounted'
  BY DEF HostTypeOK, LockCounted
<1>5. CpuQuieted'
  BY DEF HostTypeOK, CpuQuieted, IrqsQuiet, Quieted, avoid
<1> QED BY <1>1, <1>2, <1>3, <1>4, <1>5

LEMMA SetGovernorKeeps == ASSUME HInv, set_governor PROVE HInv'
<1> USE DEF HInv, set_governor, Step, sessionVars, Tuning, Benching, Restoring
<1>1. HostTypeOK'
  BY TargetInCpu DEF HostTypeOK, Governor
<1>2. GovernorsSaved'
  BY DEF HostTypeOK, GovernorsSaved
<1>3. AffinitiesSaved'
  BY DEF HostTypeOK, AffinitiesSaved, LogComplete
<1>4. LockCounted'
  BY DEF HostTypeOK, LockCounted
<1>5. CpuQuieted'
  BY DEF HostTypeOK, CpuQuieted, IrqsQuiet, Quieted, avoid
<1> QED BY <1>1, <1>2, <1>3, <1>4, <1>5

LEMMA ReduceNoiseKeeps == ASSUME HInv, reduce_noise PROVE HInv'
<1> USE DEF HInv, reduce_noise, Step, sessionVars, Tuning, Benching, Restoring
<1>1. HostTypeOK'
  BY TargetInCpu DEF HostTypeOK, Governor
<1>2. GovernorsSaved'
  BY DEF HostTypeOK, GovernorsSaved
<1>3. AffinitiesSaved'
  BY DEF HostTypeOK, AffinitiesSaved, LogComplete
<1>4. LockCounted'
  BY DEF HostTypeOK, LockCounted
<1>5. CpuQuieted'
  BY DEF HostTypeOK, CpuQuieted, IrqsQuiet, Quieted, avoid
<1> QED BY <1>1, <1>2, <1>3, <1>4, <1>5

LEMMA SelectCpuKeeps == ASSUME HInv, select_cpu PROVE HInv'
<1> USE DEF HInv, select_cpu, Step, sessionVars, Tuning, Benching, Restoring
<1>1. HostTypeOK'
  BY TargetInCpu DEF HostTypeOK, Governor
<1>2. GovernorsSaved'
  BY DEF HostTypeOK, GovernorsSaved
<1>3. AffinitiesSaved'
  BY DEF HostTypeOK, AffinitiesSaved, LogComplete
<1>4. LockCounted'
  BY DEF HostTypeOK, LockCounted
<1>5. CpuQuieted'
  BY DEF HostTypeOK, CpuQuieted, IrqsQuiet, Quieted, avoid
<1> QED BY <1>1, <1>2, <1>3, <1>4, <1>5

LEMMA ApplyAggressiveIsolationKeeps == ASSUME HInv, apply_aggressive_isolation PROVE HInv'
<1> USE DEF HInv, apply_aggressive_isolation, Step, sessionVars, Tuning, Benching, Restoring
<1>0. /\ host' = [host EXCEPT !.locks = host'.locks, !.workqueues = host'.workqueues]
      /\ host'.locks = (IF env.AGGRESSIVE_ISOLATION THEN host.locks + 1 ELSE host.locks)
      /\ host'.workqueues = (IF env.AGGRESSIVE_ISOLATION /\ target # {} THEN target
                                                         ELSE host.workqueues)
      /\ UNCHANGED <<files, env, bench, snapshot, found>>
      /\ locked' = IF env.AGGRESSIVE_ISOLATION THEN TRUE ELSE locked
  BY DEF HostTypeOK
<1>1. HostTypeOK'
  <2>1. host'.locks \in Int /\ host'.workqueues \in SUBSET Cpu
    BY <1>0, TargetInCpu DEF HostTypeOK
  <2>2. [host EXCEPT !.locks = host'.locks] \in
            [governor : [Cpu -> Governor], affinity : [Irq -> SUBSET Cpu],
             workqueues : SUBSET Cpu, irqbalance : BOOLEAN, locks : Int]
    BY <2>1 DEF HostTypeOK
  <2>3. host' \in [governor : [Cpu -> Governor], affinity : [Irq -> SUBSET Cpu],
                   workqueues : SUBSET Cpu, irqbalance : BOOLEAN, locks : Int]
    BY <1>0, <2>1, <2>2
  <2> QED BY <1>0, <2>3 DEF HostTypeOK
<1>2. GovernorsSaved'
  BY DEF HostTypeOK, GovernorsSaved
<1>3. AffinitiesSaved'
  BY DEF HostTypeOK, AffinitiesSaved, LogComplete
<1>4. LockCounted'
  BY <1>0 DEF HostTypeOK, LockCounted
<1>5. CpuQuieted'
  <2>1. Quieted' = Quieted /\ pc' = "snapshot_kernel" /\ host'.irqbalance = host.irqbalance
    BY <1>0 DEF HostTypeOK, Quieted, avoid
  <2>2. env.AGGRESSIVE_ISOLATION /\ Cpu # {bench} => host'.workqueues \cap Quieted = {}
    BY <1>0, TargetIs DEF HostTypeOK
  <2> QED BY <1>0, <2>1, <2>2 DEF CpuQuieted
<1> QED BY <1>1, <1>2, <1>3, <1>4, <1>5

LEMMA SnapshotKernelKeeps == ASSUME HInv, snapshot_kernel PROVE HInv'
<1> USE DEF HInv, snapshot_kernel, Step, sessionVars, Tuning, Benching, Restoring
<1>1. HostTypeOK'
  BY TargetInCpu DEF HostTypeOK, Governor
<1>2. GovernorsSaved'
  BY DEF HostTypeOK, GovernorsSaved
<1>3. AffinitiesSaved'
  BY DEF HostTypeOK, AffinitiesSaved, LogComplete
<1>4. LockCounted'
  BY DEF HostTypeOK, LockCounted
<1>5. CpuQuieted'
  BY DEF HostTypeOK, CpuQuieted, IrqsQuiet, Quieted, avoid
<1> QED BY <1>1, <1>2, <1>3, <1>4, <1>5

LEMMA MoveIrqsKeeps == ASSUME HInv, move_irqs PROVE HInv'
<1> USE DEF HInv, move_irqs, Step, sessionVars, Tuning, Benching, Restoring
<1> DEFINE moved == {i \in Irq \ Fixed : snapshot[i] \cap avoid # {} /\ target # {}}
<1>0. /\ UNCHANGED <<env, bench, found, locked, Quieted>>
      /\ pc' \in {"build", "run"} /\ bench \in Cpu
      /\ snapshot \in [Irq -> SUBSET Cpu] /\ found.affinity \in [Irq -> SUBSET Cpu]
      /\ host'.irqbalance = host.irqbalance /\ host'.workqueues = host.workqueues
      /\ env.AVOID_IRQ_ON_BENCH_CPU =>
            /\ files'.irq_moved = [i \in moved |-> snapshot[i]]
            /\ host'.affinity = [i \in Irq |-> IF i \in moved THEN target ELSE host.affinity[i]]
  BY DEF HostTypeOK, Quieted, avoid
<1>1. HostTypeOK'
  BY TargetInCpu DEF HostTypeOK, Governor
<1>2. GovernorsSaved'
  BY DEF HostTypeOK, GovernorsSaved
<1>3. AffinitiesSaved'
  <2>1. ASSUME ~found.irqbalance, env.AVOID_IRQ_ON_BENCH_CPU PROVE LogComplete'
    <3>1. snapshot = found.affinity /\ host.affinity = found.affinity
      BY <2>1 DEF AffinitiesSaved
    <3>2. files'.irq_moved \in [moved -> SUBSET Cpu] /\ moved \in SUBSET Irq
      BY <1>0, <2>1
    <3>3. files'.irq_moved # NULL
      BY <3>2, NullAssumption
    <3>4. DOMAIN files'.irq_moved = moved
      BY <3>2
    <3>5. ASSUME NEW i \in Irq
          PROVE  IF i \in moved THEN files'.irq_moved[i] = found.affinity[i]
                                ELSE host'.affinity[i] = found.affinity[i]
      BY <1>0, <2>1, <3>1
    <3> HIDE DEF moved
    <3> QED BY <1>0, <3>3, <3>4, <3>5 DEF LogComplete
  <2>2. ~found.irqbalance => ~host'.irqbalance
    BY <1>0 DEF AffinitiesSaved
  <2> QED BY <1>0, <2>1, <2>2 DEF AffinitiesSaved
<1>4. LockCounted'
  BY DEF HostTypeOK, LockCounted
<1>5. CpuQuieted'
  <2>1. ASSUME Cpu # {bench}, ~host.irqbalance, env.AVOID_IRQ_ON_BENCH_CPU
        PROVE  IrqsQuiet'
    <3> SUFFICES ASSUME NEW i \in Irq \ Fixed PROVE host'.affinity[i] \cap Quieted = {}
      BY <1>0 DEF IrqsQuiet
    <3>1. /\ target # {} /\ target \cap Quieted = {} /\ Quieted \subseteq avoid
      BY <1>0, <2>1, TargetIs
    <3>2. snapshot = host.affinity
      BY <2>1 DEF CpuQuieted
    <3>3. CASE i \in moved
      BY <1>0, <2>1, <3>1, <3>3
    <3>4. CASE i \notin moved
      BY <1>0, <2>1, <3>1, <3>2, <3>4
    <3> QED BY <3>3, <3>4
  <2> QED BY <1>0, <2>1 DEF CpuQuieted
<1> QED BY <1>1, <1>2, <1>3, <1>4, <1>5

LEMMA BuildKeeps == ASSUME HInv, build PROVE HInv'
<1> USE DEF HInv, build, Step, sessionVars, Tuning, Benching, Restoring
<1>1. HostTypeOK'
  BY TargetInCpu DEF HostTypeOK, Governor
<1>2. GovernorsSaved'
  BY DEF HostTypeOK, GovernorsSaved
<1>3. AffinitiesSaved'
  BY DEF HostTypeOK, AffinitiesSaved, LogComplete
<1>4. LockCounted'
  BY DEF HostTypeOK, LockCounted
<1>5. CpuQuieted'
  BY DEF HostTypeOK, CpuQuieted, IrqsQuiet, Quieted, avoid
<1> QED BY <1>1, <1>2, <1>3, <1>4, <1>5

LEMMA RunKeeps == ASSUME HInv, run PROVE HInv'
<1> USE DEF HInv, run, Step, sessionVars, Tuning, Benching, Restoring
<1>1. HostTypeOK'
  BY TargetInCpu DEF HostTypeOK, Governor
<1>2. GovernorsSaved'
  BY DEF HostTypeOK, GovernorsSaved
<1>3. AffinitiesSaved'
  BY DEF HostTypeOK, AffinitiesSaved, LogComplete
<1>4. LockCounted'
  BY DEF HostTypeOK, LockCounted
<1>5. CpuQuieted'
  BY DEF HostTypeOK, CpuQuieted, IrqsQuiet, Quieted, avoid
<1> QED BY <1>1, <1>2, <1>3, <1>4, <1>5

LEMMA RestoreIrqsKeeps == ASSUME HInv, restore_irqs PROVE HInv'
<1> USE DEF HInv, restore_irqs, Step, sessionVars, Tuning, Benching, Restoring
<1>1. HostTypeOK'
  BY TargetInCpu DEF HostTypeOK, Governor
<1>2. GovernorsSaved'
  BY DEF HostTypeOK, GovernorsSaved
<1>3. AffinitiesSaved'
  BY DEF HostTypeOK, AffinitiesSaved, LogComplete
<1>4. LockCounted'
  BY DEF HostTypeOK, LockCounted
<1>5. CpuQuieted'
  BY DEF HostTypeOK, CpuQuieted, IrqsQuiet, Quieted, avoid
<1> QED BY <1>1, <1>2, <1>3, <1>4, <1>5

LEMMA RestoreGovernorKeeps == ASSUME HInv, restore_governor PROVE HInv'
<1> USE DEF HInv, restore_governor, Step, sessionVars, Tuning, Benching, Restoring
<1>1. HostTypeOK'
  BY TargetInCpu DEF HostTypeOK, Governor
<1>2. GovernorsSaved'
  <2>1. pc' = "unlock" /\ UNCHANGED <<files, env, found>>
    OBVIOUS
  <2>2. env.SET_PERFORMANCE_GOVERNOR /\ env.RESTORE_GOVERNOR =>
            host'.governor = found.governor
    <3> HAVE env.SET_PERFORMANCE_GOVERNOR /\ env.RESTORE_GOVERNOR
    <3>1. files.governors_before = found.governor /\ found.governor \in [Cpu -> Governor]
      BY DEF GovernorsSaved, HostTypeOK
    <3>2. files.governors_before # NULL
      BY <3>1, NullAssumption DEF Governor
    <3> QED BY <3>1, <3>2 DEF HostTypeOK
  <2> QED BY <2>1, <2>2 DEF GovernorsSaved
<1>3. AffinitiesSaved'
  BY DEF HostTypeOK, AffinitiesSaved, LogComplete
<1>4. LockCounted'
  BY DEF HostTypeOK, LockCounted
<1>5. CpuQuieted'
  BY DEF HostTypeOK, CpuQuieted, IrqsQuiet, Quieted, avoid
<1> QED BY <1>1, <1>2, <1>3, <1>4, <1>5

LEMMA UnlockKeeps == ASSUME HInv, unlock PROVE HInv'
<1> USE DEF HInv, unlock, Step, sessionVars, Tuning, Benching, Restoring
<1>1. HostTypeOK'
  <2>1. host' = [host EXCEPT !.locks = host'.locks] /\ host'.locks \in Int
    BY DEF HostTypeOK
  <2> QED BY <2>1 DEF HostTypeOK
<1>2. GovernorsSaved'
  BY DEF HostTypeOK, GovernorsSaved
<1>3. AffinitiesSaved'
  BY DEF HostTypeOK, AffinitiesSaved, LogComplete
<1>4. LockCounted'
  BY DEF HostTypeOK, LockCounted
<1>5. CpuQuieted'
  BY DEF HostTypeOK, CpuQuieted, IrqsQuiet, Quieted, avoid
<1> QED BY <1>1, <1>2, <1>3, <1>4, <1>5

LEMMA ExitKeeps == ASSUME HInv, Exit PROVE HInv'
<1> USE DEF HInv, Exit, EndSession, Step, sessionVars, Tuning, Benching, Restoring
<1>1. HostTypeOK'
  BY TargetInCpu DEF HostTypeOK, Governor
<1>2. GovernorsSaved'
  BY DEF HostTypeOK, GovernorsSaved
<1>3. AffinitiesSaved'
  BY DEF HostTypeOK, AffinitiesSaved, LogComplete
<1>4. LockCounted'
  BY DEF HostTypeOK, LockCounted
<1>5. CpuQuieted'
  BY DEF HostTypeOK, CpuQuieted, IrqsQuiet, Quieted, avoid
<1> QED BY <1>1, <1>2, <1>3, <1>4, <1>5

LEMMA DieKeeps == ASSUME HInv, Die PROVE HInv'
<1> USE DEF HInv, Die, EndSession, Step, sessionVars, Tuning, Benching, Restoring
<1>1. HostTypeOK'
  BY TargetInCpu DEF HostTypeOK, Governor
<1>2. GovernorsSaved'
  BY DEF HostTypeOK, GovernorsSaved
<1>3. AffinitiesSaved'
  BY DEF HostTypeOK, AffinitiesSaved, LogComplete
<1>4. LockCounted'
  BY DEF HostTypeOK, LockCounted
<1>5. CpuQuieted'
  BY DEF HostTypeOK, CpuQuieted, IrqsQuiet, Quieted, avoid
<1> QED BY <1>1, <1>2, <1>3, <1>4, <1>5

LEMMA BalanceKeeps == ASSUME HInv, Balance PROVE HInv'
<1> USE DEF HInv, Balance, Step, sessionVars, Tuning, Benching, Restoring
<1>1. HostTypeOK'
  BY TargetInCpu DEF HostTypeOK, Governor
<1>2. GovernorsSaved'
  BY DEF HostTypeOK, GovernorsSaved
<1>3. AffinitiesSaved'
  BY DEF HostTypeOK, AffinitiesSaved, LogComplete
<1>4. LockCounted'
  BY DEF HostTypeOK, LockCounted
<1>5. CpuQuieted'
  BY DEF HostTypeOK, CpuQuieted, IrqsQuiet, Quieted, avoid
<1> QED BY <1>1, <1>2, <1>3, <1>4, <1>5

LEMMA SessionKeeps == ASSUME HInv, [Next]_vars PROVE HInv'
<1>1. CASE UNCHANGED vars
  BY <1>1 DEF HInv, HostTypeOK, GovernorsSaved, AffinitiesSaved, LogComplete, LockCounted,
     CpuQuieted, IrqsQuiet, Quieted, avoid, vars, sessionVars
<1> QED
  BY <1>1, BeginKeeps, SetGovernorKeeps, ReduceNoiseKeeps, SelectCpuKeeps,
     ApplyAggressiveIsolationKeeps, SnapshotKernelKeeps, MoveIrqsKeeps, BuildKeeps, RunKeeps,
     RestoreIrqsKeeps, RestoreGovernorKeeps, UnlockKeeps, ExitKeeps, DieKeeps, BalanceKeeps
  DEF Next

LEMMA AlwaysHInv == Spec => []HInv
BY HostInit, SessionKeeps, PTL DEF Spec

(***************************************************************************)
(* move_irqs_off_cpu() works from a snapshot taken before it: while the    *)
(* benchmark runs, nothing that can be moved reaches the CPUs to avoid, on *)
(* any machine with a second CPU, as long as irqbalance does not run.      *)
(***************************************************************************)
THEOREM BenchAlwaysQuiet == Spec => []BenchCpuQuiet
<1>1. HInv => BenchCpuQuiet
  BY DEF HInv, CpuQuieted, IrqsQuiet, Quieted, BenchCpuQuiet, Benching
<1> QED BY <1>1, AlwaysHInv, PTL

(***************************************************************************)
(* bench_linux_isolation_end() puts back what the session found, whatever  *)
(* dead sessions left in the host and in the directory; the latency lock   *)
(* where the process it kills is the one that holds it.                    *)
(***************************************************************************)
THEOREM CleanupRestores == Spec => []RestoresFound
<1>1. HInv => RestoresFound
  <2> SUFFICES ASSUME HInv, pc = "done" PROVE RestoresFound
    BY DEF RestoresFound
  <2>1. env.SET_PERFORMANCE_GOVERNOR /\ env.RESTORE_GOVERNOR => host.governor = found.governor
    BY DEF HInv, GovernorsSaved
  <2>2. env.AVOID_IRQ_ON_BENCH_CPU /\ env.RESTORE_IRQ_AFFINITY /\ ~found.irqbalance =>
            host.affinity = found.affinity
    BY DEF HInv, AffinitiesSaved
  <2>3. ExecsLast => host.locks = found.locks
    BY DEF HInv, HostTypeOK, LockCounted, Benching, Restoring
  <2> QED BY <2>1, <2>2, <2>3 DEF RestoresFound
<1> QED BY <1>1, AlwaysHInv, PTL
=============================================================================
