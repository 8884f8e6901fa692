-------------------------- MODULE MCHostIsolation --------------------------
(***************************************************************************)
(* HostIsolation on three CPUs, two of them siblings, with an interrupt    *)
(* that can be moved and one that cannot.                                  *)
(***************************************************************************)
EXTENDS HostIsolation, TLC

CONSTANTS cpu1, cpu2, cpu3

MCSibling(c) == IF c = cpu3 THEN {cpu3} ELSE {cpu1, cpu2}

\* The two siblings are alike.
CpuSymmetry == Permutations({cpu1, cpu2})

\* Both restore switches are given or none.
MCEnvironment ==
    {e \in [SET_PERFORMANCE_GOVERNOR : BOOLEAN, RESTORE_GOVERNOR : BOOLEAN,
     STOP_IRQBALANCE : BOOLEAN,
     AVOID_IRQ_ON_BENCH_CPU : BOOLEAN, AVOID_IRQ_ON_SMT_SIBLINGS : BOOLEAN,
     RESTORE_IRQ_AFFINITY : BOOLEAN,
     AGGRESSIVE_ISOLATION : BOOLEAN] :
        e.RESTORE_GOVERNOR = e.RESTORE_IRQ_AFFINITY}

\* The snapshot is read by the next step only.
HostView == <<host, files, pc, env, bench, locked, found,
              IF pc = "move_irqs" THEN snapshot ELSE NULL>>
=============================================================================
