--------------------------- MODULE BenchmarkRunner ---------------------------
(***************************************************************************)
(* The measurement loop of the benchmarks (RunScenario in                  *)
(* benchmark_runner.cpp) with the two instruments it switches around a     *)
(* batch: the hardware counters of PerfGroup, in the same process, and     *)
(* `perf record`, another process, reached through two FIFOs by            *)
(* PerfRecordControl: a command goes out on ctl, an answer comes back on   *)
(* ack.                                                                    *)
(*                                                                         *)
(* perf is modelled from what the runner and hft_macro_perf_record.sh      *)
(* expect of it: it opens ctl for reading, then ack for writing, obeys     *)
(* commands one at a time and answers each after it took effect.  It may   *)
(* die at any step, during the warmup and between its two opens too.       *)
(*                                                                         *)
(* A scenario's operation is abstract: it may fail.  Latencies are left    *)
(* out; a counter counts the calls of the scenario made while it is on.    *)
(***************************************************************************)
EXTENDS Integers, Sequences

CONSTANTS
    warmup_iters,
    iters,
    eff_batch

ASSUME RunnerAssumption ==
    /\ warmup_iters \in Nat /\ iters \in Nat
    /\ eff_batch \in Nat \ {0}

VARIABLES
    metric,         \* args.metric
    fifos,          \* the FIFO paths are in the environment and exist
    phase,          \* "warmup" or "measure"
    pc,             \* the call to be made next, or "exited", "killed"
    iter_counter,
    ran,            \* operations of the batch so far
    enabled_,       \* PerfRecordControl's
    awaiting,       \* a command was written, its answer not yet read
    pmc,            \* the counter group: whether it counts, and its value
    totals,
    measured_ops,
    ctl, ack,       \* what is in the FIFOs
    perf,           \* where perf stands
    sampling        \* perf's events are on

argVars     == <<metric, fifos>>
loopVars    == <<phase, iter_counter, ran>>
counterVars == <<pmc, totals, measured_ops>>
fifoVars    == <<enabled_, awaiting, ctl, ack>>
perfVars    == <<perf, sampling>>
vars == <<argVars, loopVars, pc, counterVars, fifoVars, perfVars>>

Init ==
    /\ metric \in {"latency", "pmc"}
    /\ fifos \in BOOLEAN
    /\ phase = "warmup" /\ pc = "Setup" /\ iter_counter = 0 /\ ran = 0
    /\ enabled_ = FALSE /\ awaiting = FALSE
    /\ pmc = [on |-> FALSE, value |-> 0]
    /\ totals = 0 /\ measured_ops = 0
    /\ ctl = <<>> /\ ack = <<>>
    /\ perf = "openCtl" /\ sampling = FALSE

-----------------------------------------------------------------------------
(***************************************************************************)
(* The runner.                                                             *)
(***************************************************************************)
IterationsLeft ==
    iter_counter < (IF phase = "warmup" THEN warmup_iters ELSE warmup_iters + iters)

GoTo(here, there) == pc = here /\ pc' = there

\* A call of the scenario is counted if the counters are on.
Counted == pmc' = [pmc EXCEPT !.value = @ + (IF pmc.on THEN 1 ELSE 0)]

\* The warmup has neither instrument; in it a batch follows at once.
Setup ==
    /\ IterationsLeft
    /\ GoTo("Setup", IF phase = "warmup" THEN "RunOp" ELSE "Enable")
    /\ ran' = 0
    /\ Counted
    /\ UNCHANGED <<argVars, phase, iter_counter, totals, measured_ops, fifoVars, perfVars>>

WarmupDone ==
    /\ ~IterationsLeft /\ phase = "warmup"
    /\ GoTo("Setup", "OpenCounters")
    /\ phase' = "measure"
    /\ UNCHANGED <<argVars, iter_counter, ran, counterVars, fifoVars, perfVars>>

\* The results are written and the process ends.
MeasureDone ==
    /\ ~IterationsLeft /\ phase = "measure"
    /\ GoTo("Setup", "exited")
    /\ UNCHANGED <<argVars, loopVars, counterVars, fifoVars, perfVars>>

\* A failing step of the counters, or a failing operation, ends the process.
Fail(here) ==
    /\ \/ here \in {"OpenCounters", "ResetEnable", "Freeze", "ReadValues"} /\ metric = "pmc"
       \/ here = "RunOp"
    /\ GoTo(here, "exited")
    /\ UNCHANGED <<argVars, loopVars, counterVars, fifoVars, perfVars>>

OpenCounters ==
    /\ GoTo("OpenCounters", "OpenCtl")
    /\ UNCHANGED <<argVars, loopVars, counterVars, fifoVars, perfVars>>

\* Seeded fault: the counters go on from where they stopped.
EnableWithoutReset ==
    /\ GoTo("ResetEnable", "RunOp")
    /\ pmc' = IF metric = "pmc" THEN [pmc EXCEPT !.on = TRUE] ELSE pmc
    /\ UNCHANGED <<argVars, loopVars, totals, measured_ops, fifoVars, perfVars>>

ResetEnable ==
    /\ GoTo("ResetEnable", "RunOp")
    /\ pmc' = IF metric = "pmc" THEN [on |-> TRUE, value |-> 0] ELSE pmc
    /\ UNCHANGED <<argVars, loopVars, totals, measured_ops, fifoVars, perfVars>>

RunOp ==
    /\ GoTo("RunOp", IF ran + 1 < eff_batch THEN "RunOp"
                     ELSE IF phase = "warmup" THEN "Teardown" ELSE "Freeze")
    /\ ran' = ran + 1
    /\ Counted
    /\ UNCHANGED <<argVars, phase, iter_counter, totals, measured_ops, fifoVars, perfVars>>

\* PerfGroup::Disable
Freeze ==
    /\ GoTo("Freeze", "Disable")
    /\ pmc' = [pmc EXCEPT !.on = FALSE]
    /\ UNCHANGED <<argVars, loopVars, totals, measured_ops, fifoVars, perfVars>>

Teardown ==
    /\ GoTo("Teardown", IF phase = "warmup" THEN "Setup" ELSE "ReadValues")
    /\ iter_counter' = iter_counter + 1
    /\ Counted
    /\ UNCHANGED <<argVars, phase, ran, totals, measured_ops, fifoVars, perfVars>>

ReadValues ==
    /\ GoTo("ReadValues", "Setup")
    /\ totals' = IF metric = "pmc" THEN totals + pmc.value ELSE totals
    /\ measured_ops' = IF metric = "pmc" THEN measured_ops + eff_batch ELSE measured_ops
    /\ UNCHANGED <<argVars, loopVars, pmc, fifoVars, perfVars>>

-----------------------------------------------------------------------------
(***************************************************************************)
(* PerfRecordControl.  A blocking open of a FIFO returns once the other    *)
(* end is open or being opened, so both ends go on together; with perf     *)
(* dead it never returns.                                                  *)
(***************************************************************************)
\* Without the FIFOs the control is inert and the loop begins.
OpenNothing ==
    /\ ~fifos
    /\ GoTo("OpenCtl", "Setup")
    /\ UNCHANGED <<argVars, loopVars, counterVars, fifoVars, perfVars>>

\* Seeded fault: the runner opens ack first.
OpenCtlSecond ==
    /\ fifos
    /\ perf = "openAck"
    /\ GoTo("OpenCtl", "OpenAck")
    /\ perf' = "poll"
    /\ UNCHANGED <<argVars, loopVars, counterVars, fifoVars, sampling>>

OpenCtl ==
    /\ fifos
    /\ perf = "openCtl"
    /\ GoTo("OpenCtl", "OpenAck")
    /\ perf' = "openAck"
    /\ UNCHANGED <<argVars, loopVars, counterVars, fifoVars, sampling>>

OpenAck ==
    /\ perf = "openAck"
    /\ GoTo("OpenAck", "Setup")
    /\ perf' = "poll"
    /\ enabled_' = TRUE
    /\ UNCHANGED <<argVars, loopVars, counterVars, awaiting, ctl, ack, sampling>>

\* Where each command is sent, and what comes after its answer.
Command == [Enable |-> "enable", Disable |-> "disable"]
After   == [Enable |-> "ResetEnable", Disable |-> "Teardown"]

SkipCommand ==
    /\ pc \in DOMAIN Command
    /\ ~enabled_
    /\ pc' = After[pc]
    /\ UNCHANGED <<argVars, loopVars, counterVars, fifoVars, perfVars>>

\* SendCommand() writes; nothing handles the signal of a FIFO without reader.
WriteCommand ==
    /\ pc \in DOMAIN Command
    /\ enabled_ /\ ~awaiting
    /\ \/ perf = "dead" /\ pc' = "killed" /\ UNCHANGED <<awaiting, ctl>>
       \/ perf # "dead" /\ ctl' = Append(ctl, Command[pc]) /\ awaiting' = TRUE /\ UNCHANGED pc
    /\ UNCHANGED <<argVars, loopVars, counterVars, enabled_, ack, perfVars>>

\* Seeded fault: the answer is not waited for.
ReadAckOrNot ==
    /\ awaiting
    /\ awaiting' = FALSE
    /\ ack' = <<>>
    /\ pc' = After[pc]
    /\ UNCHANGED <<argVars, loopVars, counterVars, enabled_, ctl, perfVars>>

\* The read blocks until there is an answer or no writer any more.
ReadAck ==
    /\ awaiting
    /\ ack # <<>> \/ perf = "dead"
    /\ awaiting' = FALSE
    /\ ack' = <<>>
    /\ pc' = After[pc]
    /\ UNCHANGED <<argVars, loopVars, counterVars, enabled_, ctl, perfVars>>

Ended == pc \in {"exited", "killed"}

Runner ==
    \/ Setup \/ WarmupDone \/ MeasureDone
    \/ OpenCounters \/ ResetEnable \/ RunOp \/ Freeze \/ Teardown \/ ReadValues
    \/ \E here \in {"OpenCounters", "ResetEnable", "Freeze", "ReadValues", "RunOp"} : Fail(here)
    \/ OpenNothing \/ OpenCtl \/ OpenAck
    \/ SkipCommand \/ WriteCommand \/ ReadAck

-----------------------------------------------------------------------------
(***************************************************************************)
(* perf, outside the repository.                                           *)
(***************************************************************************)
runnerVars == <<argVars, loopVars, pc, counterVars, enabled_, awaiting>>

PerfObeys ==
    /\ perf = "poll" /\ ctl # <<>>
    /\ sampling' = (Head(ctl) = "enable")
    /\ ctl' = Tail(ctl)
    /\ perf' = "answer"
    /\ UNCHANGED <<runnerVars, ack>>

PerfAnswers ==
    /\ perf = "answer"
    /\ ack' = Append(ack, "ack")
    /\ perf' = "poll"
    /\ UNCHANGED <<runnerVars, ctl, sampling>>

\* It dies, or it has seen its child end.
PerfEnds ==
    /\ perf # "dead"
    /\ perf' = "dead"
    /\ sampling' = FALSE
    /\ UNCHANGED <<runnerVars, ctl, ack>>

Next == Runner \/ PerfObeys \/ PerfAnswers \/ PerfEnds

\* Neither process stops by itself; perf need not die.
Spec == Init /\ [][Next]_vars /\ WF_vars(Runner) /\ WF_vars(PerfObeys) /\ WF_vars(PerfAnswers)

-----------------------------------------------------------------------------
(***************************************************************************)
(* "it restricts perf sampling to the measured RunOp batch only": sampling *)
(* is never on during a Setup, a Teardown or the warmup, and while perf    *)
(* lives it is on at every operation of a measured batch.  perf obeys in   *)
(* its own time; only the answers keep the two in step.                    *)
(***************************************************************************)
SampledExactly ==
    /\ sampling => phase = "measure" /\ pc \notin {"Setup", "Teardown", "ReadValues"}
    /\ pc = "RunOp" /\ phase = "measure" /\ enabled_ /\ perf # "dead" => sampling

(***************************************************************************)
(* The figures per operation divide what was counted by the operations     *)
(* measured: the totals hold every operation of every completed batch once *)
(* and nothing of what runs between the batches.                           *)
(***************************************************************************)
CountsExact == totals = measured_ops

(***************************************************************************)
(* The runner ends, whenever perf dies once both FIFOs are open: no write  *)
(* and no read waits for ever, and no open does as long as perf lives      *)
(* ("these blocking opens self-synchronize with perf").  A perf that died  *)
(* before strands the runner in an open, and that is the only way it does  *)
(* not end.                                                                *)
(***************************************************************************)
Stranded == fifos /\ perf = "dead" /\ pc \in {"OpenCtl", "OpenAck"}

RunnerEnds == <>(Ended \/ Stranded)
=============================================================================
