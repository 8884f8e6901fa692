----------------------- MODULE BenchmarkRunnerProofs -----------------------
(***************************************************************************)
(* The safety of the measurement loop, for any number of iterations and    *)
(* any batch size, whenever perf dies and whatever operation fails.        *)
(*                                                                         *)
(* At most one command is under way, and perf's events are on exactly in   *)
(* the part of the loop between the two answers (InStep); the counters     *)
(* hold the operations of the batch in progress (CountersFollow).          *)
(***************************************************************************)
EXTENDS BenchmarkRunner, TLAPS

Measured == {"Enable", "ResetEnable", "RunOp", "Freeze", "Disable", "Teardown", "ReadValues"}
Opening  == {"OpenCounters", "OpenCtl", "OpenAck"}

RunnerTypeOK ==
    /\ metric \in {"latency", "pmc"}
    /\ phase \in {"warmup", "measure"}
    /\ pc \in {"Setup", "exited", "killed"} \cup Measured \cup Opening
    /\ ran \in Nat
    /\ enabled_ \in BOOLEAN /\ awaiting \in BOOLEAN /\ sampling \in BOOLEAN
    /\ pmc \in [on : BOOLEAN, value : Nat]
    /\ totals \in Nat /\ measured_ops \in Nat
    /\ perf \in {"openCtl", "openAck", "poll", "answer", "dead"}
    /\ phase = "warmup" => pc \in {"Setup", "RunOp", "Teardown", "exited"}

\* From the answer to enable to the answer to disable.
Sampled == {"ResetEnable", "RunOp", "Freeze", "Disable"}

\* Nothing is under way.
Quiet == ctl = <<>> /\ ack = <<>> /\ perf = "poll"

\* A command was written, taken or answered.
UnderWay ==
    \/ ctl = <<Command[pc]>> /\ ack = <<>> /\ perf = "poll" /\ (sampling <=> pc = "Disable")
    \/ ctl = <<>> /\ ack = <<>> /\ perf = "answer" /\ (sampling <=> pc = "Enable")
    \/ ctl = <<>> /\ ack = <<"ack">> /\ perf = "poll" /\ (sampling <=> pc = "Enable")

InStep ==
    /\ enabled_ => phase = "measure" /\ perf \in {"poll", "answer", "dead"}
    /\ ~enabled_ => ~awaiting /\ ~sampling /\ perf \in {"openCtl", "openAck", "dead"}
                    /\ ctl = <<>> /\ ack = <<>>
    /\ pc \in Opening => ~enabled_
    /\ perf = "dead" => ~sampling
    /\ awaiting => pc \in {"Enable", "Disable"}
    /\ enabled_ /\ perf # "dead" /\ awaiting => UnderWay
    /\ enabled_ /\ perf # "dead" /\ ~awaiting =>
           Quiet /\ (pc # "exited" => (sampling <=> pc \in Sampled))
    /\ sampling => phase = "measure"

CountersFollow ==
    metric = "pmc" =>
        /\ pc \in {"Enable", "ResetEnable"} => ran = 0
        /\ phase = "warmup" => ~pmc.on
        /\ pc \notin {"RunOp", "Freeze", "exited"} => ~pmc.on
        /\ pc = "RunOp" /\ phase = "measure" => pmc.on /\ pmc.value = ran /\ ran < eff_batch
        /\ pc \in {"Freeze", "Disable", "Teardown", "ReadValues"} /\ phase = "measure" =>
               pmc.value = eff_batch

RInv == RunnerTypeOK /\ InStep /\ CountersFollow /\ CountsExact

LEMMA RunnerInit == Init => RInv
<1> SUFFICES ASSUME Init PROVE RInv
  OBVIOUS
<1> USE DEF Init
<1>1. RunnerTypeOK
  BY DEF RunnerTypeOK
<1>2. InStep
  BY DEF InStep, Opening
<1>3. CountersFollow
  BY DEF CountersFollow
<1>4. CountsExact
  BY DEF CountsExact
<1> QED BY <1>1, <1>2, <1>3, <1>4 DEF RInv

LEMMA CommandIs ==
    /\ DOMAIN Command = {"Enable", "Disable"}
    /\ Command["Enable"] = "enable" /\ Command["Disable"] = "disable"
    /\ After["Enable"] = "ResetEnable" /\ After["Disable"] = "Teardown"
BY DEF Command, After

\* A step of the loop itself: no command is under way, and none is begun.
LEMMA LoopInStep ==
    ASSUME InStep, UNCHANGED <<fifoVars, perfVars>>, ~awaiting, pc # "exited",
           phase' = phase \/ ~enabled_,
           pc' \in Opening => ~enabled_,
           enabled_ => pc' = "exited" \/ (pc' \in Sampled <=> pc \in Sampled)
    PROVE  InStep'
BY DEF InStep, Quiet, fifoVars, perfVars

\* One lemma per action of the loop.

LEMMA SetupKeeps == ASSUME RInv, Setup PROVE RInv'
<1> USE DEF RInv, Setup, GoTo, Counted, argVars, loopVars, counterVars
<1>1. RunnerTypeOK'
  BY RunnerAssumption DEF RunnerTypeOK, Measured, Opening, fifoVars, perfVars
<1>2. InStep'
  <2>1. ~awaiting
    BY DEF InStep
  <2> QED BY <2>1, LoopInStep DEF Opening, Sampled, InStep
<1>3. CountersFollow'
  BY RunnerAssumption DEF CountersFollow, RunnerTypeOK
<1>4. CountsExact'
  BY RunnerAssumption DEF CountersFollow, CountsExact, RunnerTypeOK
<1> QED BY <1>1, <1>2, <1>3, <1>4

LEMMA WarmupDoneKeeps == ASSUME RInv, WarmupDone PROVE RInv'
<1> USE DEF RInv, WarmupDone, GoTo, Counted, argVars, loopVars, counterVars
<1>1. RunnerTypeOK'
  BY RunnerAssumption DEF RunnerTypeOK, Measured, Opening, fifoVars, perfVars
<1>2. InStep'
  <2>1. ~awaiting
    BY DEF InStep
  <2> QED BY <2>1, LoopInStep DEF Opening, Sampled, InStep
<1>3. CountersFollow'
  BY RunnerAssumption DEF CountersFollow, RunnerTypeOK
<1>4. CountsExact'
  BY RunnerAssumption DEF CountersFollow, CountsExact, RunnerTypeOK
<1> QED BY <1>1, <1>2, <1>3, <1>4

LEMMA MeasureDoneKeeps == ASSUME RInv, MeasureDone PROVE RInv'
<1> USE DEF RInv, MeasureDone, GoTo, Counted, argVars, loopVars, counterVars
<1>1. RunnerTypeOK'
  BY RunnerAssumption DEF RunnerTypeOK, Measured, Opening, fifoVars, perfVars
<1>2. InStep'
  <2>1. ~awaiting
    BY DEF InStep
  <2> QED BY <2>1, LoopInStep DEF Opening, Sampled, InStep
<1>3. CountersFollow'
  BY RunnerAssumption DEF CountersFollow, RunnerTypeOK
<1>4. CountsExact'
  BY RunnerAssumption DEF CountersFollow, CountsExact, RunnerTypeOK
<1> QED BY <1>1, <1>2, <1>3, <1>4

LEMMA OpenCountersKeeps == ASSUME RInv, OpenCounters PROVE RInv'
<1> USE DEF RInv, OpenCounters, GoTo, Counted, argVars, loopVars, counterVars
<1>1. RunnerTypeOK'
  BY RunnerAssumption DEF RunnerTypeOK, Measured, Opening, fifoVars, perfVars
<1>2. InStep'
  <2>1. ~awaiting
    BY DEF InStep
  <2> QED BY <2>1, LoopInStep DEF Opening, Sampled, InStep
<1>3. CountersFollow'
  BY RunnerAssumption DEF CountersFollow, RunnerTypeOK
<1>4. CountsExact'
  BY RunnerAssumption DEF CountersFollow, CountsExact, RunnerTypeOK
<1> QED BY <1>1, <1>2, <1>3, <1>4

LEMMA ResetEnableKeeps == ASSUME RInv, ResetEnable PROVE RInv'
<1> USE DEF RInv, ResetEnable, GoTo, Counted, argVars, loopVars, counterVars
<1>1. RunnerTypeOK'
  BY RunnerAssumption DEF RunnerTypeOK, Measured, Opening, fifoVars, perfVars
<1>2. InStep'
  <2>1. ~awaiting
    BY DEF InStep
  <2> QED BY <2>1, LoopInStep DEF Opening, Sampled, InStep
<1>3. CountersFollow'
  BY RunnerAssumption DEF CountersFollow, RunnerTypeOK
<1>4. CountsExact'
  BY RunnerAssumption DEF CountersFollow, CountsExact, RunnerTypeOK
<1> QED BY <1>1, <1>2, <1>3, <1>4

LEMMA RunOpKeeps == ASSUME RInv, RunOp PROVE RInv'
<1> USE DEF RInv, RunOp, GoTo, Counted, argVars, loopVars, counterVars
<1>1. RunnerTypeOK'
  BY RunnerAssumption DEF RunnerTypeOK, Measured, Opening, fifoVars, perfVars
<1>2. InStep'
  <2>1. ~awaiting
    BY DEF InStep
  <2> QED BY <2>1, LoopInStep DEF Opening, Sampled, InStep
<1>3. CountersFollow'
  BY RunnerAssumption DEF CountersFollow, RunnerTypeOK
<1>4. CountsExact'
  BY RunnerAssumption DEF CountersFollow, CountsExact, RunnerTypeOK
<1> QED BY <1>1, <1>2, <1>3, <1>4

LEMMA FreezeKeeps == ASSUME RInv, Freeze PROVE RInv'
<1> USE DEF RInv, Freeze, GoTo, Counted, argVars, loopVars, counterVars
<1>1. RunnerTypeOK'
  BY RunnerAssumption DEF RunnerTypeOK, Measured, Opening, fifoVars, perfVars
<1>2. InStep'
  <2>1. ~awaiting
    BY DEF InStep
  <2> QED BY <2>1, LoopInStep DEF Opening, Sampled, InStep
<1>3. CountersFollow'
  BY RunnerAssumption DEF CountersFollow, RunnerTypeOK
<1>4. CountsExact'
  BY RunnerAssumption DEF CountersFollow, CountsExact, RunnerTypeOK
<1> QED BY <1>1, <1>2, <1>3, <1>4

LEMMA TeardownKeeps == ASSUME RInv, Teardown PROVE RInv'
<1> USE DEF RInv, Teardown, GoTo, Counted, argVars, loopVars, counterVars
<1>1. RunnerTypeOK'
  BY RunnerAssumption DEF RunnerTypeOK, Measured, Opening, fifoVars, perfVars
<1>2. InStep'
  <2>1. ~awaiting
    BY DEF InStep
  <2> QED BY <2>1, LoopInStep DEF Opening, Sampled, InStep
<1>3. CountersFollow'
  BY RunnerAssumption DEF CountersFollow, RunnerTypeOK
<1>4. CountsExact'
  BY RunnerAssumption DEF CountersFollow, CountsExact, RunnerTypeOK
<1> QED BY <1>1, <1>2, <1>3, <1>4

LEMMA ReadValuesKeeps == ASSUME RInv, ReadValues PROVE RInv'
<1> USE DEF RInv, ReadValues, GoTo, Counted, argVars, loopVars, counterVars
<1>1. RunnerTypeOK'
  BY RunnerAssumption DEF RunnerTypeOK, Measured, Opening, fifoVars, perfVars
<1>2. InStep'
  <2>1. ~awaiting
    BY DEF InStep
  <2> QED BY <2>1, LoopInStep DEF Opening, Sampled, InStep
<1>3. CountersFollow'
  BY RunnerAssumption DEF CountersFollow, RunnerTypeOK
<1>4. CountsExact'
  BY RunnerAssumption DEF CountersFollow, CountsExact, RunnerTypeOK
<1> QED BY <1>1, <1>2, <1>3, <1>4

LEMMA FailKeeps == ASSUME RInv, NEW here, Fail(here) PROVE RInv'
<1> USE DEF RInv, Fail, GoTo, argVars, loopVars, counterVars
<1>1. RunnerTypeOK'
  BY DEF RunnerTypeOK, fifoVars, perfVars
<1>2. InStep'
  <2>1. ~awaiting
    BY DEF InStep
  <2> QED BY <2>1, LoopInStep DEF Opening
<1>3. CountersFollow'
  BY DEF CountersFollow, RunnerTypeOK
<1>4. CountsExact'
  BY DEF CountsExact
<1> QED BY <1>1, <1>2, <1>3, <1>4

\* One lemma per action of the control and of perf.

LEMMA OpenNothingKeeps == ASSUME RInv, OpenNothing PROVE RInv'
<1> USE DEF RInv, OpenNothing, GoTo, argVars, loopVars, counterVars, fifoVars, perfVars, runnerVars
<1>1. RunnerTypeOK'
  BY CommandIs DEF RunnerTypeOK, InStep, Measured, Opening
<1>2. InStep'
  BY CommandIs DEF InStep, RunnerTypeOK, Quiet, UnderWay, Opening, Sampled
<1>3. CountersFollow'
  BY CommandIs DEF CountersFollow, RunnerTypeOK, InStep
<1>4. CountsExact'
  BY DEF CountsExact
<1> QED BY <1>1, <1>2, <1>3, <1>4

LEMMA OpenCtlKeeps == ASSUME RInv, OpenCtl PROVE RInv'
<1> USE DEF RInv, OpenCtl, GoTo, argVars, loopVars, counterVars, fifoVars, perfVars, runnerVars
<1>1. RunnerTypeOK'
  BY CommandIs DEF RunnerTypeOK, InStep, Measured, Opening
<1>2. InStep'
  BY CommandIs DEF InStep, RunnerTypeOK, Quiet, UnderWay, Opening, Sampled
<1>3. CountersFollow'
  BY CommandIs DEF CountersFollow, RunnerTypeOK, InStep
<1>4. CountsExact'
  BY DEF CountsExact
<1> QED BY <1>1, <1>2, <1>3, <1>4

LEMMA OpenAckKeeps == ASSUME RInv, OpenAck PROVE RInv'
<1> USE DEF RInv, OpenAck, GoTo, argVars, loopVars, counterVars, fifoVars, perfVars, runnerVars
<1>1. RunnerTypeOK'
  BY CommandIs DEF RunnerTypeOK, InStep, Measured, Opening
<1>2. InStep'
  BY CommandIs DEF InStep, RunnerTypeOK, Quiet, UnderWay, Opening, Sampled
<1>3. CountersFollow'
  BY CommandIs DEF CountersFollow, RunnerTypeOK, InStep
<1>4. CountsExact'
  BY DEF CountsExact
<1> QED BY <1>1, <1>2, <1>3, <1>4

LEMMA SkipCommandKeeps == ASSUME RInv, SkipCommand PROVE RInv'
<1> USE DEF RInv, SkipCommand, GoTo, argVars, loopVars, counterVars, fifoVars, perfVars, runnerVars
<1>1. RunnerTypeOK'
  BY CommandIs DEF RunnerTypeOK, InStep, Measured, Opening
<1>2. InStep'
  BY CommandIs DEF InStep, RunnerTypeOK, Quiet, UnderWay, Opening, Sampled
<1>3. CountersFollow'
  BY CommandIs DEF CountersFollow, RunnerTypeOK, InStep
<1>4. CountsExact'
  BY DEF CountsExact
<1> QED BY <1>1, <1>2, <1>3, <1>4

LEMMA WriteCommandKeeps == ASSUME RInv, WriteCommand PROVE RInv'
<1> USE DEF RInv, WriteCommand, GoTo, argVars, loopVars, counterVars, fifoVars, perfVars, runnerVars
<1>1. RunnerTypeOK'
  BY CommandIs DEF RunnerTypeOK, InStep, Measured, Opening
<1>2. InStep'
  <2>1. pc \notin Opening /\ pc # "exited" /\ pc \in {"Enable", "Disable"}
    BY CommandIs DEF Opening
  <2>2. CASE perf = "dead"
    BY <2>1, <2>2 DEF InStep, Opening
  <2>3. CASE perf # "dead"
    <3>1. Quiet /\ (sampling <=> pc \in Sampled)
      BY <2>1, <2>3 DEF InStep
    <3>2. ctl' = <<Command[pc]>> /\ pc' = pc
      BY <2>3, <3>1 DEF Quiet
    <3>3. UnderWay'
      BY <2>1, <3>1, <3>2 DEF UnderWay, Quiet, Sampled
    <3> QED BY <2>1, <2>3, <3>2, <3>3 DEF InStep, Opening
  <2> QED BY <2>2, <2>3
<1>3. CountersFollow'
  BY CommandIs DEF CountersFollow, RunnerTypeOK, InStep
<1>4. CountsExact'
  BY DEF CountsExact
<1> QED BY <1>1, <1>2, <1>3, <1>4

LEMMA ReadAckKeeps == ASSUME RInv, ReadAck PROVE RInv'
<1> USE DEF RInv, ReadAck, GoTo, argVars, loopVars, counterVars, fifoVars, perfVars, runnerVars
<1>1. RunnerTypeOK'
  BY CommandIs DEF RunnerTypeOK, InStep, Measured, Opening
<1>2. InStep'
  BY CommandIs DEF InStep, RunnerTypeOK, Quiet, UnderWay, Opening, Sampled
<1>3. CountersFollow'
  BY CommandIs DEF CountersFollow, RunnerTypeOK, InStep
<1>4. CountsExact'
  BY DEF CountsExact
<1> QED BY <1>1, <1>2, <1>3, <1>4

LEMMA PerfObeysKeeps == ASSUME RInv, PerfObeys PROVE RInv'
<1> USE DEF RInv, PerfObeys, GoTo, argVars, loopVars, counterVars, fifoVars, perfVars, runnerVars
<1>1. RunnerTypeOK'
  BY CommandIs DEF RunnerTypeOK, InStep, Measured, Opening
<1>2. InStep'
  <2>1. enabled_ /\ awaiting /\ UnderWay
    BY DEF InStep, Quiet, RunnerTypeOK
  <2>2. ctl = <<Command[pc]>> /\ ack = <<>> /\ pc \in {"Enable", "Disable"}
    BY <2>1 DEF UnderWay, InStep
  <2>3. Head(ctl) = Command[pc] /\ Tail(ctl) = <<>>
    BY <2>2
  <2>4. sampling' <=> pc = "Enable"
    BY <2>2, <2>3, CommandIs
  <2>5. UnderWay'
    BY <2>2, <2>3, <2>4 DEF UnderWay
  <2> QED BY <2>1, <2>2, <2>5 DEF InStep, Opening
<1>3. CountersFollow'
  BY CommandIs DEF CountersFollow, RunnerTypeOK, InStep
<1>4. CountsExact'
  BY DEF CountsExact
<1> QED BY <1>1, <1>2, <1>3, <1>4

LEMMA PerfAnswersKeeps == ASSUME RInv, PerfAnswers PROVE RInv'
<1> USE DEF RInv, PerfAnswers, GoTo, argVars, loopVars, counterVars, fifoVars, perfVars, runnerVars
<1>1. RunnerTypeOK'
  BY CommandIs DEF RunnerTypeOK, InStep, Measured, Opening
<1>2. InStep'
  <2>1. enabled_ /\ awaiting /\ UnderWay
    BY DEF InStep, Quiet, RunnerTypeOK
  <2>2. ctl = <<>> /\ ack = <<>> /\ (sampling <=> pc = "Enable")
    BY <2>1 DEF UnderWay
  <2>3. Append(ack, "ack") = <<"ack">>
    BY <2>2
  <2>4. UnderWay'
    BY <2>2, <2>3 DEF UnderWay
  <2> QED BY <2>1, <2>4 DEF InStep
<1>3. CountersFollow'
  BY CommandIs DEF CountersFollow, RunnerTypeOK, InStep
<1>4. CountsExact'
  BY DEF CountsExact
<1> QED BY <1>1, <1>2, <1>3, <1>4

LEMMA PerfEndsKeeps == ASSUME RInv, PerfEnds PROVE RInv'
<1> USE DEF RInv, PerfEnds, GoTo, argVars, loopVars, counterVars, fifoVars, perfVars, runnerVars
<1>1. RunnerTypeOK'
  BY CommandIs DEF RunnerTypeOK, InStep, Measured, Opening
<1>2. InStep'
  BY CommandIs DEF InStep, RunnerTypeOK, Quiet, UnderWay, Opening, Sampled
<1>3. CountersFollow'
  BY CommandIs DEF CountersFollow, RunnerTypeOK, InStep
<1>4. CountsExact'
  BY DEF CountsExact
<1> QED BY <1>1, <1>2, <1>3, <1>4

LEMMA StepKeeps == ASSUME RInv, [Next]_vars PROVE RInv'
<1>1. ASSUME Runner PROVE RInv'
  BY <1>1, SetupKeeps, WarmupDoneKeeps, MeasureDoneKeeps, OpenCountersKeeps, ResetEnableKeeps,
     RunOpKeeps, FreezeKeeps, TeardownKeeps, ReadValuesKeeps, FailKeeps, OpenNothingKeeps,
     OpenCtlKeeps, OpenAckKeeps, SkipCommandKeeps, WriteCommandKeeps, ReadAckKeeps
  DEF Runner
<1>2. CASE UNCHANGED vars
  BY <1>2 DEF RInv, RunnerTypeOK, InStep, Quiet, UnderWay, CountersFollow, CountsExact,
     vars, argVars, loopVars, counterVars, fifoVars, perfVars
<1> QED
  BY <1>1, <1>2, PerfObeysKeeps, PerfAnswersKeeps, PerfEndsKeeps DEF Next

LEMMA AlwaysRInv == Spec => []RInv
BY RunnerInit, StepKeeps, PTL DEF Spec

(***************************************************************************)
(* "it restricts perf sampling to the measured RunOp batch only", whenever *)
(* perf dies: perf samples the operations of every measured batch while it *)
(* lives, and never a Setup, a Teardown or the warmup.                     *)
(***************************************************************************)
THEOREM SamplesOnlyBatches == Spec => []SampledExactly
<1>1. RInv => SampledExactly
  BY DEF RInv, RunnerTypeOK, InStep, SampledExactly, Sampled
<1> QED BY <1>1, AlwaysRInv, PTL

(***************************************************************************)
(* The totals of a run hold every operation of every completed batch once, *)
(* and nothing of what Setup() and Teardown() do between the batches.      *)
(***************************************************************************)
THEOREM CountsOnlyBatches == Spec => []CountsExact
<1>1. RInv => CountsExact
  BY DEF RInv
<1> QED BY <1>1, AlwaysRInv, PTL
=============================================================================
