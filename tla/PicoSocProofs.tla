--------------------------- MODULE PicoSocProofs ----------------------------
(***************************************************************************)
(* Theorems about PicoSoc for every firmware, image, RAM size and step     *)
(* limit.  Without any assumption on the timing: type correctness, the two *)
(* facts about failed that make the condition-variable waits of            *)
(* issue_bus_request safe, the absence of the worker after the join, what  *)
(* an exit code of 0 rests on, that no write is suppressed as long as no   *)
(* store directly follows another, and that a finish by countdown cuts no  *)
(* protocol store as long as the firmware's first QUIT is its last word.   *)
(*                                                                         *)
(* Under the timing assumption of PromptSpec: every response is that of    *)
(* its own request, every firmware write is acted on once and none is      *)
(* suppressed, every RAM access is counted once, and the handshake         *)
(* implements AtomicBus.  These rest on one description of the handshake,  *)
(* HandshakeInv; RamInv, HandledInv and CountInv add the RAM, the          *)
(* testbench and the counters to it.                                       *)
(***************************************************************************)
EXTENDS PicoSoc, TLAPS

-----------------------------------------------------------------------------
(* Type correctness.                                                       *)

\* A program is a nonempty sequence of sequences of accesses.
LEMMA ProgramType ==
  ASSUME NEW p \in Programs
  PROVE  p \in Seq(Seq(Access)) /\ Len(p) \in Nat /\ Len(p) > 0
BY ProgramAssumption

\* Idle nets are nets, and so is what spike_bus_step drives.
LEMMA NetTypes ==
  ASSUME BusTypeOK
  PROVE  /\ NoAccess \in Access
         /\ IdleNets \in Nets
         /\ StepOutputs \in Nets
         /\ TrapInsn \in Seq(Access)
<1>1. NoAccess \in Access
  BY WordAssumption DEF NoAccess, Access, Addr
<1>2. IdleNets \in Nets
  BY <1>1 DEF IdleNets, Nets
<1>3. StepOutputs \in Nets
  BY <1>2 DEF StepOutputs, BusTypeOK, Nets
<1>4. TrapInsn \in Seq(Access)
  BY WordAssumption DEF TrapInsn, Access, Addr
<1> QED BY <1>1, <1>2, <1>3, <1>4

\* What the bus answers is a word.
LEMMA RdataType ==
  ASSUME RtlTypeOK
  PROVE  MemRdata \in Word
BY WordAssumption, RegAssumption DEF MemRdata, RtlTypeOK

\* The protocol state stays in its domain.
LEMMA ProtocolType ==
  ASSUME TbTypeOK
  PROVE  /\ NewPending \in {NoCode, 0, 1}
         /\ NewDelay \in -1 .. 3
         /\ FinishCode \in {NoCode, 0, 1}
BY DEF TbTypeOK, NewPending, NewDelay, FinishCode, PendingAfter, DelayAfter, NoCode

\* The worker's steps keep the types of the shared context.
LEMMA WorkerType ==
  ASSUME BusTypeOK, WorkerNext
  PROVE  BusTypeOK'
<1> USE DEF BusTypeOK, workerVars, ctxVars
<1>1. CASE WorkerLeaves
  BY <1>1 DEF WorkerLeaves
<1>2. CASE WorkerHitsLimit
  BY <1>2 DEF WorkerHitsLimit
<1>3. CASE WorkerBegins
  <2>1. CurrentInsn \in Seq(Access)
    BY ProgramType, NetTypes DEF CurrentInsn
  <2> QED BY <1>3, <2>1, StepsAssumption DEF WorkerBegins
<1>4. CASE WorkerCounts
  <2>1. NextIp \in 0 .. Len(prog)
    BY ProgramType DEF NextIp
  <2> QED BY <1>4, <2>1, StepsAssumption DEF WorkerCounts
<1>5. CASE WorkerThrows
  BY <1>5 DEF WorkerThrows
<1>6. CASE WorkerIssues
  <2>1. Head(insn) \in Access
    BY <1>6 DEF WorkerIssues
  <2> QED BY <1>6, <2>1, WordAssumption DEF WorkerIssues
<1>7. CASE WorkerRefused
  BY <1>7, ProgramType DEF WorkerRefused, Trap
<1>8. CASE WorkerSleepsAgain
  BY <1>8 DEF WorkerSleepsAgain
<1>9. CASE WorkerCut
  BY <1>9, ProgramType DEF WorkerCut, Trap
<1>10. CASE WorkerTakesResponse
  <2>1. insn' \in Seq(Access) /\ ip' \in 0 .. Len(prog)
    <3>1. Tail(insn) \in Seq(Access) /\ Len(prog) \in Nat
      BY <1>10, ProgramType DEF WorkerTakesResponse
    <3>2. CASE IllegalFetch
      BY <1>10, <3>1, <3>2 DEF WorkerTakesResponse, Trap
    <3>3. CASE ~IllegalFetch
      BY <1>10, <3>1, <3>3 DEF WorkerTakesResponse
    <3> QED BY <3>2, <3>3
  <2>2. [req EXCEPT !.valid = FALSE] \in
          [valid : BOOLEAN, acc : Access, rdata : Word,
           response_ready : BOOLEAN, id : Nat]
    OBVIOUS
  <2>3. req' = [[req EXCEPT !.valid = FALSE] EXCEPT !.response_ready = FALSE]
    BY <1>10 DEF WorkerTakesResponse
  <2>4. req' \in [valid : BOOLEAN, acc : Access, rdata : Word,
                  response_ready : BOOLEAN, id : Nat]
    BY <2>2, <2>3
  <2> QED BY <1>10, <2>1, <2>4 DEF WorkerTakesResponse
<1> QED
  BY <1>1, <1>2, <1>3, <1>4, <1>5, <1>6, <1>7, <1>8, <1>9, <1>10 DEF WorkerNext

\* The DPI calls of the simulation thread keep them too.
LEMMA DpiType ==
  ASSUME BusTypeOK
  PROVE  /\ \A ready \in BOOLEAN, w \in Word : SpikeBusStep(ready, w) => BusTypeOK'
         /\ StartSpikeOnce => BusTypeOK'
         /\ MarkFailed => BusTypeOK'
         /\ \A code \in {0, 1} : SetExitCode(code) => BusTypeOK'
         /\ StopWorker => BusTypeOK'
<1> USE DEF BusTypeOK, workerVars, ctxVars
<1>1. ASSUME NEW ready \in BOOLEAN, NEW w \in Word, SpikeBusStep(ready, w)
      PROVE  BusTypeOK'
  <2>1. CASE StepCaptures(ready)
    <3>1. [req EXCEPT !.rdata = w] \in
            [valid : BOOLEAN, acc : Access, rdata : Word,
             response_ready : BOOLEAN, id : Nat]
      OBVIOUS
    <3>2. req' = [[req EXCEPT !.rdata = w] EXCEPT !.response_ready = TRUE]
      BY <1>1, <2>1 DEF SpikeBusStep
    <3>3. req' \in [valid : BOOLEAN, acc : Access, rdata : Word,
                    response_ready : BOOLEAN, id : Nat]
      BY <3>1, <3>2
    <3> QED BY <1>1, <2>1, <3>3 DEF SpikeBusStep, StepCaptures
  <2>2. CASE ~StepCaptures(ready)
    BY <1>1, <2>2 DEF SpikeBusStep, StepCaptures
  <2> QED BY <2>1, <2>2
<1>2. StartSpikeOnce => BusTypeOK'
  BY DEF StartSpikeOnce
<1>3. MarkFailed => BusTypeOK'
  BY DEF MarkFailed
<1>4. ASSUME NEW code \in {0, 1}, SetExitCode(code)
      PROVE  BusTypeOK'
  BY <1>4 DEF SetExitCode
<1>5. StopWorker => BusTypeOK'
  BY DEF StopWorker
<1> QED BY <1>1, <1>2, <1>3, <1>4, <1>5

\* What a step leaves alone keeps its type.
LEMMA UnchangedTypes ==
  ASSUME TypeOK
  PROVE  /\ UNCHANGED busVars => BusTypeOK'
         /\ UNCHANGED rtlVars => RtlTypeOK'
         /\ UNCHANGED tbVars => TbTypeOK'
         /\ UNCHANGED ctlVars => CtlTypeOK'
<1>1. UNCHANGED busVars => BusTypeOK'
  BY DEF TypeOK, BusTypeOK, busVars, workerVars, ctxVars
<1>2. UNCHANGED rtlVars => RtlTypeOK'
  BY DEF TypeOK, RtlTypeOK, rtlVars
<1>3. UNCHANGED tbVars => TbTypeOK'
  BY DEF TypeOK, TbTypeOK, tbVars
<1>4. UNCHANGED ctlVars => CtlTypeOK'
  BY DEF TypeOK, CtlTypeOK, ctlVars
<1> QED BY <1>1, <1>2, <1>3, <1>4

\* The blocks of a clock edge other than the master's call of spike_bus_step.
LEMMA EdgeType ==
  ASSUME TypeOK, EdgeNext
  PROVE  TypeOK'
<1> USE UnchangedTypes DEF TypeOK
<1>1. CASE ReleaseReset
  BY <1>1 DEF ReleaseReset, Done, CtlTypeOK
<1>2. CASE MasterInReset
  BY <1>2, NetTypes DEF MasterInReset, Done, CtlTypeOK, RtlTypeOK
<1>3. CASE MasterFailsInit
  BY <1>3, NetTypes, DpiType DEF MasterFailsInit, Done, CtlTypeOK, RtlTypeOK
<1>4. CASE MasterStartsWorker
  BY <1>4, DpiType DEF MasterStartsWorker, socVars
<1>5. CASE Testbench
  <2>1. BusTypeOK' /\ RtlTypeOK' /\ CtlTypeOK'
    BY <1>5 DEF Testbench, Done, CtlTypeOK
  <2>2. handled' \in Seq([id : Nat, val : Word])
    <3>1. [id |-> mem.id, val |-> mem.acc.val] \in [id : Nat, val : Word]
      BY DEF RtlTypeOK, Nets, Access
    <3>2. handled \in Seq([id : Nat, val : Word])
      BY DEF TbTypeOK
    <3>3. Append(handled, [id |-> mem.id, val |-> mem.acc.val])
            \in Seq([id : Nat, val : Word])
      BY <3>1, <3>2
    <3>4. \/ handled' = handled
          \/ handled' = Append(handled, [id |-> mem.id, val |-> mem.acc.val])
      BY <1>5 DEF Testbench
    <3> QED BY <3>2, <3>3, <3>4
  <2>3. finish_delay' \in -1 .. 3
    BY <1>5, ProtocolType DEF Testbench
  <2>4. /\ sim_done' \in BOOLEAN /\ finished' \in BOOLEAN
        /\ fin' \in [pc : {"idle", "set_exit_code", "stop", "join"},
                     code : {NoCode, 0, 1}]
        /\ fin'.pc # "idle" => fin'.code # NoCode
    <3>1. CASE FinishCode # NoCode /\ ~sim_done
      BY <1>5, <3>1, ProtocolType DEF Testbench, TbTypeOK
    <3>2. CASE ~(FinishCode # NoCode /\ ~sim_done)
      BY <1>5, <3>2 DEF Testbench, TbTypeOK
    <3> QED BY <3>1, <3>2
  <2>5. pending' \in {NoCode, 0, 1}
    BY <1>5, ProtocolType DEF Testbench
  <2> QED BY <2>1, <2>2, <2>3, <2>4, <2>5 DEF TbTypeOK
<1>6. CASE Timeout
  <2>1. BusTypeOK' /\ RtlTypeOK' /\ CtlTypeOK'
    BY <1>6 DEF Timeout, Done, CtlTypeOK
  <2>2. ASSUME sim_done PROVE TbTypeOK'
    <3>1. UNCHANGED tbVars
      BY <1>6, <2>2 DEF Timeout, tbVars
    <3> QED BY <3>1
  <2>3. ASSUME ~sim_done PROVE TbTypeOK'
    <3>1. fin' = [pc |-> "set_exit_code", code |-> 1]
      BY <1>6, <2>3 DEF Timeout
    <3>2. /\ fin' \in [pc : {"idle", "set_exit_code", "stop", "join"},
                       code : {NoCode, 0, 1}]
          /\ fin'.code # NoCode
      BY <3>1 DEF NoCode
    <3>3. UNCHANGED <<pending, finish_delay, finished, handled>> /\ sim_done' = TRUE
      BY <1>6, <2>3 DEF Timeout
    <3> QED BY <3>2, <3>3 DEF TbTypeOK
  <2>4. TbTypeOK'
    BY <2>2, <2>3
  <2> QED BY <2>1, <2>4
<1>7. CASE FinishSetsExitCode
  <2>1. fin.code \in {0, 1} /\ fin' = [fin EXCEPT !.pc = "stop"]
    BY <1>7 DEF FinishSetsExitCode, TbTypeOK
  <2>2. BusTypeOK' /\ RtlTypeOK' /\ CtlTypeOK'
    BY <1>7, <2>1, DpiType DEF FinishSetsExitCode
  <2>3. TbTypeOK'
    BY <1>7, <2>1 DEF FinishSetsExitCode, TbTypeOK
  <2> QED BY <2>2, <2>3
<1>8. CASE FinishStopsWorker
  <2>1. BusTypeOK' /\ RtlTypeOK' /\ CtlTypeOK'
    BY <1>8, DpiType DEF FinishStopsWorker
  <2>2. TbTypeOK'
    BY <1>8 DEF FinishStopsWorker, TbTypeOK
  <2> QED BY <2>1, <2>2
<1>9. CASE FinishJoins
  <2>1. BusTypeOK' /\ RtlTypeOK' /\ CtlTypeOK'
    BY <1>9 DEF FinishJoins
  <2>2. TbTypeOK'
    BY <1>9 DEF FinishJoins, TbTypeOK
  <2> QED BY <2>1, <2>2
<1>10. CASE ClockEdge
  <2>1. BusTypeOK' /\ TbTypeOK'
    BY <1>10 DEF ClockEdge
  <2>2. CtlTypeOK'
    BY <1>10 DEF ClockEdge, CtlTypeOK, Blocks
  <2>3. ram' \in [RamAddr -> Word] /\ ram_rdata' \in Word
    BY <1>10 DEF ClockEdge, RtlTypeOK, RamWen, RamSel, Nets, Access
  <2>4. \A n \in 0 .. CountCap : Capped(n) \in 0 .. CountCap
    BY CountAssumption DEF Capped
  <2>5. ram_read_count' \in 0 .. CountCap /\ ram_write_count' \in 0 .. CountCap
    BY <1>10, <2>4 DEF ClockEdge, RtlTypeOK
  <2>6. ram_ready' \in BOOLEAN /\ flash_ready' \in BOOLEAN
    BY <1>10 DEF ClockEdge, RtlTypeOK, RamSel, Nets
  <2>7. prev_iomem_fire' \in BOOLEAN
    BY <1>10 DEF ClockEdge, PrevIomemFireNext, IomemFire, IsWrite
  <2> QED
    BY <1>10, <2>1, <2>2, <2>3, <2>5, <2>6, <2>7 DEF ClockEdge, RtlTypeOK
<1>11. CASE ExitMain
  BY <1>11, DpiType DEF ExitMain, CtlTypeOK
<1> QED
  BY <1>1, <1>2, <1>3, <1>4, <1>5, <1>6, <1>7, <1>8, <1>9, <1>10, <1>11
     DEF EdgeNext

\* The bus master's call of spike_bus_step.
LEMMA MasterType ==
  ASSUME TypeOK, MasterSteps
  PROVE  TypeOK'
<1> USE UnchangedTypes DEF TypeOK
<1>1. BusTypeOK'
  <2>1. (mem.valid /\ MemReady) \in BOOLEAN /\ MemRdata \in Word
    BY RdataType
  <2> QED BY <2>1, DpiType DEF MasterSteps
<1>2. RtlTypeOK'
  BY NetTypes DEF MasterSteps, RtlTypeOK
<1>3. TbTypeOK'
  BY DEF MasterSteps
<1>4. served' \in [reads : Nat, writes : Nat]
  BY DEF MasterSteps, CtlTypeOK
<1>5. CtlTypeOK'
  BY <1>4 DEF MasterSteps, Done, CtlTypeOK
<1> QED BY <1>1, <1>2, <1>3, <1>5

\* Every step of the system keeps the types.
LEMMA TypeStep ==
  ASSUME TypeOK, [Next]_vars
  PROVE  TypeOK'
<1> USE DEF TypeOK
<1>1. CASE EdgeNext
  BY <1>1, EdgeType
<1>2. CASE MasterSteps
  BY <1>2, MasterType
<1>3. CASE ThreadNext
  <2>1. RtlTypeOK' /\ TbTypeOK' /\ CtlTypeOK'
    BY <1>3, UnchangedTypes DEF ThreadNext, socVars
  <2>2. CASE WorkerNext
    BY <2>1, <2>2, WorkerType
  <2>3. CASE SpuriousWakeup
    BY <2>1, <2>3 DEF SpuriousWakeup, BusTypeOK, workerVars, ctxVars
  <2> QED BY <1>3, <2>2, <2>3 DEF ThreadNext
<1>4. CASE UNCHANGED vars
  BY <1>4, UnchangedTypes DEF vars, socVars
<1> QED BY <1>1, <1>2, <1>3, <1>4 DEF Next, Exited

LEMMA TypeInit ==
  ASSUME Init
  PROVE  TypeOK
<1> USE DEF Init, BusInit
<1>1. IdleNets \in Nets /\ NoAccess \in Access /\ "zero" \in Word
  BY WordAssumption DEF IdleNets, NoAccess, Nets, Access, Addr
<1>2. BusTypeOK
  <2>1. ip \in 0 .. Len(prog)
    BY ProgramType
  <2>2. insn \in Seq(Access)
    OBVIOUS
  <2>3. req \in [valid : BOOLEAN, acc : Access, rdata : Word,
                 response_ready : BOOLEAN, id : Nat]
    BY <1>1
  <2>4. steps \in 0 .. MaxSteps
    BY StepsAssumption
  <2> QED BY <1>1, <2>1, <2>2, <2>3, <2>4 DEF BusTypeOK
<1>3. RtlTypeOK
  <2>1. ram_read_count \in 0 .. CountCap /\ ram_write_count \in 0 .. CountCap
    BY CountAssumption
  <2>2. mem \in Nets /\ nba \in Nets /\ ram_rdata \in Word
    BY <1>1
  <2>3. ram \in [RamAddr -> Word]
    BY ImageAssumption
  <2>4. ram_ready \in BOOLEAN /\ flash_ready \in BOOLEAN /\ prev_iomem_fire \in BOOLEAN
    OBVIOUS
  <2> QED BY <2>1, <2>2, <2>3, <2>4 DEF RtlTypeOK
<1>4. TbTypeOK
  <2>1. handled \in Seq([id : Nat, val : Word])
    OBVIOUS
  <2>2. fin \in [pc : {"idle", "set_exit_code", "stop", "join"},
                 code : {NoCode, 0, 1}]
    OBVIOUS
  <2>3. pending \in {NoCode, 0, 1} /\ finish_delay \in -1 .. 3
    OBVIOUS
  <2>4. fin.pc = "idle" /\ sim_done \in BOOLEAN /\ finished \in BOOLEAN
    OBVIOUS
  <2> QED BY <2>1, <2>2, <2>3, <2>4 DEF TbTypeOK
<1>5. CtlTypeOK
  BY DEF CtlTypeOK
<1> QED BY <1>2, <1>3, <1>4, <1>5 DEF TypeOK

\* Type correctness of the whole SoC mode.
THEOREM TypeCorrect == Spec => []TypeOK
<1>1. Init => TypeOK
  BY TypeInit
<1>2. TypeOK /\ [Next]_vars => TypeOK'
  BY TypeStep
<1> QED BY <1>1, <1>2, PTL DEF Spec

-----------------------------------------------------------------------------
(* The waits of issue_bus_request.  Neither property is inductive: a       *)
(* worker that leaves the second wait with its request still posted must   *)
(* do so because of stop, which needs that no failure meets a waiting      *)
(* worker; and a failed initialisation is one that started no worker.      *)

WaitInv ==
  /\ wpc \in {"none", "check", "execute"} => SlotFree
  /\ FailureEndsWorker
  /\ ~init_ok => wpc = "none"
  /\ failed /\ init_ok => wpc = "exited"

\* The worker's own steps.
LEMMA WaitWorker ==
  ASSUME TypeOK, WaitInv, ThreadNext
  PROVE  WaitInv'
<1> USE DEF WaitInv, SlotFree, FailureEndsWorker, workerVars, ctxVars,
            socVars, ctlVars
<1>0. UNCHANGED init_ok
  BY DEF ThreadNext
<1>1. CASE WorkerLeaves
  BY <1>0, <1>1 DEF WorkerLeaves
<1>2. CASE WorkerHitsLimit
  BY <1>0, <1>2 DEF WorkerHitsLimit
<1>3. CASE WorkerBegins
  BY <1>0, <1>3 DEF WorkerBegins
<1>4. CASE WorkerCounts
  BY <1>0, <1>4 DEF WorkerCounts
<1>5. CASE WorkerThrows
  BY <1>0, <1>5 DEF WorkerThrows
<1>6. CASE WorkerIssues
  BY <1>0, <1>6 DEF WorkerIssues
<1>7. CASE WorkerRefused
  BY <1>0, <1>7 DEF WorkerRefused
<1>8. CASE WorkerSleepsAgain
  BY <1>0, <1>8 DEF WorkerSleepsAgain
<1>9. CASE WorkerCut
  BY <1>0, <1>9 DEF WorkerCut, ResponseCut
<1>10. CASE WorkerTakesResponse
  <2>1. ~req'.valid
    BY <1>10 DEF WorkerTakesResponse, TypeOK, BusTypeOK
  <2> QED BY <1>0, <1>10, <2>1 DEF WorkerTakesResponse
<1>11. CASE SpuriousWakeup
  BY <1>0, <1>11 DEF SpuriousWakeup
<1> QED
  BY <1>1, <1>2, <1>3, <1>4, <1>5, <1>6, <1>7, <1>8, <1>9, <1>10, <1>11
     DEF ThreadNext, WorkerNext

\* The steps of the simulation thread.
LEMMA WaitEdge ==
  ASSUME TypeOK, WaitInv, EdgeNext \/ MasterSteps
  PROVE  WaitInv'
<1> USE DEF WaitInv, SlotFree, FailureEndsWorker, workerVars, ctxVars,
            busVars, socVars, ctlVars
<1>1. CASE ReleaseReset
  BY <1>1 DEF ReleaseReset
<1>2. CASE MasterInReset
  BY <1>2 DEF MasterInReset
<1>3. CASE MasterFailsInit
  BY <1>3 DEF MasterFailsInit, MarkFailed
<1>4. CASE MasterStartsWorker
  BY <1>4 DEF MasterStartsWorker, StartSpikeOnce
<1>5. CASE Testbench
  BY <1>5 DEF Testbench
<1>6. CASE Timeout
  BY <1>6 DEF Timeout
<1>7. CASE FinishSetsExitCode
  BY <1>7 DEF FinishSetsExitCode, SetExitCode
<1>8. CASE FinishStopsWorker
  BY <1>8 DEF FinishStopsWorker, StopWorker
<1>9. CASE FinishJoins
  BY <1>9 DEF FinishJoins
<1>10. CASE ClockEdge
  BY <1>10 DEF ClockEdge
<1>11. CASE ExitMain
  BY <1>11 DEF ExitMain, StopWorker
<1>12. CASE MasterSteps
  <2>1. req'.valid = req.valid
    BY <1>12 DEF MasterSteps, SpikeBusStep, TypeOK, BusTypeOK
  <2> QED BY <1>12, <2>1 DEF MasterSteps, SpikeBusStep
<1> QED
  BY <1>1, <1>2, <1>3, <1>4, <1>5, <1>6, <1>7, <1>8, <1>9, <1>10, <1>11, <1>12
     DEF EdgeNext

\* WaitInv is an invariant.
LEMMA WaitInvariant == Spec => []WaitInv
<1>1. Init => WaitInv
  BY DEF Init, BusInit, WaitInv, SlotFree, FailureEndsWorker
<1>2. TypeOK /\ WaitInv /\ [Next]_vars => WaitInv'
  <2> SUFFICES ASSUME TypeOK, WaitInv, [Next]_vars PROVE WaitInv'
    OBVIOUS
  <2>1. CASE EdgeNext \/ MasterSteps
    BY <2>1, WaitEdge
  <2>2. CASE ThreadNext
    BY <2>2, WaitWorker
  <2>3. CASE UNCHANGED vars
    BY <2>3 DEF vars, busVars, workerVars, ctxVars, socVars, ctlVars, WaitInv,
                SlotFree, FailureEndsWorker
  <2> QED BY <2>1, <2>2, <2>3 DEF Next, Exited
<1> QED BY <1>1, <1>2, TypeCorrect, PTL DEF Spec

\* The wait of issue_bus_request that ignores failed never has to wait.
THEOREM FirstWaitTheorem == Spec => []FirstWaitNeverBlocks
<1>1. WaitInv => FirstWaitNeverBlocks
  BY DEF WaitInv, FirstWaitNeverBlocks
<1> QED BY <1>1, WaitInvariant, PTL

\* No worker waits in the bus of a run that has failed.
THEOREM FailureTheorem == Spec => []FailureEndsWorker
<1>1. WaitInv => FailureEndsWorker
  BY DEF WaitInv
<1> QED BY <1>1, WaitInvariant, PTL

-----------------------------------------------------------------------------
(* The join.  A worker could outlive it only if it were started after the  *)
(* join, by the bus master in the rest of the finishing edge; but nothing  *)
(* can finish the run before the master has called spike_bus_step.         *)

Untouched ==
  /\ ~mem.valid /\ ~nba.valid
  /\ pending = NoCode
  /\ fin.pc = "idle"
  /\ "timeout" \notin todo
  /\ ~finished

ExitInv ==
  /\ WorkerGoneAtExit
  /\ wpc = "none" /\ init_ok => Untouched

\* Before the first call the testbench sees no write and no failure.
LEMMA QuietTestbench ==
  ASSUME TypeOK, WaitInv, Untouched, wpc = "none", init_ok
  PROVE  NewPending = NoCode /\ FinishCode = NoCode
BY DEF WaitInv, Untouched, NewPending, FinishCode, FirmwareWrites, IomemFireNew,
       IomemFire, IomemValid, SimMmioSel, ExternalIomemSel, RegSel

\* ExitInv is an invariant.
LEMMA ExitInvariant == Spec => []ExitInv
<1>1. Init => ExitInv
  BY DEF Init, BusInit, ExitInv, WorkerGoneAtExit, Untouched, IdleNets
<1>2. TypeOK /\ WaitInv /\ ExitInv /\ [Next]_vars => ExitInv'
  <2> SUFFICES ASSUME TypeOK, WaitInv, ExitInv, [Next]_vars PROVE ExitInv'
    OBVIOUS
  <2> USE DEF ExitInv, WorkerGoneAtExit, Untouched, workerVars, ctxVars,
              busVars, socVars, rtlVars, tbVars, ctlVars
  <2>1. CASE ReleaseReset
    BY <2>1 DEF ReleaseReset, Done
  <2>2. CASE MasterInReset
    BY <2>2 DEF MasterInReset, Done, IdleNets
  <2>3. CASE MasterFailsInit
    BY <2>3 DEF MasterFailsInit, MarkFailed
  <2>4. CASE MasterStartsWorker
    BY <2>4 DEF MasterStartsWorker, StartSpikeOnce
  <2>5. CASE Testbench
    <3>1. wpc = "none" /\ init_ok => NewPending = NoCode /\ FinishCode = NoCode
      BY QuietTestbench
    <3> QED BY <2>5, <3>1 DEF Testbench, Done
  <2>6. CASE Timeout
    BY <2>6 DEF Timeout, Ready, Done
  <2>7. CASE FinishSetsExitCode
    BY <2>7 DEF FinishSetsExitCode, SetExitCode
  <2>8. CASE FinishStopsWorker
    BY <2>8 DEF FinishStopsWorker, StopWorker
  <2>9. CASE FinishJoins
    BY <2>9 DEF FinishJoins, Joinable
  <2>10. CASE ClockEdge
    BY <2>10 DEF ClockEdge, StepCalled, WaitInv
  <2>11. CASE ExitMain
    BY <2>11 DEF ExitMain, StopWorker
  <2>12. CASE MasterSteps
    BY <2>12 DEF MasterSteps, SpikeBusStep
  <2>13. CASE ThreadNext
    BY <2>13 DEF ThreadNext, WorkerNext, SpuriousWakeup, WorkerLeaves,
         WorkerHitsLimit, WorkerBegins, WorkerCounts, WorkerThrows, WorkerIssues,
         WorkerRefused, WorkerSleepsAgain, WorkerCut, WorkerTakesResponse
  <2>14. CASE UNCHANGED vars
    BY <2>14 DEF vars
  <2> QED
    BY <2>1, <2>2, <2>3, <2>4, <2>5, <2>6, <2>7, <2>8, <2>9, <2>10, <2>11,
       <2>12, <2>13, <2>14 DEF Next, EdgeNext, Exited
<1> QED BY <1>1, <1>2, TypeCorrect, WaitInvariant, PTL DEF Spec

\* When the process exits, no worker is left to touch g_ctx.
THEOREM ExitTheorem == Spec => []WorkerGoneAtExit
<1>1. ExitInv => WorkerGoneAtExit
  BY DEF ExitInv
<1> QED BY <1>1, ExitInvariant, PTL

-----------------------------------------------------------------------------
(* The exit code.  Two writers set it: finish_soc and a worker that        *)
(* reaches its step limit.  The invariant ties the protocol state to the   *)
(* writes handled so far, the code of a finish under way to the protocol   *)
(* state, and the exit code to both writers.                               *)

\* The last status the testbench handled is one of vals.
LastStatusIn(vals) ==
  \E s \in DOMAIN handled :
    /\ handled[s].val \in vals
    /\ \A i \in s + 1 .. Len(handled) : handled[i].val \notin Status

\* A finish has been called, and main has not begun again: no edge follows.
Finishing == fin.pc # "idle" \/ finished

CodeInv ==
  /\ pending = 0 => LastStatusIn({"PASS", "FINISH"})
  /\ finish_delay >= 0 => pending # NoCode
  /\ finish_delay >= 0 /\ pending = 0 => PassReported
  /\ sim_done <=> Finishing
  /\ sim_done <=> fin.code # NoCode
  /\ fin.code = 0 => PassReported /\ "tb" \notin todo
  /\ fin.pc \in {"stop", "join"} \/ finished =>
       \/ exit_code = fin.code
       \/ exit_code = 1 /\ failed /\ steps = MaxSteps /\ wpc = "exited"
  /\ exited => finished

\* The protocol state after the testbench's part of an edge follows from the
\* writes handled by then.
LEMMA ProtocolFollows ==
  ASSUME TypeOK, CodeInv, Testbench
  PROVE  /\ NewPending = 0 => LastStatusIn({"PASS", "FINISH"})'
         /\ NewDelay >= 0 => NewPending # NoCode
         /\ NewDelay >= 0 /\ NewPending = 0 => PassReported'
<1> DEFINE w == [id |-> mem.id, val |-> mem.acc.val]
<1>1. handled \in Seq([id : Nat, val : Word]) /\ Len(handled) \in Nat
  BY DEF TypeOK, TbTypeOK
<1>2. CASE ~FirmwareWrites
  <2>1. handled' = handled /\ NewPending = pending /\ NewDelay = finish_delay
    BY <1>2 DEF Testbench, NewPending, NewDelay
  <2> QED BY <2>1 DEF CodeInv, LastStatusIn, PassReported
<1>3. CASE FirmwareWrites
  <2>1. /\ handled' = Append(handled, w)
        /\ NewPending = PendingAfter(w.val) /\ NewDelay = DelayAfter(w.val)
    BY <1>3 DEF Testbench, NewPending, NewDelay
  <2>2. /\ Len(handled') = Len(handled) + 1
        /\ DOMAIN handled' = 1 .. Len(handled) + 1
        /\ DOMAIN handled = 1 .. Len(handled)
        /\ handled'[Len(handled) + 1] = w
        /\ \A i \in 1 .. Len(handled) : handled'[i] = handled[i]
    BY <1>1, <2>1
  <2> HIDE DEF w
  <2>3. ASSUME w.val \notin Status, LastStatusIn({"PASS", "FINISH"})
        PROVE  LastStatusIn({"PASS", "FINISH"})'
    <3>1. PICK s \in DOMAIN handled :
            /\ handled[s].val \in {"PASS", "FINISH"}
            /\ \A i \in s + 1 .. Len(handled) : handled[i].val \notin Status
      BY <2>3 DEF LastStatusIn
    <3>2. s \in DOMAIN handled' /\ handled'[s].val \in {"PASS", "FINISH"}
      BY <1>1, <2>2, <3>1
    <3>3. \A i \in s + 1 .. Len(handled') : handled'[i].val \notin Status
      BY <1>1, <2>2, <2>3, <3>1
    <3> QED BY <3>2, <3>3 DEF LastStatusIn
  <2>4. ASSUME w.val \notin Status, PassReported
        PROVE  PassReported'
    <3>1. PICK s \in DOMAIN handled, q \in DOMAIN handled :
            /\ s < q
            /\ handled[s].val \in {"PASS", "FINISH"}
            /\ handled[q].val = "QUIT"
            /\ \A i \in s + 1 .. Len(handled) : handled[i].val \notin Status
      BY <2>4 DEF PassReported
    <3>2. /\ s \in DOMAIN handled' /\ handled'[s].val \in {"PASS", "FINISH"}
          /\ q \in DOMAIN handled' /\ handled'[q].val = "QUIT"
      BY <1>1, <2>2, <3>1
    <3>3. \A i \in s + 1 .. Len(handled') : handled'[i].val \notin Status
      BY <1>1, <2>2, <2>4, <3>1
    <3> QED BY <3>1, <3>2, <3>3 DEF PassReported
  <2>5. ASSUME w.val \in {"PASS", "FINISH"}
        PROVE  LastStatusIn({"PASS", "FINISH"})'
    <3>1. Len(handled) + 1 \in DOMAIN handled'
      BY <1>1, <2>2
    <3>2. \A i \in (Len(handled) + 1) + 1 .. Len(handled') : handled'[i].val \notin Status
      BY <1>1, <2>2
    <3> QED BY <2>2, <2>5, <3>1, <3>2 DEF LastStatusIn
  <2>6. ASSUME w.val = "QUIT", pending = 0
        PROVE  PassReported'
    <3>1. PICK s \in DOMAIN handled :
            /\ handled[s].val \in {"PASS", "FINISH"}
            /\ \A i \in s + 1 .. Len(handled) : handled[i].val \notin Status
      BY <2>6 DEF CodeInv, LastStatusIn
    <3> DEFINE q == Len(handled) + 1
    <3>2. s \in DOMAIN handled' /\ q \in DOMAIN handled' /\ s < q
      BY <1>1, <2>2
    <3>3. handled'[s].val \in {"PASS", "FINISH"} /\ handled'[q].val = "QUIT"
      BY <1>1, <2>2, <2>6, <3>1
    <3>4. \A i \in s + 1 .. Len(handled') : handled'[i].val \notin Status
      BY <1>1, <2>2, <2>6, <3>1 DEF Status
    <3> HIDE DEF q
    <3> QED BY <3>2, <3>3, <3>4 DEF PassReported
  <2>7. CASE w.val \in Status
    BY <2>1, <2>5, <2>7 DEF PendingAfter, DelayAfter, Status, NoCode
  <2>8. CASE w.val = "QUIT"
    <3>1. NewPending = pending
      BY <2>1, <2>8 DEF PendingAfter
    <3>2. NewDelay = IF pending # NoCode THEN 3 ELSE finish_delay
      BY <2>1, <2>8 DEF DelayAfter, Status
    <3> QED BY <2>3, <2>6, <2>8, <3>1, <3>2 DEF CodeInv, Status
  <2>9. CASE w.val \notin Status \cup {"QUIT"}
    <3>1. NewPending = pending /\ NewDelay = finish_delay
      BY <2>1, <2>9 DEF PendingAfter, DelayAfter, Status
    <3> QED BY <2>3, <2>4, <2>9, <3>1 DEF CodeInv
  <2> QED BY <2>7, <2>8, <2>9
<1> QED BY <1>2, <1>3

\* The steps of the simulation thread.
LEMMA CodeEdge ==
  ASSUME TypeOK, WaitInv, CodeInv, EdgeNext \/ MasterSteps
  PROVE  CodeInv'
<1> USE DEF CodeInv, Finishing, busVars, workerVars, ctxVars, socVars, rtlVars, tbVars, ctlVars
<1>0. ASSUME UNCHANGED handled
      PROVE  (LastStatusIn({"PASS", "FINISH"}))' = LastStatusIn({"PASS", "FINISH"}) /\ PassReported' = PassReported
  BY <1>0 DEF LastStatusIn, PassReported
<1>1. CASE ReleaseReset
  BY <1>0, <1>1 DEF ReleaseReset, Done
<1>2. CASE MasterInReset
  BY <1>0, <1>2 DEF MasterInReset, Done
<1>3. CASE MasterFailsInit
  BY <1>0, <1>3 DEF MasterFailsInit, MarkFailed, Done
<1>4. CASE MasterStartsWorker
  BY <1>0, <1>4 DEF MasterStartsWorker, StartSpikeOnce
<1>5. CASE Testbench
  <2>1. /\ pending' = NewPending
        /\ finish_delay' >= 0 => NewDelay >= 0
        /\ UNCHANGED <<finished, exited, exit_code, failed, steps, wpc>>
        /\ fin.pc = "idle" /\ "tb" \in todo /\ "tb" \notin todo'
    BY <1>5, ProtocolType DEF Testbench, Ready, Done, TypeOK
  <2>2. CASE FinishCode # NoCode /\ ~sim_done
    <3>1. /\ sim_done' /\ fin' = [pc |-> "set_exit_code", code |-> FinishCode]
          /\ ~finished
      BY <1>5, <2>2 DEF Testbench
    <3>2. FinishCode = 0 => NewPending = 0 /\ NewDelay >= 0
      BY <2>2, ProtocolType DEF FinishCode, TypeOK
    <3> QED BY <1>5, <2>1, <3>1, <3>2, <2>2, ProtocolFollows
  <2>3. CASE ~(FinishCode # NoCode /\ ~sim_done)
    <3>1. UNCHANGED <<sim_done, fin>>
      BY <1>5, <2>3 DEF Testbench
    <3> QED BY <1>5, <2>1, <3>1, ProtocolFollows
  <2> QED BY <2>2, <2>3
<1>6. CASE Timeout
  <2>1. UNCHANGED <<handled, pending, finish_delay, finished, exited, exit_code, failed,
                    steps, wpc>> /\ todo' = todo \ {"timeout"} /\ fin.pc = "idle"
    BY <1>6 DEF Timeout, Ready, Done
  <2>2. CASE sim_done
    BY <1>0, <1>6, <2>1, <2>2 DEF Timeout
  <2>3. CASE ~sim_done
    BY <1>0, <1>6, <2>1, <2>3 DEF Timeout, NoCode
  <2> QED BY <2>2, <2>3
<1>7. CASE FinishSetsExitCode
  <2>1. UNCHANGED <<handled, pending, finish_delay, sim_done, finished, exited, todo>>
        /\ exit_code' = fin.code /\ fin.pc = "set_exit_code"
        /\ fin'.pc = "stop" /\ fin'.code = fin.code
    BY <1>7 DEF FinishSetsExitCode, SetExitCode, TypeOK, TbTypeOK
  <2> QED BY <1>0, <2>1
<1>8. CASE FinishStopsWorker
  <2>1. UNCHANGED <<handled, pending, finish_delay, sim_done, finished, exited, todo,
                    exit_code, failed, steps, wpc>>
        /\ fin.pc = "stop" /\ fin'.pc = "join" /\ fin'.code = fin.code
    BY <1>8 DEF FinishStopsWorker, StopWorker, TypeOK, TbTypeOK
  <2> QED BY <1>0, <2>1
<1>9. CASE FinishJoins
  <2>1. UNCHANGED <<handled, pending, finish_delay, sim_done, exited, todo,
                    exit_code, failed, steps, wpc>> /\ finished'
        /\ fin.pc = "join" /\ fin'.pc = "idle" /\ fin'.code = fin.code
    BY <1>9 DEF FinishJoins, TypeOK, TbTypeOK
  <2> QED BY <1>0, <2>1
<1>10. CASE ClockEdge
  <2>1. ~Finishing /\ UNCHANGED <<busVars, tbVars, exited>>
    BY <1>10 DEF ClockEdge
  <2> QED BY <1>0, <2>1 DEF NoCode
<1>11. CASE ExitMain
  BY <1>0, <1>11 DEF ExitMain, StopWorker
<1>12. CASE MasterSteps
  BY <1>0, <1>12 DEF MasterSteps, SpikeBusStep, Done
<1> QED
  BY <1>1, <1>2, <1>3, <1>4, <1>5, <1>6, <1>7, <1>8, <1>9, <1>10, <1>11, <1>12
     DEF EdgeNext

\* The worker's steps: only the one that reaches the limit writes the exit code.
LEMMA CodeWorker ==
  ASSUME TypeOK, CodeInv, ThreadNext
  PROVE  CodeInv'
<1> USE DEF CodeInv, Finishing, workerVars, ctxVars, socVars, tbVars, ctlVars
<1>0. UNCHANGED <<handled, pending, finish_delay, sim_done, fin, finished, exited, todo>>
  BY DEF ThreadNext
<1>1. LastStatusIn({"PASS", "FINISH"})' = LastStatusIn({"PASS", "FINISH"}) /\ PassReported' = PassReported
  BY <1>0 DEF LastStatusIn, PassReported
<1>2. CASE WorkerHitsLimit
  <2>1. exit_code' = 1 /\ failed' /\ wpc' = "exited" /\ steps' = steps /\ steps = MaxSteps
    BY <1>2, StepsAssumption DEF WorkerHitsLimit, TypeOK, BusTypeOK
  <2> QED BY <1>0, <1>1, <2>1
<1>3. CASE ~WorkerHitsLimit
  <2>1. exit_code' = exit_code /\ (failed => failed')
        /\ (wpc = "exited" => wpc' = "exited" /\ steps' = steps)
    BY <1>3 DEF ThreadNext, WorkerNext, SpuriousWakeup, WorkerLeaves,
         WorkerBegins, WorkerCounts, WorkerThrows, WorkerIssues,
         WorkerRefused, WorkerSleepsAgain, WorkerCut, WorkerTakesResponse
  <2> QED BY <1>0, <1>1, <2>1
<1> QED BY <1>2, <1>3

\* CodeInv is an invariant.
LEMMA CodeInvariant == Spec => []CodeInv
<1>1. Init => CodeInv
  BY DEF Init, BusInit, CodeInv, Finishing, NoCode
<1>2. TypeOK /\ WaitInv /\ CodeInv /\ [Next]_vars => CodeInv'
  <2> SUFFICES ASSUME TypeOK, WaitInv, CodeInv, [Next]_vars PROVE CodeInv'
    OBVIOUS
  <2>1. CASE EdgeNext \/ MasterSteps
    BY <2>1, CodeEdge
  <2>2. CASE ThreadNext
    BY <2>2, CodeWorker
  <2>3. CASE UNCHANGED vars
    BY <2>3 DEF vars, busVars, workerVars, ctxVars, socVars, tbVars, ctlVars, CodeInv,
                Finishing, LastStatusIn, PassReported
  <2> QED BY <2>1, <2>2, <2>3 DEF Next, Exited
<1> QED BY <1>1, <1>2, TypeCorrect, WaitInvariant, PTL DEF Spec

\* Whatever its two writers do, the process exits with 0 only if the firmware
\* reported success, and with 1 after a reported success only because the worker
\* reached its step limit.
THEOREM ExitCodeTheorem == Spec => []ExitCodeJustified
<1>1. TypeOK /\ CodeInv => ExitCodeJustified
  BY DEF TypeOK, TbTypeOK, CodeInv, ExitCodeJustified
<1> QED BY <1>1, TypeCorrect, CodeInvariant, PTL

-----------------------------------------------------------------------------
(* Who has been on the bus.                                                 *)

\* Before the master has called spike_bus_step nothing is posted or driven, and
\* it only does so out of reset, which never comes back.
CalledInv ==
  /\ wpc # "none" => resetn /\ init_ok
  /\ resetn => "reset" \notin todo
  /\ wpc = "none" => ~mem.valid /\ ~nba.valid /\ ~req.valid
  /\ wpc = "response" => req.valid

LEMMA CalledInvariant == Spec => []CalledInv
<1>1. Init => CalledInv
  BY DEF Init, BusInit, CalledInv, IdleNets
<1>2. TypeOK /\ WaitInv /\ CalledInv /\ [Next]_vars => CalledInv'
  <2> SUFFICES ASSUME TypeOK, WaitInv, CalledInv, [Next]_vars PROVE CalledInv'
    OBVIOUS
  <2> USE DEF CalledInv, workerVars, ctxVars, busVars, socVars, rtlVars, tbVars, ctlVars
  <2>1. CASE ReleaseReset
    BY <2>1 DEF ReleaseReset, Ready, Done
  <2>2. CASE MasterInReset
    BY <2>2 DEF MasterInReset, Done, IdleNets
  <2>3. CASE MasterFailsInit
    BY <2>3 DEF MasterFailsInit, MarkFailed, Done, IdleNets
  <2>4. CASE MasterStartsWorker
    BY <2>4 DEF MasterStartsWorker, StartSpikeOnce
  <2>5. CASE Testbench
    BY <2>5 DEF Testbench, Done
  <2>6. CASE Timeout
    BY <2>6 DEF Timeout, Done
  <2>7. CASE FinishSetsExitCode
    BY <2>7 DEF FinishSetsExitCode, SetExitCode
  <2>8. CASE FinishStopsWorker
    BY <2>8 DEF FinishStopsWorker, StopWorker
  <2>9. CASE FinishJoins
    BY <2>9 DEF FinishJoins
  <2>10. CASE ClockEdge
    BY <2>10 DEF ClockEdge
  <2>11. CASE ExitMain
    BY <2>11 DEF ExitMain, StopWorker
  <2>12. CASE MasterSteps
    <3>1. req'.valid = req.valid
      BY <2>12 DEF MasterSteps, SpikeBusStep, TypeOK, BusTypeOK
    <3> QED BY <2>12, <3>1 DEF MasterSteps, SpikeBusStep, Done
  <2>13. CASE ThreadNext
    BY <2>13 DEF ThreadNext, WorkerNext, SpuriousWakeup, WorkerLeaves,
         WorkerHitsLimit, WorkerBegins, WorkerCounts, WorkerThrows, WorkerIssues,
         WorkerRefused, WorkerSleepsAgain, WorkerCut, WorkerTakesResponse
  <2>14. CASE UNCHANGED vars
    BY <2>14 DEF vars
  <2> QED
    BY <2>1, <2>2, <2>3, <2>4, <2>5, <2>6, <2>7, <2>8, <2>9, <2>10, <2>11,
       <2>12, <2>13, <2>14 DEF Next, EdgeNext, Exited
<1> QED BY <1>1, <1>2, TypeCorrect, WaitInvariant, PTL DEF Spec

\* The timing assumption only removes behaviours.
LEMMA PromptIsSpec == PromptSpec => Spec
<1>1. [PromptNext]_vars => [Next]_vars
  BY DEF PromptNext, Next
<1> QED BY <1>1, PTL DEF PromptSpec, Spec

-----------------------------------------------------------------------------
(* The combinational nets.                                                  *)

\* When the device an access goes to is ready, and what it then drives.
LEMMA NetValues ==
  ASSUME TypeOK, mem.valid, ram_ready => mem.acc.addr \in RamAddr
  PROVE  /\ RamSel <=> mem.acc.addr \in RamAddr
         /\ mem.acc.addr \in RamAddr => (MemReady <=> ram_ready)
         /\ mem.acc.addr \in {"sim_mmio", "reg"} => MemReady
         /\ mem.acc.addr = "flash" => (MemReady <=> flash_ready)
         /\ MemReady => MemRdata = IF mem.acc.addr \in RamAddr THEN ram_rdata ELSE "zero"
         /\ IomemFire <=> mem.acc.addr \in {"sim_mmio", "reg"} /\ IsWrite
<1>1. mem.acc.addr \in RamAddr \cup {"sim_mmio", "reg", "flash"}
  BY DEF TypeOK, RtlTypeOK, Nets, Access, Addr
<1>2. mem.acc.addr \in RamAddr => mem.acc.addr \notin {"sim_mmio", "reg", "flash"}
  BY RamAssumption
<1> QED
  BY <1>1, <1>2 DEF RamSel, SimMmioSel, RegSel, ExternalIomemSel, IomemValid, IomemReady,
     SpimemReady, MemReady, MemRdata, IomemFire, TypeOK, RtlTypeOK

\* What the nets are computed from.
LEMMA NetsStay ==
  ASSUME UNCHANGED <<mem, ram_ready, flash_ready>>
  PROVE  /\ MemReady' <=> MemReady
         /\ RamSel' <=> RamSel
         /\ SimMmioSel' <=> SimMmioSel
         /\ IsWrite' <=> IsWrite
         /\ IomemFire' <=> IomemFire
BY DEF RamSel, SimMmioSel, RegSel, ExternalIomemSel, IomemValid, IomemReady,
     SpimemReady, MemReady, IomemFire, IsWrite

-----------------------------------------------------------------------------
(* The handshake under the timing assumption of PromptSpec.  An access is   *)
(* shown while it is unanswered and for one more edge, in the               *)
(* wait_ready_low phase.  Blocks of an edge run in any order, so what the   *)
(* bus shows is described before and after the master's block.              *)

Unanswered == req.valid /\ ~req.response_ready

\* The bus shows the unanswered request.
OnBus == mem.valid /\ mem.id = req.id /\ Unanswered

\* What the master drives: the unanswered request, or the answered one while it
\* waits for ready to fall.
Driven ==
  /\ "master" \in todo => nba = mem
  /\ nba.valid => (wait_ready_low <=> ~(Unanswered /\ nba.id = req.id))
  /\ \A n \in {mem, nba} :
       n.valid => n.id <= req.id /\ (n.id = req.id => n.acc = req.acc)

\* Before the master's block an answered access is not ready again, unless it
\* is a write that fires at every edge, and then the last edge has seen it.
BeforeMaster ==
  /\ mem.valid /\ ram_ready => mem.acc.addr \in RamAddr
  /\ "master" \in todo /\ mem.valid =>
       /\ wait_ready_low => ~ram_ready
       /\ IomemFire => (prev_iomem_fire <=> wait_ready_low)

\* After it an access stays until it has been answered.
AfterMaster ==
  "master" \notin todo =>
    /\ mem.valid /\ nba.valid => nba = mem /\ (wait_ready_low <=> MemReady)
    /\ nba.valid /\ wait_ready_low => mem.valid
    /\ OnBus => nba.valid /\ ~MemReady

HandshakeInv == Driven /\ BeforeMaster /\ AfterMaster

\* A step of another block.
LEMMA HandshakeStays ==
  ASSUME HandshakeInv,
         UNCHANGED <<mem, nba, req, wait_ready_low, ram_ready, flash_ready, prev_iomem_fire>>,
         "master" \in todo' <=> "master" \in todo
  PROVE  HandshakeInv'
BY NetsStay DEF HandshakeInv, Driven, BeforeMaster, AfterMaster, OnBus, Unanswered

\* The worker's steps: it never touches a request that is on the bus.
LEMMA HandshakeWorker ==
  ASSUME TypeOK, HandshakeInv, ThreadNext
  PROVE  HandshakeInv'
<1> USE DEF workerVars, ctxVars, socVars, rtlVars, ctlVars
<1>0. UNCHANGED <<todo, nba, mem, ram_ready, flash_ready, prev_iomem_fire>>
  BY DEF ThreadNext
<1>1. CASE WorkerIssues
  <2>1. /\ ~req.valid /\ req'.id = req.id + 1 /\ UNCHANGED wait_ready_low
        /\ req.id \in Nat /\ mem.id \in Nat /\ nba.id \in Nat
    BY <1>1 DEF WorkerIssues, SlotFree, TypeOK, BusTypeOK, RtlTypeOK, Nets
  <2> QED BY <1>0, <2>1, NetsStay
          DEF HandshakeInv, Driven, BeforeMaster, AfterMaster, OnBus, Unanswered
<1>2. CASE WorkerTakesResponse
  <2>1. /\ req.response_ready /\ ~req'.valid /\ UNCHANGED wait_ready_low
        /\ req'.id = req.id /\ req'.acc = req.acc
    BY <1>2 DEF WorkerTakesResponse, ResponsePending, ResponseCut, TypeOK, BusTypeOK
  <2> QED BY <1>0, <2>1, NetsStay
          DEF HandshakeInv, Driven, BeforeMaster, AfterMaster, OnBus, Unanswered
<1>3. CASE UNCHANGED <<req, wait_ready_low>>
  BY <1>0, <1>3, HandshakeStays
<1> QED
  BY <1>1, <1>2, <1>3
     DEF ThreadNext, WorkerNext, SpuriousWakeup, WorkerLeaves, WorkerHitsLimit,
         WorkerBegins, WorkerCounts, WorkerThrows, WorkerRefused,
         WorkerSleepsAgain, WorkerCut

\* A call of spike_bus_step when the worker has taken the last response: what it
\* captures, and what it drives.
LEMMA MasterCaptures ==
  ASSUME TypeOK, HandshakeInv, MasterSteps, ResponseTaken
  PROVE  /\ UNCHANGED <<mem, ram_ready, flash_ready, prev_iomem_fire>>
         /\ "master" \in todo /\ "master" \notin todo'
         /\ StepCaptures(mem.valid /\ MemReady) <=> mem.valid /\ MemReady /\ ~wait_ready_low
         /\ mem.valid /\ ~wait_ready_low => OnBus /\ mem.acc = req.acc
         /\ StepCaptures(mem.valid /\ MemReady) =>
              req' = [req EXCEPT !.rdata = MemRdata, !.response_ready = TRUE] /\ wait_ready_low'
         /\ ~StepCaptures(mem.valid /\ MemReady) =>
              UNCHANGED req /\ (wait_ready_low' <=> wait_ready_low /\ mem.valid /\ MemReady)
         /\ nba' = IF wait_ready_low \/ ~req.valid THEN IdleNets
                   ELSE [valid |-> TRUE, acc |-> req.acc, id |-> req.id]
         /\ ~wait_ready_low => ~req.response_ready \/ ~req.valid
BY DEF HandshakeInv, Driven, OnBus, Unanswered, MasterSteps, Ready, Done, SpikeBusStep,
       StepCaptures, StepOutputs, ResponseTaken, rtlVars, TypeOK, BusTypeOK

\* The master's block.
LEMMA HandshakeMaster ==
  ASSUME TypeOK, HandshakeInv, MasterSteps, ResponseTaken
  PROVE  HandshakeInv'
<1>1. MemReady' <=> MemReady
  BY MasterCaptures, NetsStay
<1>2. BeforeMaster'
  BY MasterCaptures DEF HandshakeInv, BeforeMaster
<1>3. /\ mem.valid => mem = [valid |-> TRUE, acc |-> mem.acc, id |-> mem.id]
      /\ req'.id = req.id /\ req'.acc = req.acc /\ req'.valid = req.valid
      /\ req.id \in Nat
  BY MasterCaptures DEF TypeOK, RtlTypeOK, BusTypeOK, Nets
<1>4. CASE wait_ready_low \/ ~req.valid
  <2>1. ~nba'.valid /\ mem' = mem /\ (OnBus' => OnBus)
    BY <1>3, <1>4, MasterCaptures DEF IdleNets, StepCaptures, OnBus, Unanswered
  <2>2. ~OnBus
    BY <1>4, MasterCaptures DEF HandshakeInv, Driven, OnBus, Unanswered
  <2> QED BY <1>2, <1>3, <2>1, <2>2, MasterCaptures
          DEF HandshakeInv, Driven, AfterMaster
<1>5. CASE ~wait_ready_low /\ req.valid
  <2>1. nba' = [valid |-> TRUE, acc |-> req.acc, id |-> req.id] /\ Unanswered
    BY <1>5, MasterCaptures DEF Unanswered
  <2>2. mem.valid => nba' = mem
    BY <1>3, <1>5, <2>1, MasterCaptures DEF OnBus
  <2>3. wait_ready_low' <=> mem.valid /\ MemReady
    BY <1>5, MasterCaptures
  <2>4. Unanswered' <=> ~(mem.valid /\ MemReady)
    BY <1>3, <1>5, <2>1, MasterCaptures DEF Unanswered, TypeOK, BusTypeOK
  <2>5. Driven'
    <3>1. "master" \notin todo' /\ mem' = mem
      BY MasterCaptures
    <3>2. nba'.valid /\ nba'.id = req'.id /\ nba'.acc = req'.acc
      BY <1>3, <2>1
    <3>3. wait_ready_low' <=> ~(Unanswered' /\ nba'.id = req'.id)
      BY <2>3, <2>4, <3>2
    <3>4. mem'.valid => mem'.id <= req'.id /\ (mem'.id = req'.id => mem'.acc = req'.acc)
      BY <1>3, <3>1 DEF HandshakeInv, Driven
    <3> QED BY <1>3, <3>1, <3>2, <3>3, <3>4 DEF Driven
  <2>6. AfterMaster'
    BY <1>1, <2>1, <2>2, <2>3, <2>4, MasterCaptures DEF AfterMaster, OnBus
  <2> QED BY <1>2, <2>5, <2>6 DEF HandshakeInv
<1> QED BY <1>4, <1>5

\* The edge itself.
LEMMA HandshakeClock ==
  ASSUME TypeOK, HandshakeInv, ClockEdge
  PROVE  HandshakeInv'
<1>1. /\ todo = {} /\ "master" \in todo' /\ mem' = nba /\ UNCHANGED <<nba, req, wait_ready_low>>
      /\ ram_ready' = (RamSel /\ ~MemReady) /\ prev_iomem_fire' = IomemFire
  BY DEF ClockEdge, PrevIomemFireNext, busVars, ctxVars
<1>2. Driven' /\ AfterMaster'
  BY <1>1 DEF HandshakeInv, Driven, AfterMaster, Unanswered
<1>3. ASSUME nba.valid, mem.valid
      PROVE  nba = mem /\ (wait_ready_low <=> MemReady)
  BY <1>1, <1>3 DEF HandshakeInv, AfterMaster
<1>4. RamSel => mem.valid /\ mem.acc.addr \in RamAddr
  BY DEF RamSel
<1>5. IomemFire => mem.valid /\ MemReady
  BY DEF IomemFire, IomemValid, IomemReady, MemReady, SimMmioSel, ExternalIomemSel, RegSel
<1>6. ASSUME nba.valid, wait_ready_low PROVE mem.valid
  BY <1>1, <1>6 DEF HandshakeInv, AfterMaster
<1>7. ASSUME nba = mem PROVE IomemFire' <=> IomemFire
  BY <1>1, <1>7 DEF IomemFire, IomemValid, IomemReady, SimMmioSel, ExternalIomemSel, RegSel, IsWrite
<1>8. BeforeMaster'
  <2>1. mem'.valid /\ ram_ready' => mem'.acc.addr \in RamAddr
    BY <1>1, <1>3, <1>4
  <2>2. mem'.valid /\ wait_ready_low' => ~ram_ready'
    BY <1>1, <1>3, <1>4, <1>6
  <2>3. mem'.valid /\ IomemFire' => (prev_iomem_fire' <=> wait_ready_low')
    BY <1>1, <1>3, <1>5, <1>6, <1>7
  <2> QED BY <2>1, <2>2, <2>3 DEF BeforeMaster
<1> QED BY <1>2, <1>8 DEF HandshakeInv

\* The other steps of the simulation thread.
LEMMA HandshakeEdge ==
  ASSUME TypeOK, WaitInv, CalledInv, HandshakeInv, EdgeNext
  PROVE  HandshakeInv'
<1> USE DEF workerVars, ctxVars, busVars, socVars, rtlVars, ctlVars, Done
<1>1. ASSUME ~mem.valid, ~nba'.valid, "master" \notin todo', UNCHANGED <<mem, req, wait_ready_low>>
      PROVE  HandshakeInv'
  BY <1>1 DEF HandshakeInv, Driven, BeforeMaster, AfterMaster, OnBus
<1>2. CASE MasterInReset
  BY <1>1, <1>2 DEF MasterInReset, IdleNets, CalledInv
<1>3. CASE MasterFailsInit
  BY <1>1, <1>3 DEF MasterFailsInit, MarkFailed, IdleNets, CalledInv
<1>4. CASE ClockEdge
  BY <1>4, HandshakeClock
<1>5. CASE ReleaseReset \/ Testbench \/ Timeout
  BY <1>5, HandshakeStays DEF ReleaseReset, Testbench, Timeout
<1>6. CASE MasterStartsWorker \/ FinishSetsExitCode \/ FinishStopsWorker \/ FinishJoins \/ ExitMain
  BY <1>6, HandshakeStays DEF MasterStartsWorker, StartSpikeOnce, FinishSetsExitCode,
     SetExitCode, FinishStopsWorker, StopWorker, FinishJoins, ExitMain
<1> QED BY <1>2, <1>3, <1>4, <1>5, <1>6 DEF EdgeNext

\* HandshakeInv is an invariant under the timing assumption.
LEMMA HandshakeInvariant == PromptSpec => [](TypeOK /\ WaitInv /\ CalledInv /\ HandshakeInv)
<1>1. Init => HandshakeInv
  BY DEF Init, BusInit, HandshakeInv, Driven, BeforeMaster, AfterMaster, OnBus, IdleNets
<1>2. TypeOK /\ WaitInv /\ CalledInv /\ HandshakeInv /\ [PromptNext]_vars => HandshakeInv'
  <2> SUFFICES ASSUME TypeOK, WaitInv, CalledInv, HandshakeInv, [PromptNext]_vars
               PROVE  HandshakeInv'
    OBVIOUS
  <2>1. CASE UNCHANGED vars
    BY <2>1, HandshakeStays DEF vars, busVars, ctxVars, socVars, rtlVars, ctlVars
  <2> QED
    BY <2>1, HandshakeEdge, HandshakeMaster, HandshakeWorker DEF PromptNext, Exited
<1> QED
  BY <1>1, <1>2, PromptIsSpec, TypeCorrect, WaitInvariant, CalledInvariant, PTL
     DEF PromptSpec

\* Every response spike_bus_step stores comes from a handshake of the request
\* it answers.
THEOREM ResponseTheorem == PromptSpec => ResponseIsOwn
<1> DEFINE Own == ~req.response_ready /\ req'.response_ready
                    => mem.valid /\ mem.id = req.id
<1>1. TypeOK /\ HandshakeInv /\ [PromptNext]_vars => [Own]_vars
  <2> SUFFICES ASSUME TypeOK, HandshakeInv, PromptNext PROVE Own
    OBVIOUS
  <2>1. CASE MasterSteps /\ ResponseTaken
    BY <2>1, MasterCaptures DEF OnBus
  <2>2. CASE WorkerIssues
    BY <2>2 DEF WorkerIssues
  <2>3. CASE WorkerTakesResponse
    BY <2>3 DEF WorkerTakesResponse, ResponsePending, ResponseCut
  <2>4. CASE UNCHANGED req
    BY <2>4
  <2>5. CASE EdgeNext
    BY <2>4, <2>5 DEF EdgeNext, ReleaseReset, MasterInReset, MasterFailsInit,
         MasterStartsWorker, Testbench, Timeout, FinishSetsExitCode,
         FinishStopsWorker, FinishJoins, ClockEdge, ExitMain, MarkFailed,
         StartSpikeOnce, SetExitCode, StopWorker, busVars, ctxVars
  <2>6. CASE ThreadNext
    BY <2>2, <2>3, <2>4, <2>6
       DEF ThreadNext, WorkerNext, SpuriousWakeup, WorkerLeaves, WorkerHitsLimit,
         WorkerBegins, WorkerCounts, WorkerThrows, WorkerRefused,
         WorkerSleepsAgain, WorkerCut, ctxVars
  <2> QED BY <2>1, <2>4, <2>5, <2>6 DEF PromptNext, Exited, vars, busVars, ctxVars
<1> QED BY <1>1, HandshakeInvariant, PTL DEF PromptSpec, ResponseIsOwn
-----------------------------------------------------------------------------
(* The RAM.  It is clocked while an access waits for ready and once more    *)
(* while the answered access is still shown, so a store is written twice:   *)
(* the second time changes nothing.                                         *)

RamInv ==
  /\ mem.valid /\ ram_ready /\ ~IsWrite => ram_rdata = ram[mem.acc.addr]
  /\ RamSel /\ IsWrite /\ (ram_ready \/ ~OnBus) => ram[mem.acc.addr] = mem.acc.val
  /\ req.valid /\ req.response_ready /\ req.acc.op # "store" =>
       req.rdata = Atomic!WordAt(req.acc.addr)

\* A write to RAM is clocked in by the edge only if the access is unanswered.
LEMMA RamWrites ==
  ASSUME TypeOK, HandshakeInv, RamInv, ClockEdge
  PROVE  ram' = ram \/ (OnBus /\ mem.acc = req.acc /\ RamWen)
<1>1. CASE RamWen /\ OnBus
  BY <1>1 DEF OnBus, HandshakeInv, Driven
<1>2. CASE RamWen /\ ~OnBus
  <2>1. ram[mem.acc.addr] = mem.acc.val
    BY <1>2 DEF RamWen, RamInv
  <2>2. ram' = [ram EXCEPT ![mem.acc.addr] = mem.acc.val] /\ ram \in [RamAddr -> Word]
    BY <1>2 DEF ClockEdge, TypeOK, RtlTypeOK
  <2> QED BY <2>1, <2>2
<1>3. CASE ~RamWen
  BY <1>3 DEF ClockEdge
<1> QED BY <1>1, <1>2, <1>3

LEMMA RamClock ==
  ASSUME TypeOK, HandshakeInv, RamInv, ClockEdge
  PROVE  RamInv'
<1>1. /\ todo = {} /\ mem' = nba /\ UNCHANGED <<req, wait_ready_low>>
      /\ ram_ready' = (RamSel /\ ~MemReady)
      /\ ram_rdata' = IF RamSel THEN ram[mem.acc.addr] ELSE ram_rdata
      /\ ram' = IF RamWen THEN [ram EXCEPT ![mem.acc.addr] = mem.acc.val] ELSE ram
  BY DEF ClockEdge, busVars, ctxVars
<1>2. ram \in [RamAddr -> Word]
  BY DEF TypeOK, RtlTypeOK
<1>3. ASSUME nba.valid, mem.valid
      PROVE  nba = mem /\ (wait_ready_low <=> MemReady)
  BY <1>1, <1>3 DEF HandshakeInv, AfterMaster
<1>4. RamSel => mem.valid /\ mem.acc.addr \in RamAddr
  BY DEF RamSel
<1>5. ASSUME mem'.valid, ram_ready', ~IsWrite'
      PROVE  ram_rdata' = ram'[mem'.acc.addr]
  <2>1. nba = mem /\ RamSel /\ ~IsWrite
    BY <1>1, <1>3, <1>4, <1>5 DEF IsWrite
  <2> QED BY <1>1, <2>1 DEF RamWen
<1>6. ASSUME RamSel', IsWrite', ram_ready' \/ ~OnBus'
      PROVE  ram'[mem'.acc.addr] = mem'.acc.val
  <2>1. nba.valid /\ nba.acc.addr \in RamAddr /\ nba.acc.op = "store"
    BY <1>1, <1>6 DEF RamSel, IsWrite
  <2>2. CASE ram_ready'
    <3>1. nba = mem /\ RamWen
      BY <1>1, <1>3, <1>4, <2>1, <2>2 DEF RamWen, IsWrite
    <3> QED BY <1>1, <1>2, <2>1, <3>1
  <2>3. CASE ~ram_ready'
    <3>1. wait_ready_low
      BY <1>1, <1>6, <2>1, <2>3 DEF OnBus, Unanswered, HandshakeInv, Driven
    <3>2. mem.valid
      BY <1>1, <2>1, <3>1 DEF HandshakeInv, AfterMaster
    <3>3. nba = mem /\ MemReady
      BY <1>3, <2>1, <3>1, <3>2
    <3>4. ram_ready /\ RamSel /\ IsWrite
      BY <2>1, <3>2, <3>3, NetValues DEF HandshakeInv, BeforeMaster, IsWrite
    <3>5. ram[mem.acc.addr] = mem.acc.val /\ ram' = ram
      BY <1>1, <3>3, <3>4 DEF RamInv, RamWen
    <3> QED BY <1>1, <3>3, <3>5
  <2> QED BY <2>2, <2>3
<1>7. ASSUME req.valid, req.response_ready, req.acc.op # "store"
      PROVE  req'.rdata = Atomic!WordAt(req.acc.addr)'
  <2>1. ram' = ram
    BY <1>7, RamWrites DEF OnBus, Unanswered
  <2> QED BY <1>1, <1>7, <2>1 DEF RamInv, Atomic!WordAt
<1> QED BY <1>1, <1>5, <1>6, <1>7 DEF RamInv

LEMMA RamMaster ==
  ASSUME TypeOK, HandshakeInv, RamInv, MasterSteps, ResponseTaken
  PROVE  RamInv'
<1>1. UNCHANGED <<mem, ram, ram_ready, ram_rdata, flash_ready>>
  BY DEF MasterSteps
<1>2. /\ req'.valid = req.valid /\ req'.id = req.id /\ req'.acc = req.acc
      /\ req.response_ready => req' = req
  BY MasterCaptures, <1>1 DEF TypeOK, BusTypeOK, StepCaptures
<1>3. ASSUME ~StepCaptures(mem.valid /\ MemReady)
      PROVE  RamInv'
  <2>1. req' = req
    BY <1>3, MasterCaptures
  <2> QED BY <1>1, <2>1, NetsStay DEF RamInv, OnBus, Unanswered, Atomic!WordAt
<1>4. ASSUME StepCaptures(mem.valid /\ MemReady)
      PROVE  RamInv'
  <2>1. /\ mem.valid /\ MemReady /\ OnBus /\ mem.acc = req.acc
        /\ req' = [req EXCEPT !.rdata = MemRdata, !.response_ready = TRUE]
    BY <1>4, MasterCaptures
  <2>2. req'.rdata = MemRdata
    BY <2>1 DEF TypeOK, BusTypeOK
  <2>3. ram_ready => mem.acc.addr \in RamAddr
    BY <2>1 DEF HandshakeInv, BeforeMaster
  <2>4. mem.acc.addr \in RamAddr => ram_ready
    BY <2>1, <2>3, NetValues
  <2>5. MemRdata = IF mem.acc.addr \in RamAddr THEN ram_rdata ELSE "zero"
    BY <2>1, <2>3, NetValues
  <2>6. req.acc.op # "store" => req'.rdata = Atomic!WordAt(req.acc.addr)
    BY <2>1, <2>2, <2>4, <2>5 DEF RamInv, IsWrite, Atomic!WordAt
  <2>7. RamSel /\ IsWrite => ram[mem.acc.addr] = mem.acc.val
    BY <2>4 DEF RamInv, RamSel
  <2>8. Atomic!WordAt(req.acc.addr)' = Atomic!WordAt(req.acc.addr)
    BY <1>1, <1>2 DEF Atomic!WordAt
  <2> QED BY <1>1, <1>2, <2>6, <2>7, <2>8, NetsStay DEF RamInv
<1> QED BY <1>3, <1>4

LEMMA RamWorker ==
  ASSUME TypeOK, HandshakeInv, RamInv, ThreadNext
  PROVE  RamInv'
<1> USE DEF workerVars, ctxVars, socVars, rtlVars, ctlVars
<1>0. UNCHANGED <<mem, ram, ram_ready, ram_rdata, flash_ready>>
  BY DEF ThreadNext
<1>1. CASE WorkerIssues
  <2>1. ~req.valid /\ ~req'.response_ready
    BY <1>1 DEF WorkerIssues, SlotFree
  <2> QED BY <1>0, <2>1, NetsStay DEF RamInv, OnBus, Unanswered
<1>2. CASE WorkerTakesResponse
  <2>1. req.response_ready /\ ~req'.valid
    BY <1>2 DEF WorkerTakesResponse, ResponsePending, ResponseCut, TypeOK, BusTypeOK
  <2> QED BY <1>0, <2>1, NetsStay DEF RamInv, OnBus, Unanswered
<1>3. CASE UNCHANGED req
  BY <1>0, <1>3, NetsStay DEF RamInv, OnBus, Unanswered, Atomic!WordAt
<1> QED
  BY <1>1, <1>2, <1>3
     DEF ThreadNext, WorkerNext, SpuriousWakeup, WorkerLeaves, WorkerHitsLimit,
         WorkerBegins, WorkerCounts, WorkerThrows, WorkerRefused,
         WorkerSleepsAgain, WorkerCut

\* Only the clock edge touches the RAM, only the worker and the master a request.
LEMMA OtherBlocks ==
  ASSUME EdgeNext, ~ClockEdge
  PROVE  UNCHANGED <<mem, ram, ram_ready, ram_rdata, flash_ready, prev_iomem_fire,
                     ram_read_count, ram_write_count, req, wait_ready_low, served>>
BY DEF EdgeNext, ReleaseReset, MasterInReset, MasterFailsInit,
       MasterStartsWorker, Testbench, Timeout, FinishSetsExitCode,
       FinishStopsWorker, FinishJoins, ExitMain, MarkFailed,
       StartSpikeOnce, SetExitCode, StopWorker, busVars, workerVars, ctxVars, socVars,
       rtlVars, ctlVars

\* RamInv is an invariant under the timing assumption.
LEMMA RamInvariant == PromptSpec => []RamInv
<1>1. Init => RamInv
  BY DEF Init, BusInit, RamInv, IdleNets, RamSel
<1>2. TypeOK /\ HandshakeInv /\ RamInv /\ [PromptNext]_vars => RamInv'
  <2> SUFFICES ASSUME TypeOK, HandshakeInv, RamInv, [PromptNext]_vars
               PROVE  RamInv'
    OBVIOUS
  <2>1. ASSUME UNCHANGED <<mem, ram, ram_ready, ram_rdata, flash_ready, req>>
        PROVE  RamInv'
    BY <2>1, NetsStay DEF RamInv, OnBus, Unanswered, Atomic!WordAt
  <2>2. CASE UNCHANGED vars
    BY <2>1, <2>2 DEF vars, busVars, ctxVars, socVars, rtlVars
  <2>3. CASE EdgeNext
    BY <2>1, <2>3, RamClock, OtherBlocks
  <2> QED
    BY <2>2, <2>3, RamMaster, RamWorker DEF PromptNext, Exited
<1> QED BY <1>1, <1>2, HandshakeInvariant, PTL DEF PromptSpec

-----------------------------------------------------------------------------
(* The writes the testbench acts on.                                        *)

HandledInv ==
  /\ \A k \in DOMAIN handled :
       /\ handled[k].id <= req.id
       /\ Unanswered /\ handled[k].id = req.id =>
            "master" \in todo /\ SimMmioSel /\ mem.id = req.id
       /\ FirmwareWrites /\ "tb" \in todo => handled[k].id < mem.id
  /\ WritesOnce
  /\ SimMmioSel /\ IsWrite /\ ("tb" \notin todo \/ prev_iomem_fire) =>
       \E k \in DOMAIN handled : handled[k].id = mem.id

\* What the testbench sees depends on the nets alone.
LEMMA SeenStays ==
  ASSUME UNCHANGED <<mem, ram_ready, flash_ready, prev_iomem_fire>>
  PROVE  FirmwareWrites' <=> FirmwareWrites
BY NetsStay DEF FirmwareWrites, IomemFireNew

LEMMA SeenWrites ==
  ASSUME TypeOK
  PROVE  /\ SimMmioSel /\ IsWrite => IomemFire /\ mem.valid
         /\ FirmwareWrites <=> SimMmioSel /\ IsWrite /\ ~prev_iomem_fire
         /\ SimMmioSel => MemReady
         /\ mem.id \in Nat /\ req.id \in Nat
         /\ handled \in Seq([id : Nat, val : Word])
BY RamAssumption DEF FirmwareWrites, IomemFireNew, IomemFire, IomemValid, IomemReady, SimMmioSel,
   ExternalIomemSel, RegSel, MemReady, TypeOK, BusTypeOK, RtlTypeOK, TbTypeOK, Nets

\* The entries of the log of writes.
LEMMA HandledTypes ==
  ASSUME TypeOK
  PROVE  /\ Len(handled) \in Nat /\ DOMAIN handled = 1 .. Len(handled)
         /\ \A k \in DOMAIN handled : handled[k].id \in Nat
<1> DEFINE Entry == [id : Nat, val : Word]
<1>1. handled \in Seq(Entry)
  BY DEF TypeOK, TbTypeOK
<1>2. \A e \in Entry : e.id \in Nat
  OBVIOUS
<1> HIDE DEF Entry
<1>3. Len(handled) \in Nat /\ DOMAIN handled = 1 .. Len(handled)
  BY <1>1
<1>4. \A k \in DOMAIN handled : handled[k] \in Entry
  BY <1>1
<1> QED BY <1>2, <1>3, <1>4

LEMMA HandledTestbench ==
  ASSUME TypeOK, HandshakeInv, HandledInv, Testbench
  PROVE  HandledInv'
<1>1. /\ UNCHANGED <<mem, ram_ready, flash_ready, prev_iomem_fire, req>>
      /\ "tb" \in todo /\ "tb" \notin todo' /\ ("master" \in todo' <=> "master" \in todo)
  BY DEF Testbench, Ready, Done, rtlVars, busVars, ctxVars
<1>2. CASE ~FirmwareWrites
  <2>1. handled' = handled
    BY <1>2 DEF Testbench
  <2>2. SimMmioSel /\ IsWrite => \E k \in DOMAIN handled : handled[k].id = mem.id
    BY <1>2, SeenWrites DEF HandledInv
  <2> QED BY <1>1, <2>1, <2>2, NetsStay DEF HandledInv, Unanswered, WritesOnce
<1>3. CASE FirmwareWrites
  <2> DEFINE n == Len(handled) + 1
  <2>1. /\ handled' = Append(handled, [id |-> mem.id, val |-> mem.acc.val])
        /\ handled \in Seq([id : Nat, val : Word]) /\ mem.id \in Nat /\ req.id \in Nat
        /\ SimMmioSel /\ MemReady /\ mem.valid
    BY <1>3, SeenWrites DEF Testbench
  <2>2. /\ DOMAIN handled = 1 .. Len(handled) /\ Len(handled) \in Nat
        /\ DOMAIN handled' = 1 .. n
        /\ handled'[n].id = mem.id
        /\ \A k \in 1 .. Len(handled) : handled'[k] = handled[k]
    BY <2>1
  <2> HIDE DEF n
  <2>3. \A k \in DOMAIN handled : handled[k].id < mem.id
    BY <1>1, <1>3 DEF HandledInv
  <2>4. WritesOnce'
    <3> SUFFICES ASSUME NEW j \in 1 .. n, NEW k \in 1 .. n, j < k
                 PROVE  handled'[j].id < handled'[k].id
      BY <2>2 DEF WritesOnce
    <3>1. j \in 1 .. Len(handled)
      BY <2>2 DEF n
    <3>2. CASE k = n
      BY <2>2, <2>3, <3>1, <3>2
    <3>3. CASE k # n
      <4>1. k \in 1 .. Len(handled)
        BY <2>2, <3>3 DEF n
      <4> QED BY <2>2, <3>1, <4>1 DEF HandledInv, WritesOnce
    <3> QED BY <3>2, <3>3
  <2>5. mem.id <= req.id /\ (Unanswered /\ mem.id = req.id => "master" \in todo)
    BY <2>1 DEF HandshakeInv, Driven, AfterMaster, OnBus
  <2>6. ASSUME NEW k \in 1 .. n
        PROVE  /\ handled'[k].id <= req.id
               /\ Unanswered /\ handled'[k].id = req.id =>
                    "master" \in todo /\ SimMmioSel /\ mem.id = req.id
    <3>1. CASE k = n
      BY <2>1, <2>2, <2>5, <3>1
    <3>2. CASE k # n
      <4>1. k \in DOMAIN handled /\ handled'[k] = handled[k]
        BY <2>2, <3>2 DEF n
      <4> QED BY <4>1 DEF HandledInv
    <3> QED BY <3>1, <3>2
  <2>7. \E k \in DOMAIN handled' : handled'[k].id = mem.id
    BY <2>2 DEF n
  <2> QED BY <1>1, <2>2, <2>4, <2>6, <2>7, NetsStay DEF HandledInv, Unanswered
<1> QED BY <1>2, <1>3

LEMMA HandledClock ==
  ASSUME TypeOK, HandshakeInv, HandledInv, ClockEdge
  PROVE  HandledInv'
<1>1. /\ todo = {} /\ {"master", "tb"} \subseteq todo' /\ mem' = nba /\ UNCHANGED <<req, handled>>
      /\ prev_iomem_fire' = IomemFire /\ UNCHANGED wait_ready_low
  BY DEF ClockEdge, busVars, ctxVars, tbVars, PrevIomemFireNext
<1>2. ASSUME nba.valid, mem.valid
      PROVE  nba = mem /\ (wait_ready_low <=> MemReady)
  BY <1>1, <1>2 DEF HandshakeInv, AfterMaster
<1>3. TypeOK'
  BY TypeStep DEF Next, EdgeNext
<1>4. WritesOnce' /\ \A k \in DOMAIN handled : handled[k].id <= req.id /\ handled[k].id \in Nat
  BY <1>1, HandledTypes DEF HandledInv, WritesOnce
<1>5. \A k \in DOMAIN handled : ~(Unanswered /\ handled[k].id = req.id)
  BY <1>1 DEF HandledInv
<1>6. ASSUME FirmwareWrites', NEW k \in DOMAIN handled
      PROVE  handled[k].id < nba.id
  <2>1. nba.valid /\ ~IomemFire /\ SimMmioSel' /\ IsWrite'
    BY <1>1, <1>6 DEF FirmwareWrites, IomemFireNew, IomemFire, IomemValid, SimMmioSel,
       ExternalIomemSel, RegSel
  <2>2. ~mem.valid
    <3> SUFFICES ASSUME mem.valid PROVE FALSE
      OBVIOUS
    <3>1. SimMmioSel /\ IsWrite
      BY <1>1, <1>2, <2>1 DEF SimMmioSel, IsWrite
    <3> QED BY <2>1, <3>1, SeenWrites
  <2>3. Unanswered /\ nba.id = req.id
    BY <1>1, <2>1, <2>2 DEF HandshakeInv, Driven, AfterMaster
  <2> QED BY <1>4, <1>5, <2>3, SeenWrites
<1>7. ASSUME SimMmioSel', IsWrite', IomemFire
      PROVE  \E k \in DOMAIN handled : handled[k].id = nba.id
  <2>1. nba.valid /\ mem.valid
    BY <1>1, <1>7 DEF SimMmioSel, IomemFire, IomemValid, ExternalIomemSel, RegSel
  <2>2. nba = mem /\ SimMmioSel /\ IsWrite
    BY <1>1, <1>2, <1>7, <2>1 DEF SimMmioSel, IsWrite
  <2> QED BY <1>1, <2>2 DEF HandledInv
<1> QED BY <1>1, <1>4, <1>5, <1>6, <1>7 DEF HandledInv, Unanswered

LEMMA HandledMaster ==
  ASSUME TypeOK, HandshakeInv, HandledInv, MasterSteps, ResponseTaken
  PROVE  HandledInv'
<1>1. /\ UNCHANGED <<mem, ram_ready, flash_ready, prev_iomem_fire, handled>>
      /\ "master" \in todo /\ ("tb" \in todo' <=> "tb" \in todo)
  BY DEF MasterSteps, Ready, Done, tbVars
<1>2. req'.id = req.id /\ req'.valid = req.valid
  BY MasterCaptures DEF TypeOK, BusTypeOK
<1>3. ASSUME NEW k \in DOMAIN handled, Unanswered', handled[k].id = req.id
      PROVE  FALSE
  <2>1. Unanswered
    BY <1>2, <1>3, MasterCaptures DEF Unanswered, TypeOK, BusTypeOK
  <2>2. SimMmioSel /\ mem.id = req.id
    BY <1>3, <2>1 DEF HandledInv
  <2>3. mem.valid /\ MemReady /\ ~wait_ready_low
    BY <1>1, <2>1, <2>2, SeenWrites DEF SimMmioSel, HandshakeInv, Driven
  <2>4. req'.response_ready
    BY <2>3, MasterCaptures DEF TypeOK, BusTypeOK
  <2> QED BY <1>3, <2>4 DEF Unanswered
<1> QED BY <1>1, <1>2, <1>3, NetsStay, SeenStays DEF HandledInv, WritesOnce

LEMMA HandledWorker ==
  ASSUME TypeOK, HandshakeInv, HandledInv, ThreadNext
  PROVE  HandledInv'
<1> USE DEF workerVars, ctxVars, socVars, rtlVars, tbVars, ctlVars
<1>0. UNCHANGED <<mem, ram_ready, flash_ready, prev_iomem_fire, handled, todo>>
  BY DEF ThreadNext
<1>1. \A k \in DOMAIN handled : handled[k].id \in Nat
  BY HandledTypes
<1>2. CASE WorkerIssues
  <2>1. req'.id = req.id + 1 /\ req.id \in Nat
    BY <1>2, SeenWrites DEF WorkerIssues
  <2>2. \A k \in DOMAIN handled : handled[k].id < req'.id
    BY <1>1, <2>1 DEF HandledInv
  <2> QED BY <1>0, <1>1, <2>1, <2>2, NetsStay, SeenStays DEF HandledInv, WritesOnce
<1>3. CASE WorkerTakesResponse
  <2>1. req'.id = req.id /\ ~req'.valid
    BY <1>3 DEF WorkerTakesResponse, TypeOK, BusTypeOK
  <2> QED BY <1>0, <2>1, NetsStay, SeenStays DEF HandledInv, WritesOnce, Unanswered
<1>4. CASE UNCHANGED req
  BY <1>0, <1>4, NetsStay, SeenStays DEF HandledInv, WritesOnce, Unanswered
<1> QED
  BY <1>2, <1>3, <1>4
     DEF ThreadNext, WorkerNext, SpuriousWakeup, WorkerLeaves, WorkerHitsLimit,
         WorkerBegins, WorkerCounts, WorkerThrows, WorkerRefused,
         WorkerSleepsAgain, WorkerCut

\* A block other than the testbench's leaves handled alone, and another than the
\* master's leaves the master's where it is.
LEMMA OtherWrites ==
  ASSUME EdgeNext, ~ClockEdge, ~Testbench
  PROVE  /\ UNCHANGED handled
         /\ "tb" \in todo' <=> "tb" \in todo
         /\ "master" \in todo' => "master" \in todo
         /\ MasterInReset \/ MasterFailsInit \/ ("master" \in todo' <=> "master" \in todo)
BY DEF EdgeNext, ReleaseReset, MasterInReset, MasterFailsInit,
       MasterStartsWorker, Timeout, FinishSetsExitCode,
       FinishStopsWorker, FinishJoins, ExitMain, Done, socVars, tbVars, ctlVars

\* HandledInv is an invariant under the timing assumption.
LEMMA HandledInvariant == PromptSpec => []HandledInv
<1>1. Init => HandledInv
  BY DEF Init, BusInit, HandledInv, IdleNets, SimMmioSel, WritesOnce
<1>2. TypeOK /\ CalledInv /\ HandshakeInv /\ HandledInv /\ [PromptNext]_vars => HandledInv'
  <2> SUFFICES ASSUME TypeOK, CalledInv, HandshakeInv, HandledInv, [PromptNext]_vars
               PROVE  HandledInv'
    OBVIOUS
  <2>1. ASSUME UNCHANGED <<mem, ram_ready, flash_ready, prev_iomem_fire, req, handled>>,
               "tb" \in todo' <=> "tb" \in todo,
               Unanswered => ("master" \in todo' <=> "master" \in todo)
        PROVE  HandledInv'
    BY <2>1, NetsStay, SeenStays DEF HandledInv, WritesOnce, Unanswered
  <2>2. CASE UNCHANGED vars
    BY <2>1, <2>2 DEF vars, busVars, ctxVars, socVars, rtlVars, tbVars, ctlVars
  <2>3. CASE EdgeNext /\ ~ClockEdge /\ ~Testbench
    <3>1. MasterInReset \/ MasterFailsInit => ~Unanswered
      BY DEF MasterInReset, MasterFailsInit, CalledInv, Unanswered
    <3> QED BY <2>1, <2>3, <3>1, OtherBlocks, OtherWrites
  <2> QED
    BY <2>2, <2>3, HandledMaster, HandledWorker, HandledClock, HandledTestbench
       DEF PromptNext, Exited
<1> QED BY <1>1, <1>2, HandshakeInvariant, PTL DEF PromptSpec

\* Each firmware write is acted on once, whatever the firmware and however the
\* blocks of an edge are ordered, while the worker is prompt.
THEOREM WritesOnceTheorem == PromptSpec => []WritesOnce
<1>1. HandledInv => WritesOnce
  BY DEF HandledInv
<1> QED BY <1>1, HandledInvariant, PTL

\* No new firmware write is taken for the second edge of the one before it,
\* whatever stores the firmware makes, while the worker is prompt.
THEOREM PromptWritesTheorem == PromptSpec => []NoWriteSuppressed
<1>1. HandledInv => NoWriteSuppressed
  BY DEF HandledInv, NoWriteSuppressed
<1> QED BY <1>1, HandledInvariant, PTL

-----------------------------------------------------------------------------
(* The RAM counters.                                                        *)

\* No counter counts a handshake that was not answered.
CountInv ==
  /\ CountersMatch
  /\ ReadToCount <= served.reads
  /\ WriteToCount <= served.writes

\* The counters follow from the nets and the number of accesses answered.
LEMMA CountStays ==
  ASSUME CountInv,
         UNCHANGED <<mem, ram_ready, flash_ready, ram_read_count, ram_write_count, served>>,
         mem.valid => ("master" \in todo' <=> "master" \in todo)
  PROVE  CountInv'
<1>1. UNCHANGED <<ReadToCount, WriteToCount>>
  BY NetsStay DEF ReadToCount, WriteToCount, RamHandshake, RamSel
<1> QED BY <1>1 DEF CountInv, CountersMatch, AtMost

\* A RAM handshake at an edge is the capture of a RAM access by that edge's call.
LEMMA RamCaptures ==
  ASSUME TypeOK, HandshakeInv, MasterSteps, ResponseTaken
  PROVE  /\ StepCaptures(mem.valid /\ MemReady) /\ req.acc.addr \in RamAddr <=> RamHandshake
         /\ RamHandshake => mem.acc = req.acc
<1>1. mem.valid /\ ram_ready => mem.acc.addr \in RamAddr /\ ~wait_ready_low
  BY MasterCaptures DEF HandshakeInv, BeforeMaster
<1>2. ASSUME RamHandshake
      PROVE  StepCaptures(mem.valid /\ MemReady) /\ mem.acc = req.acc
  <2>1. mem.valid /\ MemReady /\ mem.acc.addr \in RamAddr
    BY <1>2 DEF RamHandshake, RamSel
  <2>2. ram_ready
    BY <1>1, <2>1, NetValues
  <2> QED BY <1>1, <2>1, <2>2, MasterCaptures
<1>3. ASSUME StepCaptures(mem.valid /\ MemReady), req.acc.addr \in RamAddr
      PROVE  RamHandshake
  BY <1>3, MasterCaptures DEF RamHandshake, RamSel
<1>4. RamHandshake => mem.acc.addr \in RamAddr
  BY DEF RamHandshake, RamSel
<1> QED BY <1>2, <1>3, <1>4

LEMMA CountMaster ==
  ASSUME TypeOK, HandshakeInv, CountInv, MasterSteps, ResponseTaken
  PROVE  CountInv'
<1>1. /\ UNCHANGED <<mem, ram_ready, flash_ready, ram_read_count, ram_write_count>>
      /\ "master" \in todo /\ "master" \notin todo'
      /\ served \in [reads : Nat, writes : Nat]
  BY DEF MasterSteps, Ready, Done, TypeOK, CtlTypeOK
<1>2. /\ ReadToCount = 0 /\ WriteToCount = 0
      /\ ReadToCount' = IF RamHandshake /\ ~IsWrite THEN 1 ELSE 0
      /\ WriteToCount' = IF RamHandshake /\ IsWrite THEN 1 ELSE 0
  BY <1>1, NetsStay DEF ReadToCount, WriteToCount, RamHandshake, IsWrite
<1>3. /\ served'.reads = served.reads + ReadToCount'
      /\ served'.writes = served.writes + WriteToCount'
  <2>1. CASE RamHandshake
    <3>1. /\ StepCaptures(mem.valid /\ MemReady) /\ req.acc.addr \in RamAddr
          /\ req.acc.op = "store" <=> IsWrite
      BY <2>1, RamCaptures DEF IsWrite
    <3> QED BY <1>1, <1>2, <2>1, <3>1 DEF MasterSteps
  <2>2. CASE ~RamHandshake
    <3>1. served' = served
      BY <2>2, RamCaptures DEF MasterSteps
    <3> QED BY <1>1, <1>2, <2>2, <3>1
  <2> QED BY <2>1, <2>2
<1>4. ram_read_count = AtMost(served.reads) /\ ram_write_count = AtMost(served.writes)
  BY <1>1, <1>2 DEF CountInv, CountersMatch
<1>5. /\ served'.reads - ReadToCount' = served.reads
      /\ served'.writes - WriteToCount' = served.writes
      /\ ReadToCount' <= served'.reads
      /\ WriteToCount' <= served'.writes
  BY <1>1, <1>2, <1>3
<1> QED BY <1>1, <1>4, <1>5 DEF CountInv, CountersMatch, AtMost

LEMMA CountClock ==
  ASSUME TypeOK, CountInv, ClockEdge
  PROVE  CountInv'
<1>1. /\ todo = {} /\ "master" \in todo' /\ UNCHANGED served
      /\ ram_read_count' = IF RamHandshake /\ ~IsWrite
                           THEN Capped(ram_read_count) ELSE ram_read_count
      /\ ram_write_count' = IF RamHandshake /\ IsWrite
                            THEN Capped(ram_write_count) ELSE ram_write_count
  BY DEF ClockEdge
<1>2. served.reads \in Nat /\ served.writes \in Nat
  BY DEF TypeOK, CtlTypeOK
<1>3. ReadToCount' = 0 /\ WriteToCount' = 0
  BY <1>1 DEF ReadToCount, WriteToCount
<1>4. /\ ReadToCount = IF RamHandshake /\ ~IsWrite THEN 1 ELSE 0
      /\ WriteToCount = IF RamHandshake /\ IsWrite THEN 1 ELSE 0
  BY <1>1 DEF ReadToCount, WriteToCount, IsWrite
<1>5. ram_read_count' = AtMost(served.reads) /\ ram_write_count' = AtMost(served.writes)
  BY <1>1, <1>2, <1>4, CountAssumption DEF CountInv, CountersMatch, AtMost, Capped
<1> QED BY <1>1, <1>2, <1>3, <1>5 DEF CountInv, CountersMatch, AtMost

\* CountInv is an invariant under the timing assumption.
LEMMA CountInvariant == PromptSpec => []CountInv
<1>1. Init => CountInv
  BY CountAssumption
     DEF Init, BusInit, CountInv, CountersMatch, AtMost, ReadToCount, WriteToCount,
         RamHandshake, RamSel, IdleNets
<1>2. TypeOK /\ CalledInv /\ HandshakeInv /\ CountInv /\ [PromptNext]_vars => CountInv'
  <2> SUFFICES ASSUME TypeOK, CalledInv, HandshakeInv, CountInv, [PromptNext]_vars
               PROVE  CountInv'
    OBVIOUS
  <2>1. CASE UNCHANGED vars
    BY <2>1, CountStays DEF vars, busVars, ctxVars, socVars, rtlVars, ctlVars
  <2>2. CASE EdgeNext /\ ~ClockEdge /\ ~Testbench
    <3>1. MasterInReset \/ MasterFailsInit => ~mem.valid
      BY DEF MasterInReset, MasterFailsInit, CalledInv
    <3> QED BY <2>2, <3>1, OtherBlocks, OtherWrites, CountStays
  <2>3. CASE Testbench
    BY <2>3, CountStays DEF Testbench, Done, rtlVars
  <2>4. CASE ThreadNext
    BY <2>4, CountStays DEF ThreadNext, socVars, rtlVars, ctlVars
  <2> QED
    BY <2>1, <2>2, <2>3, <2>4, CountMaster, CountClock DEF PromptNext, Exited
<1> QED BY <1>1, <1>2, HandshakeInvariant, PTL DEF PromptSpec

\* Every RAM access Spike made is counted once: no edge counts an access before
\* the master has answered it, or once more while it waits for ready to fall.
THEOREM CountersTheorem == PromptSpec => []CountersMatch
<1>1. CountInv => CountersMatch
  BY DEF CountInv
<1> QED BY <1>1, CountInvariant, PTL

-----------------------------------------------------------------------------
(* The handshake implements AtomicBus.  An access takes effect when its RAM *)
(* access is clocked in, or in the edge that answers it: at the testbench's *)
(* block for a protocol byte the testbench sees first, else at the master's.*)

Acted == [k \in DOMAIN handled |-> handled[k].val]
Console == Acted \o Arriving
Gone == req.valid /\ wpc # "response"

\* A step the atomic bus does not see.
LEMMA AtomicStutter ==
  ASSUME UNCHANGED <<ram, Console, last>>,
         req'.valid = req.valid, req'.acc = req.acc,
         Gone' <=> Gone,
         req.valid => (TookEffect' <=> TookEffect)
  PROVE  UNCHANGED Atomic!aVars
<1>1. Gone' = Gone
  BY DEF Gone
<1>2. (req.valid /\ TookEffect)' = (req.valid /\ TookEffect)
  OBVIOUS
<1> QED BY <1>1, <1>2 DEF Atomic!aVars, Console, Acted, Gone

\* A step at which the access under way takes effect.
LEMMA AtomicPerform ==
  ASSUME TypeOK, req.valid, ~TookEffect, TookEffect',
         req'.valid = req.valid, req'.acc = req.acc, UNCHANGED <<wpc, last>>,
         ram' = IF req.acc.op = "store" /\ req.acc.addr \in RamAddr
                THEN [ram EXCEPT ![req.acc.addr] = req.acc.val] ELSE ram,
         Console' = IF req.acc.op = "store" /\ req.acc.addr = "sim_mmio"
                    THEN Append(Console, req.acc.val) ELSE Console
  PROVE  Atomic!Perform
<1>1. req'.valid = TRUE /\ (req'.valid /\ TookEffect') = TRUE
  BY DEF TypeOK, BusTypeOK
<1>2. Gone' = Gone
  BY DEF Gone
<1> QED BY <1>1, <1>2 DEF Atomic!Perform, Console, Acted, Gone

\* What a step that leaves the nets alone preserves of the mapping.
LEMMA MappingStays ==
  ASSUME UNCHANGED <<mem, ram_ready, flash_ready, prev_iomem_fire>>
  PROVE  /\ FirmwareWrites' <=> FirmwareWrites
         /\ FirmwareWrites =>
              mem.valid /\ MemReady /\ IomemFire /\ ~prev_iomem_fire
              /\ mem.acc.op = "store" /\ mem.acc.addr = "sim_mmio"
BY SeenStays DEF FirmwareWrites, IomemFireNew, IomemFire, IomemValid, IomemReady, IsWrite,
   MemReady, SimMmioSel, ExternalIomemSel, RegSel

\* The steps of the worker and of the blocks that do not touch an access.
LEMMA AtomicStays ==
  ASSUME UNCHANGED <<ram, handled, last, mem, ram_ready, flash_ready, prev_iomem_fire, req>>,
         wpc' = "response" <=> wpc = "response",
         mem.valid => /\ "master" \in todo' <=> "master" \in todo
                      /\ "tb" \in todo' <=> "tb" \in todo
  PROVE  UNCHANGED Atomic!aVars
<1>1. Arriving' = Arriving
  BY MappingStays DEF Arriving
<1>2. TookEffect' <=> TookEffect
  BY MappingStays DEF TookEffect
<1> QED BY <1>1, <1>2, AtomicStutter DEF Console, Acted, Gone

LEMMA AtomicWorker ==
  ASSUME TypeOK, CalledInv, HandshakeInv, RamInv, ThreadNext
  PROVE  [Atomic!Next]_(Atomic!aVars)
<1> USE DEF workerVars, ctxVars, socVars, rtlVars, tbVars, ctlVars
<1>0. UNCHANGED <<ram, handled, mem, ram_ready, flash_ready, prev_iomem_fire, todo>>
  BY DEF ThreadNext
<1>1. UNCHANGED Arriving
  BY <1>0, MappingStays DEF Arriving
<1>2. CASE WorkerIssues
  <2>1. /\ ~req.valid /\ req'.valid /\ ~req'.response_ready /\ wpc' = "response"
        /\ req'.id = req.id + 1 /\ UNCHANGED last
    BY <1>2 DEF WorkerIssues, SlotFree
  <2>2. ~(mem'.valid /\ mem'.id = req'.id)
    BY <1>0, <2>1 DEF HandshakeInv, Driven, TypeOK, BusTypeOK, RtlTypeOK, Nets
  <2>3. ~TookEffect'
    BY <2>1, <2>2 DEF TookEffect
  <2>4. Atomic!Issue
    BY <1>0, <1>1, <2>1, <2>3 DEF Atomic!Issue
  <2> QED BY <2>4 DEF Atomic!Next
<1>3. CASE WorkerTakesResponse
  <2>1. /\ req.valid /\ req.response_ready /\ wpc = "response" /\ ~req'.valid
        /\ last' = IF req.acc.op = "store" THEN last ELSE req.rdata
    BY <1>3 DEF WorkerTakesResponse, ResponsePending, ResponseCut, CalledInv, TypeOK, BusTypeOK
  <2>2. last' = IF req.acc.op = "store" THEN last ELSE Atomic!WordAt(req.acc.addr)
    BY <2>1 DEF RamInv
  <2>3. Atomic!Answer
    BY <1>0, <1>1, <2>1, <2>2 DEF Atomic!Answer, TookEffect
  <2> QED BY <2>3 DEF Atomic!Next
<1>4. CASE WorkerCut
  <2>1. /\ req.valid /\ wpc = "response" /\ wpc' = "execute" /\ UNCHANGED <<req, last>>
    BY <1>4 DEF WorkerCut, CalledInv
  <2>2. TookEffect' = TookEffect
    BY <1>0, <2>1, MappingStays DEF TookEffect
  <2>3. Atomic!Abandon
    BY <1>0, <1>1, <2>1, <2>2 DEF Atomic!Abandon
  <2> QED BY <2>3 DEF Atomic!Next
<1>5. CASE UNCHANGED <<req, last>> /\ (wpc' = "response" <=> wpc = "response")
  BY <1>0, <1>5, AtomicStays
<1> QED
  BY <1>2, <1>3, <1>4, <1>5
     DEF ThreadNext, WorkerNext, SpuriousWakeup, WorkerLeaves, WorkerHitsLimit,
         WorkerBegins, WorkerCounts, WorkerThrows, WorkerRefused,
         WorkerSleepsAgain

\* The bytes the testbench has acted on, before and after one more.
LEMMA ActedBytes ==
  ASSUME TypeOK
  PROVE  /\ Acted = [k \in 1 .. Len(handled) |-> handled[k].val]
         /\ Len(Acted) = Len(handled)
         /\ Acted \o << >> = Acted
         /\ \A v : Acted \o <<v>> = Append(Acted, v) /\ Append(Acted, v) \o << >> = Append(Acted, v)
<1> DEFINE n == Len(handled)
<1>1. n \in Nat /\ DOMAIN handled = 1 .. n
  BY HandledTypes
<1>2. Acted = [k \in 1 .. n |-> handled[k].val]
  BY <1>1 DEF Acted
<1> HIDE DEF n
<1>3. PICK S : Acted \in Seq(S) /\ Len(Acted) = n
  <2>1. Acted \in Seq({handled[k].val : k \in 1 .. n}) /\ Len(Acted) = n
    BY <1>1, <1>2
  <2> QED BY <2>1
<1>4. Acted \o << >> = Acted
  BY <1>3
<1>5. ASSUME NEW v
      PROVE  Acted \o <<v>> = Append(Acted, v) /\ Append(Acted, v) \o << >> = Append(Acted, v)
  <2>1. Acted \in Seq(S \cup {v})
    BY <1>3
  <2>2. Append(Acted, v) \in Seq(S \cup {v})
    BY <2>1
  <2> QED BY <2>1, <2>2
<1> QED BY <1>2, <1>3, <1>4, <1>5 DEF n

LEMMA ActedGrows ==
  ASSUME TypeOK, Testbench, FirmwareWrites
  PROVE  Acted' = Append(Acted, mem.acc.val)
<1> DEFINE n == Len(handled)
<1>1. n \in Nat /\ DOMAIN handled = 1 .. n
  BY HandledTypes
<1>2. /\ handled' = Append(handled, [id |-> mem.id, val |-> mem.acc.val])
      /\ handled \in Seq([id : Nat, val : Word])
  BY DEF Testbench, TypeOK, TbTypeOK
<1>3. /\ DOMAIN handled' = 1 .. n + 1
      /\ handled'[n + 1] = [id |-> mem.id, val |-> mem.acc.val]
      /\ \A k \in 1 .. n : handled'[k] = handled[k]
  BY <1>2
<1> HIDE DEF n
<1>4. Acted = [k \in 1 .. n |-> handled[k].val] /\ Len(Acted) = n
  BY ActedBytes DEF n
<1>5. Acted' = [k \in 1 .. n + 1 |-> handled'[k].val]
  BY <1>3 DEF Acted
<1>6. \A k \in 1 .. n + 1 : handled'[k].val = IF k = n + 1 THEN mem.acc.val ELSE handled[k].val
  BY <1>1, <1>3
<1>7. Append(Acted, mem.acc.val)
        = [k \in 1 .. n + 1 |-> IF k = n + 1 THEN mem.acc.val ELSE handled[k].val]
  BY <1>1, <1>4
<1> QED BY <1>5, <1>6, <1>7

\* The testbench's block: a write it sees before the master takes effect there.
LEMMA AtomicTestbench ==
  ASSUME TypeOK, HandshakeInv, Testbench
  PROVE  [Atomic!Next]_(Atomic!aVars)
<1>1. /\ UNCHANGED <<ram, mem, ram_ready, flash_ready, prev_iomem_fire, req, last, wpc>>
      /\ "tb" \in todo /\ "tb" \notin todo' /\ ("master" \in todo' <=> "master" \in todo)
  BY DEF Testbench, Ready, Done, rtlVars, busVars, workerVars, ctxVars
<1>2. CASE ~FirmwareWrites
  <2>1. Arriving' = Arriving /\ handled' = handled
    BY <1>1, <1>2, MappingStays DEF Arriving, Testbench
  <2>2. TookEffect' <=> TookEffect
    BY <1>1, <1>2, MappingStays DEF TookEffect
  <2> QED BY <1>1, <2>1, <2>2, AtomicStutter DEF Console, Acted, Gone
<1>3. CASE FirmwareWrites /\ "master" \notin todo
  <2>1. Arriving = <<mem.acc.val>> /\ Arriving' = << >>
    BY <1>1, <1>3 DEF Arriving
  <2>2. Console' = Console
    BY <1>3, <2>1, ActedBytes, ActedGrows DEF Console
  <2>3. TookEffect' <=> TookEffect
    BY <1>1, <1>3 DEF TookEffect
  <2> QED BY <1>1, <2>2, <2>3, AtomicStutter DEF Gone
<1>4. CASE FirmwareWrites /\ "master" \in todo
  <2>1. Arriving = << >> /\ Arriving' = << >>
    BY <1>1, <1>4 DEF Arriving
  <2>2. Console' = Append(Console, mem.acc.val)
    BY <1>4, <2>1, ActedBytes, ActedGrows DEF Console
  <2>3. ~wait_ready_low /\ ~ram_ready
    BY <1>1, <1>4, MappingStays, RamAssumption DEF HandshakeInv, BeforeMaster
  <2>4. OnBus /\ mem.acc = req.acc
    BY <1>1, <1>4, <2>3, MappingStays DEF HandshakeInv, Driven, OnBus, Unanswered
  <2>5. ~TookEffect /\ TookEffect'
    BY <1>1, <1>4, <2>3, <2>4, MappingStays DEF TookEffect, OnBus, Unanswered
  <2>6. Atomic!Perform
    BY <1>1, <1>4, <2>2, <2>4, <2>5, MappingStays, AtomicPerform, RamAssumption
       DEF OnBus, Unanswered
  <2> QED BY <2>6 DEF Atomic!Next
<1> QED BY <1>2, <1>3, <1>4

\* The master's block: an access that is not clocked into RAM and that the
\* testbench has not seen takes effect when it is answered.
LEMMA AtomicMaster ==
  ASSUME TypeOK, HandshakeInv, MasterSteps, ResponseTaken
  PROVE  [Atomic!Next]_(Atomic!aVars)
<1>1. /\ UNCHANGED <<ram, mem, ram_ready, flash_ready, prev_iomem_fire, last, wpc, handled>>
      /\ "master" \in todo /\ "master" \notin todo' /\ ("tb" \in todo' <=> "tb" \in todo)
      /\ req'.valid = req.valid /\ req'.acc = req.acc /\ req'.id = req.id
  BY MasterCaptures DEF MasterSteps, SpikeBusStep, Ready, Done, workerVars, tbVars, TypeOK, BusTypeOK
<1>2. Arriving = << >>
  BY <1>1 DEF Arriving
<1>3. CASE ~StepCaptures(mem.valid /\ MemReady)
  <2>1. ~FirmwareWrites /\ req' = req
    BY <1>1, <1>3, MasterCaptures, MappingStays DEF HandshakeInv, BeforeMaster
  <2>2. Arriving' = << >>
    BY <1>1, <2>1, MappingStays DEF Arriving
  <2>3. TookEffect' <=> TookEffect
    BY <1>1, <2>1, MappingStays DEF TookEffect
  <2> QED BY <1>1, <1>2, <2>2, <2>3, AtomicStutter DEF Console, Acted, Gone
<1>4. CASE StepCaptures(mem.valid /\ MemReady)
  <2>1. /\ OnBus /\ mem.acc = req.acc /\ mem.valid /\ MemReady /\ ~wait_ready_low
        /\ req.valid /\ ~req.response_ready
    BY <1>4, MasterCaptures DEF OnBus, Unanswered
  <2>2. TookEffect'
    BY <1>4, MasterCaptures DEF TookEffect, TypeOK, BusTypeOK
  <2>3. TookEffect <=> ram_ready \/ (FirmwareWrites /\ "tb" \notin todo)
    BY <1>1, <2>1 DEF TookEffect, OnBus
  <2>4. ram_ready <=> mem.acc.addr \in RamAddr
    BY <2>1, NetValues DEF HandshakeInv, BeforeMaster
  <2>5. FirmwareWrites <=> mem.acc.op = "store" /\ mem.acc.addr = "sim_mmio"
    <3>1. mem.acc.op = "store" /\ mem.acc.addr = "sim_mmio" => IomemFire
      BY <2>1 DEF IomemFire, IomemValid, IomemReady, SimMmioSel, IsWrite
    <3> QED BY <1>1, <2>1, <3>1, MappingStays
            DEF FirmwareWrites, IomemFireNew, HandshakeInv, BeforeMaster
  <2>6. CASE TookEffect
    <3>1. Arriving' = << >>
      BY <1>1, <2>3, <2>4, <2>5, <2>6, MappingStays, RamAssumption DEF Arriving
    <3> QED BY <1>1, <1>2, <2>2, <2>6, <3>1, AtomicStutter DEF Console, Acted, Gone
  <2>7. CASE ~TookEffect
    <3>1. Arriving' = IF FirmwareWrites THEN <<mem.acc.val>> ELSE << >>
      BY <1>1, <2>3, <2>7, MappingStays DEF Arriving
    <3>2. Console' = IF FirmwareWrites THEN Append(Console, mem.acc.val) ELSE Console
      BY <1>1, <1>2, <3>1, ActedBytes DEF Console, Acted
    <3>3. Atomic!Perform
      BY <1>1, <2>1, <2>2, <2>3, <2>4, <2>5, <2>7, <3>2, AtomicPerform
    <3> QED BY <3>3 DEF Atomic!Next
  <2> QED BY <2>6, <2>7
<1> QED BY <1>3, <1>4

\* The clock edge: an unanswered RAM access takes effect when it is clocked in.
LEMMA AtomicClock ==
  ASSUME TypeOK, HandshakeInv, RamInv, ClockEdge
  PROVE  [Atomic!Next]_(Atomic!aVars)
<1>1. /\ todo = {} /\ {"master", "tb"} \subseteq todo' /\ mem' = nba
      /\ UNCHANGED <<req, last, wpc, handled>>
      /\ ram_ready' = (RamSel /\ ~MemReady)
      /\ ram' = IF RamWen THEN [ram EXCEPT ![mem.acc.addr] = mem.acc.val] ELSE ram
  BY DEF ClockEdge, busVars, ctxVars, workerVars, tbVars
<1>2. Arriving = << >> /\ Arriving' = << >>
  BY <1>1 DEF Arriving
<1>3. Console' = Console
  BY <1>1, <1>2 DEF Console, Acted
<1>4. ASSUME nba.valid, mem.valid
      PROVE  nba = mem /\ (wait_ready_low <=> MemReady)
  BY <1>1, <1>4 DEF HandshakeInv, AfterMaster
<1>5. RamSel => mem.valid /\ mem.acc.addr \in RamAddr
  BY DEF RamSel
<1>6. TookEffect' <=> req.response_ready \/ (nba.valid /\ nba.id = req.id /\ RamSel /\ ~MemReady)
  BY <1>1 DEF TookEffect
<1>7. CASE ~Unanswered
  <2>1. ram' = ram
    BY <1>7, RamWrites DEF OnBus
  <2>2. req.valid => TookEffect /\ TookEffect'
    BY <1>6, <1>7 DEF TookEffect, Unanswered
  <2> QED BY <1>1, <1>3, <2>1, <2>2, AtomicStutter DEF Gone
<1>8. CASE Unanswered
  <2>1. ~TookEffect
    <3>1. OnBus => nba.valid /\ ~MemReady
      BY <1>1 DEF HandshakeInv, AfterMaster
    <3>2. OnBus /\ ram_ready => MemReady
      BY DEF MemReady
    <3> QED BY <1>1, <1>8, <3>1, <3>2 DEF TookEffect, OnBus, Unanswered
  <2>2. CASE TookEffect'
    <3>1. OnBus /\ mem.acc = req.acc /\ RamSel /\ ~MemReady
      BY <1>4, <1>5, <1>6, <1>8, <2>2 DEF OnBus, Unanswered, HandshakeInv, Driven
    <3>2. Atomic!Perform
      BY <1>1, <1>3, <1>5, <1>8, <2>1, <2>2, <3>1, AtomicPerform, RamAssumption
         DEF RamWen, IsWrite, Unanswered
    <3> QED BY <3>2 DEF Atomic!Next
  <2>3. CASE ~TookEffect'
    <3>1. ram' = ram
      <4>1. OnBus /\ RamWen => nba.valid /\ mem.valid /\ mem.id = req.id /\ RamSel /\ ~MemReady
        BY <1>1 DEF HandshakeInv, AfterMaster, OnBus, RamWen
      <4> QED BY <1>4, <1>6, <2>3, <4>1, RamWrites
    <3> QED BY <1>1, <1>3, <2>1, <2>3, <3>1, AtomicStutter DEF Gone
  <2> QED BY <2>2, <2>3
<1> QED BY <1>7, <1>8

\* The handshake of the worker, the bus master, the RAM and the testbench
\* implements the atomic bus, step by step.
THEOREM AtomicTheorem == PromptSpec => AtomicAccesses
<1>1. Init => Atomic!Init
  BY DEF Init, BusInit, Atomic!Init, Arriving, FirmwareWrites, IomemFireNew, IomemFire,
     IomemValid, IomemReady, SimMmioSel, ExternalIomemSel, RegSel, IdleNets
<1>2. TypeOK /\ CalledInv /\ HandshakeInv /\ RamInv /\ [PromptNext]_vars
        => [Atomic!Next]_(Atomic!aVars)
  <2> SUFFICES ASSUME TypeOK, CalledInv, HandshakeInv, RamInv, [PromptNext]_vars
               PROVE  [Atomic!Next]_(Atomic!aVars)
    OBVIOUS
  <2>1. CASE UNCHANGED vars
    BY <2>1, AtomicStays DEF vars, busVars, workerVars, ctxVars, socVars, rtlVars, tbVars, ctlVars
  <2>2. CASE EdgeNext /\ ~ClockEdge /\ ~Testbench
    <3>1. MasterInReset \/ MasterFailsInit => ~mem.valid
      BY DEF MasterInReset, MasterFailsInit, CalledInv
    <3>2. UNCHANGED last /\ (wpc' = "response" <=> wpc = "response")
      BY <2>2 DEF EdgeNext, ReleaseReset, MasterInReset, MasterFailsInit,
         MasterStartsWorker, Timeout, FinishSetsExitCode, FinishStopsWorker,
         FinishJoins, ExitMain, MarkFailed, StartSpikeOnce, SetExitCode,
         StopWorker, busVars, workerVars, ctxVars
    <3> QED BY <2>2, <3>1, <3>2, OtherBlocks, OtherWrites, AtomicStays
  <2> QED
    BY <2>1, <2>2, AtomicWorker, AtomicMaster, AtomicTestbench, AtomicClock
       DEF PromptNext, Exited
<1> QED
  BY <1>1, <1>2, HandshakeInvariant, RamInvariant, PTL
     DEF PromptSpec, AtomicAccesses, Atomic!Spec

-----------------------------------------------------------------------------
(* A late worker.  Without the timing assumption an answered write may be   *)
(* driven again and handled again, and a response may come from the access  *)
(* before; but a new write is still never suppressed, as long as no store   *)
(* of Spike directly follows another one.  With a commit log, which         *)
(* build.sh:1436 always asks for, Spike runs with set_debug(true)           *)
(* (spike_bus_dpi.cc:221), past its instruction cache: each instruction is  *)
(* fetched over the bus, and none makes two stores.                         *)

\* No two requests in a row are stores.
RequestInv ==
  /\ Apart(insn)
  /\ wpc = "response" => req.acc = insn[1]
  /\ wpc = "execute" /\ insn # << >> => ~(req.acc.op = "store" /\ insn[1].op = "store")

LEMMA RequestInvariant == ASSUME StoresApart PROVE Spec => []RequestInv
<1>1. Init => RequestInv
  BY DEF Init, BusInit, RequestInv, Apart
<1>2. TypeOK /\ RequestInv /\ [Next]_vars => RequestInv'
  <2> SUFFICES ASSUME TypeOK, RequestInv, [Next]_vars PROVE RequestInv'
    OBVIOUS
  <2> USE DEF RequestInv, workerVars, ctxVars
  <2>0. insn \in Seq(Access) /\ prog \in Programs /\ ip \in 0 .. Len(prog)
    BY DEF TypeOK, BusTypeOK
  <2>1. ASSUME UNCHANGED <<insn, wpc>>, req'.acc = req.acc
        PROVE  RequestInv'
    BY <2>1 DEF Apart
  <2>2. CASE MasterSteps
    <3>1. UNCHANGED <<insn, wpc>> /\ req'.acc = req.acc
      BY <2>2 DEF MasterSteps, SpikeBusStep, TypeOK, BusTypeOK
    <3> QED BY <2>1, <3>1
  <2>3. CASE MasterStartsWorker
    BY <2>3 DEF MasterStartsWorker, StartSpikeOnce, Apart
  <2>4. CASE EdgeNext /\ ~MasterStartsWorker
    BY <2>1, <2>4 DEF EdgeNext, ReleaseReset, MasterInReset, MasterFailsInit,
         Testbench, Timeout, FinishSetsExitCode, FinishStopsWorker, FinishJoins,
         ClockEdge, ExitMain, MarkFailed, SetExitCode, StopWorker, busVars
  <2>5. CASE WorkerBegins
    <3>1. Apart(CurrentInsn) /\ (CurrentInsn # << >> => CurrentInsn[1].op # "store")
      <4>1. CASE ip = 0
        BY <4>1 DEF CurrentInsn, TrapInsn, Apart
      <4>2. CASE ip # 0
        <5>1. ip \in 1 .. Len(prog)
          BY <2>0, <4>2, ProgramType
        <5> QED BY <2>0, <4>2, <5>1, StoresApart DEF CurrentInsn, StoresApart
      <4> QED BY <4>1, <4>2
    <3> QED BY <2>5, <3>1 DEF WorkerBegins, Apart
  <2>6. CASE WorkerIssues
    <3>1. UNCHANGED insn /\ wpc' = "response" /\ req'.acc = insn[1]
      BY <2>0, <2>6 DEF WorkerIssues
    <3> QED BY <3>1 DEF Apart
  <2>7. CASE WorkerTakesResponse
    <3>1. wpc = "response" /\ wpc' = "execute" /\ req'.acc = req.acc /\ req.acc = insn[1]
      BY <2>7 DEF WorkerTakesResponse, TypeOK, BusTypeOK
    <3>2. CASE insn' = << >>
      BY <3>1, <3>2 DEF Apart
    <3>3. CASE insn' = Tail(insn)
      <4>1. insn # << >>
        BY <3>1 DEF TypeOK, BusTypeOK
      <4>2. /\ Len(insn) \in Nat \ {0} /\ Len(insn') = Len(insn) - 1
            /\ \A k \in 1 .. Len(insn') : insn'[k] = insn[k + 1]
        BY <2>0, <3>3, <4>1
      <4>3. Apart(insn)'
        BY <4>2 DEF Apart
      <4>4. insn' # << >> => 1 \in 1 .. Len(insn) - 1 /\ insn'[1] = insn[2]
        BY <2>0, <3>3, <4>1, <4>2
      <4> QED BY <3>1, <4>3, <4>4 DEF Apart
    <3> QED BY <2>7, <3>2, <3>3 DEF WorkerTakesResponse, Trap
  <2>8. CASE WorkerRefused \/ WorkerCut
    BY <2>8 DEF WorkerRefused, WorkerCut, Trap, Apart
  <2>9. CASE WorkerLeaves \/ WorkerHitsLimit \/ WorkerCounts \/ WorkerThrows
    BY <2>9 DEF WorkerLeaves, WorkerHitsLimit, WorkerCounts, WorkerThrows, Apart
  <2>10. CASE WorkerSleepsAgain \/ SpuriousWakeup \/ UNCHANGED vars
    BY <2>1, <2>10 DEF WorkerSleepsAgain, SpuriousWakeup, vars, busVars
  <2> QED
    BY <2>2, <2>3, <2>4, <2>5, <2>6, <2>7, <2>8, <2>9, <2>10
       DEF Next, ThreadNext, WorkerNext, Exited
<1> QED BY <1>1, <1>2, TypeCorrect, PTL DEF Spec

\* What the bus shows next is what it shows now, or the request after it: at
\* most one request is answered per edge.
NextDriven ==
  /\ "master" \in todo => nba = mem
  /\ nba.valid =>
       \/ req.id = nba.id /\ req.acc = nba.acc
       \/ /\ req.valid /\ ~req.response_ready
          /\ ~(req.acc.op = "store" /\ nba.acc.op = "store")
  /\ "master" \notin todo /\ mem.valid /\ nba.valid =>
       nba = mem \/ ~(nba.acc.op = "store" /\ mem.acc.op = "store")
  /\ SimMmioSel /\ IsWrite /\ ("tb" \notin todo \/ prev_iomem_fire) =>
       \E k \in DOMAIN handled : handled[k].id = mem.id

LEMMA NextMaster ==
  ASSUME TypeOK, NextDriven, MasterSteps
  PROVE  NextDriven'
<1>1. /\ UNCHANGED <<mem, prev_iomem_fire, handled>> /\ nba' = StepOutputs
      /\ "master" \in todo /\ "master" \notin todo' /\ ("tb" \in todo' <=> "tb" \in todo)
      /\ req'.valid = req.valid /\ req'.id = req.id /\ req'.acc = req.acc
  BY DEF MasterSteps, SpikeBusStep, Ready, Done, tbVars, TypeOK, BusTypeOK
<1>2. nba'.valid => nba' = [valid |-> TRUE, acc |-> req.acc, id |-> req.id]
  BY <1>1 DEF StepOutputs, IdleNets
<1>3. mem.valid => mem = [valid |-> TRUE, acc |-> mem.acc, id |-> mem.id] /\ nba = mem
  BY <1>1 DEF TypeOK, RtlTypeOK, Nets, NextDriven
<1>4. ASSUME mem.valid, nba'.valid
      PROVE  nba' = mem \/ ~(nba'.acc.op = "store" /\ mem.acc.op = "store")
  <2>1. \/ req.id = mem.id /\ req.acc = mem.acc
        \/ ~(req.acc.op = "store" /\ mem.acc.op = "store")
    BY <1>3, <1>4 DEF NextDriven
  <2>2. nba' = [valid |-> TRUE, acc |-> req.acc, id |-> req.id] /\ nba'.acc = req.acc
    BY <1>2, <1>4
  <2>3. req.id = mem.id /\ req.acc = mem.acc => nba' = mem
    BY <1>3, <1>4, <2>2
  <2> QED BY <2>1, <2>2, <2>3
<1>5. nba'.valid => req'.id = nba'.id /\ req'.acc = nba'.acc
  BY <1>1, <1>2
<1> QED BY <1>1, <1>4, <1>5 DEF NextDriven, SimMmioSel, IsWrite

LEMMA NextClock ==
  ASSUME TypeOK, NextDriven, ClockEdge
  PROVE  NextDriven'
<1>1. /\ todo = {} /\ {"master", "tb"} \subseteq todo' /\ mem' = nba
      /\ UNCHANGED <<nba, req, handled>> /\ prev_iomem_fire' = IomemFire
  BY DEF ClockEdge, PrevIomemFireNext, busVars, ctxVars, tbVars
<1>2. ASSUME SimMmioSel', IsWrite', IomemFire
      PROVE  \E k \in DOMAIN handled : handled[k].id = nba.id
  <2>1. mem.valid /\ mem.acc.op = "store" /\ nba.valid /\ nba.acc.op = "store"
    BY <1>1, <1>2 DEF SimMmioSel, IsWrite, IomemFire, IomemValid, ExternalIomemSel, RegSel
  <2>2. nba = mem
    BY <1>1, <2>1 DEF NextDriven
  <2>3. SimMmioSel /\ IsWrite
    BY <1>1, <1>2, <2>2 DEF SimMmioSel, IsWrite
  <2> QED BY <1>1, <2>2, <2>3 DEF NextDriven
<1> QED BY <1>1, <1>2 DEF NextDriven

LEMMA NextTestbench ==
  ASSUME TypeOK, NextDriven, Testbench
  PROVE  NextDriven'
<1>1. /\ UNCHANGED <<mem, nba, prev_iomem_fire, req>>
      /\ "tb" \in todo /\ "tb" \notin todo' /\ ("master" \in todo' <=> "master" \in todo)
  BY DEF Testbench, Ready, Done, rtlVars, busVars, ctxVars
<1>2. SimMmioSel /\ IsWrite => \E k \in DOMAIN handled' : handled'[k].id = mem.id
  <2>1. CASE FirmwareWrites
    <3>1. /\ handled' = Append(handled, [id |-> mem.id, val |-> mem.acc.val])
          /\ handled \in Seq([id : Nat, val : Word])
      BY <2>1 DEF Testbench, TypeOK, TbTypeOK
    <3>2. Len(handled) + 1 \in DOMAIN handled' /\ handled'[Len(handled) + 1].id = mem.id
      BY <3>1
    <3> QED BY <3>2
  <2>2. CASE ~FirmwareWrites
    <3>1. handled' = handled /\ (SimMmioSel /\ IsWrite => prev_iomem_fire)
      BY <2>2, SeenWrites DEF Testbench
    <3> QED BY <3>1 DEF NextDriven
  <2> QED BY <2>1, <2>2
<1> QED BY <1>1, <1>2 DEF NextDriven, SimMmioSel, IsWrite

LEMMA NextWorker ==
  ASSUME TypeOK, RequestInv, NextDriven, ThreadNext
  PROVE  NextDriven'
<1> USE DEF workerVars, ctxVars, socVars, rtlVars, tbVars, ctlVars
<1>0. UNCHANGED <<mem, nba, prev_iomem_fire, handled, todo>>
  BY DEF ThreadNext
<1>1. CASE WorkerIssues
  <2>1. /\ ~req.valid /\ req'.valid /\ ~req'.response_ready /\ req'.acc = insn[1]
        /\ wpc = "execute" /\ insn # << >>
    BY <1>1 DEF WorkerIssues, SlotFree, TypeOK, BusTypeOK
  <2>2. nba.valid => ~(req'.acc.op = "store" /\ nba.acc.op = "store")
    BY <2>1 DEF NextDriven, RequestInv
  <2> QED BY <1>0, <2>1, <2>2 DEF NextDriven, SimMmioSel, IsWrite
<1>2. CASE WorkerTakesResponse
  <2>1. req.response_ready /\ req'.id = req.id /\ req'.acc = req.acc
    BY <1>2 DEF WorkerTakesResponse, ResponsePending, ResponseCut, TypeOK, BusTypeOK
  <2> QED BY <1>0, <2>1 DEF NextDriven, SimMmioSel, IsWrite
<1>3. CASE UNCHANGED req
  BY <1>0, <1>3 DEF NextDriven, SimMmioSel, IsWrite
<1> QED
  BY <1>1, <1>2, <1>3
     DEF ThreadNext, WorkerNext, SpuriousWakeup, WorkerLeaves, WorkerHitsLimit,
         WorkerBegins, WorkerCounts, WorkerThrows, WorkerRefused,
         WorkerSleepsAgain, WorkerCut

\* However late the worker is, a firmware write that was on the bus for an edge
\* has been acted on, if no store directly follows another.
THEOREM NoWriteSuppressedTheorem == ASSUME StoresApart PROVE Spec => []NoWriteSuppressed
<1>1. Init => NextDriven
  BY DEF Init, NextDriven, IdleNets, SimMmioSel
<1>2. TypeOK /\ RequestInv /\ NextDriven /\ [Next]_vars => NextDriven'
  <2> SUFFICES ASSUME TypeOK, RequestInv, NextDriven, [Next]_vars PROVE NextDriven'
    OBVIOUS
  <2>1. CASE UNCHANGED vars
    BY <2>1 DEF NextDriven, SimMmioSel, IsWrite, vars, busVars, ctxVars, socVars,
       rtlVars, tbVars, ctlVars
  <2>2. CASE MasterInReset \/ MasterFailsInit
    BY <2>2 DEF MasterInReset, MasterFailsInit, MarkFailed, Done, NextDriven, SimMmioSel,
       IsWrite, IdleNets, busVars, ctxVars, tbVars
  <2>3. CASE EdgeNext /\ ~(MasterInReset \/ MasterFailsInit \/ ClockEdge \/ Testbench)
    <3>1. UNCHANGED nba
      BY <2>3 DEF EdgeNext, ReleaseReset, MasterStartsWorker, Timeout, FinishSetsExitCode,
         FinishStopsWorker, FinishJoins, ExitMain, socVars, rtlVars
    <3> QED BY <2>3, <3>1, OtherBlocks, OtherWrites DEF NextDriven, SimMmioSel, IsWrite
  <2> QED
    BY <2>1, <2>2, <2>3, NextMaster, NextClock, NextTestbench, NextWorker DEF Next, Exited
<1>3. NextDriven => NoWriteSuppressed
  BY DEF NextDriven, NoWriteSuppressed
<1> QED BY <1>1, <1>2, <1>3, TypeCorrect, RequestInvariant, PTL DEF Spec

-----------------------------------------------------------------------------
(* The last store.  A write that is driven again by a late worker is handled *)
(* again, so what the testbench has acted on says little of the request      *)
(* under way.  The invariants order what the bus shows: ids never fall, a    *)
(* status and a QUIT have different ones, and once the QUIT's request is     *)
(* over the firmware has nothing more to say.                                *)

Entry(n) == [id |-> n.id, val |-> n.acc.val]
Told(n) == n.valid /\ Tells(n.acc, Word)
Shown == {handled[k] : k \in DOMAIN handled} \cup {Entry(n) : n \in {m \in {mem, nba} : Told(m)}}

\* What the bus shows comes from requests in order, the last of them the one posted.
OrderInv ==
  /\ "master" \in todo => nba = mem
  /\ \A n \in {mem, nba} : n.valid => n.id <= req.id /\ (n.id = req.id => n.acc = req.acc)
  /\ mem.valid /\ nba.valid => mem.id <= nba.id
  /\ \A x \in Shown : x.id <= req.id /\ (x.id = req.id => Tells(req.acc, {x.val}))
  /\ \A x, y \in Shown : x.id = y.id => x.val = y.val
  /\ \A k \in DOMAIN handled : /\ mem.valid => handled[k].id <= mem.id
                               /\ nba.valid => handled[k].id <= nba.id
  /\ \A j, k \in DOMAIN handled : j < k => handled[j].id <= handled[k].id

\* The instruction under way is one of the program, or the trap's.
InsnInv ==
  wpc \in {"execute", "response"} =>
    /\ Single(insn)
    /\ IF ip = 0 THEN Quiet(insn)
       ELSE \A k \in 1 .. Len(insn) : \E m \in 1 .. Len(prog[ip]) : insn[k] = prog[ip][m]
    /\ wpc = "response" => req.acc = insn[1]

\* The request with this id is over.
Over(id) == id < req.id \/ ~req.valid

\* The worker has nothing to say any more.
Silent ==
  wpc # "exited" =>
    /\ wpc \in {"execute", "response"} => Quiet(insn)
    /\ ip = 0 \/ \A j \in (IF wpc \in {"execute", "response"} THEN NextIp ELSE ip) .. Len(prog) :
                   Quiet(prog[j])

PastInv ==
  /\ \A x \in Shown : x.val \in Status /\ Over(x.id) =>
       ip = 0 \/ \E h \in 1 .. ip : TellsIn(prog[h], Status)
  /\ \A x, y \in Shown : x.val \in Status /\ y.val = "QUIT" /\ x.id < y.id /\ Over(y.id) => Silent

\* A write the testbench has acted on is answered in the same edge.
AnsweredInv ==
  /\ nba.valid /\ nba.id = req.id /\ Unanswered => ~wait_ready_low
  /\ "master" \notin todo /\ SimMmioSel /\ mem.id = req.id => ~Unanswered
  /\ \A k \in DOMAIN handled : handled[k].id = req.id /\ Unanswered =>
       "master" \in todo /\ "tb" \notin todo /\ SimMmioSel /\ mem.id = req.id

\* A status the testbench has acted on, and a QUIT after it.
Reported(s, q) ==
  /\ s \in DOMAIN handled /\ q \in DOMAIN handled /\ s < q
  /\ handled[s].val \in Status /\ handled[q].val = "QUIT"

ReportInv ==
  /\ pending # NoCode => \E s \in DOMAIN handled : handled[s].val \in Status
  /\ finish_delay >= 0 => \E s, q \in DOMAIN handled : Reported(s, q)
  /\ fin.code = 0 => \E s, q \in DOMAIN handled :
                       Reported(s, q) /\ (handled[q].id = req.id => ~Unanswered)

\* What is shown is typed.
LEMMA ShownTypes ==
  ASSUME TypeOK
  PROVE  /\ \A x \in Shown : x.id \in Nat
         /\ req.id \in Nat /\ mem.id \in Nat /\ nba.id \in Nat
         /\ mem.acc.val \in Word /\ req.acc.val \in Word /\ nba.acc.val \in Word
         /\ DOMAIN handled = 1 .. Len(handled) /\ Len(handled) \in Nat
         /\ \A k \in DOMAIN handled : handled[k] \in Shown
<1>1. \A n \in {mem, nba} : n.id \in Nat /\ n.acc.val \in Word
  BY DEF TypeOK, RtlTypeOK, Nets, Access
<1>2. req.id \in Nat /\ req.acc.val \in Word
  BY DEF TypeOK, BusTypeOK, Access
<1>3. \A x \in Shown : x.id \in Nat
  <2> SUFFICES ASSUME NEW x \in Shown PROVE x.id \in Nat
    OBVIOUS
  <2>1. CASE x \in {handled[k] : k \in DOMAIN handled}
    BY <2>1, HandledTypes
  <2>2. CASE \E n \in {mem, nba} : x = Entry(n)
    BY <1>1, <2>2 DEF Entry
  <2> QED BY <2>1, <2>2 DEF Shown
<1> QED BY <1>1, <1>2, <1>3, HandledTypes DEF Shown

LEMMA ShownStays ==
  ASSUME UNCHANGED <<mem, nba, handled>>
  PROVE  Shown' = Shown
BY DEF Shown, Entry, Told

\* The write the testbench acts on is shown already.
LEMMA ShownTestbench ==
  ASSUME TypeOK, Testbench
  PROVE  /\ \A x \in Shown' : x \in Shown
         /\ FirmwareWrites => Told(mem) /\ Entry(mem) \in Shown
<1>1. FirmwareWrites => Told(mem)
  BY SeenWrites, ShownTypes DEF Told, Tells, SimMmioSel, IsWrite
<1>2. Told(mem) => Entry(mem) \in Shown
  BY DEF Shown
<1>3. ASSUME NEW x \in Shown' PROVE x \in Shown
  <2>1. UNCHANGED <<mem, nba>>
    BY DEF Testbench, rtlVars
  <2>2. CASE ~FirmwareWrites
    BY <2>1, <2>2, ShownStays DEF Testbench
  <2>3. CASE FirmwareWrites
    <3>1. handled' = Append(handled, Entry(mem)) /\ handled \in Seq([id : Nat, val : Word])
      BY <2>3, SeenWrites DEF Testbench, Entry
    <3>2. \A k \in DOMAIN handled' : \/ k \in DOMAIN handled /\ handled'[k] = handled[k]
                                     \/ handled'[k] = Entry(mem)
      BY <3>1
    <3> QED BY <1>1, <1>2, <2>1, <2>3, <3>2 DEF Shown, Entry, Told
  <2> QED BY <2>2, <2>3
<1> QED BY <1>1, <1>2, <1>3

LEMMA ShownClock ==
  ASSUME ClockEdge
  PROVE  \A x \in Shown' : x \in Shown
<1>1. mem' = nba /\ nba' = nba /\ handled' = handled
  BY DEF ClockEdge, tbVars
<1> QED BY <1>1 DEF Shown, Entry, Told

\* The master drives the request that is posted.
LEMMA ShownMaster ==
  ASSUME MasterSteps, NEW x \in Shown'
  PROVE  x \in Shown \/ (req.valid /\ x = Entry(req) /\ Tells(req.acc, {x.val}))
<1>1. mem' = mem /\ nba' = StepOutputs /\ handled' = handled
  BY DEF MasterSteps, tbVars
<1>2. CASE nba'.valid
  <2>1. req.valid /\ nba' = [valid |-> TRUE, acc |-> req.acc, id |-> req.id]
    BY <1>1, <1>2 DEF StepOutputs, IdleNets
  <2> QED BY <1>1, <2>1 DEF Shown, Entry, Told, Tells
<1>3. CASE ~nba'.valid
  BY <1>1, <1>3 DEF Shown, Entry, Told
<1> QED BY <1>2, <1>3

\* The other steps.
LEMMA ShownOthers ==
  ASSUME MasterInReset \/ MasterFailsInit \/ UNCHANGED <<mem, nba, handled>>
  PROVE  \A x \in Shown' : x \in Shown
<1>1. CASE MasterInReset \/ MasterFailsInit
  <2>1. mem' = mem /\ nba' = IdleNets /\ handled' = handled /\ ~nba'.valid
    BY <1>1 DEF MasterInReset, MasterFailsInit, tbVars, IdleNets
  <2> QED BY <2>1 DEF Shown, Entry, Told
<1> QED BY <1>1, ShownStays

\* What the blocks of an edge other than the testbench's and the master's leave alone.
LEMMA QuietSteps ==
  ASSUME EdgeNext, ~(MasterInReset \/ MasterFailsInit \/ ClockEdge \/ Testbench)
  PROVE  /\ UNCHANGED <<mem, nba, ram_ready, flash_ready, prev_iomem_fire, handled, req,
                        wait_ready_low>>
         /\ "master" \in todo' <=> "master" \in todo
         /\ "tb" \in todo' <=> "tb" \in todo
<1>1. UNCHANGED nba
  BY DEF EdgeNext, ReleaseReset, MasterStartsWorker, Timeout, FinishSetsExitCode,
     FinishStopsWorker, FinishJoins, ExitMain, socVars, rtlVars
<1> QED BY <1>1, OtherBlocks, OtherWrites

LEMMA OrderTestbench ==
  ASSUME TypeOK, OrderInv, Testbench
  PROVE  OrderInv'
<1>1. UNCHANGED <<mem, nba, req>> /\ ("master" \in todo' <=> "master" \in todo)
  BY DEF Testbench, Ready, Done, rtlVars, busVars, ctxVars
<1>2. \A x \in Shown' : x \in Shown
  BY ShownTestbench
<1>3. CASE ~FirmwareWrites
  <2>1. handled' = handled
    BY <1>3 DEF Testbench
  <2> QED BY <1>1, <1>2, <2>1 DEF OrderInv
<1>4. CASE FirmwareWrites
  <2>1. mem.valid /\ Told(mem)
    BY <1>4, ShownTestbench DEF Told
  <2>2. handled' = Append(handled, Entry(mem)) /\ handled \in Seq([id : Nat, val : Word])
    BY <1>4, SeenWrites DEF Testbench, Entry
  <2> DEFINE n == Len(handled) + 1
  <2>3. /\ DOMAIN handled' = 1 .. n /\ DOMAIN handled = 1 .. Len(handled) /\ Len(handled) \in Nat
        /\ handled'[n].id = mem.id
        /\ \A k \in 1 .. Len(handled) : handled'[k] = handled[k]
    BY <2>2 DEF Entry
  <2>4. \A k \in 1 .. n : k \in 1 .. Len(handled) \/ k = n
    BY <2>3
  <2>5. \A j, k \in 1 .. n : j < k => j \in 1 .. Len(handled)
    BY <2>3
  <2> HIDE DEF n
  <2>6. \A k \in DOMAIN handled' : /\ mem'.valid => handled'[k].id <= mem'.id
                                   /\ nba'.valid => handled'[k].id <= nba'.id
    BY <1>1, <2>1, <2>3, <2>4, ShownTypes DEF OrderInv
  <2>7. \A j, k \in DOMAIN handled' : j < k => handled'[j].id <= handled'[k].id
    BY <2>1, <2>3, <2>4, <2>5 DEF OrderInv
  <2> QED BY <1>1, <1>2, <2>6, <2>7 DEF OrderInv
<1> QED BY <1>3, <1>4

LEMMA OrderMaster ==
  ASSUME TypeOK, OrderInv, MasterSteps
  PROVE  OrderInv'
<1>1. /\ UNCHANGED <<mem, handled>> /\ "master" \in todo /\ "master" \notin todo'
      /\ req'.id = req.id /\ req'.acc = req.acc /\ nba = mem
  BY DEF MasterSteps, SpikeBusStep, Ready, Done, tbVars, TypeOK, BusTypeOK, OrderInv
<1>2. nba'.valid => req.valid /\ nba'.id = req.id /\ nba'.acc = req.acc
  BY DEF MasterSteps, StepOutputs, IdleNets
<1>3. \A x \in Shown' : /\ x.id <= req.id
                        /\ x.id = req.id => Tells(req.acc, {x.val})
  <2> SUFFICES ASSUME NEW x \in Shown'
               PROVE  x.id <= req.id /\ (x.id = req.id => Tells(req.acc, {x.val}))
    OBVIOUS
  <2>1. CASE x \in Shown
    BY <2>1 DEF OrderInv
  <2>2. CASE x = Entry(req) /\ Tells(req.acc, {x.val})
    BY <2>2, ShownTypes DEF Entry
  <2> QED BY <2>1, <2>2, ShownMaster
<1>4. \A x, y \in Shown' : x.id = y.id => x.val = y.val
  <2> SUFFICES ASSUME NEW x \in Shown', NEW y \in Shown', x.id = y.id PROVE x.val = y.val
    OBVIOUS
  <2>1. CASE x.id = req.id
    <3>1. Tells(req.acc, {x.val}) /\ Tells(req.acc, {y.val})
      BY <1>3, <2>1
    <3> QED BY <3>1 DEF Tells
  <2>2. CASE x.id # req.id
    <3>1. Entry(req).id = req.id /\ y.id # req.id
      BY <2>2 DEF Entry
    <3>2. x \in Shown /\ y \in Shown
      BY <2>2, <3>1, ShownMaster
    <3> QED BY <3>2 DEF OrderInv
  <2> QED BY <2>1, <2>2
<1>5. \A n \in {mem, nba'} : n.valid => n.id <= req.id /\ (n.id = req.id => n.acc = req.acc)
  BY <1>2, ShownTypes DEF OrderInv
<1>6. \A k \in DOMAIN handled : handled[k].id <= req.id
  BY ShownTypes DEF OrderInv
<1> QED BY <1>1, <1>2, <1>3, <1>4, <1>5, <1>6 DEF OrderInv

LEMMA OrderClock ==
  ASSUME TypeOK, OrderInv, ClockEdge
  PROVE  OrderInv'
<1>1. mem' = nba /\ UNCHANGED <<nba, handled, req>>
  BY DEF ClockEdge, busVars, ctxVars, tbVars
<1>2. \A x \in Shown' : x \in Shown
  BY ShownClock
<1>3. \A k \in DOMAIN handled : nba.valid => handled[k].id <= nba.id
  BY DEF OrderInv
<1>4. nba.valid => nba.id <= nba.id
  BY ShownTypes
<1> QED BY <1>1, <1>2, <1>3, <1>4 DEF OrderInv

LEMMA OrderWorker ==
  ASSUME TypeOK, OrderInv, ThreadNext
  PROVE  OrderInv'
<1>1. UNCHANGED <<mem, nba, handled, todo>> /\ Shown' = Shown
  BY ShownStays DEF ThreadNext, socVars, rtlVars, tbVars, ctlVars
<1>2. CASE WorkerIssues
  <2>1. req'.id = req.id + 1
    BY <1>2 DEF WorkerIssues
  <2>2. \A i \in Nat : i <= req.id => i <= req'.id /\ i # req'.id
    BY <2>1, ShownTypes
  <2>3. \A x \in Shown' : x.id <= req'.id /\ x.id # req'.id
    BY <1>1, <2>2, ShownTypes DEF OrderInv
  <2>4. \A n \in {mem, nba} : n.valid => n.id <= req'.id /\ n.id # req'.id
    BY <2>2, ShownTypes DEF OrderInv
  <2> QED BY <1>1, <2>3, <2>4 DEF OrderInv
<1>3. CASE ~WorkerIssues
  <2>1. req'.id = req.id /\ req'.acc = req.acc
    BY <1>3 DEF ThreadNext, WorkerNext, SpuriousWakeup, WorkerLeaves, WorkerHitsLimit,
         WorkerBegins, WorkerCounts, WorkerThrows, WorkerRefused, WorkerSleepsAgain,
         WorkerCut, WorkerTakesResponse, workerVars, ctxVars, TypeOK, BusTypeOK
  <2> QED BY <1>1, <2>1 DEF OrderInv
<1> QED BY <1>2, <1>3

LEMMA OrderInvariant == Spec => []OrderInv
<1>1. Init => OrderInv
  BY DEF Init, BusInit, OrderInv, Shown, Told, IdleNets
<1>2. TypeOK /\ OrderInv /\ [Next]_vars => OrderInv'
  <2> SUFFICES ASSUME TypeOK, OrderInv, [Next]_vars PROVE OrderInv'
    OBVIOUS
  <2>1. CASE UNCHANGED vars
    <3>1. UNCHANGED <<mem, nba, handled, req, todo>>
      BY <2>1 DEF vars, busVars, ctxVars, socVars, rtlVars, tbVars, ctlVars
    <3> QED BY <3>1, ShownStays DEF OrderInv
  <2>2. CASE MasterInReset \/ MasterFailsInit
    <3>1. UNCHANGED <<mem, handled, req>> /\ ~nba'.valid /\ "master" \notin todo'
      BY <2>2 DEF MasterInReset, MasterFailsInit, MarkFailed, Done, IdleNets, busVars,
         ctxVars, tbVars
    <3> QED BY <2>2, <3>1, ShownOthers DEF OrderInv
  <2>3. CASE EdgeNext /\ ~(MasterInReset \/ MasterFailsInit \/ ClockEdge \/ Testbench)
    <3>1. UNCHANGED <<mem, nba, handled, req>> /\ ("master" \in todo' <=> "master" \in todo)
      BY <2>3, QuietSteps
    <3> QED BY <3>1, ShownStays DEF OrderInv
  <2> QED
    BY <2>1, <2>2, <2>3, OrderMaster, OrderClock, OrderTestbench, OrderWorker DEF Next, Exited
<1> QED BY <1>1, <1>2, TypeCorrect, PTL DEF Spec

\* The accesses an instruction has still to make.
LEMMA TailOfInsn ==
  ASSUME TypeOK, insn # << >>
  PROVE  /\ insn[1] = Head(insn) /\ 1 \in 1 .. Len(insn)
         /\ Tail(insn) \in Seq(Access)
         /\ \A k \in 1 .. Len(Tail(insn)) :
              k + 1 \in 1 .. Len(insn) /\ k + 1 # 1 /\ Tail(insn)[k] = insn[k + 1]
BY DEF TypeOK, BusTypeOK

LEMMA ProgTypes ==
  ASSUME TypeOK
  PROVE  /\ prog \in Programs /\ Len(prog) \in Nat /\ Len(prog) > 0 /\ ip \in 0 .. Len(prog)
         /\ ip = 0 \/ ip \in 1 .. Len(prog)
BY ProgramType DEF TypeOK, BusTypeOK

\* What the worker may be asked to begin.
LEMMA BegunInsn ==
  ASSUME QuitIsLast, TypeOK
  PROVE  /\ Single(CurrentInsn)
         /\ ip = 0 => Quiet(CurrentInsn)
         /\ ip # 0 => CurrentInsn = prog[ip]
<1>1. CASE ip = 0
  BY <1>1 DEF CurrentInsn, TrapInsn, Single, Quiet, Ends, Status
<1>2. CASE ip # 0
  BY <1>2, ProgTypes DEF CurrentInsn, QuitIsLast
<1> QED BY <1>1, <1>2

\* The steps of the worker that are about an instruction.
InsnSteps == WorkerBegins \/ WorkerIssues \/ WorkerRefused \/ WorkerCut \/ WorkerTakesResponse
EndSteps == WorkerLeaves \/ WorkerHitsLimit \/ WorkerThrows

\* What the other steps leave alone.
LEMMA InsnStays ==
  ASSUME TypeOK, [Next]_vars, ~InsnSteps, ~EndSteps, ~WorkerCounts, ~MasterStartsWorker
  PROVE  UNCHANGED <<wpc, prog, ip, insn>> /\ req'.acc = req.acc /\ req'.id = req.id
         /\ req'.valid = req.valid
<1> USE DEF workerVars, ctxVars
<1>1. CASE MasterSteps
  BY <1>1 DEF MasterSteps, SpikeBusStep, TypeOK, BusTypeOK
<1>2. CASE EdgeNext
  BY <1>2 DEF EdgeNext, ReleaseReset, MasterInReset, MasterFailsInit, Testbench, Timeout,
     FinishSetsExitCode, FinishStopsWorker, FinishJoins, ClockEdge, ExitMain, MarkFailed,
     SetExitCode, StopWorker, busVars
<1>3. CASE ThreadNext
  BY <1>3 DEF ThreadNext, WorkerNext, InsnSteps, EndSteps, WorkerSleepsAgain, SpuriousWakeup
<1>4. CASE UNCHANGED vars
  BY <1>4 DEF vars, busVars
<1> QED BY <1>1, <1>2, <1>3, <1>4 DEF Next, Exited

LEMMA InsnInvariant == ASSUME QuitIsLast PROVE Spec => []InsnInv
<1>1. Init => InsnInv
  BY DEF Init, BusInit, InsnInv
<1>2. TypeOK /\ InsnInv /\ [Next]_vars => InsnInv'
  <2> SUFFICES ASSUME TypeOK, InsnInv, [Next]_vars PROVE InsnInv'
    OBVIOUS
  <2>1. CASE EndSteps \/ WorkerCounts \/ MasterStartsWorker
    BY <2>1 DEF EndSteps, WorkerLeaves, WorkerHitsLimit, WorkerThrows, WorkerCounts,
       MasterStartsWorker, StartSpikeOnce, InsnInv
  <2>2. CASE WorkerBegins
    <3>1. insn' = CurrentInsn /\ UNCHANGED <<ip, prog>> /\ wpc' = "execute"
      BY <2>2 DEF WorkerBegins
    <3> QED BY <3>1, BegunInsn DEF InsnInv, Single, Quiet
  <2>3. CASE WorkerIssues
    <3>1. UNCHANGED <<insn, ip, prog>> /\ wpc = "execute" /\ req'.acc = insn[1]
      BY <2>3, TailOfInsn DEF WorkerIssues, workerVars
    <3> QED BY <3>1 DEF InsnInv, Single, Quiet
  <2>4. CASE WorkerRefused \/ WorkerCut
    <3>1. insn' = << >> /\ ip' = 0 /\ wpc' = "execute"
      BY <2>4 DEF WorkerRefused, WorkerCut, Trap
    <3> QED BY <3>1 DEF InsnInv, Single, Quiet
  <2>5. CASE WorkerTakesResponse
    <3>1. wpc = "response" /\ wpc' = "execute" /\ prog' = prog /\ insn # << >>
      BY <2>5 DEF WorkerTakesResponse, TypeOK, BusTypeOK
    <3>2. CASE insn' = << >> /\ ip' = 0
      BY <3>1, <3>2 DEF InsnInv, Single, Quiet
    <3>3. CASE insn' = Tail(insn) /\ ip' = ip
      <4>1. Single(insn') /\ (Quiet(insn) => Quiet(insn'))
        BY <3>1, <3>3, TailOfInsn DEF InsnInv, Single, Quiet
      <4>2. ip # 0 => \A k \in 1 .. Len(insn') : \E m \in 1 .. Len(prog[ip]) : insn'[k] = prog[ip][m]
        BY <3>1, <3>3, TailOfInsn DEF InsnInv
      <4> QED BY <3>1, <3>3, <4>1, <4>2 DEF InsnInv, Single, Quiet
    <3> QED BY <2>5, <3>2, <3>3 DEF WorkerTakesResponse, Trap
  <2>6. CASE ~InsnSteps /\ ~EndSteps /\ ~WorkerCounts /\ ~MasterStartsWorker
    <3>1. UNCHANGED <<wpc, prog, ip, insn>> /\ req'.acc = req.acc
      BY <2>6, InsnStays
    <3> QED BY <3>1 DEF InsnInv, Single, Quiet
  <2> QED BY <2>1, <2>2, <2>3, <2>4, <2>5, <2>6 DEF InsnSteps
<1> QED BY <1>1, <1>2, TypeCorrect, PTL DEF Spec

\* A step that leaves the worker and its request alone.
LEMMA PastStays ==
  ASSUME TypeOK, OrderInv, PastInv, UNCHANGED <<prog, ip, insn>>,
         wpc' = wpc \/ wpc' = "exited" \/ (wpc = "none" /\ wpc' = "check"),
         req'.id = req.id, req'.valid = req.valid,
         \A x \in Shown' : x \in Shown \/ (req.valid /\ x = Entry(req))
  PROVE  PastInv'
<1>1. Silent => Silent'
  BY DEF Silent, Quiet, NextIp
<1>2. \A x \in Shown' : Over(x.id)' => Over(x.id) /\ x \in Shown
  BY ShownTypes DEF Over, Entry
<1>3. \A x, y \in Shown' : x.id < y.id => x.id < req.id
  <2>0. Entry(req).id = req.id /\ req.id <= req.id
    BY ShownTypes DEF Entry
  <2>1. \A y \in Shown' : y.id <= req.id
    BY <2>0, Zenon DEF OrderInv
  <2>2. \A x \in Shown' : x.id \in Nat
    BY ShownTypes DEF Entry
  <2> QED BY <2>1, <2>2, ShownTypes
<1>4. \A x \in Shown' : x.id < req.id => x \in Shown
  BY ShownTypes DEF Entry
<1> QED BY <1>1, <1>2, <1>3, <1>4 DEF PastInv

LEMMA PastTakes ==
  ASSUME QuitIsLast, TypeOK, CalledInv, OrderInv, InsnInv, PastInv, WorkerTakesResponse,
         Shown' = Shown
  PROVE  PastInv'
<1>1. /\ wpc = "response" /\ wpc' = "execute" /\ prog' = prog /\ insn # << >> /\ req.valid
      /\ \/ insn' = << >> /\ ip' = 0
         \/ insn' = Tail(insn) /\ ip' = ip
  BY DEF WorkerTakesResponse, Trap, TypeOK, BusTypeOK, CalledInv
<1>2. /\ Single(insn) /\ req.acc = insn[1] /\ 1 \in 1 .. Len(insn)
      /\ ip = 0 => Quiet(insn)
      /\ ip # 0 => \E m \in 1 .. Len(prog[ip]) : req.acc = prog[ip][m]
  BY <1>1, TailOfInsn DEF InsnInv
\* What the request tells its instruction tells.
<1>3. ASSUME NEW x \in Shown, x.id = req.id, NEW bytes, x.val \in bytes, ip # 0
      PROVE  TellsIn(prog[ip], bytes)
  <2>1. Tells(req.acc, bytes)
    BY <1>3 DEF OrderInv, Tells
  <2>2. PICK m \in 1 .. Len(prog[ip]) : req.acc = prog[ip][m]
    BY <1>2, <1>3
  <2> QED BY <2>1, <2>2 DEF TellsIn
<1>4. \A x \in Shown : x.id < req.id \/ x.id = req.id
  <2>1. \A x \in Shown : x.id <= req.id
    BY Zenon DEF OrderInv
  <2> QED BY <2>1, ShownTypes
<1>5. ASSUME NEW x \in Shown, x.val \in Status
      PROVE  ip = 0 \/ \E h \in 1 .. ip : TellsIn(prog[h], Status)
  <2>1. CASE x.id < req.id
    BY <1>5, <2>1 DEF PastInv, Over
  <2>2. CASE x.id = req.id /\ ip # 0
    BY <1>3, <1>5, <2>2, ProgTypes
  <2> QED BY <1>4, <2>1, <2>2
<1>6. ASSUME NEW x \in Shown, NEW y \in Shown, x.val \in Status, y.val = "QUIT", x.id < y.id
      PROVE  Silent'
  <2>1. CASE ip' = 0
    <3>1. Quiet(insn')
      BY <1>1, <1>2, <2>1, TailOfInsn DEF Quiet
    <3> QED BY <1>1, <2>1, <3>1 DEF Silent, Quiet
  <2>2. CASE ip' # 0
    <3>1. insn' = Tail(insn) /\ ip' = ip
      BY <1>1, <2>2
    <3>2. CASE y.id < req.id
      <4>1. Silent
        BY <1>6, <3>2 DEF PastInv, Over
      <4>2. Quiet(insn')
        BY <1>1, <3>1, <4>1, TailOfInsn DEF Silent, Quiet
      <4> QED BY <1>1, <3>1, <4>1, <4>2 DEF Silent, Quiet, NextIp
    <3>3. CASE y.id = req.id
      <4>1. Tells(req.acc, {"QUIT"}) /\ TellsIn(prog[ip], {"QUIT"})
        BY <1>3, <1>6, <2>2, <3>1, <3>3 DEF OrderInv
      <4>2. PICK h \in 1 .. ip : TellsIn(prog[h], Status)
        BY <1>5, <1>6, <2>2, <3>1
      <4>3. ip \in 1 .. Len(prog) /\ prog \in Programs /\ Len(prog) \in Nat
        BY <2>2, <3>1, ProgTypes
      <4>4. Single(prog[ip])
        BY <4>3 DEF QuitIsLast
      <4>5. h # ip
        BY <4>1, <4>2, <4>4 DEF TellsIn, Tells, Single, Ends, Status
      <4>6. h \in 1 .. ip - 1
        BY <4>3, <4>5
      <4>7. ip < Len(prog) /\ \A j \in ip + 1 .. Len(prog) : Quiet(prog[j])
        BY <4>1, <4>2, <4>3, <4>6 DEF QuitIsLast
      <4>8. NextIp = ip + 1
        BY <2>2, <3>1, <4>3, <4>7 DEF NextIp
      <4>9. Ends(insn[1])
        BY <1>2, <4>1 DEF Tells, Ends
      <4>10. Quiet(insn')
        BY <1>1, <1>2, <3>1, <4>9, TailOfInsn DEF Single, Quiet
      <4> QED BY <1>1, <3>1, <4>7, <4>8, <4>10 DEF Silent, Quiet, NextIp
    <3> QED BY <1>4, <3>2, <3>3
  <2> QED BY <2>1, <2>2
<1> QED BY <1>1, <1>5, <1>6 DEF PastInv

LEMMA PastWorker ==
  ASSUME QuitIsLast, TypeOK, CalledInv, OrderInv, InsnInv, PastInv, ThreadNext
  PROVE  PastInv'
<1> USE DEF workerVars, ctxVars
<1>1. Shown' = Shown
  BY ShownStays DEF ThreadNext, socVars, rtlVars, tbVars
<1>2. CASE WorkerBegins
  <2>1. /\ insn' = CurrentInsn /\ UNCHANGED <<ip, prog, req>> /\ wpc' = "execute" /\ wpc = "check"
    BY <1>2 DEF WorkerBegins
  <2>2. Silent => Silent'
    <3> SUFFICES ASSUME Silent PROVE Silent'
      OBVIOUS
    <3>1. ip # 0 => /\ Quiet(prog[ip])
                    /\ \A j \in NextIp .. Len(prog) : Quiet(prog[j])
      BY <2>1, ProgTypes DEF Silent, NextIp
    <3>2. Quiet(CurrentInsn)
      BY <3>1, BegunInsn
    <3> QED BY <2>1, <3>1, <3>2 DEF Silent, Quiet, NextIp
  <2> QED BY <1>1, <2>1, <2>2 DEF PastInv, Over
<1>3. CASE WorkerCounts
  <2>1. /\ UNCHANGED <<insn, prog, req>> /\ ip' = NextIp /\ wpc' = "check" /\ wpc = "execute"
    BY <1>3 DEF WorkerCounts
  <2>2. Silent => Silent'
    BY <2>1 DEF Silent, Quiet, NextIp
  <2>3. (ip = 0 => ip' = 0) /\ \A h \in 1 .. ip : h \in 1 .. ip'
    BY <2>1, ProgTypes DEF NextIp
  <2> QED BY <1>1, <2>1, <2>2, <2>3 DEF PastInv, Over
<1>4. CASE WorkerIssues
  <2>1. /\ UNCHANGED <<insn, prog, ip>> /\ wpc' = "response" /\ wpc = "execute" /\ ~req.valid
    BY <1>4 DEF WorkerIssues, SlotFree
  <2>2. Silent => Silent'
    BY <2>1 DEF Silent, Quiet, NextIp
  <2> QED BY <1>1, <2>1, <2>2 DEF PastInv, Over
<1>5. CASE WorkerRefused \/ WorkerCut
  <2>1. /\ insn' = << >> /\ ip' = 0
    BY <1>5 DEF WorkerRefused, WorkerCut, Trap
  <2>2. Silent'
    BY <2>1 DEF Silent, Quiet
  <2> QED BY <1>1, <2>1, <2>2 DEF PastInv
<1>6. CASE EndSteps
  <2>1. UNCHANGED <<prog, ip, insn, req>> /\ wpc' = "exited"
    BY <1>6 DEF EndSteps, WorkerLeaves, WorkerHitsLimit, WorkerThrows
  <2> QED BY <1>1, <2>1, PastStays
<1>7. CASE ~InsnSteps /\ ~EndSteps /\ ~WorkerCounts
  <2>1. ~MasterStartsWorker
    BY DEF MasterStartsWorker, StartSpikeOnce, ThreadNext, WorkerNext, SpuriousWakeup,
       WorkerLeaves, WorkerHitsLimit, WorkerBegins, WorkerCounts, WorkerThrows,
       WorkerIssues, WorkerRefused, WorkerSleepsAgain, WorkerCut, WorkerTakesResponse
  <2>2. UNCHANGED <<wpc, prog, ip, insn>> /\ req'.id = req.id /\ req'.valid = req.valid
    BY <1>7, <2>1, InsnStays DEF Next
  <2> QED BY <1>1, <2>2, PastStays
<1> QED BY <1>1, <1>2, <1>3, <1>4, <1>5, <1>6, <1>7, PastTakes DEF InsnSteps

LEMMA PastInvariant == ASSUME QuitIsLast PROVE Spec => []PastInv
<1>1. Init => PastInv
  BY DEF Init, BusInit, PastInv, Shown, Told, IdleNets
<1>2. TypeOK /\ CalledInv /\ OrderInv /\ InsnInv /\ PastInv /\ [Next]_vars => PastInv'
  <2> SUFFICES ASSUME TypeOK, CalledInv, OrderInv, InsnInv, PastInv, [Next]_vars PROVE PastInv'
    OBVIOUS
  <2>1. CASE MasterStartsWorker
    <3>1. UNCHANGED <<prog, ip, insn, req, mem, nba, handled>> /\ wpc = "none" /\ wpc' = "check"
      BY <2>1 DEF MasterStartsWorker, StartSpikeOnce, workerVars, ctxVars, socVars, rtlVars, tbVars
    <3> QED BY <3>1, ShownStays, PastStays
  <2>2. CASE ~ThreadNext /\ ~MasterStartsWorker
    <3>1. \A x \in Shown' : x \in Shown \/ (req.valid /\ x = Entry(req))
      <4>1. CASE UNCHANGED vars
        BY <4>1, ShownStays DEF vars, socVars, rtlVars, tbVars
      <4>2. CASE EdgeNext /\ ~(MasterInReset \/ MasterFailsInit \/ ClockEdge \/ Testbench)
        BY <4>2, QuietSteps, ShownStays
      <4> QED BY <2>2, <4>1, <4>2, ShownMaster, ShownClock, ShownTestbench, ShownOthers
                DEF Next, Exited
    <3>2. UNCHANGED <<wpc, prog, ip, insn>> /\ req'.id = req.id /\ req'.valid = req.valid
      <4> USE DEF workerVars, ctxVars
      <4>1. CASE MasterSteps
        BY <4>1 DEF MasterSteps, SpikeBusStep, TypeOK, BusTypeOK
      <4>2. CASE EdgeNext
        BY <2>2, <4>2 DEF EdgeNext, ReleaseReset, MasterInReset, MasterFailsInit, Testbench,
           Timeout, FinishSetsExitCode, FinishStopsWorker, FinishJoins, ClockEdge, ExitMain,
           MarkFailed, SetExitCode, StopWorker, busVars
      <4>3. CASE UNCHANGED vars
        BY <4>3 DEF vars, busVars
      <4> QED BY <2>2, <4>1, <4>2, <4>3 DEF Next, Exited
    <3> QED BY <3>1, <3>2, PastStays
  <2> QED BY <2>1, <2>2, PastWorker
<1> QED BY <1>1, <1>2, TypeCorrect, CalledInvariant, OrderInvariant, InsnInvariant, PTL DEF Spec

LEMMA AnsweredTestbench ==
  ASSUME TypeOK, AnsweredInv, Testbench
  PROVE  AnsweredInv'
<1>1. /\ UNCHANGED <<mem, nba, req, wait_ready_low>> /\ (Unanswered' <=> Unanswered)
      /\ "tb" \in todo /\ "tb" \notin todo' /\ ("master" \in todo' <=> "master" \in todo)
      /\ (SimMmioSel' <=> SimMmioSel)
  BY DEF Testbench, Ready, Done, rtlVars, busVars, ctxVars, Unanswered, SimMmioSel
<1>2. \A k \in DOMAIN handled : ~(handled[k].id = req.id /\ Unanswered)
  BY <1>1 DEF AnsweredInv
<1>3. \A k \in DOMAIN handled' : handled'[k].id = req.id /\ Unanswered =>
        "master" \in todo /\ SimMmioSel /\ mem.id = req.id
  <2>1. CASE ~FirmwareWrites
    BY <1>2, <2>1 DEF Testbench
  <2>2. CASE FirmwareWrites
    <3>1. /\ SimMmioSel /\ handled \in Seq([id : Nat, val : Word])
          /\ handled' = Append(handled, [id |-> mem.id, val |-> mem.acc.val])
      BY <2>2, SeenWrites DEF Testbench
    <3>2. \A k \in DOMAIN handled' :
            \/ k \in DOMAIN handled /\ handled'[k] = handled[k]
            \/ handled'[k].id = mem.id
      BY <3>1
    <3>3. mem.id = req.id /\ Unanswered => "master" \in todo
      BY <3>1 DEF AnsweredInv
    <3> QED BY <1>2, <3>1, <3>2, <3>3
  <2> QED BY <2>1, <2>2
<1> QED BY <1>1, <1>3 DEF AnsweredInv

LEMMA AnsweredMaster ==
  ASSUME TypeOK, OrderInv, AnsweredInv, MasterSteps
  PROVE  AnsweredInv'
<1>1. /\ UNCHANGED <<mem, handled>> /\ "master" \in todo /\ nba = mem /\ req'.id = req.id
      /\ (SimMmioSel' <=> SimMmioSel)
  BY DEF MasterSteps, SpikeBusStep, Ready, tbVars, OrderInv, SimMmioSel, TypeOK, BusTypeOK
<1>2. Unanswered' => Unanswered /\ ~StepCaptures(mem.valid /\ MemReady)
  BY DEF MasterSteps, SpikeBusStep, StepCaptures, Unanswered, TypeOK, BusTypeOK
<1>3. nba'.valid => ~wait_ready_low
  BY DEF MasterSteps, StepOutputs, IdleNets
<1>4. ~wait_ready_low => wait_ready_low' = StepCaptures(mem.valid /\ MemReady)
  BY DEF MasterSteps, SpikeBusStep
\* The write on the bus is answered now.
<1>5. SimMmioSel /\ mem.id = req.id => ~Unanswered'
  <2> SUFFICES ASSUME SimMmioSel, mem.id = req.id, Unanswered' PROVE FALSE
    OBVIOUS
  <2>1. mem.valid /\ MemReady /\ Unanswered
    BY <1>2, SeenWrites DEF SimMmioSel
  <2>2. ~wait_ready_low
    BY <1>1, <2>1 DEF AnsweredInv
  <2> QED BY <1>2, <2>1, <2>2 DEF StepCaptures, Unanswered
<1>6. \A k \in DOMAIN handled : handled[k].id = req.id /\ Unanswered => SimMmioSel /\ mem.id = req.id
  BY DEF AnsweredInv
<1> QED BY <1>1, <1>2, <1>3, <1>4, <1>5, <1>6 DEF AnsweredInv

LEMMA AnsweredWorker ==
  ASSUME TypeOK, OrderInv, AnsweredInv, ThreadNext
  PROVE  AnsweredInv'
<1> USE DEF workerVars, ctxVars
<1>1. UNCHANGED <<mem, nba, handled, todo>> /\ (SimMmioSel' <=> SimMmioSel)
  BY DEF ThreadNext, socVars, rtlVars, tbVars, ctlVars, SimMmioSel
<1>2. CASE WorkerIssues
  <2>1. req'.id = req.id + 1
    BY <1>2 DEF WorkerIssues
  <2>2. \A i \in Nat : i <= req.id => i # req'.id
    BY <2>1, ShownTypes
  <2>3. /\ mem.valid => mem.id # req'.id
        /\ nba.valid => nba.id # req'.id
        /\ \A k \in DOMAIN handled : handled[k].id # req'.id
    BY <2>2, ShownTypes DEF OrderInv
  <2> QED BY <1>1, <2>3 DEF AnsweredInv, SimMmioSel
<1>3. CASE WorkerTakesResponse
  <2>1. ~Unanswered'
    BY <1>3 DEF WorkerTakesResponse, Unanswered, TypeOK, BusTypeOK
  <2> QED BY <2>1 DEF AnsweredInv
<1>4. CASE ~WorkerIssues /\ ~WorkerTakesResponse
  <2>1. UNCHANGED <<req, wait_ready_low>>
    BY <1>4 DEF ThreadNext, WorkerNext, SpuriousWakeup, WorkerLeaves, WorkerHitsLimit,
         WorkerBegins, WorkerCounts, WorkerThrows, WorkerRefused, WorkerSleepsAgain, WorkerCut
  <2> QED BY <1>1, <2>1 DEF AnsweredInv, Unanswered
<1> QED BY <1>2, <1>3, <1>4

LEMMA AnsweredInvariant == Spec => []AnsweredInv
<1>1. Init => AnsweredInv
  BY DEF Init, BusInit, AnsweredInv, Unanswered, IdleNets
<1>2. TypeOK /\ CalledInv /\ OrderInv /\ AnsweredInv /\ [Next]_vars => AnsweredInv'
  <2> SUFFICES ASSUME TypeOK, CalledInv, OrderInv, AnsweredInv, [Next]_vars PROVE AnsweredInv'
    OBVIOUS
  <2>1. ASSUME UNCHANGED <<mem, nba, handled, req, wait_ready_low>>,
               "master" \in todo' <=> "master" \in todo, "tb" \in todo' <=> "tb" \in todo
        PROVE  AnsweredInv'
    BY <2>1 DEF AnsweredInv, Unanswered, SimMmioSel
  <2>2. CASE UNCHANGED vars
    BY <2>1, <2>2 DEF vars, busVars, ctxVars, socVars, rtlVars, tbVars, ctlVars
  <2>3. CASE MasterInReset \/ MasterFailsInit
    <3>1. ~Unanswered'
      BY <2>3 DEF MasterInReset, MasterFailsInit, MarkFailed, busVars, ctxVars, CalledInv, Unanswered
    <3> QED BY <3>1 DEF AnsweredInv
  <2>4. CASE EdgeNext /\ ~(MasterInReset \/ MasterFailsInit \/ ClockEdge \/ Testbench)
    BY <2>1, <2>4, QuietSteps
  <2>5. CASE ClockEdge
    <3>1. /\ todo = {} /\ {"master", "tb"} \subseteq todo'
          /\ UNCHANGED <<nba, handled, req, wait_ready_low>>
      BY <2>5 DEF ClockEdge, busVars, ctxVars, tbVars
    <3> QED BY <3>1 DEF AnsweredInv, Unanswered
  <2> QED
    BY <2>2, <2>3, <2>4, <2>5, AnsweredTestbench, AnsweredMaster, AnsweredWorker DEF Next, Exited
<1> QED BY <1>1, <1>2, TypeCorrect, CalledInvariant, OrderInvariant, PTL DEF Spec

\* No step makes a write the testbench has acted on wait for its response again.
LEMMA AnsweredForGood ==
  ASSUME TypeOK, OrderInv, [Next]_vars, NEW k \in DOMAIN handled,
         handled[k].id = req'.id, Unanswered'
  PROVE  handled[k].id = req.id /\ Unanswered
<1> USE DEF workerVars, ctxVars
<1>1. CASE WorkerIssues
  <2>1. req'.id = req.id + 1 /\ handled[k].id <= req.id
    BY <1>1, ShownTypes DEF WorkerIssues, OrderInv
  <2> QED BY <2>1, ShownTypes
<1>2. CASE WorkerTakesResponse
  BY <1>2 DEF WorkerTakesResponse, Unanswered, TypeOK, BusTypeOK
<1>3. CASE MasterSteps
  BY <1>3 DEF MasterSteps, SpikeBusStep, Unanswered, TypeOK, BusTypeOK
<1>4. CASE UNCHANGED req
  BY <1>4 DEF Unanswered
<1>5. \/ WorkerIssues \/ WorkerTakesResponse \/ MasterSteps \/ UNCHANGED req
  <2>1. CASE EdgeNext
    BY <2>1, OtherBlocks DEF ClockEdge, busVars
  <2>2. CASE ThreadNext
    BY <2>2 DEF ThreadNext, WorkerNext, SpuriousWakeup, WorkerLeaves, WorkerHitsLimit,
       WorkerBegins, WorkerCounts, WorkerThrows, WorkerRefused, WorkerSleepsAgain, WorkerCut
  <2> QED BY <2>1, <2>2 DEF Next, Exited, vars, busVars
<1> QED BY <1>1, <1>2, <1>3, <1>4, <1>5

LEMMA ReportTestbench ==
  ASSUME TypeOK, CodeInv, AnsweredInv, ReportInv, Testbench
  PROVE  ReportInv'
<1>1. /\ req' = req /\ (Unanswered' <=> Unanswered) /\ "tb" \in todo
      /\ pending' = NewPending /\ (finish_delay' >= 0 => NewDelay >= 0)
      /\ fin.code # 0
  BY ProtocolType DEF Testbench, Ready, busVars, ctxVars, Unanswered, TypeOK, CodeInv
\* What has been acted on stays so.
<1>2. \A k \in DOMAIN handled : k \in DOMAIN handled' /\ handled'[k] = handled[k]
  BY SeenWrites DEF Testbench
<1>3. \A s, q \in DOMAIN handled : Reported(s, q) => Reported(s, q)'
  BY <1>2 DEF Reported
<1>4. NewPending # NoCode => \E s \in DOMAIN handled' : handled'[s].val \in Status
  <2>1. CASE FirmwareWrites /\ mem.acc.val \in Status
    <3>1. /\ handled' = Append(handled, [id |-> mem.id, val |-> mem.acc.val])
          /\ handled \in Seq([id : Nat, val : Word])
      BY <2>1, SeenWrites DEF Testbench
    <3>2. Len(handled) + 1 \in DOMAIN handled' /\ handled'[Len(handled) + 1].val = mem.acc.val
      BY <3>1
    <3> QED BY <2>1, <3>2
  <2>2. CASE ~(FirmwareWrites /\ mem.acc.val \in Status)
    <3>1. NewPending = pending
      BY <2>2 DEF NewPending, PendingAfter, Status
    <3> QED BY <1>2, <3>1 DEF ReportInv
  <2> QED BY <2>1, <2>2
<1>5. NewDelay >= 0 => \E s, q \in DOMAIN handled' : Reported(s, q)'
  <2>1. CASE FirmwareWrites /\ mem.acc.val = "QUIT" /\ pending # NoCode
    <3> DEFINE n == Len(handled) + 1
    <3>1. /\ handled' = Append(handled, [id |-> mem.id, val |-> mem.acc.val])
          /\ handled \in Seq([id : Nat, val : Word])
      BY <2>1, SeenWrites DEF Testbench
    <3>2. n \in DOMAIN handled' /\ handled'[n].val = "QUIT" /\ \A s \in DOMAIN handled : s < n
      BY <2>1, <3>1
    <3> HIDE DEF n
    <3> QED BY <1>2, <2>1, <3>2 DEF ReportInv, Reported
  <2>2. CASE ~(FirmwareWrites /\ mem.acc.val = "QUIT" /\ pending # NoCode)
    <3>1. NewDelay >= 0 => NewDelay = finish_delay
      BY <2>2 DEF NewDelay, DelayAfter
    <3> QED BY <1>2, <1>3, <3>1 DEF ReportInv
  <2> QED BY <2>1, <2>2
\* The countdown has run out: the QUIT was acted on at an earlier edge.
<1>6. fin'.code = 0 => \E s, q \in DOMAIN handled' :
                         Reported(s, q)' /\ (handled'[q].id = req.id => ~Unanswered)
  <2> SUFFICES ASSUME fin'.code = 0
               PROVE  \E s, q \in DOMAIN handled' :
                        Reported(s, q)' /\ (handled'[q].id = req.id => ~Unanswered)
    OBVIOUS
  <2>1. FinishCode = 0
    BY <1>1 DEF Testbench
  <2>2. NewDelay = 0
    BY <2>1 DEF FinishCode, NoCode
  <2>3. finish_delay >= 0
    BY <2>2 DEF NewDelay, DelayAfter
  <2>4. PICK s \in DOMAIN handled, q \in DOMAIN handled : Reported(s, q)
    BY <2>3 DEF ReportInv
  <2>5. handled[q].id = req.id => ~Unanswered
    BY <1>1 DEF AnsweredInv
  <2> QED BY <1>2, <1>3, <2>4, <2>5
<1> QED BY <1>1, <1>4, <1>5, <1>6 DEF ReportInv

LEMMA ReportInvariant == Spec => []ReportInv
<1>1. Init => ReportInv
  BY DEF Init, BusInit, ReportInv, NoCode
<1>2. TypeOK /\ CodeInv /\ OrderInv /\ AnsweredInv /\ ReportInv /\ [Next]_vars => ReportInv'
  <2> SUFFICES ASSUME TypeOK, CodeInv, OrderInv, AnsweredInv, ReportInv, [Next]_vars
               PROVE  ReportInv'
    OBVIOUS
  <2>1. CASE ~Testbench
    <3>1. UNCHANGED <<handled, pending, finish_delay>> /\ (fin'.code = 0 => fin.code = 0)
      <4>1. CASE FinishSetsExitCode \/ FinishStopsWorker \/ FinishJoins
        BY <4>1 DEF FinishSetsExitCode, FinishStopsWorker, FinishJoins, TypeOK, TbTypeOK
      <4>2. CASE Timeout
        BY <4>2 DEF Timeout
      <4>3. CASE EdgeNext /\ ~Timeout /\ ~(FinishSetsExitCode \/ FinishStopsWorker \/ FinishJoins)
        BY <2>1, <4>3 DEF EdgeNext, ReleaseReset, MasterInReset, MasterFailsInit,
           MasterStartsWorker, ClockEdge, ExitMain, socVars, tbVars
      <4>4. CASE MasterSteps \/ ThreadNext \/ UNCHANGED vars
        BY <4>4 DEF MasterSteps, ThreadNext, vars, socVars, tbVars
      <4> QED BY <4>1, <4>2, <4>3, <4>4 DEF Next, Exited
    <3>2. \A k \in DOMAIN handled : handled[k].id = req'.id /\ Unanswered' =>
                                      handled[k].id = req.id /\ Unanswered
      BY AnsweredForGood
    <3> QED BY <3>1, <3>2 DEF ReportInv, Reported
  <2> QED BY <2>1, ReportTestbench
<1> QED BY <1>1, <1>2, TypeCorrect, CodeInvariant, OrderInvariant, AnsweredInvariant, PTL DEF Spec

\* A finish by countdown never takes the worker away while a protocol store waits for its
\* response, however late the worker is.  The hypothesis is about the firmware alone: the
\* first QUIT after a status is the last it has to say.
THEOREM StatusStoreTheorem == ASSUME QuitIsLast PROVE Spec => StatusStoreNotCut
<1>1. /\ TypeOK /\ WaitInv /\ CalledInv /\ OrderInv /\ InsnInv /\ PastInv /\ ReportInv
      /\ WorkerCut /\ fin.code = 0
      => req.acc.val \notin Status \cup {"QUIT"}
  <2> SUFFICES ASSUME TypeOK, WaitInv, CalledInv, OrderInv, InsnInv, PastInv, ReportInv,
                      WorkerCut, fin.code = 0
               PROVE  ~Ends(req.acc)
    BY DEF Ends
  <2>1. wpc = "response" /\ req.valid /\ ~failed /\ Unanswered
    BY DEF WorkerCut, ResponseCut, WaitInv, FailureEndsWorker, CalledInv, Unanswered
  <2>2. PICK s \in DOMAIN handled, q \in DOMAIN handled :
          Reported(s, q) /\ handled[q].id # req.id
    BY <2>1 DEF ReportInv
  <2>3. handled[s] \in Shown /\ handled[q] \in Shown
    BY ShownTypes
  <2>4. handled[s].id < handled[q].id /\ handled[q].id < req.id
    <3>1. handled[s].id <= handled[q].id /\ handled[q].id <= req.id
      BY <2>2, <2>3 DEF Reported, OrderInv
    <3>2. handled[s].id # handled[q].id
      BY <2>2, <2>3 DEF Reported, OrderInv, Status
    <3> QED BY <2>2, <2>3, <3>1, <3>2, ShownTypes
  <2>5. Silent
    BY <2>2, <2>3, <2>4 DEF PastInv, Reported, Over
  <2>6. Quiet(insn) /\ req.acc = insn[1] /\ 1 \in 1 .. Len(insn)
    BY <2>1, <2>5, TailOfInsn DEF Silent, InsnInv, TypeOK, BusTypeOK
  <2> QED BY <2>6 DEF Quiet
<1>2. /\ TypeOK /\ WaitInv /\ CalledInv /\ OrderInv /\ InsnInv /\ PastInv /\ ReportInv
      => [WorkerCut /\ fin.code = 0 => req.acc.val \notin Status \cup {"QUIT"}]_vars
  BY <1>1
<1> QED
  BY <1>2, TypeCorrect, WaitInvariant, CalledInvariant, OrderInvariant, InsnInvariant,
     PastInvariant, ReportInvariant, PTL DEF StatusStoreNotCut
=============================================================================
