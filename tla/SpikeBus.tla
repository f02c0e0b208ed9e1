------------------------------ MODULE SpikeBus ------------------------------
(***************************************************************************)
(* The DPI back end of the SoC mode, src/src/top_soc/spike_bus_dpi.cc.     *)
(*                                                                         *)
(* Spike runs in a worker thread and turns every fetch, load and store     *)
(* into one request in the shared context g_ctx; the simulation thread     *)
(* serves that request from spike_bus_step, one call per clock edge.  The  *)
(* two threads share g_ctx under one mutex and one condition variable.     *)
(* Each critical section is one action here; the condition variable is     *)
(* the flag asleep, which only a notify (or a spurious wakeup) clears.     *)
(*                                                                         *)
(* Spike itself is external: an instruction is the sequence of bus         *)
(* accesses it makes, a program a sequence of instructions whose last one  *)
(* is the firmware's final while(1).  A fetch that returns anything but    *)
(* the word of the image is an illegal instruction; a trap continues at    *)
(* mtvec = 0, which the bus decodes as SPI flash.                          *)
(***************************************************************************)
EXTENDS Integers, Sequences

CONSTANTS
  RamAddr,    \* word addresses of the PicoSoC RAM
  Word,       \* data words, the protocol bytes of sim.h among them
  Image,      \* the firmware image preloaded into RAM
  Programs,   \* the firmware programs considered
  MaxSteps    \* kMaxSteps

Status == {"PASS", "FAIL", "FINISH"}

Addr == RamAddr \cup {"sim_mmio", "reg", "flash"}

Access == [op : {"fetch", "load", "store"}, addr : Addr, val : Word]

ASSUME WordAssumption == {"zero", "START", "QUIT"} \cup Status \subseteq Word
ASSUME RamAssumption == RamAddr \cap {"sim_mmio", "reg", "flash"} = {}
ASSUME ImageAssumption == Image \in [RamAddr -> Word]
ASSUME ProgramAssumption ==
  \A p \in Programs : p \in Seq(Seq(Access)) /\ Len(p) > 0
ASSUME StepsAssumption == MaxSteps \in Nat

VARIABLES
  prog,            \* the firmware of this run, fixed by Init
  wpc,             \* where the worker thread is in run_spike
  asleep,          \* the worker is blocked in cv.wait
  ip,              \* next instruction of prog; 0 is the trap vector
  insn,            \* accesses the current instruction has still to make
  last,            \* word the last completed access gave back to Spike
  req,             \* g_ctx.req; id numbers the requests (history only)
  wait_ready_low,  \* g_ctx.wait_ready_low
  failed,          \* g_ctx.failed
  stop,            \* g_ctx.stop
  steps,           \* g_ctx.steps
  exit_code        \* g_exit_code

workerVars == <<prog, ip, insn, last, steps>>
ctxVars == <<req, wait_ready_low, failed, stop, exit_code>>
busVars == <<workerVars, ctxVars, wpc, asleep>>

NoAccess == [op |-> "load", addr |-> "flash", val |-> "zero"]

BusInit ==
  /\ prog \in Programs
  /\ wpc = "none"
  /\ asleep = FALSE
  /\ ip = 1
  /\ insn = << >>
  /\ last = "zero"
  /\ req = [valid |-> FALSE, acc |-> NoAccess, rdata |-> "zero",
            response_ready |-> FALSE, id |-> 0]
  /\ wait_ready_low = FALSE
  /\ failed = FALSE
  /\ stop = FALSE
  /\ steps = 0
  /\ exit_code = 0

-----------------------------------------------------------------------------
(* The worker thread: run_spike, with issue_bus_request under step(1).     *)

\* mtvec = 0: Spike fetches from SPI flash.
TrapInsn == <<[op |-> "fetch", addr |-> "flash", val |-> "zero"]>>

CurrentInsn == IF ip = 0 THEN TrapInsn ELSE prog[ip]

\* The instruction that follows; the last one of a program is its while(1).
NextIp == IF ip = 0 \/ ip = Len(prog) THEN ip ELSE ip + 1

\* run_spike leaves its loop when asked to.
WorkerLeaves ==
  /\ wpc = "check"
  /\ stop \/ failed
  /\ wpc' = "exited"
  /\ UNCHANGED <<workerVars, ctxVars, asleep>>

\* The step limit is a failure of the run and sets the exit code itself.
WorkerHitsLimit ==
  /\ wpc = "check"
  /\ ~stop /\ ~failed
  /\ steps >= MaxSteps
  /\ failed' = TRUE
  /\ exit_code' = 1
  /\ wpc' = "exited"
  /\ UNCHANGED <<workerVars, req, wait_ready_low, stop, asleep>>

\* Mutant: the limit is compared with > instead of >=.
WorkerBeginsLate ==
  /\ wpc = "check"
  /\ ~stop /\ ~failed
  /\ wpc' = "execute"
  /\ insn' = CurrentInsn
  /\ UNCHANGED <<prog, ip, last, steps, ctxVars, asleep>>

WorkerBegins ==
  /\ wpc = "check"
  /\ ~stop /\ ~failed
  /\ steps < MaxSteps
  /\ wpc' = "execute"
  /\ insn' = CurrentInsn
  /\ UNCHANGED <<prog, ip, last, steps, ctxVars, asleep>>

\* step(1) has returned.
WorkerCounts ==
  /\ wpc = "execute"
  /\ insn = << >>
  /\ steps' = steps + 1
  /\ ip' = NextIp
  /\ wpc' = "check"
  /\ UNCHANGED <<prog, insn, last, ctxVars, asleep>>

\* Mutant: the exception is caught inside the loop, which goes on.
WorkerThrowsOn ==
  /\ wpc = "execute"
  /\ failed' = TRUE
  /\ wpc' = "execute"
  /\ UNCHANGED <<workerVars, req, wait_ready_low, stop, exit_code, asleep>>

\* step(1) throws: run_spike marks the run failed and ends.
WorkerThrows ==
  /\ wpc = "execute"
  /\ failed' = TRUE
  /\ wpc' = "exited"
  /\ UNCHANGED <<workerVars, req, wait_ready_low, stop, exit_code, asleep>>

\* Spike takes a trap: the rest of the instruction is dropped.
Trap ==
  /\ ip' = 0
  /\ insn' = << >>

\* First wait of issue_bus_request; its predicate does not mention failed.
SlotFree == ~req.valid \/ stop

WorkerIssues ==
  /\ wpc = "execute"
  /\ insn # << >>
  /\ SlotFree
  /\ ~stop /\ ~failed
  /\ req' = [valid |-> TRUE, acc |-> Head(insn), rdata |-> "zero",
             response_ready |-> FALSE, id |-> req.id + 1]
  /\ wpc' = "response"
  /\ asleep' = TRUE
  /\ UNCHANGED <<workerVars, wait_ready_low, failed, stop, exit_code>>

\* issue_bus_request returns false before it posted anything.
WorkerRefused ==
  /\ wpc = "execute"
  /\ insn # << >>
  /\ SlotFree
  /\ stop \/ failed
  /\ Trap
  /\ UNCHANGED <<prog, last, steps, ctxVars, wpc, asleep>>

\* The standard lets a condition variable wake up for no reason.
SpuriousWakeup ==
  /\ asleep
  /\ asleep' = FALSE
  /\ UNCHANGED <<workerVars, ctxVars, wpc>>

ResponsePending == ~req.response_ready /\ ~stop /\ ~failed

WorkerSleepsAgain ==
  /\ wpc = "response" /\ ~asleep
  /\ ResponsePending
  /\ asleep' = TRUE
  /\ UNCHANGED <<workerVars, ctxVars, wpc>>

\* The wait ends without a response; the request stays posted.
ResponseCut == failed \/ (~req.response_ready /\ stop)

WorkerCut ==
  /\ wpc = "response" /\ ~asleep
  /\ ~ResponsePending
  /\ ResponseCut
  /\ Trap
  /\ wpc' = "execute"
  /\ UNCHANGED <<prog, last, steps, ctxVars, asleep>>

\* A fetch must give the word the image holds at that address.
IllegalFetch ==
  /\ req.acc.op = "fetch"
  /\ IF req.acc.addr \in RamAddr THEN req.rdata # Image[req.acc.addr] ELSE TRUE

\* Mutant: the slot is not released after the response was read.
WorkerKeepsSlot ==
  /\ wpc = "response" /\ ~asleep
  /\ ~ResponsePending
  /\ ~ResponseCut
  /\ insn' = Tail(insn)
  /\ req' = [req EXCEPT !.response_ready = FALSE]
  /\ wpc' = "execute"
  /\ UNCHANGED <<prog, ip, last, steps, wait_ready_low, failed, stop, exit_code, asleep>>

WorkerTakesResponse ==
  /\ wpc = "response" /\ ~asleep
  /\ ~ResponsePending
  /\ ~ResponseCut
  /\ last' = IF req.acc.op = "store" THEN last ELSE req.rdata
  /\ IF IllegalFetch THEN Trap ELSE insn' = Tail(insn) /\ ip' = ip
  /\ req' = [req EXCEPT !.valid = FALSE, !.response_ready = FALSE]
  /\ wpc' = "execute"
  /\ UNCHANGED <<prog, steps, wait_ready_low, failed, stop, exit_code, asleep>>

WorkerNext ==
  \/ WorkerLeaves
  \/ WorkerHitsLimit
  \/ WorkerBegins
  \/ WorkerCounts
  \/ WorkerThrows
  \/ WorkerIssues
  \/ WorkerRefused
  \/ WorkerSleepsAgain
  \/ WorkerCut
  \/ WorkerTakesResponse

-----------------------------------------------------------------------------
(* The DPI calls of the simulation thread.                                 *)

IdleNets == [valid |-> FALSE, acc |-> NoAccess, id |-> 0]

\* What spike_bus_step drives on the bus after this edge.
StepOutputs ==
  IF wait_ready_low \/ ~req.valid
  THEN IdleNets
  ELSE [valid |-> TRUE, acc |-> req.acc, id |-> req.id]

\* spike_bus_step takes the bus response for the posted request.
StepCaptures(ready) ==
  ~wait_ready_low /\ req.valid /\ ready /\ ~req.response_ready

\* Mutant: wait_ready_low is never set.
SpikeBusStepNoWait(ready, rdata) ==
  /\ IF StepCaptures(ready)
     THEN /\ req' = [req EXCEPT !.rdata = rdata, !.response_ready = TRUE]
          /\ asleep' = FALSE
     ELSE UNCHANGED <<req, asleep>>
  /\ UNCHANGED <<workerVars, wpc, failed, stop, exit_code, wait_ready_low>>

\* Mutant: the response is stored without a notify.
SpikeBusStepSilent(ready, rdata) ==
  /\ wait_ready_low' = IF wait_ready_low THEN ready ELSE StepCaptures(ready)
  /\ req' = IF StepCaptures(ready)
            THEN [req EXCEPT !.rdata = rdata, !.response_ready = TRUE] ELSE req
  /\ UNCHANGED <<workerVars, wpc, failed, stop, exit_code, asleep>>

SpikeBusStep(ready, rdata) ==
  /\ wait_ready_low' = IF wait_ready_low THEN ready ELSE StepCaptures(ready)
  /\ IF StepCaptures(ready)
     THEN /\ req' = [req EXCEPT !.rdata = rdata, !.response_ready = TRUE]
          /\ asleep' = FALSE
     ELSE UNCHANGED <<req, asleep>>
  /\ UNCHANGED <<workerVars, wpc, failed, stop, exit_code>>

StartSpikeOnce ==
  /\ wpc = "none"
  /\ wpc' = "check"
  /\ UNCHANGED <<workerVars, ctxVars, asleep>>

MarkFailed ==
  /\ failed' = TRUE
  /\ asleep' = FALSE
  /\ UNCHANGED <<workerVars, req, wait_ready_low, stop, exit_code, wpc>>

SetExitCode(code) ==
  /\ exit_code' = code
  /\ UNCHANGED <<workerVars, req, wait_ready_low, failed, stop, wpc, asleep>>

\* Mutant: stop is set without a notify.
StopWorkerSilent ==
  /\ stop' = TRUE
  /\ UNCHANGED <<workerVars, req, wait_ready_low, failed, exit_code, wpc, asleep>>

\* First half of spike_bus_finish; the second half joins the worker.
StopWorker ==
  /\ stop' = TRUE
  /\ asleep' = FALSE
  /\ UNCHANGED <<workerVars, req, wait_ready_low, failed, exit_code, wpc>>

\* Mutant: the worker is detached instead of joined.
Detached == TRUE

Joinable == wpc \in {"none", "exited"}
=============================================================================
