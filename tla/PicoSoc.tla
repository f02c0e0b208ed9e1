------------------------------- MODULE PicoSoc -------------------------------
(***************************************************************************)
(* The SoC Spike mode as a whole: the DPI back end of SpikeBus, the bus    *)
(* master spike_bus_master.sv, the decode and RAM of picosoc.v, and the    *)
(* testbench tb_picosoc_soc.sv with its firmware protocol and its finish.  *)
(*                                                                         *)
(* One rising clock edge is a set todo of always/initial blocks that run   *)
(* in any order (the language fixes none), the worker thread interleaving  *)
(* between them, followed by ClockEdge, which applies the nonblocking      *)
(* assignments computed from the values before the edge.  Nets therefore   *)
(* keep their value while todo is being emptied.                           *)
(***************************************************************************)
EXTENDS SpikeBus

CONSTANTS
  CountCap,   \* where the RAM access counters stop counting (model bound)
  RegWord     \* what the SPI/UART registers hold (external devices)

ASSUME CountAssumption == CountCap \in Nat
ASSUME RegAssumption == RegWord \in Word

VARIABLES
  todo,           \* blocks of the current clock edge that have not run yet
  resetn,
  init_ok,        \* init_spike_once can succeed: TEST_ELF set, log opened
  mem,            \* mem_valid, mem_addr, mem_wdata, mem_wstrb
  nba,            \* their next values, assigned by the bus master
  ram,            \* picosoc_mem
  ram_ready,
  ram_rdata,
  flash_ready,    \* spimem_ready (external spimemio)
  prev_iomem_fire,
  ram_read_count,
  ram_write_count,
  pending,        \* finish_pending_code, or NoCode while not finish_pending
  finish_delay,
  sim_done,
  fin,            \* where finish_soc is: its pc and its code
  timed_out,      \* the 4,000,000th edge has come
  finished,       \* $finish has been called
  exited,         \* main has returned exit_code
  handled,        \* firmware writes the testbench acted on (history)
  served          \* RAM accesses answered to the worker (history)

rtlVars == <<mem, nba, ram, ram_ready, ram_rdata, flash_ready,
             prev_iomem_fire, ram_read_count, ram_write_count>>
tbVars == <<pending, finish_delay, sim_done, fin, finished, handled>>
ctlVars == <<todo, resetn, init_ok, timed_out, exited, served>>
socVars == <<rtlVars, tbVars, ctlVars>>
vars == <<busVars, socVars>>

NoCode == -1
Blocks == {"master", "tb", "reset", "timeout"}

Init ==
  /\ BusInit
  /\ todo = {}
  /\ resetn = FALSE
  /\ init_ok \in BOOLEAN
  /\ mem = IdleNets
  /\ nba = IdleNets
  /\ ram = Image
  /\ ram_ready = FALSE
  /\ ram_rdata = "zero"
  /\ flash_ready = FALSE
  /\ prev_iomem_fire = FALSE
  /\ ram_read_count = 0
  /\ ram_write_count = 0
  /\ pending = NoCode
  /\ finish_delay = -1
  /\ sim_done = FALSE
  /\ fin = [pc |-> "idle", code |-> NoCode]
  /\ timed_out = FALSE
  /\ finished = FALSE
  /\ exited = FALSE
  /\ handled = << >>
  /\ served = [reads |-> 0, writes |-> 0]

-----------------------------------------------------------------------------
(* The combinational nets of picosoc.v.                                    *)

RamSel == mem.valid /\ mem.acc.addr \in RamAddr
SimMmioSel == mem.valid /\ mem.acc.addr = "sim_mmio"
RegSel == mem.valid /\ mem.acc.addr = "reg"

\* mem_addr[31:24] > 1 and neither RAM nor sim MMIO: the registers as well.
ExternalIomemSel == RegSel

IomemValid == SimMmioSel \/ ExternalIomemSel

\* The testbench ties iomem_ready to iomem_valid and iomem_rdata to 0.
IomemReady == IomemValid

SpimemReady == mem.valid /\ mem.acc.addr = "flash" /\ flash_ready

MemReady == (IomemValid /\ IomemReady) \/ SpimemReady \/ ram_ready \/ RegSel

MemRdata ==
  IF IomemValid /\ IomemReady THEN "zero"
  ELSE IF SpimemReady THEN "zero"
  ELSE IF ram_ready THEN ram_rdata
  ELSE IF RegSel THEN RegWord
  ELSE "zero"

IsWrite == mem.acc.op = "store"

\* Mutant: the write enable does not look at mem_wstrb.
RamWenAlways == RamSel /\ ~MemReady

RamWen == RamSel /\ ~MemReady /\ IsWrite

IomemFire == IomemValid /\ IomemReady /\ IsWrite
\* Mutant: every edge of a write counts as a new one.
IomemFireEach == IomemFire

IomemFireNew == IomemFire /\ ~prev_iomem_fire

-----------------------------------------------------------------------------
(* The simulation thread: the blocks of one clock edge.                    *)

Ready(block) == block \in todo /\ fin.pc = "idle"
Done(block) == todo' = todo \ {block}

\* reset is released at the eighth edge; which edge that is is left open.
ReleaseReset ==
  /\ Ready("reset")
  /\ Done("reset")
  /\ resetn' \in BOOLEAN
  /\ UNCHANGED <<busVars, rtlVars, tbVars, init_ok, timed_out, exited, served>>

MasterInReset ==
  /\ Ready("master")
  /\ ~resetn
  /\ nba' = IdleNets
  /\ Done("master")
  /\ UNCHANGED <<busVars, mem, ram, ram_ready, ram_rdata, flash_ready,
                 prev_iomem_fire, ram_read_count, ram_write_count, tbVars,
                 resetn, init_ok, timed_out, exited, served>>

\* spike_bus_step cannot set Spike up.
MasterFailsInit ==
  /\ Ready("master")
  /\ resetn /\ ~init_ok
  /\ MarkFailed
  /\ nba' = IdleNets
  /\ Done("master")
  /\ UNCHANGED <<mem, ram, ram_ready, ram_rdata, flash_ready,
                 prev_iomem_fire, ram_read_count, ram_write_count, tbVars,
                 resetn, init_ok, timed_out, exited, served>>

\* The first call starts the worker, which may run before the call goes on.
MasterStartsWorker ==
  /\ Ready("master")
  /\ resetn /\ init_ok
  /\ StartSpikeOnce
  /\ UNCHANGED socVars

MasterSteps ==
  /\ Ready("master")
  /\ resetn /\ init_ok
  /\ wpc # "none"
  /\ SpikeBusStep(mem.valid /\ MemReady, MemRdata)
  /\ nba' = StepOutputs
  /\ served' = IF StepCaptures(mem.valid /\ MemReady) /\ req.acc.addr \in RamAddr
               THEN IF req.acc.op = "store"
                    THEN [served EXCEPT !.writes = @ + 1]
                    ELSE [served EXCEPT !.reads = @ + 1]
               ELSE served
  /\ Done("master")
  /\ UNCHANGED <<mem, ram, ram_ready, ram_rdata, flash_ready,
                 prev_iomem_fire, ram_read_count, ram_write_count, tbVars,
                 resetn, init_ok, timed_out, exited>>

\* Mutant: FAIL does not assign the finish code.
PendingAfterFailKept(value) ==
  IF value \in {"PASS", "FINISH"} THEN 0
  ELSE IF value = "FAIL" /\ pending = NoCode THEN 0
  ELSE pending

\* handle_sim_mmio, by the byte written: the finish code pending.
PendingAfter(value) ==
  IF value \in {"PASS", "FINISH"} THEN 0
  ELSE IF value = "FAIL" THEN 1
  ELSE pending

\* Mutant: a status finishes at once instead of waiting for QUIT.
DelayAfterAtOnce(value) ==
  IF value \in Status THEN 0
  ELSE IF value = "QUIT" /\ pending # NoCode THEN 3
  ELSE finish_delay

\* handle_sim_mmio, by the byte written: the countdown.  A status cancels it,
\* QUIT starts it if there is a status to finish with.
DelayAfter(value) ==
  IF value \in Status THEN -1
  ELSE IF value = "QUIT" /\ pending # NoCode THEN 3
  ELSE finish_delay

\* A new firmware write is on the bus at this edge.
FirmwareWrites == IomemFireNew /\ mem.acc.addr = "sim_mmio"

\* The protocol state after the first part of the testbench's block.
NewPending == IF FirmwareWrites THEN PendingAfter(mem.acc.val) ELSE pending
NewDelay == IF FirmwareWrites THEN DelayAfter(mem.acc.val) ELSE finish_delay

\* Mutant: the testbench does not poll spike_bus_failed.
FinishCodeQuitOnly ==
  IF NewPending # NoCode /\ NewDelay = 0 THEN NewPending ELSE NoCode

\* The code finish_soc is called with at this edge, if any.
FinishCode ==
  IF resetn /\ failed THEN 1
  ELSE IF NewPending # NoCode /\ NewDelay = 0 THEN NewPending
  ELSE NoCode

Testbench ==
  /\ Ready("tb")
  /\ pending' = NewPending
  /\ handled' = IF FirmwareWrites
                THEN Append(handled, [id |-> mem.id, val |-> mem.acc.val])
                ELSE handled
  /\ IF FinishCode # NoCode /\ ~sim_done
     THEN /\ sim_done' = TRUE
          /\ fin' = [pc |-> "set_exit_code", code |-> FinishCode]
          /\ finish_delay' = NewDelay
     ELSE /\ UNCHANGED <<sim_done, fin>>
          /\ finish_delay' =
               IF NewPending # NoCode /\ ~sim_done /\ NewDelay > 0
               THEN NewDelay - 1 ELSE NewDelay
  /\ Done("tb")
  /\ UNCHANGED <<busVars, rtlVars, resetn, init_ok, timed_out, exited, finished, served>>

\* Mutant: the watchdog reports the timeout and goes on.
TimeoutReportsOnly ==
  /\ Ready("timeout")
  /\ Done("timeout")
  /\ UNCHANGED <<busVars, rtlVars, tbVars, resetn, init_ok, timed_out, exited, served>>

\* The watchdog's edge.
Timeout ==
  /\ Ready("timeout")
  /\ IF sim_done
     THEN UNCHANGED <<sim_done, fin>>
     ELSE /\ sim_done' = TRUE
          /\ fin' = [pc |-> "set_exit_code", code |-> 1]
  /\ Done("timeout")
  /\ UNCHANGED <<busVars, rtlVars, pending, finish_delay, finished, handled,
                 resetn, init_ok, timed_out, exited, served>>

FinishSetsExitCode ==
  /\ fin.pc = "set_exit_code"
  /\ SetExitCode(fin.code)
  /\ fin' = [fin EXCEPT !.pc = "stop"]
  /\ UNCHANGED <<rtlVars, ctlVars, pending, finish_delay, sim_done, finished, handled>>

FinishStopsWorker ==
  /\ fin.pc = "stop"
  /\ StopWorker
  /\ fin' = [fin EXCEPT !.pc = "join"]
  /\ UNCHANGED <<rtlVars, ctlVars, pending, finish_delay, sim_done, finished, handled>>

\* join returns, then $finish; the rest of the edge still runs.
FinishJoins ==
  /\ fin.pc = "join"
  /\ Joinable
  /\ fin' = [fin EXCEPT !.pc = "idle"]
  /\ finished' = TRUE
  /\ UNCHANGED <<busVars, rtlVars, ctlVars, pending, finish_delay, sim_done, handled>>

Capped(n) == IF n < CountCap THEN n + 1 ELSE n
\* Mutant: mem_ready is not required.
RamHandshakeEarly == RamSel

RamHandshake == RamSel /\ MemReady

\* Mutant: prev_iomem_fire is never cleared again.
PrevIomemFireSticky == prev_iomem_fire \/ IomemFire

\* The value prev_iomem_fire takes at this edge.
PrevIomemFireNext == IomemFire

\* spike_bus_step has been called; millions of edges later the watchdog's
\* edge may come at any time.
StepCalled == wpc # "none" \/ failed

\* The nonblocking assignments of an edge, then the next edge.
ClockEdge ==
  /\ todo = {} /\ fin.pc = "idle" /\ ~finished
  /\ mem' = nba
  /\ ram' = IF RamWen THEN [ram EXCEPT ![mem.acc.addr] = mem.acc.val] ELSE ram
  /\ ram_rdata' = IF RamSel THEN ram[mem.acc.addr] ELSE ram_rdata
  /\ ram_ready' = (RamSel /\ ~MemReady)
  /\ flash_ready' \in {FALSE, mem.valid /\ mem.acc.addr = "flash"}
  /\ prev_iomem_fire' = PrevIomemFireNext
  /\ ram_read_count' = IF RamHandshake /\ ~IsWrite
                       THEN Capped(ram_read_count) ELSE ram_read_count
  /\ ram_write_count' = IF RamHandshake /\ IsWrite
                        THEN Capped(ram_write_count) ELSE ram_write_count
  /\ \E late \in {FALSE, ~timed_out /\ StepCalled} :
       /\ timed_out' = (timed_out \/ late)
       /\ todo' = {"master", "tb"} \cup (IF resetn THEN {} ELSE {"reset"})
                                   \cup (IF late THEN {"timeout"} ELSE {})
  /\ UNCHANGED <<busVars, nba, tbVars, resetn, init_ok, exited, served>>

\* sim_main's loop ends; the final block finishes again, main returns.
ExitMain ==
  /\ finished /\ todo = {} /\ fin.pc = "idle" /\ ~exited
  /\ Joinable
  /\ StopWorker
  /\ exited' = TRUE
  /\ UNCHANGED <<rtlVars, tbVars, todo, resetn, init_ok, timed_out, served>>

Exited == exited /\ UNCHANGED vars

EdgeNext ==
  \/ ReleaseReset \/ MasterInReset \/ MasterFailsInit \/ MasterStartsWorker
  \/ Testbench \/ Timeout
  \/ FinishSetsExitCode \/ FinishStopsWorker \/ FinishJoins
  \/ ClockEdge \/ ExitMain

ThreadNext == (WorkerNext \/ SpuriousWakeup) /\ UNCHANGED socVars

Next == EdgeNext \/ MasterSteps \/ ThreadNext \/ Exited

Spec == Init /\ [][Next]_vars
-----------------------------------------------------------------------------
(* Fairness.  Both threads are scheduled by the operating system and the   *)
(* critical sections are short; reset is released at a counted edge, and   *)
(* the watchdog is a counted edge too.                                     *)

Worker == WorkerNext /\ UNCHANGED socVars
Simulation == EdgeNext \/ MasterSteps

FairSpec ==
  /\ Spec
  /\ WF_vars(Worker)
  /\ WF_vars(Simulation)
  /\ SF_vars(ReleaseReset /\ resetn')

-----------------------------------------------------------------------------
(* The assumption about thread timing under which the handshake is exact:  *)
(* the worker has taken a response before the simulation thread, two (RAM) *)
(* or three (MMIO) edges later, drives the answered request once more.     *)

ResponseTaken == wait_ready_low \/ ~req.valid \/ ~req.response_ready

PromptNext ==
  \/ EdgeNext
  \/ MasterSteps /\ ResponseTaken
  \/ ThreadNext
  \/ Exited

PromptSpec == Init /\ [][PromptNext]_vars

-----------------------------------------------------------------------------
(* Properties.                                                             *)

Nets == [valid : BOOLEAN, acc : Access, id : Nat]

BusTypeOK ==
  /\ prog \in Programs
  /\ wpc \in {"none", "check", "execute", "response", "exited"}
  /\ asleep \in BOOLEAN
  /\ ip \in 0 .. Len(prog)
  /\ insn \in Seq(Access)
  /\ last \in Word
  /\ req \in [valid : BOOLEAN, acc : Access, rdata : Word,
              response_ready : BOOLEAN, id : Nat]
  /\ wait_ready_low \in BOOLEAN
  /\ failed \in BOOLEAN
  /\ stop \in BOOLEAN
  /\ steps \in 0 .. MaxSteps
  /\ wpc \in {"execute", "response"} => steps < MaxSteps
  /\ wpc = "response" => insn # << >>
  /\ exit_code \in {0, 1}

RtlTypeOK ==
  /\ mem \in Nets
  /\ nba \in Nets
  /\ ram \in [RamAddr -> Word]
  /\ ram_ready \in BOOLEAN
  /\ ram_rdata \in Word
  /\ flash_ready \in BOOLEAN
  /\ prev_iomem_fire \in BOOLEAN
  /\ ram_read_count \in 0 .. CountCap
  /\ ram_write_count \in 0 .. CountCap

TbTypeOK ==
  /\ pending \in {NoCode, 0, 1}
  /\ finish_delay \in -1 .. 3
  /\ sim_done \in BOOLEAN
  /\ fin \in [pc : {"idle", "set_exit_code", "stop", "join"}, code : {NoCode, 0, 1}]
  /\ fin.pc # "idle" => fin.code # NoCode
  /\ finished \in BOOLEAN
  /\ handled \in Seq([id : Nat, val : Word])

CtlTypeOK ==
  /\ todo \in SUBSET Blocks
  /\ resetn \in BOOLEAN
  /\ init_ok \in BOOLEAN
  /\ timed_out \in BOOLEAN
  /\ exited \in BOOLEAN
  /\ served \in [reads : Nat, writes : Nat]

\* Every variable holds a value of its type; the step count stays below the
\* limit while an instruction runs, and a finish has a code.
TypeOK == BusTypeOK /\ RtlTypeOK /\ TbTypeOK /\ CtlTypeOK

\* The first wait of issue_bus_request does not look at failed, so a worker
\* that found the slot taken after a failure would wait for ever.  It never
\* finds the slot taken: the slot is free whenever Spike can ask for it.
FirstWaitNeverBlocks == wpc = "execute" => SlotFree

\* A failed run has no worker waiting in, or going back to, the bus: failed
\* is only ever set by a worker on its way out, or when none was started.
FailureEndsWorker == failed => wpc \in {"none", "exited"}

\* After the join no thread touches g_ctx, which the exit path destroys.
WorkerGoneAtExit == finished => wpc \in {"none", "exited"}

\* The firmware reported success: its last status is PASS or FINISH and a
\* QUIT came after it.
PassReported ==
  \E s, q \in DOMAIN handled :
    /\ s < q
    /\ handled[s].val \in {"PASS", "FINISH"}
    /\ handled[q].val = "QUIT"
    /\ \A i \in s + 1 .. Len(handled) : handled[i].val \notin Status

\* The process exits with 0 only if the firmware reported success, whatever
\* the two writers of the exit code do; it exits with 1 after a reported
\* success only if the worker reached its step limit at that moment.
ExitCodeJustified ==
  exited => /\ exit_code = 0 => PassReported
            /\ exit_code = 1 /\ fin.code = 0 => failed /\ steps = MaxSteps

\* prev_iomem_fire suppresses the second edge of a write, never a new write:
\* a firmware write that was on the bus for an edge has been acted on.
NoWriteSuppressed ==
  todo = {} /\ SimMmioSel /\ IsWrite =>
    \E k \in DOMAIN handled : handled[k].id = mem.id

\* What is asked of the instructions of a firmware where a property needs it.  Stores
\* are not made in a row: an instruction begins with its fetch and makes one store.
Apart(accesses) ==
  \A k \in 1 .. Len(accesses) - 1 :
    ~(accesses[k].op = "store" /\ accesses[k + 1].op = "store")
StoresApart ==
  \A p \in Programs : \A i \in 1 .. Len(p) :
    Apart(p[i]) /\ (p[i] # << >> => p[i][1].op # "store")

\* The first QUIT after a status is the last the firmware has to say, and an
\* instruction says at most one byte of the protocol.
Ends(acc) == acc.val \in Status \cup {"QUIT"}
Tells(acc, bytes) == acc.op = "store" /\ acc.addr = "sim_mmio" /\ acc.val \in bytes
Quiet(accesses) == \A k \in 1 .. Len(accesses) : ~Ends(accesses[k])
Single(accesses) ==
  \A j, k \in 1 .. Len(accesses) : Ends(accesses[j]) /\ Ends(accesses[k]) => j = k
TellsIn(accesses, bytes) == \E k \in 1 .. Len(accesses) : Tells(accesses[k], bytes)
QuitIsLast ==
  \A p \in Programs : \A i \in 1 .. Len(p) :
    /\ Single(p[i])
    /\ TellsIn(p[i], {"QUIT"}) /\ (\E h \in 1 .. i - 1 : TellsIn(p[h], Status)) =>
         i < Len(p) /\ \A j \in i + 1 .. Len(p) : Quiet(p[j])

\* A finish by countdown does not take the worker away while a protocol
\* store waits for its response (docs/arch.md:318).
StatusStoreNotCut ==
  [][WorkerCut /\ fin.code = 0 => req.acc.val \notin Status \cup {"QUIT"}]_vars

\* The response given to a request comes from a handshake of that request
\* (design.md:28-30, "returns responses only for active handshakes").
ResponseIsOwn ==
  [][~req.response_ready /\ req'.response_ready => mem.valid /\ mem.id = req.id]_vars

\* Each firmware write is acted on once: a character is printed once, a
\* protocol byte handled once.
WritesOnce ==
  \A j, k \in DOMAIN handled : j < k => handled[j].id < handled[k].id

\* The counters stop at the model bound.
AtMost(n) == IF n < CountCap THEN n ELSE CountCap

\* RAM handshakes the master has answered whose edge has yet to count them.
ReadToCount == IF "master" \notin todo /\ RamHandshake /\ ~IsWrite THEN 1 ELSE 0
WriteToCount == IF "master" \notin todo /\ RamHandshake /\ IsWrite THEN 1 ELSE 0

\* The RAM counters the testbench prints are the RAM accesses Spike made.
CountersMatch ==
  /\ ram_read_count = AtMost(served.reads - ReadToCount)
  /\ ram_write_count = AtMost(served.writes - WriteToCount)

\* A load of an SPI/UART register gives the register (docs/arch.md:239).
RegisterReads ==
  [][~req.response_ready /\ req'.response_ready
       /\ req.acc.addr = "reg" /\ req.acc.op = "load" => req'.rdata = RegWord]_vars

\* Refinement: the access under way has taken effect when it was answered,
\* when its RAM write was clocked in, or when the testbench acted on it
\* earlier in the edge that answers it.
TookEffect ==
  \/ req.response_ready
  \/ /\ mem.valid /\ mem.id = req.id
     /\ \/ ram_ready
        \/ FirmwareWrites /\ "tb" \notin todo /\ "master" \in todo

\* A write answered earlier in this edge that the testbench acts on later.
Arriving ==
  IF FirmwareWrites /\ "tb" \in todo /\ "master" \notin todo
  THEN <<mem.acc.val>> ELSE << >>

Atomic == INSTANCE AtomicBus WITH
  memory <- ram,
  console <- [k \in DOMAIN handled |-> handled[k].val] \o Arriving,
  cur <- [busy |-> req.valid, done |-> req.valid /\ TookEffect, acc |-> req.acc],
  gone <- req.valid /\ wpc # "response",
  answer <- last

\* The handshake implements the atomic bus.
AtomicAccesses == Atomic!Spec

\* A request that does not go to the external flash is eventually over.
RequestsEnd == wpc = "response" /\ req.acc.addr # "flash" ~> wpc # "response"

\* QUIT after a status ends the process, a failure ends it as well.
QuitEndsRun == finish_delay >= 0 ~> exited
FailureEndsRun == failed ~> exited

\* Once the watchdog's counted edge must come, every run ends: even if the bus
\* hangs on the flash, the watchdog stops and joins the worker wherever it waits.
RunEnds == SF_vars(ClockEdge /\ timed_out') => <>exited
=============================================================================
