# riscv-cosim: a TLA+ model of the simulation and co-simulation harness

The repository runs small bare-metal RISC-V programs in two modes and decides
whether they passed:

* **SoC Spike mode** (`src/top_soc/`): the Spike instruction set simulator takes
  the place of the CPU in a PicoSoC design simulated by Verilator. Spike runs in
  a thread of its own and every fetch, load and store becomes a bus transaction
  of the RTL.
* **CPU mode** (`src/cosim/`, `src/mon/`, `src/top_cpu/`): a real core (PicoRV32,
  VeeR EL2, Ibex) is simulated; every retired instruction is reported and
  compared with Spike running the same program.

`build.sh` builds and runs both. Paths in this document are relative to the
repository; line numbers are those of the modelled commit.

## 1. Inventory

| Component | State it keeps | Operations | Hard behaviour |
|---|---|---|---|
| SoC DPI back end `top_soc/spike_bus_dpi.cc` | `g_ctx` (request slot, `wait_ready_low`, `failed`, `stop`, `steps`), `g_exit_code`, worker thread | `run_spike`, `issue_bus_request` (worker); `spike_bus_step/failed/finish/set_exit_code/exit_code` (simulation thread) | two threads, one mutex, one condition variable; a failure or a stop in the middle of an access; byte lanes |
| Bus master `top_soc/spike_bus_master.sv` | the registered bus outputs | one call of `spike_bus_step` per clock edge | outputs appear an edge later |
| PicoSoC `top_soc/picosoc.v` | RAM, `ram_ready` | decode, ready/rdata priorities, RAM handshake | an access spans three edges |
| SoC testbench `top_soc/tb_picosoc_soc.sv`, `sim_main.cc` | finish code, countdown, `sim_done`, `prev_iomem_fire`, counters | firmware protocol, finish, watchdog, exit code | several blocks run on one edge in any order; finish blocks in a join |
| Firmware library `firmware/common/{sim.c,sim.h,print.c,start.S}` | - | START, `printf`, PASS/FAIL/FINISH, then fence and QUIT | text and protocol bytes share one address |
| Cosim session `cosim/cosim_session.cc` | counters, `errors_`, `finished_`, `reference_done_`, the simulator | `init`, `retire`, `step_detail*`, CSR/interrupt sync, `finish`, `reset` | order of calls; what a comparison lets through |
| Cosim bridge `cosim/cosim_bridge.cc` | `g_session` | C ABI of the session | calls before init, after a failed init, after finish |
| Spike back end `cosim/spike_simulator.cc`, `elf_utils.cc` | memory, MMIO finish device, processor | `init` with the ELF load, `step`, `finished` | an initialisation that fails at any stage; placement of segments |
| Configuration policy `cosim/cosim_config_policy.cc` | - | log path precedence | five variables, two of them old names |
| Instruction monitor `mon/mon_instr/mon_instr.cc` | `retire_count_`, mode, log | `init_mode`, `retire`, `finish`, `reset` | every way out must leave the log complete |
| PicoRV32 testbench `top_cpu/tb_picorv32*` | retire de-duplication, finish flags, AXI memory | retire report, firmware protocol, verdict | processes and final block on one edge, duplicate reports |
| VeeR EL2 testbench `top_cpu/tb_veer_el2*` | `aw_queue`, finish flags, retire counter | retire monitor, mailbox monitor, clock loop | dropped answers, address queue, four ways to end |
| Ibex testbench `top_cpu/tb_ibex*` | UART counter and log, RVFI monitor | `create_cosim`, UART, `main` | status bytes among text, fatal errors on the same edge |
| `build.sh`, `firmware/common/firmware.mk` | stamps in `build/` | build steps, runs, verdicts | a step that fails, a stale stamp |
| `scripts/*.py`, `top_cpu/cosim_top_utils.cc` | - | log conversion, paths | - |

Interactions. SoC mode: the bus master calls the DPI back end under the simulation
thread; the worker thread shares `g_ctx` with it; the testbench polls
`spike_bus_failed` and calls `spike_bus_finish`, which joins the worker; `main` returns
`g_exit_code`. CPU mode: the VeeR testbench reports each retire to the bridge and to the
monitor; the PicoRV32 testbench to the bridge; on Ibex a vendored checker
drives the session and the monitor only logs. The bridge calls the session, the
session Spike; all in one thread.

What makes each component correct:

* *SoC back end*: a request is answered by its own bus handshake, exactly once;
  no wakeup is lost; a failure cannot leave the worker or the join waiting; no
  worker survives the join; bytes arrive in their lanes.
* *PicoSoC and bus master*: each access takes effect once and atomically; loads
  see the last store.
* *SoC testbench*: a firmware write is acted on once and none is dropped; the
  process exits with 0 only if the firmware reported success; every run ends.
* *Firmware library*: what is printed comes out as text, and only a status is one.
* *Session and bridge*: a divergence of the core from Spike is counted and
  reported; counters and errors mean the same thing after every order of calls.
* *Spike back end*: Spike starts from the memory the ELF file describes, or the
  initialisation fails and says so.
* *Monitor*: one row per retired instruction and one footer, whatever ends the run.
* *CPU testbenches*: each retired instruction is reported once, in order; a run
  succeeds only if it was compared and matched, and a correct core is not failed.
* *build.sh*: a stamp means that the artefact was built from what it names.

## 2. Modules

| Module | Models | Kind |
|---|---|---|
| `SpikeBus` | `spike_bus_dpi.cc`: the worker thread and the DPI calls | component |
| `PicoSoc` | bus master, decode and RAM, testbench, `main`; extends `SpikeBus` | composition |
| `AtomicBus` | what the SoC mode promises to Spike and the firmware | abstract specification |
| `BusLanes` | the data of an access: packing, strobes, write enables, unpacking | component |
| `ByteMemory` | a memory of bytes, which `BusLanes` implements | abstract specification |
| `LanesProofs` | that `BusLanes` implements `ByteMemory` | proofs |
| `PicoSocProofs` | theorems about `PicoSoc`: threads, exit, bus handshake, and that it implements `AtomicBus` | proofs |
| `MCPicoSoc` | small firmware programs | model checking |
| `CosimSession` | `cosim_session.cc`, `cosim_bridge.cc`: the comparison of CPU mode | component |
| `CosimSessionProofs` | theorems about `CosimSession` | proofs |
| `MCCosimSession` | a two-register core and a four-address program | model checking |
| `CosimInit` | `BuildCosimConfig`, `SpikeSimulator::init`, ELF load, logs | component |
| `CosimInitProofs` | theorems about `CosimInit` | proofs |
| `MCCosimInit` | ELF files of up to three segments | model checking |
| `MonInstr` | `mon_instr.cc` | component |
| `MonInstrProofs` | lemmas about the monitor's log | proofs |
| `PicoTb` | `tb_picorv32.v`, `tb_picorv32_cosim.cc`: report, finish and verdict | component |
| `PicoTbProofs` | theorems about `PicoTb` | proofs |
| `MCPicoTb` | programs of up to three instructions | model checking |
| `VeerTb` | the VeeR testbench; extends `CosimSession` and `MonInstr` | composition |
| `VeerTbProofs` | theorems about `VeerTb` | proofs |
| `MCVeerTb` | five programs with a mailbox | model checking |
| `Firmware` | `print.c`, `sim.c`, `start.S`, and the text a call means | pure definitions |
| `IbexTb` | the Ibex testbench; extends `Firmware` and `MonInstr` | composition |
| `IbexTbProofs` | theorems about `IbexTb` | proofs |
| `MCIbexTb` | firmware programs with every conversion | model checking |
| `Build` | the firmware stamp of `build.sh` and the rules of `firmware.mk` | component |

### SpikeBus

Each critical section of `g_ctx.mutex` is one action. The worker's place in
`run_spike` is `wpc`: `check` (top of the loop), `execute` (inside `step(1)`),
`response` (second wait of `issue_bus_request`), `exited`. `asleep` says that the
worker is blocked in `cv.wait`; a notify by the simulation thread clears it, and
so may a spurious wakeup, after which the predicate is evaluated again. Spike's
instruction semantics are external: an instruction is the list of bus accesses
it makes. An access that `issue_bus_request` refuses or cuts off is a trap;
`mtvec` is 0 and address 0 decodes as SPI flash, so Spike goes on fetching there.
`req.id` numbers the requests; the code has no such field, it only lets
properties tell two requests apart. `prog` is the program of the run.

The first wait (`spike_bus_dpi.cc:94`) appears as the guard `SlotFree` of
`WorkerIssues` and `WorkerRefused`: were it false, the worker would be blocked
with no action enabled. `FirstWaitNeverBlocks` says that this does not happen.

### PicoSoc

A rising edge is a set `todo` of the `always`/`initial` blocks that run on it, in
any order, because the language fixes none; when it is empty, `ClockEdge` applies
the nonblocking assignments, computed from the values before the edge. The
worker may step at any point in between, also between `start_spike_once` and the
rest of `spike_bus_step` (`MasterStartsWorker`, `MasterSteps`). `finish_soc` holds
the simulation thread at `fin.pc` through its three calls; the join waits for the
worker. The final block and the return of `main` are `ExitMain`.

Addresses are classes: RAM words, the simulation MMIO, an SPI/UART register, and
flash. Words are model values; a store writes a whole word (bytes are `BusLanes`).
The flash device is external: it becomes ready at any edge or never, and never
returns a legal instruction. `handled` (the writes the testbench acted on) and
`served` (RAM accesses answered) are history variables, read by properties only.

Counted edges (reset at the 8th, the watchdog at the 4,000,000th) are replaced by
a free choice of the edge: the watchdog may come at any edge after the first call
of `spike_bus_step`, which covers the real one, and at most once.

### AtomicBus and the refinement

`AtomicBus` has one access at a time that takes effect at one point between being
issued and being answered. `PicoSoc!Atomic` maps it to the RTL: a RAM access takes
effect when the RAM clocks it in, any other access when its response is captured
or the testbench acts on it, whichever is first in the edge (`TookEffect`,
`Arriving`).

### BusLanes and ByteMemory

`PicoSoc` settles when an access happens; `BusLanes` what happens to its bytes, in
one step: `pack_store_data`, `pack_store_strobe`, the write enables of `picosoc_mem`,
`unpack_load_data`, and the accesses `issue_bus_request` refuses. A word is the
number it is in the code, over bytes of `ByteSize` values; the shifts are products
and quotients. `ByteMemory` knows neither words nor lanes; the refinement mapping
reads byte `a` from lane `a % 4` of word `a \div 4`.

### CosimSession

One action per bridge function and outcome; `calls` bounds their number. The
caller is open: any function at any time, any report of `Reports`, so what holds
here holds for every testbench and every core. Spike is what a step may do to
the state the session reads: `Effects` lists the results, any of which may
happen at any step. The file keeps the session object and the bridge's pointer
as one: `initialized` is "`g_session` exists and `initialized_`", because a
failed init destroys the session again.

| Code | Definition |
|---|---|
| `retire` (`cosim_session.cc:30-90`) | `RetireRejected`, `RetireIgnored`, `RetireSkipped`, `RetireCompared` |
| `step_detail_with_csr` (`:99-272`) | `StepRejected`, `StepThrows`, `StepDetail` with `DetailMatches` |
| `set_csr`, `set_mip` ... `set_debug_req`, `clear_errors` | `SetCsr`, `SetInputs`, `ClearErrors` |
| `finish`, `reset`, destructor, `cosim_bridge_init` | `BridgeFinish`, `BridgeReset`, `BridgeInit`, `BridgeInitNull` |

`answered` is what the last call returned: 0, 1, 2 stand for 0, -1, -2. `reported`,
`unchecked`, `opened`, `verdicts` and `verdict` are history variables: the register
file that the core's reports add up to, the registers an exempt step touched last,
the sessions that came up, the verdict lines printed and the last of them.

Abstractions: a register number is an element of `Reg` or `X0`; a report with
`gpr.valid` false is one with `rd = X0`, which is what `mon_instr.cc:53-54` makes of
it. A CSR read mask is all or nothing. The masks of `set_csr` are one function
`Normal`. The branch for a simulator without capabilities
(`cosim_session.cc:41`, `:121`) is left out: the only back end of
`simulator_factory.cc` has them all. A step that throws leaves Spike unchanged.
A C++ exception that is no `std::exception` ends the process and is left out.

### CosimInit

`stage` is the place in the initialisation; each stage that can fail is an action:
the paths of `BuildCosimConfig`, the commit log, the ELF checks, one program header
after the other (`LoadSegment`), `read_elf_entry` (which opens the file a second time),
and the compare log, opened only when Spike is up. What a failing stage leaves behind
(truncated logs) stays. Addresses do not wrap; a file is its header's state, its
bytes and its program headers, of which any subset may be damaged.

Nothing compares `p_filesz` with `p_memsz`: the room of a segment is measured by the
second (`spike_simulator.cc:108`), the copy by the first (`:113`). A copy that ends behind
RAM (`Overruns`) is undefined: the process dies (`stage = "crashed"`) or goes on with the
cells of RAM the copy covers; what it overwrites elsewhere is not followed. `opened` holds
which logs were opened: two that share one path are not told apart.

### MonInstr

The one `MonInstr` object behind the C functions, and its log file, which outlives
it. The bridge's answer is a parameter, so that the module composes with
`CosimSession` (`VeerTb`, Retire mode) and without it (`IbexTb`, log-only mode). A row
is its order and result; the other columns are layout.

### PicoTb

A clock cycle is four time slots: rising edge, 1 ns later (the retire report),
2 ns later (the finish process), falling edge. The testbench compares `$time` only
for equality, so a time is "this slot" or an earlier one; `last_slot` is cleared at
each rising edge. In the rising edge the finish process may read `tests_passed`
before or after the memory sets it (`Posedge(first)`). `gotFinish` stops `main`'s loop
at the end of the slot, the external timeout at the end of any slot; then the
final block runs `finish_cosim` in that slot (`FinalAndExit`). A `$fatal` ends the
process at once (`exit = "abort"`).

The comparison is `CosimSession`'s. Here Spike is its position in the program: a
report passes when it is of the instruction Spike is at and the core executed it
correctly; `faulty` is the set of instructions it does not, chosen at the start.

The core is external (`external/picorv32` is a submodule) and modelled from how
the testbench reads it: RVFI shows an instruction for one cycle and `rvfi_order`
counts; a store is issued after the previous instruction has left RVFI and retires at
least two edges after `bvalid`; a trap shows on `trap` one edge before it shows on RVFI,
and nothing retires after it. The AXI channels are one event: the store is answered, on
a rising or a falling edge. The clock always has a pending event, so the
"no pending events" exit of `main` is left out.

### VeerTb

The clock loop alternates rising edges (`PosedgeRetire`, `PosedgeIdle`: the retire
monitor reports to the bridge and to the monitor and drops both answers) and falling
edges (`Negedge...`: the mailbox monitor queues an address, pairs data with the oldest
address, or both). `Mailbox` is what a completed store makes it do; `Final` and `Return`
are the final block and the end of `main`. The session is `CosimSession` itself, not an
abstraction: `bridge_retire` takes whichever of its branches the session is in.

The core traces the positions of a path; at `faulty` ones the trace differs from
Spike's instruction. `faulty` may be any set of them, and any step of Spike may throw, once
or many times; the history variable `threw` keeps the retires at which one did. One
trace port is active per edge (the core's `trace_rv_i_valid_ip` is one bit here). A
store's address is on the bus for one edge after the store was traced, its data then or
later; `stores` is what has been traced so far (`TracedStore`). The last instruction of a
path, at which the core spins, stores nothing. `tb_top` has a mailbox of its own and may end the simulation in any half cycle.

### Firmware and IbexTb

`Firmware` gives, for each call a program makes, the words it stores to the MMIO
address: `print_dec`, `print_hex`, `printf` with its conversions as recursive functions
over the format, `sim_exit` after `main`. `Text` and `Succeeds` say what the calls mean
without the library's loops. `%s` with a null pointer is left out (the code prints
`(null)`); negation is two's complement, as the build makes it for the smallest int.

In `IbexTb` the processes of an edge are one action: the UART takes at most one store
(`Byte`), the RVFI monitor logs at most one retire. A `$fatal` of any process on the edge
ends the process (`FatalEdge`). `CreateCosim` throws when the bridge does not come up.
The vendored checker steps Spike once per retire and stops the run at a mismatch;
`VerilatorSimCtrl` may stop it at any time. Only the stores to the UART are instructions.

### Build

One action per step of `ensure_firmware_case` and `build_firmware_case`. A version stands
for the contents of the code files or of the headers. `errexit` is off under `run cpu`,
because `run_one_cpu` is the condition of an `if` (`build.sh:1346`). Ctrl-C may come
between any two steps, an edit between two commands.

## 3. Runs

| Run | Specification | Result | What it shows |
|---|---|---|---|
| `soc_live` | `FairSpec` | holds | condition-variable protocol, join, exit code, detection of new writes over every interleaving; requests end; QUIT after a status, a failure and the watchdog end the process |
| `soc_prompt` | `PromptSpec` | holds | under the timing assumption the handshake implements `AtomicBus`, writes are handled once, RAM counters are right |
| `soc_own_response` | `Spec` | violated | finding 1 |
| `soc_registers` | `Spec` | violated | finding 2 |
| `bus_lanes` | `Spec` | holds | the lanes implement `ByteMemory` |
| `session_detail` | `Spec` | holds | a session without a failure has seen Spike's register file; one verdict per session, and a final one, for every order of calls |
| `cosim_init` | `Spec` | holds | Spike starts from the image of a well-formed file, a failure has a reason and keeps the compare log, overlong segments included |
| `pico_tb` | `LiveSpec` | holds | success is justified, a wrong instruction aborts the run, a correct run passes, PASS and FINISH end the process |
| `veer_tb` | `TbSpec` | holds | exit status, verdict, mailbox and monitor log agree with what the core did, whatever it gets wrong and wherever Spike throws |
| `veer_compared` | `TbSpec` | violated | finding 3 |
| `ibex_tb` | `Spec` (fair) | holds | the console is the text the calls mean, the first status decides, the run ends |
| `build_current` | `Spec` | violated | finding 4 |

Bounds:

* **SoC.** Four protocol programs (`PassProgram`, `FailProgram`, `FinishThenFail`,
  `QuitFirst`), one that traps, a memory and a register program; `MaxSteps` 3 to 5, so a
  run reaches the step limit after, at or before its QUIT; two RAM words, one of
  code and one of data. A program of one status, one QUIT and an idle loop already
  has two requests back to back, a cut-off access and a finish in the middle of an
  access. `CountCap` saturates the testbench's counters: 0 where they are not
  looked at, and 20, above the number of accesses of the longest program, where
  they are.
* **`bus_lanes`.** Bytes of two values and two words: every offset, length (0 to 5)
  and value, and a neighbour word that must not change. No bound on the number of
  accesses.
* **`session_detail`.** Two registers and two values (enough for a wrong
  register, a wrong value, a rewrite of the old value and a double write), one
  volatile and one ordinary CSR, four program counters: RAM is 1 and 2, with an ebreak
  at 2; 0 cannot be fetched, 3 is an ebreak outside RAM. `MaxCalls` is 4: init and
  three steps (an exempt divergence, a step that rewrites the register, one more), or
  init, retire, finish, init. The theorems of section 5 have no bound.
* **`cosim_init`.** RAM of three bytes at 2 .. 4; segments that start before, in and
  at the end of RAM, with 0 to 2 bytes of the file and 0 to 3 of memory, also fewer of
  memory than of the file and copies that end behind RAM; every pair of them, and three
  that overlap; each kind of damaged header; four environments; one
  or no path that cannot be written. `CosimInitProofs` has no such bounds.
* **`pico_tb`.** Programs of two or three instructions, one for each way a run
  may end (PASS, FAIL, out of bounds, trap, the end of the program without any of
  them), a PASS in the first and in the last place, and a trap right after PASS, so
  that it retires in the finishing edge; every set of wrong instructions.
* **`veer_tb`.** Five paths of three or four instructions: two characters and PASS, so
  that the queue of two is full and wraps; the finish value after an instruction outside
  RAM, stored from outside RAM, FINISH from outside RAM; an ebreak. Every set of wrong
  instructions, and any step throws: TLC reaches a throw at the last retire, one whose
  instruction is retired again, one followed by a wrong instruction, and one outside RAM
  with retires left uncompared. `MaxCalls` 10 leaves room for init, every retire of the longest path with spins
  after it, and the three calls of the end.
* **`ibex_tb`.** Ints of eight bits: every one through `%d`, `%u` and `%x`; one format
  with all other conversions and one printf does not know; a `%` that ends the format; every pair of statuses; text after a status; a `main`
  that returns 1. Eight bits have numbers of one, two and three digits and a smallest
  int whose negation wraps. The three-bit `sim_finish` has its real width.
* **`build_current`.** Two edits.

Deadlock is off where the system stops: at `MaxCalls`, at the end of a process, of an
initialisation.

**Fairness.** `FairSpec` of `PicoSoc`: `WF(Worker)` and `WF(Simulation)`: two operating
system threads are both scheduled and the critical sections are finite.
`SF(ReleaseReset)` stands for an edge that the testbench counts
(`tb_picosoc_soc.sv:186`); the watchdog's (`:191`) is a hypothesis of `RunEnds` alone, so
that the other liveness properties are checked without its help. Spike throwing, the flash answering, and
spurious wakeups have no fairness. `RequestsEnd` excludes the flash, whose answer
nothing guarantees. `LiveSpec` of `PicoTb` has `WF(Next)`: the simulator keeps executing
time slots. `Spec` of `IbexTb` has `WF` of the clock edge and of the final block and
`main`'s end; `VerilatorSimCtrl` stopping the run, a fatal error and the end of
`create_cosim` have none.

**The timing assumption.** In `PromptSpec` the simulation thread drives an answered
request again only after the worker has taken its response. The code does not
enforce this: the worker has the two (RAM) or three (MMIO) edges of the
`wait_ready_low` phase to wake up in. What happens when it does not is finding 1.

## 4. Findings

1. `spike_bus_dpi.cc:284`: `spike_bus_step` drives any posted request, also one
   that has been answered. If the worker wakes late, the handshake of the old
   address is stored as the response of its next request (`soc_own_response`). By the
   same path a store to the simulation MMIO (`:288`) is seen by the testbench as two
   writes, so `WritesOnce` holds only under the timing assumption.
2. `picosoc.v:118`: the SPI/UART registers are also external iomem, which the
   testbench always answers with 0; a register can never be read
   (`soc_registers`), although `docs/arch.md:239` lists them as slaves.
3. `tb_veer_el2_cosim.cc:40`: a bridge that does not come up is only reported on stderr.
   Every retire is then rejected with an answer nobody reads, the fail count of a
   missing session is 0, and PASS or FINISH ends the process with success and not one
   comparison (`veer_compared`; the trace ends by FINISH).
4. `build.sh:554`: the stamp covers the headers, no rule of `firmware.mk` (`:63-77`) does:
   after an edit of a header make keeps the old image and the new stamp is written.
   Under `run cpu` the same follows from sources that do not compile
   (`build_current`).

Behaviour met while modelling that contradicts no stated promise, and has no run:

* `cosim_session.cc:38`: after an ebreak or the finish store every retire is accepted
  without a comparison and without being counted. `RetiresAccounted` says what remains.
* `cosim_session.cc:207`: which register Spike wrote is inferred from the values
  that changed. If Spike rewrites a register with its old value, a report of any
  other register passes when its data is what that register holds.
  `RegisterFilesAgree` bounds the harm: the register files still agree.
* `tb_picorv32.v:371`: the guard keys on the time as well as on the order, so a retire
  that RVFI still shows may be reported again by the finish process or the final
  block and Spike is stepped twice. The second step mismatches, so the run fails
  (`SuccessJustified`); a trap in the finishing edge and the external timeout reach it.
* `spike_bus_dpi.cc:220`: only with a commit log is Spike kept off its instruction cache.
  Without one a loop may store twice with no fetch between; if the worker is late after the
  first store as well, `prev_iomem_fire` takes the second for the rest of the first and the
  character or status is dropped. `NoWriteSuppressedTheorem` has the commit log as a
  hypothesis.
* `spike_simulator.cc:108-113`: a segment with more bytes in the file than in memory is
  accepted, and one at the end of RAM is copied behind it. No linker writes such a
  file; `RamIsImage` speaks of the others.
* A store of the SoC firmware to another byte of the MMIO word would be read as QUIT:
  the testbench looks at lane 0, which is then 0. The library stores words only.

Behaviour that disagrees with a document, and has no run of its own:

* The order of the log variables. `cosim_config_policy.cc:19-48` takes the generic variable
  (`COSIM_LOG_PATH`, `SPIKE_COMMIT_LOG_PATH`) before the target's. `docs/arch.md:335` says
  that the target's has priority; `build.sh:115-118` and the requirement of
  `specs/cosim-config-policy/spec.md:36-39` (in
  `openspec/changes/archive/2026-05-13-cosim-layer-simplify-and-config-unify/`) have the
  order of the code. The definitions have it too; `FailureExplained` takes no side, it asks
  for the path of some variable that is set, and for the default only if none is.
* A step of Spike that throws on VeeR. `cosim_session.cc:83` throws after the retire was
  counted as passed, `:54` before Spike has left an instruction outside RAM, and the
  testbench drops the bridge's -2. A throw that comes with the last retire, or whose
  instruction is retired again, is seen by nobody; after one outside RAM nothing is compared
  until the step succeeds, and the run can end with success.
  `veer-el2-cosim-target/spec.md:24-25` has the system compare "VeeR EL2 retired
  instructions with Spike". `RetiresAccounted` says what a success means when Spike
  threw, and all it means when it did not.

## 5. Proofs

`PicoSocProofs` proves, for every set of programs, image, RAM, step limit and
counter cap that satisfies the named assumptions of `SpikeBus` and `PicoSoc`:

* `TypeCorrect`: `Spec => []TypeOK`, one lemma per thread and one step per action.
* `FirstWaitTheorem`, `FailureTheorem`: from `WaitInv`. Neither property is
  inductive alone. A worker leaves its second wait with the request still posted
  only because of `stop` or `failed`; that `failed` never meets a waiting worker
  needs that a failure comes from a worker on its way out, or from a set-up that
  started none (`~init_ok => wpc = "none"`).
* `ExitTheorem`: from `ExitInv`. A worker could outlive the join only if it were
  started after it, in the rest of the finishing edge; `Untouched` says that
  before the first call nothing can finish the run.
* `ExitCodeTheorem`: from `CodeInv`, which follows the two writers of the exit code
  (`finish_soc` and the worker at its step limit) through the three calls of
  `finish_soc`: who has written, who still may, and what a code of 0 rests on.

It proves also what the bus handshake is for:

* `ResponseTheorem`: `PromptSpec => ResponseIsOwn`, from `HandshakeInv`: while the
  master has not run on an edge the bus shows what it will next be given
  (`nba = mem`), and outside the `wait_ready_low` phase what is on the bus is the
  unanswered request itself. All that follows under `PromptSpec` rests on it.
* `WritesOnceTheorem`, `PromptWritesTheorem`: from `HandledInv`, which bounds the requests
  acted on by the one on the bus: a new write has a greater number than all before it.
* `CountersTheorem`: from `CountInv`. The counters lag behind what the master has
  answered by the handshake of the edge in progress, and saturate.
* `AtomicTheorem`: `PromptSpec => AtomicAccesses`, the refinement of `AtomicBus`, one
  lemma per action of the RTL. It needs `RamInv`: the RAM is clocked once more while the
  answered access is still shown, so the step in which a store takes effect is the first
  of two that write, and the second must change nothing.
* `NoWriteSuppressedTheorem`: without the timing assumption. A write that directly
  follows another could be taken for its second edge, so the theorem has a hypothesis,
  `StoresApart`: every instruction starts with a fetch and has no two stores in a row.
  It is what Spike does when there is a commit log, which `build.sh:1436` always asks for:
  `set_debug(true)` (`spike_bus_dpi.cc:221`) keeps it on the path that does not use its
  instruction cache. `NextDriven` is the invariant: at most one request is answered per edge.
  The hypothesis is needed: with a store that follows a store without a fetch, TLC finds a
  late worker whose second write is on the bus and never handled (section 4).
* `StatusStoreTheorem`: `Spec => StatusStoreNotCut`, also without the timing assumption.
  The question is what a worker that is late by any number of edges can still have in
  hand when the countdown ends. `OrderInv`: all the bus shows comes from requests in the
  order they were made. `InsnInv`, `PastInv`: once a QUIT that follows a status is over the
  worker has nothing more to say. `AnsweredInv`: a write is answered in the edge that acts
  on it. `ReportInv`: a finish code of 0 rests on a status and a later QUIT that were acted on
  and answered. Together: the request that the join cuts is made after that QUIT. The
  hypothesis, `QuitIsLast`, is on the firmware: the first QUIT after a status is the last
  protocol byte, and is not in the program's last instruction. The `sim_*` functions and
  the loop of `start.S` make it so, unless a program calls a second one: then the second
  status may be the store that is cut, which is why it is a hypothesis and no invariant.
  TLC evaluates `QuitIsLast` and `StoresApart` for every program of the SoC runs
  (`FirmwareSays` in `MCPicoSoc`).

`LanesProofs` proves, for every `ByteSize` above 0 and every `RamWords`:

* `LanesTypeCorrect`: `Spec => []TypeOK`.
* `LanesTheorem`: `Spec => LanesAreBytes`, the refinement of `ByteMemory`. A word is
  written as `WordOf` four bytes; `Lanes` says that its lanes are those bytes, from one fact
  on quotients and remainders (`DivMod`). `PackedLanes` then says what a packed store has
  under its strobes, `WrittenLanes` what `picosoc_mem` keeps of it, and `RefusedOutside` that
  the accesses refused are those that cross a word. The run has two-valued bytes; that
  nothing of it depends on that is what the proof adds.

`CosimSessionProofs` proves, under `SessionAssumption` (the constants are of their
types; nothing is said of the program, the effects or the reports):

* `SessionTypeCorrect`: `Spec => []TypeOK`.
* `RegisterFilesTheorem`: `RegisterFilesAgree` is inductive with `TypeOK`. The lemma that
  carries it says what a matching report means for one register: if
  `DetailMatches` holds and the step is not exempt, a register the report does not
  name is unchanged in Spike and a register it names holds the reported data,
  whichever of the three arms of the comparison let it pass.
* `VerdictOnceTheorem`, `VerdictFinalTheorem`: together with
  `FinishedIsInitialized`, a finished session is an initialised one, without which
  a reset could lose or repeat a verdict.

`CosimInitProofs` proves, for every RAM, file, environment and set of unwritable paths
under `InitAssumption`:

* `InitTypeCorrect`: `Spec => []TypeOK`.
* `RamIsImageTheorem`: for a well-formed file (`WellFormed`: no segment has more bytes in
  the file than in memory) the inductive invariant says that while the segments are loaded
  RAM is the image of the first `next - 1` headers (`IsImage(next - 1, a)`). The step
  needs that a segment that is copied covers exactly the cells it changes, and that a
  later segment's claim on a cell replaces the earlier one's. Such a segment fits whenever
  its room does, so the load of the file never writes behind RAM. The entry point needs no
  such hypothesis.
* `FailureExplainedTheorem`, `CompareLogKeptTheorem`: for every file. The invariant says at
  each stage which of the conditions of `Good` have been established, and that the compare
  log is opened at the last stage only. `PathsChosen` says of the paths that each is that
  of a set variable or the default; it holds for either order of the variables.

`PicoTbProofs` proves, for every set of programs over `Kind`:

* `PicoTypeCorrect`, `SuccessTheorem`, `FaultTheorem`, `CorrectRunTheorem`, from one
  invariant. `SpikeFollows` says where Spike is in each time slot: one instruction behind
  the core between a rising edge and the report, level with it elsewhere, and what it has
  stepped through was right and stepped through once. It carries the duplicate reports
  too: a second report finds Spike level with the core and is rejected. `FinishPending` says
  what the core may do between a stored PASS and the finish process, and that a trap
  is on RVFI before anything else can retire; without it a mismatch after PASS
  could not be excluded.

`VeerTbProofs` proves, for every set of paths, ring size and call bound that satisfies
`VeerAssumption` and `SessionAssumption`:

* `SessionTheorem`: `TbSpec => Spec` of `CosimSession`: every edge of the testbench is one
  call of the bridge or none. What `CosimSessionProofs` proves of an open caller is
  thereby proved of this testbench; the other theorems use its type invariant.
* `VeerTypeCorrect`: `TbSpec => []TbTypeOK`.
* `MonitorLogTheorem`: the log is closed exactly when the testbench has finished the
  comparison (`LogFollows`), so no way out writes a second footer and no retire comes
  after the first.
* `MailboxTheorem`: from `MailboxInv`: the ring, from its head, holds the addresses of the
  stores that were shown and have no data yet (`Holds`). The lemmas on `Slot` go round
  the ring for every depth.
* `AccountedTheorem`, `FailureTheorem`: from `RunInv`. `Reference` says what the first `n`
  retires make of the session, for every set of wrong instructions and every choice of
  throws: as long as Spike has not thrown it is at the instruction the core retires next, or
  the reference has ended, and the comparisons passed are as many as the positions to be
  compared. A first throw in RAM leaves Spike where it is, so the next retire is a failure
  unless it is of the same instruction or a wrong one (`Held`). `Control` says which
  states of session, testbench and process go together. A last instruction at which the
  core spins is compared again each time, which is why `Place` and not the position decides.

`IbexTbProofs` proves, for every set of programs and int width:

* `IbexTypeCorrect`: `Spec => []TypeOK`; `RetiresTheorem`: `Spec => []RetiresAgree`.
* `FirstStatusTheorem`: if the first status byte among a program's stores is the one
  its calls mean (`SaysStatus`), then `Spec => []FirstStatusDecides`, from `FirstStatus`:
  the UART counts from the first status on and never before, and only a FAIL that comes
  first fails the run. The hypothesis is about the library alone, whose recursive functions
  the proof system cannot unfold; TLC evaluates it for each program of `ibex_tb`
  (`StatusesSaid` in `MCIbexTb`).
* `ConsoleTheorem`: `Spec => []ConsoleIsText`, from `ConsoleFollows`: the log is a
  beginning of the text; as long as no status has come it has as many characters as
  stores of characters were on the bus, and from then on all of it. `CharsCounted` says how
  the count of characters moves with one more store. Here too the hypothesis is about the
  library alone: `PrintsText`, that before the first status the n-th character stored is
  the n-th of the text the calls mean, evaluated with `SaysStatus` in `StatusesSaid`. A `print_dec`
  that does not turn its digits round, for one, is found there. That no
  interleaving of stores, retires and mismatches loses, repeats or adds a character, and
  that none is logged after the first status, is what the proof adds.

`MonInstrProofs` has the lemmas on the monitor's log that both of these use.

`CountersMatch` compares with `AtMost`, as the counters of the model saturate; its first
statement could not be proved.

Every invariant and every action property of a passing run, and both refinements, are
stated by a theorem. Only model-checked, as out of reach of the proof system: the liveness
properties (`RequestsEnd`, `QuitEndsRun`, `FailureEndsRun`, `RunEnds`, `PassEndsRun`,
`StatusEndsRun`), which rest on fairness; and what the recursive functions of
`Firmware` compute, for which the two theorems on `IbexTb` have hypotheses that TLC evaluates
program by program.

## 6. Plan

Done: SoC mode (`SpikeBus`, `PicoSoc`, `AtomicBus`, `BusLanes`), session, bridge and
initialisation (`CosimSession`, `CosimInit`), monitor, the three testbenches, firmware
library, firmware stamps. Left, in this order:

1. The PicoRV32 AXI memory: latches, delays and the order of AW and W, against an
   abstract memory.
2. The stamps of the simulator executables in `build.sh` and the run matrix.

## 7. Not modelled

* Spike, spimemio, simpleuart, the cores, VeeR's `tb_top`, the Ibex checker and
  `VerilatorSimCtrl`: external; what is assumed of each is in section 2.
* The second MMIO device, `bus_t` and `mem_t` of Spike; the bit masks of `set_csr` (one
  legalisation function stands for them).
* PicoRV32's AXI latches; Ibex's timer and bus.
* `build.sh`: tool checks, stamps of the simulators, the run matrix and the greps
  for verdicts (`build.sh:1296`), which read finished logs.
* `scripts/*.py` and `cosim_top_utils.cc`: text conversion, environment and paths, no
  state between calls. Wording of messages and layout of logs; performance counters;
  VCD tracing.
* `read_elf_entry` throwing inside `spike_bus_step`, and a Spike trap leaving the bridge
  through `get_csr`: both end the process at once, with no state to describe.
