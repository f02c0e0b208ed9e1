------------------------------- MODULE PicoTb -------------------------------
(***************************************************************************)
(* The PicoRV32 CPU-mode testbench: which retired instructions reach the    *)
(* comparison, how often, and what the process exits with.                  *)
(*                                                                          *)
(* A clock cycle has four time slots in which the testbench's processes act: *)
(* the rising edge, 1 ns later (the retire report), 2 ns later (the finish) *)
(* and the falling edge.  The final block may run in any of them.  Only     *)
(* equality of times matters to the code, so a time is "this slot" or not.  *)
(*                                                                          *)
(* The comparison itself is CosimSession's.  Here Spike is its position in   *)
(* the program: a report passes when it is of the instruction Spike is at    *)
(* and the core executed it correctly.                                       *)
(***************************************************************************)
EXTENDS Naturals, Sequences

CONSTANTS
  Programs      \* sequences of instruction kinds

\* What an instruction does that the testbench sees: nothing, a store of PASS or
\* FINISH, a store of FAIL, a store out of bounds, or a trap.
Kind == {"plain", "pass", "fail", "oob", "trap"}

ASSUME ProgramsAssumption == Programs \subseteq Seq(Kind)

VARIABLES
  prog, faulty,   \* the program; the instructions the core gets wrong
  noerror,        \* +noerror on the command line
  slot,           \* the time slot reached
  next,           \* the core: index of the instruction being executed
  store,          \* its store: "no" answer yet, "answered", "done" for the core
  trap,           \* the core's trap output
  rvfi,           \* the core's RVFI outputs: valid, order
  cosim_ready, tests_passed, cosim_finished,
  finishing,      \* the finish process waits in its #2
  has_last, last_order,
  last_slot,      \* the slot of this cycle in which last_retire_time was taken
  spike,          \* instructions Spike has executed
  fail_count, test_passed,
  external_timeout, gotFinish,
  exit,           \* exit status: "none", "ok", "fail" or "abort"
  stepsFor        \* Spike steps made for each order (not state of the program)

core == <<next, store, trap, rvfi>>
guard == <<has_last, last_order, last_slot>>
compare == <<spike, fail_count, stepsFor>>
fixed == <<prog, faulty, noerror>>
vars == <<fixed, core, guard, compare, slot, cosim_ready, tests_passed, cosim_finished,
          finishing, test_passed, external_timeout, gotFinish, exit>>

Orders == 0 .. Len(prog) - 1
NextKind == IF next \in Orders THEN prog[next + 1] ELSE "none"

Init ==
  /\ prog \in Programs
  /\ faulty \in SUBSET (0 .. Len(prog) - 1)
  /\ noerror \in BOOLEAN
  /\ slot = "reset"
  /\ next = 0 /\ store = "no" /\ trap = FALSE
  /\ rvfi = [valid |-> FALSE, order |-> 0]
  /\ cosim_ready = FALSE /\ tests_passed = FALSE /\ cosim_finished = FALSE
  /\ finishing = FALSE
  /\ has_last = FALSE /\ last_order = 0 /\ last_slot = "none"
  /\ spike = 0 /\ fail_count = 0 /\ stepsFor = [o \in 0 .. Len(prog) - 1 |-> 0]
  /\ test_passed = FALSE /\ external_timeout = FALSE /\ gotFinish = FALSE
  /\ exit = "none"

Running == exit = "none" /\ ~gotFinish /\ ~external_timeout

-----------------------------------------------------------------------------
\* The core.  Its outputs change with the rising edge, after the testbench's
\* processes have read them.

Shows(v) ==
  rvfi' = [valid |-> v, order |-> rvfi.order + (IF rvfi.valid THEN 1 ELSE 0)]

CoreWaits == Shows(FALSE) /\ UNCHANGED <<next, store, trap>>

CoreRetires ==
  /\ ~trap
  /\ NextKind = "plain" \/ store = "done"
  /\ Shows(TRUE)
  /\ next' = next + 1
  /\ store' = "no"
  /\ UNCHANGED trap

\* The core sees bvalid an edge after the memory gave it, and retires later still
CoreSeesAnswer ==
  /\ store = "answered"
  /\ Shows(FALSE)
  /\ store' = "done"
  /\ UNCHANGED <<next, trap>>

\* A trap shows on the trap output first, and on RVFI one edge later
CoreTraps ==
  /\ NextKind = "trap" /\ ~trap
  /\ Shows(FALSE)
  /\ trap' = TRUE
  /\ UNCHANGED <<next, store>>

CoreRetiresTrap ==
  /\ NextKind = "trap" /\ trap
  /\ Shows(TRUE)
  /\ next' = next + 1
  /\ UNCHANGED <<store, trap>>

CoreEdge ==
  \/ NextKind # "trap" /\ CoreWaits
  \/ CoreRetires \/ CoreSeesAnswer \/ CoreTraps \/ CoreRetiresTrap

\* The store the core has issued and the memory has not answered.  It is issued
\* cycles after the instruction before it has retired.
StorePending == NextKind \in {"pass", "fail", "oob"} /\ store = "no" /\ ~rvfi.valid

-----------------------------------------------------------------------------
\* The testbench's tasks, in the time slot `now'

\* The duplicate-retire guard.
NewRetire(now) == ~has_last \/ last_slot # now \/ last_order # rvfi.order

\* report_dut_retire reports what RVFI shows: Spike is stepped and compared
Reports(now) == cosim_ready /\ rvfi.valid /\ NewRetire(now)

\* Mutant: only the program counter is compared.
AgreesPcOnly == rvfi.order = spike

Agrees == rvfi.order = spike /\ rvfi.order \notin faulty
Rejected(now) == Reports(now) /\ ~Agrees

report_dut_retire(now) ==
  /\ spike' = IF Reports(now) THEN spike + 1 ELSE spike
  /\ fail_count' = IF Rejected(now) THEN fail_count + 1 ELSE fail_count
  /\ stepsFor' = IF Reports(now) THEN [stepsFor EXCEPT ![rvfi.order] = @ + 1] ELSE stepsFor
  /\ has_last' = (has_last \/ Reports(now))
  /\ last_order' = IF Reports(now) THEN rvfi.order ELSE last_order
  /\ last_slot' = IF Reports(now) THEN now ELSE last_slot

\* Mutant: the test result is not recorded.
finish_cosim_no_result(now) ==
  /\ IF cosim_finished THEN UNCHANGED <<compare, guard>> ELSE report_dut_retire(now)
  /\ cosim_finished' = TRUE
  /\ UNCHANGED test_passed

\* finish_cosim: the instruction RVFI shows is reported, then the result recorded;
\* a report that is rejected is a $fatal
finish_cosim(now) ==
  IF cosim_finished
    THEN UNCHANGED <<compare, guard, cosim_finished, test_passed>>
    ELSE /\ report_dut_retire(now)
         /\ test_passed' = IF Rejected(now) THEN test_passed ELSE tests_passed
         /\ cosim_finished' = ~Rejected(now)

\* Mutant: finish_cosim does not look at the result of its retire.
FinishDiesNever(now) == FALSE

\* The report finish_cosim makes is rejected: a $fatal in the middle of it.
FinishDies(now) == ~cosim_finished /\ Rejected(now)

\* Mutant: the retire's result is not looked at.
ReportDiesNever(now) == FALSE

\* A rejected retire is a $fatal
ReportDies(now) == Rejected(now)

-----------------------------------------------------------------------------
\* The time slots

\* The reset is released; the session is initialised, or the run is over
ReleaseReset(ok) ==
  /\ slot = "reset" /\ Running
  /\ slot' = "negedge"
  /\ cosim_ready' = ok
  /\ exit' = IF ok THEN exit ELSE "abort"
  /\ UNCHANGED <<fixed, core, guard, compare, tests_passed, cosim_finished, finishing,
                 test_passed, external_timeout, gotFinish>>

\* handle_axi_bvalid: the store is answered and what it tells is done
MemoryAnswers ==
  /\ StorePending
  /\ store' = "answered"
  /\ tests_passed' = (tests_passed \/ NextKind = "pass")
  /\ gotFinish' = (NextKind \in {"fail", "oob"})

\* Mutant: the finish process does not look at tests_passed.
FinishNeededTrap(passed) == trap

FinishNeeded(passed) == trap \/ passed

\* The rising edge.  The finish process reads tests_passed before or after the
\* memory assigns it in the same edge: `first' says it reads the old value.
Posedge(first) ==
  /\ slot = "negedge" /\ Running
  /\ slot' = "posedge"
  /\ last_slot' = "none"
  /\ \/ MemoryAnswers /\ Shows(FALSE) /\ UNCHANGED <<next, trap>>
     \/ CoreEdge /\ UNCHANGED tests_passed /\ gotFinish' = (trap /\ noerror /\ ~tests_passed)
  /\ finishing' = FinishNeeded(IF first THEN tests_passed ELSE tests_passed')
  /\ UNCHANGED <<fixed, has_last, last_order, compare, cosim_ready, cosim_finished,
                 test_passed, external_timeout, exit>>

\* maybe_report_dut_retire, 1 ns after each rising edge
ReportSlot ==
  /\ slot = "posedge" /\ Running
  /\ slot' = "plus1"
  /\ IF cosim_finished THEN UNCHANGED <<compare, guard, exit>>
     ELSE /\ report_dut_retire("plus1")
          /\ exit' = IF ReportDies("plus1") THEN "abort" ELSE exit
  /\ UNCHANGED <<fixed, core, cosim_ready, tests_passed, cosim_finished, finishing,
                 test_passed, external_timeout, gotFinish>>

\* The finish process, 2 ns after the edge that started it
FinishSlot ==
  /\ slot = "plus1" /\ Running /\ finishing
  /\ slot' = "plus2"
  /\ finishing' = FALSE
  /\ finish_cosim("plus2")
  /\ exit' = IF FinishDies("plus2") \/ fail_count' # 0 THEN "abort" ELSE exit
  /\ gotFinish' = (exit' = "none")
  /\ UNCHANGED <<fixed, core, cosim_ready, tests_passed, external_timeout>>

\* The falling edge, where the memory may answer too
Negedge ==
  /\ slot = "plus1" /\ Running /\ ~finishing
  /\ slot' = "negedge"
  /\ MemoryAnswers \/ UNCHANGED <<store, tests_passed, gotFinish>>
  /\ UNCHANGED <<fixed, next, trap, rvfi, guard, compare, cosim_ready, cosim_finished,
                 finishing, test_passed, external_timeout, exit>>

\* main: the next time slot lies beyond PICORV32_MAX_TIME_PS
ExternalTimeout ==
  /\ Running
  /\ external_timeout' = TRUE
  /\ test_passed' = FALSE
  /\ UNCHANGED <<fixed, core, guard, compare, slot, cosim_ready, tests_passed,
                 cosim_finished, finishing, gotFinish, exit>>

Success == ~external_timeout /\ test_passed' /\ fail_count' = 0

\* main after the loop: the final block, in the slot the run stopped in, and the
\* exit status
FinalAndExit ==
  /\ exit = "none" /\ (gotFinish \/ external_timeout)
  /\ finish_cosim(slot)
  /\ exit' = IF FinishDies(slot) THEN "abort" ELSE IF Success THEN "ok" ELSE "fail"
  /\ UNCHANGED <<fixed, core, slot, cosim_ready, tests_passed, finishing,
                 external_timeout, gotFinish>>

Next ==
  \/ \E ok \in BOOLEAN : ReleaseReset(ok)
  \/ \E first \in BOOLEAN : Posedge(first)
  \/ ReportSlot
  \/ FinishSlot
  \/ Negedge
  \/ ExternalTimeout
  \/ FinalAndExit

Spec == Init /\ [][Next]_vars

\* The simulator keeps executing time slots.
LiveSpec == Spec /\ WF_vars(Next)

-----------------------------------------------------------------------------
\* Properties

\* The shape of the state.
TypeOK ==
  /\ prog \in Programs /\ faulty \subseteq Orders /\ noerror \in BOOLEAN
  /\ slot \in {"reset", "posedge", "plus1", "plus2", "negedge"}
  /\ next \in 0 .. Len(prog) /\ store \in {"no", "answered", "done"} /\ trap \in BOOLEAN
  /\ rvfi \in [valid : BOOLEAN, order : Nat]
  /\ cosim_ready \in BOOLEAN /\ tests_passed \in BOOLEAN /\ cosim_finished \in BOOLEAN
  /\ finishing \in BOOLEAN
  /\ has_last \in BOOLEAN /\ last_order \in Nat
  /\ last_slot \in {"none", "reset", "posedge", "plus1", "plus2", "negedge"}
  /\ spike \in Nat /\ fail_count \in 0 .. 1 /\ stepsFor \in [Orders -> Nat]
  /\ test_passed \in BOOLEAN /\ external_timeout \in BOOLEAN /\ gotFinish \in BOOLEAN
  /\ exit \in {"none", "ok", "fail", "abort"}

\* The process exits with success only if the firmware stored PASS or FINISH and
\* every instruction the core retired was compared, once, and was right.
SuccessJustified ==
  exit = "ok" =>
    /\ tests_passed
    /\ \A o \in 0 .. next - 1 : stepsFor[o] = 1 /\ o \notin faulty

\* A wrong instruction that the core has shown on RVFI aborts the run, also one
\* shown in the very slot in which the simulation stops: an ordinary exit status,
\* success or failure, means that no wrong instruction has retired.
FaultIsReported ==
  exit \in {"ok", "fail"} => \A o \in faulty : o >= next

\* A correct core whose firmware stores PASS or FINISH is not failed by the
\* testbench, unless the run is cut by the external timeout or never starts.
CorrectRunPasses ==
  exit # "none" /\ tests_passed /\ faulty = {} /\ ~external_timeout => exit = "ok"

\* After PASS or FINISH the process ends.
PassEndsRun == tests_passed ~> exit # "none"
=============================================================================
