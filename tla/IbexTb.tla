------------------------------- MODULE IbexTb -------------------------------
(***************************************************************************)
(* The Ibex testbench: firmware of this repository running on the core, the *)
(* UART of tb_ibex that takes its stores, the retire monitor bound to it,   *)
(* and main from create_cosim to the exit status.                           *)
(*                                                                          *)
(* The processes of a clock edge are one action.  The core, the checker     *)
(* that steps the session and VerilatorSimCtrl are external.  What is       *)
(* assumed of them: the firmware's stores are on the bus in order, and each *)
(* retires before the second after it; the checker steps Spike once for     *)
(* each retire and stops the process with $fatal at a mismatch;             *)
(* VerilatorSimCtrl may stop the simulation at any time and says whether it *)
(* was a success.  Instructions other than these stores are left out.       *)
(***************************************************************************)
EXTENDS Firmware, MonInstr

CONSTANT Programs   \* what main calls and returns

\* The arguments of a program's calls are such that the library stores words.
ASSUME ProgramsAssumption == \A p \in Programs : Stores(p) \in Seq(Words)

VARIABLES
  program,
  up,           \* the initial blocks have run, and the bridge came up
  stored,       \* stores that have been on the bus
  retired,      \* stores that have been on RVFI
  sim_finish,   \* the UART's three-bit counter
  console,      \* the characters in the UART's log file
  matched,      \* the session's instruction count
  gotFinish,    \* who ended the simulation
  exit          \* how the process ended

vars == <<program, up, stored, retired, sim_finish, console, matched, gotFinish, exit,
          monitor, mon_log>>
run == <<up, stored, retired, sim_finish, console, matched>>

\* Mutant: the counter waits where it is.
CountsOnStuck(n) == n
CountsOn(n) == (n + 1) % 8

Init ==
  /\ program \in Programs
  /\ up = FALSE
  /\ stored = 0 /\ retired = 0 /\ sim_finish = 0 /\ console = <<>> /\ matched = 0
  /\ gotFinish = "no" /\ exit = "none"
  /\ monitor = NoMonitor /\ mon_log = NoLog

\* The initial blocks: create_cosim, which throws when the bridge does not come
\* up, and ibex_mon_init, which throws when its log cannot be opened.
CreateCosim(bridge, mon) ==
  /\ exit = "none" /\ ~up
  /\ IF bridge /\ mon
       THEN up' = TRUE /\ mon_instr_init_mode("log_only") /\ UNCHANGED exit
       ELSE exit' = "abort" /\ UNCHANGED <<up, monitor, mon_log>>
  /\ UNCHANGED <<program, stored, retired, sim_finish, console, matched, gotFinish>>

Running == exit = "none" /\ gotFinish = "no" /\ up

\* What the core shows at an edge: the next store on the bus, the next retire on
\* RVFI.
CoreShows(store, retire) ==
  /\ store => stored < Len(Stores(program)) /\ stored < retired + 2
  /\ retire => retired < stored

\* Mutant: the UART listens to the end.
TakenAlways == TRUE
Taken == sim_finish = 0

\* The character or protocol byte on the bus; -1 when the UART does not take one.
Byte(store) == IF store /\ Taken THEN Stores(program)[stored + 1] % 256 ELSE -1

\* Mutant: the START of start.S falls through to the default, which prints it.
IsCharOrStart(b) == b >= 0 /\ b \notin Protocol \ {RISCV_START}
IsChar(b) == b >= 0 /\ b \notin Protocol

\* The reasons for which a process of this edge calls $fatal.
Fatal(b, bad, opens) ==
  {r \in {"firmware_failed", "log_failed", "mismatch"} :
     CASE r = "firmware_failed" -> b = RISCV_FAIL
       [] r = "log_failed" -> IsChar(b) /\ console = <<>> /\ ~opens
       [] r = "mismatch" -> bad}

\* An edge on which a process stops the simulation at once.  What the others did
\* on it is gone with the process.
FatalEdge(store, bad, opens) ==
  /\ Running
  /\ CoreShows(store, bad)
  /\ exit' \in Fatal(Byte(store), bad, opens)
  /\ UNCHANGED <<program, run, gotFinish, monitor, mon_log>>

Edge(store, retire) ==
  LET b == Byte(store) IN
  /\ Running
  /\ CoreShows(store, retire)
  /\ Fatal(b, FALSE, TRUE) = {}
  /\ stored' = IF store THEN stored + 1 ELSE stored
  /\ console' = IF IsChar(b) THEN Append(console, b) ELSE console
  /\ sim_finish' = IF sim_finish # 0 THEN CountsOn(sim_finish)
                   ELSE IF b \in {RISCV_PASS, RISCV_FINISH} THEN 1 ELSE 0
  /\ gotFinish' = IF sim_finish >= 2 THEN "uart" ELSE "no"
  /\ IF retire
       THEN /\ retired' = retired + 1
            /\ matched' = matched + 1
            /\ mon_instr_retire(retired, 0)
       ELSE UNCHANGED <<retired, matched, monitor, mon_log>>
  /\ UNCHANGED <<program, up, exit>>

\* VerilatorSimCtrl's time limit, or a signal.
SimCtrlStops ==
  /\ Running
  /\ gotFinish' = "simctrl"
  /\ UNCHANGED <<program, run, exit, monitor, mon_log>>

\* The final block, then Finish: an unsuccessful simulation leaves the session to
\* the static destructors, a performance counter file that cannot be opened ends
\* the process by an exception.
Final ==
  /\ exit = "none" /\ gotFinish # "no"
  /\ mon_instr_finish
  /\ exit' = "final"
  /\ UNCHANGED <<program, run, gotFinish>>

Finish(success, csv) ==
  /\ exit = "final"
  /\ success \/ gotFinish = "simctrl"
  /\ exit' = IF ~success THEN "failed" ELSE IF csv THEN "ok" ELSE "abort"
  /\ IF exit' = "abort" THEN UNCHANGED <<monitor, mon_log>> ELSE mon_instr_reset
  /\ UNCHANGED <<program, run, gotFinish>>

Next ==
  \/ \E bridge, mon \in BOOLEAN : CreateCosim(bridge, mon)
  \/ \E store, bad, opens \in BOOLEAN : FatalEdge(store, bad, opens)
  \/ \E store, retire \in BOOLEAN : Edge(store, retire)
  \/ SimCtrlStops
  \/ Final
  \/ \E success, csv \in BOOLEAN : Finish(success, csv)

\* RunSimulation's loop evaluates edge after edge, and main goes on.
Spec == Init /\ [][Next]_vars /\ WF_vars(\E s, r \in BOOLEAN : Edge(s, r))
             /\ WF_vars(Final \/ \E b, c \in BOOLEAN : Finish(b, c))

-----------------------------------------------------------------------------
\* Properties

\* The shape of the state.
TypeOK ==
  /\ program \in Programs /\ up \in BOOLEAN
  /\ stored \in 0 .. Len(Stores(program)) /\ retired \in 0 .. stored
  /\ sim_finish \in 0 .. 7 /\ matched \in Nat
  /\ gotFinish \in {"no", "uart", "simctrl"}
  /\ exit \in {"none", "final", "ok", "failed", "abort", "firmware_failed", "log_failed",
               "mismatch"}
  /\ MonTypeOK

\* The UART's log is what the program means to print: always the beginning of the
\* text of its calls, and all of it when the firmware has ended the run, whatever
\* it prints or reports after its first status.
ConsoleIsText ==
  /\ IsPrefix(console, Text(program))
  /\ gotFinish = "uart" \/ exit = "firmware_failed" => console = Text(program)

\* The first status decides: a run the firmware has ended with success reported
\* PASS or FINISH before any FAIL, a run that ends by a failure of the firmware
\* reported FAIL first.
FirstStatusDecides ==
  /\ exit = "ok" /\ gotFinish = "uart" => Succeeds(program)
  /\ exit = "firmware_failed" => ~Succeeds(program)

\* A process that gets to its end leaves a complete monitor log, which agrees
\* with the number of instructions the session says it matched.
RetiresAgree ==
  exit \in {"ok", "failed"} => LogComplete(retired) /\ matched = retired

\* Once the firmware has reported a status the process ends, although the core
\* runs on.
StatusEndsRun == sim_finish # 0 ~> exit \notin {"none", "final"}
=============================================================================
