------------------------------ MODULE MonInstr ------------------------------
(***************************************************************************)
(* The instruction monitor of CPU mode: the one MonInstr behind the         *)
(* mon_instr C functions.  A testbench that has one hands it each retired   *)
(* instruction; the monitor asks the cosim bridge as its mode says, and     *)
(* writes a row of its log whatever the answer.  The bridge's answer is a   *)
(* parameter here; the testbench modules compose the two.                   *)
(***************************************************************************)
EXTENDS Naturals, Sequences

VARIABLES
  monitor,   \* g_monitor
  mon_log    \* the log file, which outlives it

Mode == {"detail", "retire", "log_only"}
Row == [order : Nat, result : {"PASS", "FAIL", "LOG"}]

NoMonitor == [up |-> FALSE, mode |-> "detail", open |-> FALSE, retire_count |-> 0]
NoLog == [rows |-> <<>>, footers |-> <<>>]

MonTypeOK ==
  /\ monitor \in [up : BOOLEAN, mode : Mode, open : BOOLEAN, retire_count : Nat]
  /\ mon_log \in [rows : Seq(Row), footers : Seq(Nat)]

\* An unknown mode compares in detail.
compare_mode(mode) == IF mode \in Mode THEN mode ELSE "detail"

\* mon_instr_init_mode when the log can be opened; when it cannot, the
\* constructor throws through the DPI call and the process ends.
mon_instr_init_mode(mode) ==
  /\ monitor' = [NoMonitor EXCEPT !.up = TRUE, !.mode = compare_mode(mode), !.open = TRUE]
  /\ mon_log' = NoLog

\* Mutant: the bridge's answer as it is.
ResultCode(rc) == IF rc = 0 THEN "0" ELSE "-2"

\* What MonInstr::retire takes the bridge's answer for.
Result(rc) ==
  IF monitor.mode = "log_only" THEN "LOG" ELSE IF rc = 0 THEN "PASS" ELSE "FAIL"

\* Mutant: the order is the monitor's own count, one late.
LoggedRowLate(order, rc) == [order |-> order + 1, result |-> Result(rc)]

LoggedRow(order, rc) == [order |-> order, result |-> Result(rc)]

\* MonInstr::retire, the bridge having answered rc.
mon_instr_retire(order, rc) ==
  /\ monitor.up
  /\ mon_log' = IF monitor.open
                  THEN [mon_log EXCEPT !.rows = Append(@, LoggedRow(order, rc))]
                  ELSE mon_log
  /\ monitor' = [monitor EXCEPT !.retire_count = @ + 1]

\* MonInstr::finish, which the destructor calls too: the number of retired
\* instructions, once.
mon_finish(after) ==
  /\ mon_log' = IF monitor.open
                  THEN [mon_log EXCEPT !.footers = Append(@, monitor.retire_count)]
                  ELSE mon_log
  /\ monitor' = after

mon_instr_finish == mon_finish([monitor EXCEPT !.open = FALSE])

mon_instr_reset == mon_finish(NoMonitor)

\* The log is complete: one row for each of the n instructions retired, in their
\* order, and one number under them.
LogComplete(n) ==
  /\ mon_log.footers = <<n>>
  /\ Len(mon_log.rows) = n
  /\ \A k \in 1 .. n : mon_log.rows[k].order = k - 1
=============================================================================
