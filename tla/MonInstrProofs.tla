--------------------------- MODULE MonInstrProofs ---------------------------
(***************************************************************************)
(* Lemmas about MonInstr that the testbenches' theorems share: what a       *)
(* retire, a finish and a reset do to a log that is right so far.           *)
(***************************************************************************)
EXTENDS MonInstr, TLAPS

\* The monitor has taken n instructions, their rows are in order, and the footer is
\* there when the log is closed.
LogSoFar(n) ==
  /\ MonTypeOK /\ monitor.up
  /\ monitor.retire_count = n
  /\ Len(mon_log.rows) = n
  /\ \A k \in 1 .. n : mon_log.rows[k].order = k - 1
  /\ mon_log.footers = IF monitor.open THEN <<>> ELSE <<n>>

Log == [rows : Seq(Row), footers : Seq(Nat)]
Monitor == [up : BOOLEAN, mode : Mode, open : BOOLEAN, retire_count : Nat]

\* What an assignment to a field of the log leaves.
LEMMA LogFields ==
  ASSUME NEW log \in Log, NEW row \in Row, NEW n \in Nat
  PROVE  /\ [log EXCEPT !.rows = Append(@, row)] \in Log
         /\ [log EXCEPT !.rows = Append(@, row)].rows = Append(log.rows, row)
         /\ [log EXCEPT !.rows = Append(@, row)].footers = log.footers
         /\ [log EXCEPT !.footers = Append(@, n)] \in Log
         /\ [log EXCEPT !.footers = Append(@, n)].rows = log.rows
         /\ [log EXCEPT !.footers = Append(@, n)].footers = Append(log.footers, n)
<1>1. log.rows \in Seq(Row) /\ log.footers \in Seq(Nat)
  BY DEF Log
<1>2. Append(log.rows, row) \in Seq(Row) /\ Append(log.footers, n) \in Seq(Nat)
  BY <1>1
<1> QED BY <1>1, <1>2 DEF Log

\* What an assignment to a field of the monitor leaves.
LEMMA MonitorFields ==
  ASSUME NEW m \in Monitor
  PROVE  /\ [m EXCEPT !.retire_count = @ + 1] \in Monitor
         /\ [m EXCEPT !.retire_count = @ + 1].retire_count = m.retire_count + 1
         /\ [m EXCEPT !.retire_count = @ + 1].up = m.up
         /\ [m EXCEPT !.retire_count = @ + 1].open = m.open
         /\ [m EXCEPT !.open = FALSE] \in Monitor
         /\ [m EXCEPT !.open = FALSE].retire_count = m.retire_count
         /\ [m EXCEPT !.open = FALSE].up = m.up
         /\ ~[m EXCEPT !.open = FALSE].open
<1> USE DEF Monitor
<1>1. [m EXCEPT !.retire_count = @ + 1] \in Monitor
  OBVIOUS
<1>2. /\ [m EXCEPT !.retire_count = @ + 1].retire_count = m.retire_count + 1
      /\ [m EXCEPT !.retire_count = @ + 1].up = m.up
      /\ [m EXCEPT !.retire_count = @ + 1].open = m.open
  OBVIOUS
<1>3. [m EXCEPT !.open = FALSE] \in Monitor
  OBVIOUS
<1>4. /\ [m EXCEPT !.open = FALSE].retire_count = m.retire_count
      /\ [m EXCEPT !.open = FALSE].up = m.up
  OBVIOUS
<1>5. ~[m EXCEPT !.open = FALSE].open
  BY Zenon
<1> QED BY <1>1, <1>2, <1>3, <1>4, <1>5

\* A monitor that comes up has an empty log.
LEMMA InitLogs ==
  ASSUME NEW mode, mon_instr_init_mode(mode)
  PROVE  LogSoFar(0)' /\ monitor'.open
<1>1. compare_mode(mode) \in Mode
  BY DEF compare_mode, Mode
<1>2. monitor' = [up |-> TRUE, mode |-> compare_mode(mode), open |-> TRUE, retire_count |-> 0]
  BY DEF mon_instr_init_mode, NoMonitor
<1>3. monitor'.up /\ monitor'.open /\ monitor'.retire_count = 0
  BY <1>2
<1>4. mon_log'.rows = <<>> /\ mon_log'.footers = <<>>
  BY DEF mon_instr_init_mode, NoLog
<1>5. MonTypeOK'
  <2>1. mon_log' \in [rows : Seq(Row), footers : Seq(Nat)]
    BY DEF mon_instr_init_mode, NoLog
  <2>2. monitor' \in [up : BOOLEAN, mode : Mode, open : BOOLEAN, retire_count : Nat]
    BY <1>1, <1>2
  <2> QED BY <2>1, <2>2 DEF MonTypeOK
<1> QED BY <1>3, <1>4, <1>5 DEF LogSoFar

\* A retire adds its row to an open log.
LEMMA RetireLogs ==
  ASSUME NEW n \in Nat, NEW rc, LogSoFar(n), monitor.open, mon_instr_retire(n, rc)
  PROVE  LogSoFar(n + 1)' /\ monitor'.open
<1>1. LoggedRow(n, rc) \in Row /\ LoggedRow(n, rc).order = n
  BY DEF LoggedRow, Result, Row
<1>2. /\ monitor' = [monitor EXCEPT !.retire_count = @ + 1]
      /\ mon_log' = [mon_log EXCEPT !.rows = Append(@, LoggedRow(n, rc))]
  BY DEF mon_instr_retire
<1>3. /\ monitor \in Monitor /\ mon_log \in Log
      /\ mon_log.rows \in Seq(Row) /\ Len(mon_log.rows) = n
  BY DEF LogSoFar, MonTypeOK, Monitor, Log
<1>4. /\ mon_log' \in Log
      /\ mon_log'.rows = Append(mon_log.rows, LoggedRow(n, rc))
      /\ mon_log'.footers = mon_log.footers
  BY <1>1, <1>2, <1>3, LogFields
<1>5. /\ monitor' \in Monitor /\ monitor'.retire_count = monitor.retire_count + 1
      /\ monitor'.up = monitor.up /\ monitor'.open = monitor.open
  BY <1>2, <1>3, MonitorFields
<1>6. \A k \in 1 .. n + 1 : mon_log'.rows[k].order = k - 1
  <2> TAKE k \in 1 .. n + 1
  <2>1. CASE k = n + 1
    BY <1>1, <1>3, <1>4, <2>1
  <2>2. CASE k # n + 1
    <3>1. k \in 1 .. n
      BY <2>2
    <3>2. mon_log'.rows[k] = mon_log.rows[k]
      BY <1>1, <1>3, <1>4, <3>1
    <3> QED BY <3>1, <3>2 DEF LogSoFar
  <2> QED BY <2>1, <2>2
<1>7. Len(mon_log'.rows) = n + 1
  BY <1>1, <1>3, <1>4
<1> QED BY <1>4, <1>5, <1>6, <1>7 DEF LogSoFar, MonTypeOK, Monitor, Log

\* A finish completes the log, whether it is the first or not.
LEMMA FinishLogs ==
  ASSUME NEW n \in Nat, LogSoFar(n), mon_instr_finish
  PROVE  LogSoFar(n)' /\ ~monitor'.open /\ LogComplete(n)'
<1>1. monitor' = [monitor EXCEPT !.open = FALSE] /\ monitor \in Monitor /\ mon_log \in Log
  BY DEF mon_instr_finish, mon_finish, LogSoFar, MonTypeOK, Monitor, Log
<1>2. mon_log'.rows = mon_log.rows /\ mon_log'.footers = <<n>> /\ mon_log' \in Log
  <2>1. CASE monitor.open
    <3>1. mon_log' = [mon_log EXCEPT !.footers = Append(@, n)] /\ mon_log.footers = <<>>
      BY <2>1 DEF mon_instr_finish, mon_finish, LogSoFar
    <3>2. [order |-> 0, result |-> "LOG"] \in Row
      BY DEF Row
    <3>3. Append(mon_log.footers, n) = <<n>>
      BY <3>1
    <3> QED BY <1>1, <3>1, <3>2, <3>3, LogFields
  <2>2. CASE ~monitor.open
    BY <1>1, <2>2 DEF mon_instr_finish, mon_finish, LogSoFar
  <2> QED BY <2>1, <2>2
<1>3. /\ monitor' \in Monitor /\ monitor'.retire_count = monitor.retire_count
      /\ monitor'.up = monitor.up /\ ~monitor'.open
  BY <1>1, MonitorFields
<1> QED BY <1>2, <1>3 DEF LogSoFar, LogComplete, MonTypeOK, Monitor, Log

\* The destructor leaves a finished log as it is.
LEMMA ResetLogs ==
  ASSUME NEW n \in Nat, LogSoFar(n), ~monitor.open, mon_instr_reset
  PROVE  LogComplete(n)' /\ MonTypeOK'
BY DEF mon_instr_reset, mon_finish, LogSoFar, LogComplete, MonTypeOK, NoMonitor, Mode
=============================================================================
