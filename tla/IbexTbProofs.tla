---------------------------- MODULE IbexTbProofs ----------------------------
(***************************************************************************)
(* Theorems about IbexTb for every firmware program, int width and sequence *)
(* of edges: type correctness, that a process that gets to its end leaves a *)
(* monitor log that agrees with what the session matched, that the first    *)
(* status the firmware reports decides the run, and that the log of the     *)
(* UART is the text the firmware prints up to it.                           *)
(***************************************************************************)
EXTENDS IbexTb, MonInstrProofs, FiniteSetTheorems, SequenceTheorems

-----------------------------------------------------------------------------
(* The monitor's log.                                                        *)

\* The inductive invariant: until the final block the log is open and holds the retires
\* so far; the final block closes it, and only the destructor comes after it.
LogFollows ==
  /\ retired \in Nat /\ matched = retired
  /\ gotFinish # "no" => up
  /\ exit = "none" /\ ~up => retired = 0
  /\ exit = "none" /\ up => LogSoFar(retired) /\ monitor.open
  /\ exit = "final" => LogSoFar(retired) /\ ~monitor.open

LogInv == LogFollows /\ RetiresAgree

\* A step that leaves the monitor and the retires alone, and the process running or dead.
LEMMA LogStays ==
  ASSUME LogInv, UNCHANGED <<monitor, mon_log, retired, matched, up>>,
         exit' = exit \/ exit' \notin {"none", "final", "ok", "failed"},
         gotFinish' # "no" => up
  PROVE  LogInv'
BY DEF LogInv, LogFollows, RetiresAgree, LogSoFar, LogComplete, MonTypeOK

LEMMA LogStep == LogInv /\ [Next]_vars => LogInv'
<1> SUFFICES ASSUME LogInv, [Next]_vars PROVE LogInv'
  OBVIOUS
<1>1. ASSUME NEW bridge \in BOOLEAN, NEW mon \in BOOLEAN, CreateCosim(bridge, mon) PROVE LogInv'
  <2>1. /\ exit = "none" /\ retired = 0
        /\ UNCHANGED <<retired, matched, gotFinish>>
    BY <1>1 DEF CreateCosim, LogInv, LogFollows
  <2>2. CASE bridge /\ mon
    <3>1. mon_instr_init_mode("log_only") /\ up' /\ UNCHANGED exit
      BY <1>1, <2>2 DEF CreateCosim
    <3>2. LogSoFar(0)' /\ monitor'.open
      BY <3>1, InitLogs
    <3> QED BY <2>1, <3>1, <3>2 DEF LogInv, LogFollows, RetiresAgree, LogSoFar
  <2>3. CASE ~(bridge /\ mon)
    BY <1>1, <2>1, <2>3, LogStays DEF CreateCosim, LogInv, LogFollows
  <2> QED BY <2>2, <2>3
<1>2. ASSUME NEW store \in BOOLEAN, NEW bad \in BOOLEAN, NEW opens \in BOOLEAN,
             FatalEdge(store, bad, opens)
      PROVE  LogInv'
  <2>1. exit' \in {"firmware_failed", "log_failed", "mismatch"}
    BY <1>2 DEF FatalEdge, Fatal
  <2>2. UNCHANGED <<run, gotFinish, monitor, mon_log>>
    BY <1>2 DEF FatalEdge
  <2> QED BY <2>1, <2>2, LogStays DEF run, LogInv, LogFollows
<1>3. ASSUME NEW store \in BOOLEAN, NEW retire \in BOOLEAN, Edge(store, retire) PROVE LogInv'
  <2>1. exit = "none" /\ up /\ UNCHANGED <<up, exit>>
    BY <1>3 DEF Edge, Running
  <2>2. CASE retire
    <3>1. retired' = retired + 1 /\ matched' = matched + 1 /\ mon_instr_retire(retired, 0)
      BY <1>3, <2>2 DEF Edge
    <3>2. retired \in Nat /\ LogSoFar(retired) /\ monitor.open /\ matched = retired
      BY <2>1 DEF LogInv, LogFollows
    <3>3. PICK n \in Nat : n = retired
      BY <3>2
    <3>4. LogSoFar(n) /\ monitor.open /\ mon_instr_retire(n, 0) => LogSoFar(n + 1)' /\ monitor'.open
      BY RetireLogs
    <3>5. LogSoFar(n + 1)' /\ monitor'.open /\ retired' = n + 1
      BY <3>1, <3>2, <3>3, <3>4
    <3>6. LogSoFar(retired)'
      BY <3>5 DEF LogSoFar
    <3> QED BY <2>1, <3>1, <3>2, <3>5, <3>6 DEF LogInv, LogFollows, RetiresAgree
  <2>3. CASE ~retire
    BY <1>3, <2>1, <2>3, LogStays DEF Edge
  <2> QED BY <2>2, <2>3
<1>4. CASE SimCtrlStops
  BY <1>4, LogStays DEF SimCtrlStops, Running, run
<1>5. CASE Final
  <2>1. /\ exit = "none" /\ up /\ mon_instr_finish /\ exit' = "final"
        /\ UNCHANGED <<retired, matched, up>>
    BY <1>5 DEF Final, run, LogInv, LogFollows
  <2>2. PICK n \in Nat : n = retired
    BY DEF LogInv, LogFollows
  <2>3. LogSoFar(n) => LogSoFar(n)' /\ ~monitor'.open
    BY <2>1, FinishLogs
  <2>4. LogSoFar(retired)' /\ ~monitor'.open
    BY <2>1, <2>2, <2>3 DEF LogSoFar, LogInv, LogFollows
  <2> QED BY <2>1, <2>4 DEF LogInv, LogFollows, RetiresAgree
<1>6. ASSUME NEW success \in BOOLEAN, NEW csv \in BOOLEAN, Finish(success, csv) PROVE LogInv'
  <2>1. exit = "final" /\ UNCHANGED <<retired, matched, up, gotFinish>>
    BY <1>6 DEF Finish, run
  <2>2. CASE exit' = "abort"
    BY <1>6, <2>1, <2>2, LogStays DEF Finish, LogInv, LogFollows
  <2>3. CASE exit' # "abort"
    <3>1. mon_instr_reset /\ exit' \in {"ok", "failed"}
      BY <1>6, <2>3 DEF Finish
    <3>2. LogSoFar(retired) /\ ~monitor.open
      BY <2>1 DEF LogInv, LogFollows
    <3>3. PICK n \in Nat : n = retired
      BY DEF LogInv, LogFollows
    <3>4. LogComplete(n)'
      BY <3>1, <3>2, <3>3, ResetLogs
    <3>5. LogComplete(retired)'
      BY <2>1, <3>3, <3>4 DEF LogComplete
    <3> QED BY <2>1, <3>1, <3>5 DEF LogInv, LogFollows, RetiresAgree
  <2> QED BY <2>2, <2>3
<1>7. CASE UNCHANGED vars
  BY <1>7, LogStays DEF vars, LogInv, LogFollows
<1> QED BY <1>1, <1>2, <1>3, <1>4, <1>5, <1>6, <1>7 DEF Next

\* A process that gets to its end leaves a complete monitor log, which agrees with the
\* number of instructions the session says it matched.
THEOREM RetiresTheorem == Spec => []RetiresAgree
<1>1. Init => LogInv
  BY DEF Init, LogInv, LogFollows, RetiresAgree
<1> QED BY <1>1, LogStep, PTL DEF Spec, LogInv

-----------------------------------------------------------------------------
(* Type correctness.                                                         *)

Exits == {"none", "final", "ok", "failed", "abort", "firmware_failed", "log_failed", "mismatch"}

LEMMA TypeStep == TypeOK /\ LogInv /\ [Next]_vars => TypeOK'
<1> SUFFICES ASSUME TypeOK, LogInv, [Next]_vars PROVE TypeOK'
  OBVIOUS
<1>0. /\ program \in Programs /\ Len(Stores(program)) \in Nat
      /\ up \in BOOLEAN /\ stored \in 0 .. Len(Stores(program)) /\ retired \in 0 .. stored
      /\ sim_finish \in 0 .. 7 /\ matched \in Nat
      /\ gotFinish \in {"no", "uart", "simctrl"} /\ exit \in Exits /\ MonTypeOK
  BY ProgramsAssumption DEF TypeOK, Exits
<1>a. ASSUME UNCHANGED <<program, stored, retired, sim_finish, matched>>, up' \in BOOLEAN,
             gotFinish' \in {"no", "uart", "simctrl"}, exit' \in Exits, MonTypeOK'
      PROVE  TypeOK'
  BY <1>0, <1>a DEF TypeOK, Exits
<1>b. UNCHANGED <<monitor, mon_log>> => MonTypeOK'
  BY <1>0 DEF MonTypeOK
<1>1. ASSUME NEW bridge \in BOOLEAN, NEW mon \in BOOLEAN, CreateCosim(bridge, mon) PROVE TypeOK'
  <2>1. /\ UNCHANGED <<program, stored, retired, sim_finish, matched, gotFinish>>
        /\ up' \in BOOLEAN /\ exit' \in Exits
        /\ mon_instr_init_mode("log_only") \/ UNCHANGED <<monitor, mon_log>>
    BY <1>0, <1>1 DEF CreateCosim, Exits
  <2>2. MonTypeOK'
    BY <1>b, <2>1, InitLogs DEF LogSoFar
  <2> QED BY <1>0, <1>a, <2>1, <2>2
<1>2. ASSUME NEW store \in BOOLEAN, NEW bad \in BOOLEAN, NEW opens \in BOOLEAN,
             FatalEdge(store, bad, opens)
      PROVE  TypeOK'
  <2>1. exit' \in Exits
    BY <1>2 DEF FatalEdge, Fatal, Exits
  <2> QED BY <1>0, <1>2, <1>a, <1>b, <2>1 DEF FatalEdge, run
<1>3. ASSUME NEW store \in BOOLEAN, NEW retire \in BOOLEAN, Edge(store, retire) PROVE TypeOK'
  <2>1. /\ store => stored < Len(Stores(program))
        /\ retire => retired < stored
        /\ stored' = IF store THEN stored + 1 ELSE stored
        /\ sim_finish' \in {CountsOn(sim_finish), 0, 1}
        /\ gotFinish' \in {"uart", "no"}
        /\ UNCHANGED <<program, up, exit>>
    BY <1>3, Zenon DEF Edge, CoreShows
  <2>2. stored' \in 0 .. Len(Stores(program)) /\ stored' >= stored
    BY <1>0, <2>1
  <2>3. sim_finish' \in 0 .. 7
    BY <1>0, <2>1 DEF CountsOn
  <2>4. retired' \in 0 .. stored' /\ matched' \in Nat /\ MonTypeOK'
    <3>1. CASE retire
      <4>1. retired' = retired + 1 /\ matched' = matched + 1
        BY <1>3, <3>1 DEF Edge
      <4>2. LogInv'
        BY <1>3, LogStep DEF Next
      <4>3. exit = "none" /\ up /\ exit' = exit /\ up' = up
        BY <1>3 DEF Edge, Running
      <4> QED BY <1>0, <2>1, <2>2, <3>1, <4>1, <4>2, <4>3 DEF LogInv, LogFollows, LogSoFar
    <3>2. CASE ~retire
      <4>1. UNCHANGED <<retired, matched, monitor, mon_log>>
        BY <1>3, <3>2 DEF Edge
      <4> QED BY <1>0, <1>b, <2>2, <4>1
    <3> QED BY <3>1, <3>2
  <2> QED BY <1>0, <2>1, <2>2, <2>3, <2>4 DEF TypeOK, Exits
<1>4. CASE SimCtrlStops
  BY <1>0, <1>4, <1>a, <1>b DEF SimCtrlStops, run
<1>5. CASE Final
  <2>1. /\ exit = "none" /\ exit' = "final" /\ gotFinish # "no"
        /\ UNCHANGED <<program, up, stored, retired, sim_finish, matched, gotFinish>>
    BY <1>5 DEF Final, run
  <2>2. LogInv'
    BY <1>5, LogStep DEF Next
  <2>3. MonTypeOK'
    BY <2>1, <2>2 DEF LogInv, LogFollows, LogSoFar
  <2> QED BY <1>0, <1>a, <2>1, <2>3 DEF Exits
<1>6. ASSUME NEW success \in BOOLEAN, NEW csv \in BOOLEAN, Finish(success, csv) PROVE TypeOK'
  <2>1. /\ exit = "final" /\ exit' \in {"failed", "ok", "abort"}
        /\ UNCHANGED <<program, up, stored, retired, sim_finish, matched, gotFinish>>
        /\ UNCHANGED <<monitor, mon_log>> \/ mon_instr_reset
    BY <1>6 DEF Finish, run
  <2>2. PICK n \in Nat : n = retired
    BY <1>0
  <2>3. LogSoFar(n) /\ ~monitor.open
    BY <2>1, <2>2 DEF LogInv, LogFollows
  <2>4. MonTypeOK'
    BY <1>b, <2>1, <2>3, ResetLogs
  <2> QED BY <1>0, <1>a, <2>1, <2>4 DEF Exits
<1>7. CASE UNCHANGED vars
  BY <1>0, <1>7, <1>a, <1>b DEF vars
<1> QED BY <1>1, <1>2, <1>3, <1>4, <1>5, <1>6, <1>7 DEF Next

LEMMA LogInvHolds == Spec => []LogInv
<1>1. Init => LogInv
  BY DEF Init, LogInv, LogFollows, RetiresAgree
<1> QED BY <1>1, LogStep, PTL DEF Spec

\* Every state of the testbench has the declared shape.
THEOREM IbexTypeCorrect == Spec => []TypeOK
<1>1. Init => TypeOK
  <2> SUFFICES ASSUME Init PROVE TypeOK
    OBVIOUS
  <2>1. Len(Stores(program)) \in Nat
    BY ProgramsAssumption DEF Init
  <2>2. MonTypeOK
    BY DEF Init, MonTypeOK, NoMonitor, NoLog, Mode
  <2>3. 0 \in 0 .. Len(Stores(program)) /\ 0 \in 0 .. 0 /\ 0 \in 0 .. 7 /\ 0 \in Nat
    BY <2>1
  <2> QED BY <2>2, <2>3, Zenon DEF Init, TypeOK
<1> QED BY <1>1, TypeStep, LogInvHolds, PTL DEF Spec

-----------------------------------------------------------------------------
(* The first status.                                                         *)

\* The inductive invariant: as long as the UART counts nothing, no status has been on the
\* bus; it counts, and ends the run, after a first status that is PASS or FINISH; a run
\* that ends by a failure of the firmware has FAIL next.
FirstStatus ==
  /\ sim_finish = 0 => \A i \in 1 .. stored : ~StatusByte(program, i)
  /\ sim_finish # 0 => \E i \in 1 .. stored :
                         /\ StatusByte(program, i) /\ Stores(program)[i] % 256 # RISCV_FAIL
                         /\ \A j \in 1 .. i - 1 : ~StatusByte(program, j)
  /\ gotFinish = "no" => sim_finish \in 0 .. 2
  /\ gotFinish = "uart" => sim_finish # 0
  /\ exit = "firmware_failed" =>
       /\ sim_finish = 0 /\ stored < Len(Stores(program))
       /\ Stores(program)[stored + 1] % 256 = RISCV_FAIL

\* The invariant is about no more than this.
LEMMA StatusStays ==
  ASSUME FirstStatus, UNCHANGED <<program, stored, sim_finish>>,
         gotFinish' \in {gotFinish, "simctrl"}, exit' # "firmware_failed"
  PROVE  FirstStatus'
BY DEF FirstStatus, StatusByte

LEMMA StatusStep == TypeOK /\ FirstStatus /\ [Next]_vars => FirstStatus'
<1> SUFFICES ASSUME TypeOK, FirstStatus, [Next]_vars PROVE FirstStatus'
  OBVIOUS
<1>1. ASSUME NEW bridge \in BOOLEAN, NEW mon \in BOOLEAN, CreateCosim(bridge, mon) PROVE FirstStatus'
  BY <1>1, StatusStays DEF CreateCosim
<1>2. ASSUME NEW store \in BOOLEAN, NEW bad \in BOOLEAN, NEW opens \in BOOLEAN,
             FatalEdge(store, bad, opens)
      PROVE  FirstStatus'
  <2>1. UNCHANGED <<program, stored, sim_finish, gotFinish>>
    BY <1>2 DEF FatalEdge, run
  <2>2. CASE exit' # "firmware_failed"
    BY <2>1, <2>2, StatusStays
  <2>3. CASE exit' = "firmware_failed"
    <3>1. Byte(store) = RISCV_FAIL
      BY <1>2, <2>3 DEF FatalEdge, Fatal
    <3>2. store /\ Taken /\ Stores(program)[stored + 1] % 256 = RISCV_FAIL
      BY <3>1 DEF Byte, RISCV_FAIL
    <3>3. stored < Len(Stores(program)) /\ sim_finish = 0
      BY <1>2, <3>2 DEF FatalEdge, CoreShows, Taken
    <3> QED BY <2>1, <3>2, <3>3 DEF FirstStatus, StatusByte
  <2> QED BY <2>2, <2>3
<1>3. ASSUME NEW store \in BOOLEAN, NEW retire \in BOOLEAN, Edge(store, retire) PROVE FirstStatus'
  <2> DEFINE b == Byte(store)
  <2>1. /\ exit = "none" /\ gotFinish = "no" /\ UNCHANGED <<program, exit>>
        /\ b # RISCV_FAIL
        /\ stored' = IF store THEN stored + 1 ELSE stored
        /\ sim_finish' = IF sim_finish # 0 THEN CountsOn(sim_finish)
                         ELSE IF b \in {RISCV_PASS, RISCV_FINISH} THEN 1 ELSE 0
        /\ gotFinish' = IF sim_finish >= 2 THEN "uart" ELSE "no"
    BY <1>3 DEF Edge, Running, Fatal
  <2>2. stored \in Nat /\ sim_finish \in 0 .. 2
    BY <2>1 DEF TypeOK, FirstStatus
  <2>3. stored' \in Nat /\ stored <= stored' /\ \A i \in 1 .. stored' : i \in 1 .. stored \/ (store /\ i = stored + 1)
    BY <2>1, <2>2
  <2>4. CASE sim_finish # 0
    <3>1. sim_finish' = sim_finish + 1
      BY <2>1, <2>2, <2>4 DEF CountsOn
    <3>2. PICK i \in 1 .. stored : /\ StatusByte(program, i) /\ Stores(program)[i] % 256 # RISCV_FAIL
                                   /\ \A j \in 1 .. i - 1 : ~StatusByte(program, j)
      BY <2>4 DEF FirstStatus
    <3>3. i \in 1 .. stored' /\ program' = program
      BY <2>1, <2>2, <2>3
    <3>4. gotFinish' = "no" => sim_finish' \in 0 .. 2
      BY <2>1, <2>2, <3>1
    <3> QED BY <2>1, <2>2, <3>1, <3>2, <3>3, <3>4 DEF FirstStatus, StatusByte
  <2>5. CASE sim_finish = 0
    <3>1. \A i \in 1 .. stored : ~StatusByte(program, i)
      BY <2>5 DEF FirstStatus
    <3>2. store => b = Stores(program)[stored + 1] % 256
      BY <2>5 DEF Byte, Taken
    <3>3. ~store => b = -1
      BY DEF Byte
    <3>4. /\ sim_finish' = IF b \in {RISCV_PASS, RISCV_FINISH} THEN 1 ELSE 0
          /\ gotFinish' = "no"
      BY <2>1, <2>5
    <3> HIDE DEF b
    <3>5. CASE b \in {RISCV_PASS, RISCV_FINISH}
      <4>1. store
        BY <3>3, <3>5 DEF RISCV_PASS, RISCV_FINISH
      <4>2. StatusByte(program, stored + 1) /\ Stores(program)[stored + 1] % 256 # RISCV_FAIL
        BY <2>1, <3>2, <3>5, <4>1 DEF StatusByte, Statuses
      <4>3. stored' = stored + 1 /\ \A j \in 1 .. (stored + 1) - 1 : ~StatusByte(program, j)
        BY <2>1, <2>2, <3>1, <4>1
      <4> QED BY <2>1, <2>2, <3>4, <3>5, <4>2, <4>3 DEF FirstStatus, StatusByte
    <3>6. CASE b \notin {RISCV_PASS, RISCV_FINISH}
      <4>1. store => ~StatusByte(program, stored + 1)
        BY <2>1, <3>2, <3>6 DEF StatusByte, Statuses
      <4>2. \A i \in 1 .. stored' : ~StatusByte(program, i)
        BY <2>3, <3>1, <4>1
      <4> QED BY <2>1, <3>4, <3>6, <4>2 DEF FirstStatus, StatusByte
    <3> QED BY <3>5, <3>6
  <2> QED BY <2>4, <2>5
<1>4. CASE SimCtrlStops
  BY <1>4, StatusStays DEF SimCtrlStops, Running, run
<1>5. CASE Final
  BY <1>5, StatusStays DEF Final, run
<1>6. ASSUME NEW success \in BOOLEAN, NEW csv \in BOOLEAN, Finish(success, csv) PROVE FirstStatus'
  BY <1>6, StatusStays DEF Finish, run
<1>7. CASE UNCHANGED vars
  BY <1>7 DEF vars, FirstStatus, StatusByte
<1> QED BY <1>1, <1>2, <1>3, <1>4, <1>5, <1>6, <1>7 DEF Next

\* The first status decides.  The hypothesis is about the library alone: the first status
\* byte among a program's stores is the one its calls mean.
THEOREM FirstStatusTheorem ==
  ASSUME \A p \in Programs : SaysStatus(p)
  PROVE  Spec => []FirstStatusDecides
<1>1. Init => FirstStatus
  BY DEF Init, FirstStatus
<1>2. TypeOK /\ FirstStatus => FirstStatusDecides
  <2> SUFFICES ASSUME TypeOK, FirstStatus PROVE FirstStatusDecides
    OBVIOUS
  <2>1. /\ Len(Stores(program)) \in Nat /\ stored \in 0 .. Len(Stores(program))
        /\ SaysStatus(program)
    BY ProgramsAssumption DEF TypeOK
  <2>2. gotFinish = "uart" => Succeeds(program)
    <3> SUFFICES ASSUME gotFinish = "uart" PROVE Succeeds(program)
      OBVIOUS
    <3>1. PICK i \in 1 .. stored : /\ StatusByte(program, i) /\ Stores(program)[i] % 256 # RISCV_FAIL
                                   /\ \A j \in 1 .. i - 1 : ~StatusByte(program, j)
      BY DEF FirstStatus
    <3>2. i \in 1 .. Len(Stores(program))
      BY <2>1
    <3> QED BY <2>1, <3>1, <3>2 DEF SaysStatus, BeforeStatus
  <2>3. exit = "firmware_failed" => ~Succeeds(program)
    <3> SUFFICES ASSUME exit = "firmware_failed" PROVE ~Succeeds(program)
      OBVIOUS
    <3>1. /\ stored < Len(Stores(program)) /\ Stores(program)[stored + 1] % 256 = RISCV_FAIL
          /\ \A i \in 1 .. stored : ~StatusByte(program, i)
      BY DEF FirstStatus
    <3>2. stored + 1 \in 1 .. Len(Stores(program)) /\ (stored + 1) - 1 = stored
      BY <2>1, <3>1
    <3>3. StatusByte(program, stored + 1)
      BY <3>1 DEF StatusByte, Statuses
    <3> QED BY <2>1, <3>1, <3>2, <3>3 DEF SaysStatus, BeforeStatus
  <2> QED BY <2>2, <2>3 DEF FirstStatusDecides
<1> QED BY <1>1, <1>2, StatusStep, IbexTypeCorrect, PTL DEF Spec

-----------------------------------------------------------------------------
(* The UART's log.                                                           *)

\* How many characters there are among the first n stores.
LEMMA CharsCounted ==
  ASSUME NEW p, NEW n \in Nat
  PROVE  /\ Cardinality(CharsUpTo(p, 0)) = 0
         /\ Cardinality(CharsUpTo(p, n)) \in Nat
         /\ CharByte(p, n + 1) =>
              Cardinality(CharsUpTo(p, n + 1)) = Cardinality(CharsUpTo(p, n)) + 1
         /\ ~CharByte(p, n + 1) => CharsUpTo(p, n + 1) = CharsUpTo(p, n)
<1>1. CharsUpTo(p, 0) = {}
  BY DEF CharsUpTo
<1>2. IsFiniteSet(CharsUpTo(p, n))
  <2>1. IsFiniteSet(1 .. n) /\ CharsUpTo(p, n) \subseteq 1 .. n
    BY FS_Interval DEF CharsUpTo
  <2> QED BY <2>1, FS_Subset
<1>3. CharByte(p, n + 1) => CharsUpTo(p, n + 1) = CharsUpTo(p, n) \cup {n + 1}
  BY DEF CharsUpTo
<1>4. n + 1 \notin CharsUpTo(p, n)
  BY DEF CharsUpTo
<1>5. ~CharByte(p, n + 1) => CharsUpTo(p, n + 1) = CharsUpTo(p, n)
  <2>1. \A i \in 1 .. n + 1 : i \in 1 .. n \/ i = n + 1
    OBVIOUS
  <2>2. \A i \in 1 .. n : i \in 1 .. n + 1
    OBVIOUS
  <2>3. ASSUME ~CharByte(p, n + 1), NEW i PROVE i \in CharsUpTo(p, n + 1) <=> i \in CharsUpTo(p, n)
    BY <2>1, <2>2, <2>3, Zenon DEF CharsUpTo
  <2> QED BY <2>3, Zenon
<1>6. Cardinality(CharsUpTo(p, n)) \in Nat
  BY <1>2, FS_CardinalityType, Zenon
<1>7. Cardinality(CharsUpTo(p, n) \cup {n + 1}) = Cardinality(CharsUpTo(p, n)) + 1
  BY <1>2, <1>4, FS_AddElement, Zenon
<1> QED BY <1>1, <1>3, <1>5, <1>6, <1>7, FS_EmptySet, Zenon

\* The inductive invariant: the log is the beginning of the text; as long as the UART
\* counts nothing it has as many characters as have been on the bus, then all of them.
ConsoleFollows ==
  /\ console \in Seq(0 .. 255) /\ Len(console) <= Len(Text(program))
  /\ \A i \in 1 .. Len(console) : console[i] = Text(program)[i]
  /\ sim_finish = 0 => Len(console) = Cardinality(CharsUpTo(program, stored))
  /\ sim_finish # 0 => Len(console) = Len(Text(program))
  /\ exit = "firmware_failed" => Len(console) = Len(Text(program))

\* A step that puts nothing on the bus.
LEMMA ConsoleStays ==
  ASSUME ConsoleFollows, UNCHANGED <<program, stored, sim_finish, console>>,
         exit' # "firmware_failed"
  PROVE  ConsoleFollows'
BY DEF ConsoleFollows, CharsUpTo, CharByte

LEMMA ConsoleStep ==
  ASSUME \A p \in Programs : PrintsText(p)
  PROVE  TypeOK /\ FirstStatus /\ ConsoleFollows /\ [Next]_vars => ConsoleFollows'
<1> SUFFICES ASSUME TypeOK, FirstStatus, ConsoleFollows, [Next]_vars PROVE ConsoleFollows'
  OBVIOUS
<1>0. /\ Len(Stores(program)) \in Nat /\ stored \in 0 .. Len(Stores(program))
      /\ Text(program) \in Seq(0 .. 255) /\ PrintsText(program)
  BY ProgramsAssumption DEF TypeOK, PrintsText
\* The first status finds the whole text in the log.
<1>a. ASSUME sim_finish = 0, stored < Len(Stores(program)), StatusByte(program, stored + 1)
      PROVE  Len(console) = Len(Text(program))
  <2>1. stored + 1 \in 1 .. Len(Stores(program)) /\ (stored + 1) - 1 = stored
    BY <1>0, <1>a
  <2>2. BeforeStatus(program, stored)
    BY <1>a DEF FirstStatus, BeforeStatus
  <2>3. Len(Text(program)) = Cardinality(CharsUpTo(program, stored))
    BY <1>0, <1>a, <2>1, <2>2 DEF PrintsText
  <2> QED BY <1>a, <2>3 DEF ConsoleFollows
<1>1. ASSUME NEW bridge \in BOOLEAN, NEW mon \in BOOLEAN, CreateCosim(bridge, mon)
      PROVE  ConsoleFollows'
  BY <1>1, ConsoleStays DEF CreateCosim
<1>2. ASSUME NEW store \in BOOLEAN, NEW bad \in BOOLEAN, NEW opens \in BOOLEAN,
             FatalEdge(store, bad, opens)
      PROVE  ConsoleFollows'
  <2>1. UNCHANGED <<program, stored, sim_finish, console>>
    BY <1>2 DEF FatalEdge, run
  <2>2. CASE exit' # "firmware_failed"
    BY <2>1, <2>2, ConsoleStays
  <2>3. CASE exit' = "firmware_failed"
    <3>1. Byte(store) = RISCV_FAIL
      BY <1>2, <2>3 DEF FatalEdge, Fatal
    <3>2. store /\ Taken /\ Stores(program)[stored + 1] % 256 = RISCV_FAIL
      BY <3>1 DEF Byte, RISCV_FAIL
    <3>3. stored < Len(Stores(program)) /\ sim_finish = 0
      BY <1>2, <3>2 DEF FatalEdge, CoreShows, Taken
    <3>4. Len(console) = Len(Text(program))
      BY <1>a, <3>2, <3>3 DEF StatusByte, Statuses
    <3> QED BY <2>1, <3>3, <3>4 DEF ConsoleFollows, CharsUpTo, CharByte
  <2> QED BY <2>2, <2>3
<1>3. ASSUME NEW store \in BOOLEAN, NEW retire \in BOOLEAN, Edge(store, retire)
      PROVE  ConsoleFollows'
  <2> DEFINE b == Byte(store)
  <2>1. /\ exit = "none" /\ gotFinish = "no" /\ UNCHANGED <<program, exit>>
        /\ store => stored < Len(Stores(program))
        /\ stored' = IF store THEN stored + 1 ELSE stored
        /\ console' = IF IsChar(b) THEN Append(console, b) ELSE console
        /\ sim_finish' = IF sim_finish # 0 THEN CountsOn(sim_finish)
                         ELSE IF b \in {RISCV_PASS, RISCV_FINISH} THEN 1 ELSE 0
    BY <1>3 DEF Edge, Running, CoreShows
  <2>2. sim_finish \in 0 .. 2 /\ stored \in Nat
    BY <1>0, <2>1 DEF TypeOK, FirstStatus
  <2>3. CASE sim_finish # 0 \/ ~store
    <3>1. b = -1 /\ ~IsChar(b)
      BY <2>3 DEF Byte, Taken, IsChar
    <3>2. sim_finish' = IF sim_finish # 0 THEN CountsOn(sim_finish) ELSE 0
      BY <2>1, <3>1 DEF RISCV_PASS, RISCV_FINISH
    <3>3. /\ sim_finish # 0 => sim_finish' # 0
          /\ sim_finish = 0 => sim_finish' = 0 /\ stored' = stored
      BY <2>1, <2>2, <2>3, <3>2 DEF CountsOn
    <3> QED BY <2>1, <3>1, <3>3 DEF ConsoleFollows, CharsUpTo, CharByte
  <2>4. CASE sim_finish = 0 /\ store
    <3>1. b = Stores(program)[stored + 1] % 256
      BY <2>4 DEF Byte, Taken
    <3>2. stored' = stored + 1 /\ stored + 1 \in 1 .. Len(Stores(program))
      BY <1>0, <2>1, <2>4
    <3> DEFINE n == Cardinality(CharsUpTo(program, stored))
    <3>3. n \in Nat /\ Len(console) = n /\ console \in Seq(0 .. 255)
      BY <2>2, <2>4, CharsCounted DEF ConsoleFollows
    <3> HIDE DEF b, n
    <3>4. CASE b \in {RISCV_PASS, RISCV_FINISH}
      <4>1. StatusByte(program, stored + 1) /\ ~IsChar(b)
        BY <3>1, <3>4 DEF StatusByte, Statuses, IsChar, Protocol
      <4>2. sim_finish' = 1 /\ console' = console
        BY <2>1, <2>4, <3>4, <4>1
      <4>3. Len(console) = Len(Text(program))
        BY <1>a, <2>1, <2>4, <4>1
      <4> QED BY <2>1, <4>2, <4>3 DEF ConsoleFollows
    <3>5. CASE b \in Protocol \ {RISCV_PASS, RISCV_FINISH}
      <4>1. ~CharByte(program, stored + 1) /\ ~IsChar(b)
        BY <3>1, <3>5 DEF CharByte, IsChar
      <4>2. sim_finish' = 0 /\ console' = console
        BY <2>1, <2>4, <3>5, <4>1
      <4>3. CharsUpTo(program, stored + 1) = CharsUpTo(program, stored)
        BY <2>2, <4>1, CharsCounted
      <4>4. CharsUpTo(program, stored)' = CharsUpTo(program, stored)
        BY <2>1, <3>2, <4>3 DEF CharsUpTo, CharByte
      <4> QED BY <2>1, <2>4, <4>2, <4>4 DEF ConsoleFollows
    <3>6. CASE b \notin Protocol
      <4>1. CharByte(program, stored + 1)
        BY <3>1, <3>6 DEF CharByte
      <4>2. BeforeStatus(program, stored + 1)
        <5>1. ~StatusByte(program, stored + 1)
          BY <3>1, <3>6 DEF StatusByte, Statuses, Protocol
        <5>2. \A i \in 1 .. stored : ~StatusByte(program, i)
          BY <2>4 DEF FirstStatus
        <5>3. \A i \in 1 .. stored + 1 : i \in 1 .. stored \/ i = stored + 1
          BY <2>2
        <5> QED BY <5>1, <5>2, <5>3 DEF BeforeStatus
      <4>3. Cardinality(CharsUpTo(program, stored + 1)) = n + 1
        BY <2>2, <4>1, CharsCounted DEF n
      <4>4. n + 1 <= Len(Text(program)) /\ Text(program)[n + 1] = b
        <5> DEFINE k == Cardinality(CharsUpTo(program, stored + 1))
        <5>1. k <= Len(Text(program)) /\ Text(program)[k] = Stores(program)[stored + 1] % 256
          BY <1>0, <3>2, <4>1, <4>2, Zenon DEF PrintsText
        <5> QED BY <3>1, <4>3, <5>1
      <4>5. b \in 0 .. 255
        <5>1. PICK t \in Seq(0 .. 255) : t = Text(program)
          BY <1>0
        <5>2. n + 1 \in 1 .. Len(t)
          BY <3>3, <4>4, <5>1
        <5>3. t[n + 1] \in 0 .. 255
          BY <5>2, ElementOfSeq
        <5> QED BY <4>4, <5>1, <5>3
      <4>6. IsChar(b) /\ b \notin {RISCV_PASS, RISCV_FINISH}
        BY <3>6, <4>5 DEF IsChar, Protocol
      <4>7. console' = Append(console, b) /\ sim_finish' = 0
        BY <2>1, <2>4, <4>6
      <4>8. /\ console' \in Seq(0 .. 255) /\ Len(console') = n + 1
            /\ \A i \in 1 .. n + 1 : console'[i] = IF i = n + 1 THEN b ELSE console[i]
        BY <3>3, <4>5, <4>7
      <4>9. \A i \in 1 .. n + 1 : console'[i] = Text(program)[i]
        BY <3>3, <4>4, <4>8 DEF ConsoleFollows
      <4>10. Cardinality(CharsUpTo(program, stored)') = n + 1
        BY <2>1, <3>2, <4>3 DEF CharsUpTo, CharByte
      <4> QED BY <2>1, <4>4, <4>7, <4>8, <4>9, <4>10 DEF ConsoleFollows
    <3> QED BY <3>4, <3>5, <3>6
  <2> QED BY <2>3, <2>4
<1>4. CASE SimCtrlStops
  BY <1>4, ConsoleStays DEF SimCtrlStops, Running, run
<1>5. CASE Final
  BY <1>5, ConsoleStays DEF Final, run
<1>6. ASSUME NEW success \in BOOLEAN, NEW csv \in BOOLEAN, Finish(success, csv)
      PROVE  ConsoleFollows'
  BY <1>6, ConsoleStays DEF Finish, run
<1>7. CASE UNCHANGED vars
  BY <1>7 DEF vars, ConsoleFollows, CharsUpTo, CharByte
<1> QED BY <1>1, <1>2, <1>3, <1>4, <1>5, <1>6, <1>7 DEF Next

\* The UART's log is what the program means to print.  The hypothesis is about the library
\* alone: before the first status byte, the characters among a program's stores are the
\* text of its calls.
THEOREM ConsoleTheorem ==
  ASSUME \A p \in Programs : PrintsText(p)
  PROVE  Spec => []ConsoleIsText
<1>1. Init => FirstStatus
  BY DEF Init, FirstStatus
<1>2. Init => ConsoleFollows
  <2> SUFFICES ASSUME Init PROVE ConsoleFollows
    OBVIOUS
  <2>1. /\ program \in Programs /\ console = <<>> /\ stored = 0 /\ sim_finish = 0
        /\ exit = "none"
    BY DEF Init
  <2>2. Cardinality(CharsUpTo(program, 0)) = 0
    BY CharsCounted
  <2>3. Text(program) \in Seq(0 .. 255)
    BY <2>1 DEF PrintsText
  <2> QED BY <2>1, <2>2, <2>3 DEF ConsoleFollows
<1>3. TypeOK /\ FirstStatus /\ ConsoleFollows => ConsoleIsText
  <2> SUFFICES ASSUME TypeOK, FirstStatus, ConsoleFollows PROVE ConsoleIsText
    OBVIOUS
  <2>1. Text(program) \in Seq(0 .. 255)
    BY DEF TypeOK, PrintsText
  <2>2. IsPrefix(console, Text(program))
    BY <2>1 DEF ConsoleFollows, IsPrefix
  <2>3. gotFinish = "uart" \/ exit = "firmware_failed" => Len(console) = Len(Text(program))
    BY DEF FirstStatus, ConsoleFollows
  <2>4. Len(console) = Len(Text(program)) => console = Text(program)
    BY <2>1 DEF ConsoleFollows
  <2> QED BY <2>2, <2>3, <2>4 DEF ConsoleIsText
<1> QED BY <1>1, <1>2, <1>3, ConsoleStep, StatusStep, IbexTypeCorrect, PTL DEF Spec
=============================================================================
