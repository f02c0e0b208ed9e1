---------------------------- MODULE PicoTbProofs ----------------------------
(***************************************************************************)
(* Theorems about PicoTb for every program and every set of wrong           *)
(* instructions: type correctness, that a success is justified, that a      *)
(* wrong instruction is reported, and that a correct run passes.            *)
(***************************************************************************)
EXTENDS PicoTb, TLAPS

-----------------------------------------------------------------------------
(* The inductive invariant.                                                 *)

Alive == exit = "none"

\* The core: RVFI counts the retires, and only a store has an answer.
CoreCounts ==
  /\ rvfi.order + (IF rvfi.valid THEN 1 ELSE 0) = next
  /\ store # "no" => NextKind \in {"pass", "fail", "oob"}

\* Spike is one instruction behind the core between a rising edge and the report, and
\* level with it elsewhere; what it has stepped through was right, and once each.
SpikeFollows ==
  Alive =>
    /\ fail_count = 0
    /\ slot = "reset" => next = 0 /\ spike = 0
    /\ slot # "reset" => cosim_ready
    /\ slot = "posedge" => spike = rvfi.order /\ last_slot = "none"
    /\ slot \in {"plus1", "plus2", "negedge"} => spike = next
    /\ slot = "plus2" <=> cosim_finished
    /\ cosim_finished => gotFinish
    /\ test_passed => tests_passed
    /\ \A o \in Orders : stepsFor[o] = (IF o < spike THEN 1 ELSE 0)
    /\ \A o \in Orders : o < spike => o \notin faulty

\* The finish process: what it waits for, and what the core may do meanwhile.
FinishPending ==
  Alive /\ ~gotFinish =>
    /\ finishing => slot \in {"posedge", "plus1"}
    /\ trap /\ ~finishing => NextKind = "trap" /\ slot \in {"posedge", "plus1", "negedge"}
    /\ tests_passed =>
         /\ ~trap /\ ~rvfi.valid /\ NextKind = "pass" /\ store # "no"
         /\ finishing \/ (store = "answered" /\ slot \in {"posedge", "plus1", "negedge"})

\* A simulation stopped after PASS was stopped by the finish process.
FinishRecorded ==
  Alive /\ gotFinish /\ tests_passed => cosim_finished /\ test_passed

Verdicts == SuccessJustified /\ FaultIsReported /\ CorrectRunPasses

Inv == TypeOK /\ CoreCounts /\ SpikeFollows /\ FinishPending /\ FinishRecorded /\ Verdicts

-----------------------------------------------------------------------------
(* Type correctness.                                                        *)

LEMMA NextKindType ==
  ASSUME TypeOK
  PROVE  /\ NextKind # "none" => next \in Orders
         /\ next \in Orders => next + 1 \in 0 .. Len(prog)
         /\ Len(prog) \in Nat
<1>1. prog \in Seq(Kind)
  BY ProgramsAssumption DEF TypeOK
<1>2. Len(prog) \in Nat
  BY <1>1
<1> QED BY <1>2 DEF TypeOK, NextKind, Orders

\* A report, when there is nothing counted yet, leaves the guard and the comparison
\* well-typed.
LEMMA ReportType ==
  ASSUME TypeOK, NEW now \in {"reset", "posedge", "plus1", "plus2", "negedge"},
         fail_count = 0, report_dut_retire(now)
  PROVE  /\ spike' \in Nat /\ fail_count' \in 0 .. 1 /\ stepsFor' \in [Orders -> Nat]
         /\ has_last' \in BOOLEAN /\ last_order' \in Nat
         /\ last_slot' \in {"none", "reset", "posedge", "plus1", "plus2", "negedge"}
<1>1. spike' \in Nat /\ fail_count' \in 0 .. 1 /\ last_order' \in Nat
  BY DEF TypeOK, report_dut_retire
<1>2. stepsFor' \in [Orders -> Nat]
  <2>1. stepsFor \in [Orders -> Nat]
    BY DEF TypeOK
  <2>2. stepsFor' \in {stepsFor, [stepsFor EXCEPT ![rvfi.order] = @ + 1]}
    BY DEF report_dut_retire
  <2> QED BY <2>1, <2>2
<1>3. has_last' \in BOOLEAN
  BY Zenon DEF TypeOK, report_dut_retire, Reports, NewRetire
<1> QED BY <1>1, <1>2, <1>3 DEF TypeOK, report_dut_retire

\* The edge of the core leaves its outputs well-typed.
LEMMA CoreType ==
  ASSUME TypeOK, CoreCounts, CoreEdge, UNCHANGED prog
  PROVE  /\ next' \in 0 .. Len(prog) /\ store' \in {"no", "answered", "done"}
         /\ trap' \in BOOLEAN /\ rvfi' \in [valid : BOOLEAN, order : Nat]
<1> USE DEF TypeOK, Shows
<1>1. CASE CoreWaits
  BY <1>1 DEF CoreWaits
<1>2. CASE CoreRetires
  BY <1>2, NextKindType DEF CoreRetires, CoreCounts
<1>3. CASE CoreSeesAnswer
  BY <1>3 DEF CoreSeesAnswer
<1>4. CASE CoreTraps
  BY <1>4 DEF CoreTraps
<1>5. CASE CoreRetiresTrap
  BY <1>5, NextKindType DEF CoreRetiresTrap
<1> QED BY <1>1, <1>2, <1>3, <1>4, <1>5 DEF CoreEdge

LEMMA TypeInit == Init => TypeOK
<1> SUFFICES ASSUME Init PROVE TypeOK
  OBVIOUS
<1>1. Len(prog) \in Nat
  BY ProgramsAssumption DEF Init
<1>2. stepsFor \in [Orders -> Nat]
  BY DEF Init, Orders
<1>3. faulty \subseteq Orders /\ next \in 0 .. Len(prog)
  BY <1>1 DEF Init, Orders
<1>4. rvfi \in [valid : BOOLEAN, order : Nat]
  BY DEF Init
<1>5. /\ prog \in Programs /\ noerror \in BOOLEAN /\ slot = "reset" /\ store = "no"
      /\ spike = 0 /\ fail_count = 0 /\ last_order = 0 /\ last_slot = "none" /\ exit = "none"
  BY DEF Init
<1>6. /\ trap \in BOOLEAN /\ cosim_ready \in BOOLEAN /\ tests_passed \in BOOLEAN
      /\ cosim_finished \in BOOLEAN /\ finishing \in BOOLEAN /\ has_last \in BOOLEAN
      /\ test_passed \in BOOLEAN /\ external_timeout \in BOOLEAN /\ gotFinish \in BOOLEAN
  BY Zenon DEF Init
<1> QED BY <1>2, <1>3, <1>4, <1>5, <1>6 DEF TypeOK

LEMMA TypeStep == TypeOK /\ CoreCounts /\ SpikeFollows /\ [Next]_vars => TypeOK'
<1> SUFFICES ASSUME TypeOK, CoreCounts, SpikeFollows, [Next]_vars PROVE TypeOK'
  OBVIOUS
<1> USE DEF TypeOK, Orders, fixed, core, guard, compare
<1>1. ASSUME NEW ok \in BOOLEAN, ReleaseReset(ok) PROVE TypeOK'
  BY <1>1 DEF ReleaseReset
<1>2. ASSUME NEW first \in BOOLEAN, Posedge(first) PROVE TypeOK'
  <2>1. /\ next' \in 0 .. Len(prog) /\ store' \in {"no", "answered", "done"}
        /\ trap' \in BOOLEAN /\ rvfi' \in [valid : BOOLEAN, order : Nat]
        /\ tests_passed' \in BOOLEAN /\ gotFinish' \in BOOLEAN
    <3>1. CASE MemoryAnswers /\ Shows(FALSE) /\ UNCHANGED <<next, trap>>
      BY <3>1 DEF MemoryAnswers, Shows
    <3>2. CASE CoreEdge /\ UNCHANGED tests_passed /\ gotFinish' = (trap /\ noerror /\ ~tests_passed)
      BY <1>2, <3>2, CoreType DEF Posedge
    <3> QED BY <1>2, <3>1, <3>2 DEF Posedge
  <2>2. finishing' \in BOOLEAN
    BY <1>2, <2>1 DEF Posedge, FinishNeeded
  <2> QED BY <1>2, <2>1, <2>2 DEF Posedge
<1>3. CASE ReportSlot
  <2>1. CASE cosim_finished
    BY <1>3, <2>1 DEF ReportSlot
  <2>2. CASE ~cosim_finished
    <3>1. fail_count = 0
      BY <1>3 DEF ReportSlot, Running, SpikeFollows, Alive
    <3>2. report_dut_retire("plus1")
      BY <1>3, <2>2 DEF ReportSlot
    <3>3. /\ exit' \in {"none", "ok", "fail", "abort"} /\ slot' = "plus1"
          /\ UNCHANGED <<fixed, core, cosim_ready, tests_passed, cosim_finished, finishing,
                         test_passed, external_timeout, gotFinish>>
      BY <1>3 DEF ReportSlot
    <3> QED BY <3>1, <3>2, <3>3, ReportType
  <2> QED BY <2>1, <2>2
<1>4. CASE FinishSlot
  <2>1. fail_count = 0
    BY <1>4 DEF FinishSlot, Running, SpikeFollows, Alive
  <2>2. /\ exit' \in {"none", "ok", "fail", "abort"} /\ gotFinish' \in BOOLEAN
        /\ slot' = "plus2" /\ finishing' \in BOOLEAN
        /\ UNCHANGED <<fixed, core, cosim_ready, tests_passed, external_timeout>>
    BY <1>4 DEF FinishSlot
  <2>3. CASE cosim_finished
    <3>1. UNCHANGED <<compare, guard, cosim_finished, test_passed>>
      BY <1>4, <2>3 DEF FinishSlot, finish_cosim
    <3> QED BY <2>2, <3>1
  <2>4. CASE ~cosim_finished
    <3>1. report_dut_retire("plus2")
      BY <1>4, <2>4 DEF FinishSlot, finish_cosim
    <3>2. cosim_finished' \in BOOLEAN /\ test_passed' \in BOOLEAN
      BY <1>4, <2>4 DEF FinishSlot, finish_cosim
    <3> QED BY <2>1, <2>2, <3>1, <3>2, ReportType
  <2> QED BY <2>3, <2>4
<1>5. CASE Negedge
  <2>1. /\ store' \in {"no", "answered", "done"} /\ tests_passed' \in BOOLEAN
        /\ gotFinish' \in BOOLEAN
    <3>1. CASE MemoryAnswers
      BY <3>1 DEF MemoryAnswers
    <3>2. CASE UNCHANGED <<store, tests_passed, gotFinish>>
      BY <3>2
    <3> QED BY <1>5, <3>1, <3>2 DEF Negedge
  <2> QED BY <1>5, <2>1 DEF Negedge
<1>6. CASE ExternalTimeout
  <2>1. external_timeout' \in BOOLEAN /\ test_passed' \in BOOLEAN
    BY <1>6, Zenon DEF ExternalTimeout
  <2> QED BY <1>6, <2>1 DEF ExternalTimeout
<1>7. CASE FinalAndExit
  <2>1. fail_count = 0
    BY <1>7 DEF FinalAndExit, SpikeFollows, Alive
  <2>2. CASE cosim_finished
    BY <1>7, <2>2 DEF FinalAndExit, finish_cosim
  <2>3. CASE ~cosim_finished
    <3>1. report_dut_retire(slot)
      BY <1>7, <2>3 DEF FinalAndExit, finish_cosim
    <3>2. cosim_finished' \in BOOLEAN /\ test_passed' \in BOOLEAN
      BY <1>7, <2>3 DEF FinalAndExit, finish_cosim
    <3> QED BY <1>7, <2>1, <3>1, <3>2, ReportType DEF FinalAndExit
  <2> QED BY <2>2, <2>3
<1>8. CASE UNCHANGED vars
  BY <1>8 DEF vars
<1> QED BY <1>1, <1>2, <1>3, <1>4, <1>5, <1>6, <1>7, <1>8 DEF Next
-----------------------------------------------------------------------------
(* The core.                                                                *)

\* An edge of the core keeps its count, and next becomes what RVFI will have shown.
LEMMA CoreEdgeCounts ==
  ASSUME TypeOK, CoreCounts, CoreEdge, UNCHANGED prog
  PROVE  CoreCounts' /\ rvfi'.order = next
<1> USE DEF Shows, CoreCounts
<1>1. /\ next \in Nat /\ rvfi \in [valid : BOOLEAN, order : Nat]
  BY NextKindType DEF TypeOK
<1>2. CASE CoreWaits
  BY <1>1, <1>2 DEF CoreWaits, NextKind, Orders
<1>3. CASE CoreRetires
  BY <1>1, <1>3 DEF CoreRetires
<1>4. CASE CoreSeesAnswer
  BY <1>1, <1>4 DEF CoreSeesAnswer, NextKind, Orders
<1>5. CASE CoreTraps
  BY <1>1, <1>5 DEF CoreTraps, NextKind, Orders
<1>6. CASE CoreRetiresTrap
  <2>1. store = "no"
    BY <1>6 DEF CoreRetiresTrap
  <2> QED BY <1>1, <1>6, <2>1 DEF CoreRetiresTrap
<1> QED BY <1>2, <1>3, <1>4, <1>5, <1>6 DEF CoreEdge

LEMMA AnswerCounts ==
  ASSUME CoreCounts, MemoryAnswers, UNCHANGED <<prog, next, rvfi>>
  PROVE  CoreCounts'
BY DEF CoreCounts, MemoryAnswers, StorePending, NextKind, Orders

\* A step that leaves the core alone.
LEMMA CoreStays ==
  ASSUME CoreCounts, UNCHANGED <<prog, core>>
  PROVE  CoreCounts' /\ NextKind' = NextKind
BY DEF CoreCounts, core, NextKind, Orders

LEMMA CoreStep == TypeOK /\ CoreCounts /\ [Next]_vars => CoreCounts'
<1> SUFFICES ASSUME TypeOK, CoreCounts, [Next]_vars PROVE CoreCounts'
  OBVIOUS
<1>1. ASSUME NEW first \in BOOLEAN, Posedge(first) PROVE CoreCounts'
  <2>1. UNCHANGED prog
    BY <1>1 DEF Posedge, fixed
  <2>2. CASE MemoryAnswers /\ Shows(FALSE) /\ UNCHANGED <<next, trap>>
    <3>1. rvfi \in [valid : BOOLEAN, order : Nat] /\ ~rvfi.valid
      BY <2>2 DEF TypeOK, MemoryAnswers, StorePending
    <3>2. ~rvfi'.valid /\ rvfi'.order = rvfi.order
      BY <2>2, <3>1 DEF Shows
    <3> QED BY <2>1, <2>2, <3>1, <3>2 DEF CoreCounts, MemoryAnswers, StorePending, NextKind, Orders
  <2>3. CASE CoreEdge
    BY <2>1, <2>3, CoreEdgeCounts
  <2> QED BY <1>1, <2>2, <2>3 DEF Posedge
<1>2. CASE Negedge
  <2>1. CASE MemoryAnswers
    BY <1>2, <2>1, AnswerCounts DEF Negedge, fixed
  <2>2. CASE UNCHANGED <<store, tests_passed, gotFinish>>
    BY <1>2, <2>2, CoreStays DEF Negedge, fixed, core
  <2> QED BY <1>2, <2>1, <2>2 DEF Negedge
<1>3. CASE UNCHANGED <<prog, core>>
  BY <1>3, CoreStays
<1>4. (\E ok \in BOOLEAN : ReleaseReset(ok)) \/ ReportSlot \/ FinishSlot \/ ExternalTimeout
        \/ FinalAndExit \/ UNCHANGED vars => UNCHANGED <<prog, core>>
  BY DEF ReleaseReset, ReportSlot, FinishSlot, ExternalTimeout, FinalAndExit, vars, fixed
<1> QED BY <1>1, <1>2, <1>3, <1>4 DEF Next

-----------------------------------------------------------------------------
(* Spike.                                                                   *)

\* What a report does, in a slot in which Spike is behind or level with the core: it
\* passes exactly when Spike is one behind and the instruction was right, and then Spike
\* is level.
LEMMA ReportFollows ==
  ASSUME TypeOK, CoreCounts, SpikeFollows, Alive, UNCHANGED <<prog, faulty, next, rvfi>>,
         NEW now, ~Rejected(now), report_dut_retire(now),
         spike = next \/ (spike = rvfi.order /\ (rvfi.valid => Reports(now)))
  PROVE  /\ spike' = next' /\ fail_count' = 0
         /\ \A o \in Orders' : stepsFor'[o] = (IF o < spike' THEN 1 ELSE 0)
         /\ \A o \in Orders' : o < spike' => o \notin faulty'
<1>1. /\ rvfi \in [valid : BOOLEAN, order : Nat] /\ next \in Nat /\ spike \in Nat
      /\ stepsFor \in [Orders -> Nat] /\ Orders' = Orders /\ Orders \subseteq Nat
  BY NextKindType DEF TypeOK, Orders
<1>2. CASE Reports(now)
  <2>1. rvfi.order = spike /\ rvfi.order \notin faulty /\ rvfi.valid
    BY <1>2 DEF Rejected, Agrees, Reports
  <2>2. next = spike + 1 /\ spike \in Orders
    BY <1>1, <2>1, NextKindType DEF CoreCounts, TypeOK, Orders
  <2>3. spike' = spike + 1 /\ fail_count' = fail_count
        /\ stepsFor' = [stepsFor EXCEPT ![spike] = @ + 1]
    BY <1>2, <2>1 DEF report_dut_retire
  <2>4. \A o \in Orders : o < spike + 1 <=> o < spike \/ o = spike
    BY <1>1
  <2>5. stepsFor[spike] = 0
    BY <1>1, <2>2 DEF SpikeFollows
  <2> QED BY <1>1, <2>1, <2>2, <2>3, <2>4, <2>5 DEF SpikeFollows
<1>3. CASE ~Reports(now)
  <2>1. spike = next
    BY <1>1, <1>3 DEF CoreCounts
  <2>2. UNCHANGED <<spike, fail_count, stepsFor>>
    BY <1>3 DEF report_dut_retire, Rejected
  <2> QED BY <1>1, <2>1, <2>2 DEF SpikeFollows
<1> QED BY <1>2, <1>3

\* Steps that leave the comparison alone.
LEMMA MatchedStays ==
  ASSUME SpikeFollows, Alive, UNCHANGED <<fixed, compare>>
  PROVE  /\ fail_count' = 0
         /\ \A o \in Orders' : stepsFor'[o] = (IF o < spike' THEN 1 ELSE 0)
         /\ \A o \in Orders' : o < spike' => o \notin faulty'
<1>1. Orders' = Orders /\ UNCHANGED <<faulty, spike, fail_count, stepsFor>>
  BY DEF fixed, compare, Orders
<1> QED BY <1>1 DEF SpikeFollows

LEMMA SpikeStep == TypeOK /\ CoreCounts /\ SpikeFollows /\ [Next]_vars => SpikeFollows'
<1> SUFFICES ASSUME TypeOK, CoreCounts, SpikeFollows, [Next]_vars, Alive, Alive'
             PROVE  SpikeFollows'
  BY DEF SpikeFollows, Next, Alive, vars, ReleaseReset, Posedge, ReportSlot, FinishSlot,
         Negedge, ExternalTimeout, FinalAndExit, Running
<1>1. ASSUME NEW ok \in BOOLEAN, ReleaseReset(ok) PROVE SpikeFollows'
  <2>1. UNCHANGED <<fixed, compare>>
    BY <1>1 DEF ReleaseReset
  <2>2. /\ slot' = "negedge" /\ slot = "reset" /\ cosim_ready'
        /\ UNCHANGED <<next, spike, test_passed, tests_passed, cosim_finished>>
    BY <1>1 DEF ReleaseReset, core, compare, Alive
  <2> QED BY <2>1, <2>2, MatchedStays DEF SpikeFollows
<1>2. ASSUME NEW first \in BOOLEAN, Posedge(first) PROVE SpikeFollows'
  <2>1. UNCHANGED <<fixed, compare>>
    BY <1>2 DEF Posedge
  <2>2. /\ slot' = "posedge" /\ slot = "negedge" /\ last_slot' = "none"
        /\ UNCHANGED <<spike, test_passed, cosim_ready, cosim_finished, prog>>
    BY <1>2 DEF Posedge, compare, fixed
  <2>3. tests_passed => tests_passed'
    BY <1>2, Zenon DEF Posedge, MemoryAnswers
  <2>4. rvfi'.order = next
    <3>1. CASE MemoryAnswers /\ Shows(FALSE)
      BY <3>1 DEF MemoryAnswers, StorePending, Shows, CoreCounts, TypeOK
    <3>2. CASE CoreEdge
      BY <2>2, <3>2, CoreEdgeCounts
    <3> QED BY <1>2, <3>1, <3>2 DEF Posedge
  <2> QED BY <2>1, <2>2, <2>3, <2>4, MatchedStays DEF SpikeFollows
<1>3. CASE ReportSlot
  <2>1. /\ slot = "posedge" /\ slot' = "plus1" /\ ~cosim_finished
        /\ UNCHANGED <<next, rvfi, prog, faulty, cosim_ready, test_passed, tests_passed,
                       cosim_finished>>
        /\ report_dut_retire("plus1")
    BY <1>3 DEF ReportSlot, SpikeFollows, core, fixed
  <2>2. ~Rejected("plus1")
    BY <1>3, <2>1 DEF ReportSlot, ReportDies, Alive
  <2>3. spike = rvfi.order /\ (rvfi.valid => Reports("plus1"))
    BY <2>1 DEF SpikeFollows, Reports, NewRetire
  <2> QED BY <2>1, <2>2, <2>3, ReportFollows DEF SpikeFollows
<1>4. CASE FinishSlot
  <2>1. /\ slot = "plus1" /\ slot' = "plus2" /\ ~cosim_finished /\ gotFinish'
        /\ UNCHANGED <<next, rvfi, prog, faulty, cosim_ready, tests_passed>>
    BY <1>4 DEF FinishSlot, SpikeFollows, core, fixed, Alive
  <2>2. ~Rejected("plus2")
    BY <1>4, <2>1 DEF FinishSlot, FinishDies, Alive
  <2>3. report_dut_retire("plus2") /\ cosim_finished' /\ test_passed' = tests_passed
    BY <1>4, <2>1, <2>2 DEF FinishSlot, finish_cosim
  <2>4. spike = next
    BY <2>1 DEF SpikeFollows
  <2> QED BY <2>1, <2>2, <2>3, <2>4, ReportFollows DEF SpikeFollows
<1>5. CASE Negedge
  <2>1. UNCHANGED <<fixed, compare>>
    BY <1>5 DEF Negedge
  <2>2. /\ slot = "plus1" /\ slot' = "negedge"
        /\ UNCHANGED <<next, spike, cosim_ready, cosim_finished, test_passed>>
    BY <1>5 DEF Negedge, compare
  <2>3. tests_passed => tests_passed'
    BY <1>5, Zenon DEF Negedge, MemoryAnswers
  <2> QED BY <2>1, <2>2, <2>3, MatchedStays DEF SpikeFollows
<1>6. CASE ExternalTimeout
  <2>1. UNCHANGED <<fixed, compare>> /\ ~test_passed'
    BY <1>6 DEF ExternalTimeout
  <2>2. UNCHANGED <<slot, next, spike, rvfi, last_slot, cosim_ready, cosim_finished, gotFinish>>
    BY <1>6 DEF ExternalTimeout, core, compare, guard
  <2> QED BY <2>1, <2>2, MatchedStays DEF SpikeFollows
<1>7. CASE FinalAndExit
  BY <1>7 DEF FinalAndExit, Alive
<1>8. CASE UNCHANGED vars
  BY <1>8 DEF vars, fixed, core, guard, compare, SpikeFollows, Alive, Orders
<1> QED BY <1>1, <1>2, <1>3, <1>4, <1>5, <1>6, <1>7, <1>8 DEF Next

-----------------------------------------------------------------------------
(* The finish process.                                                      *)

\* An answer leaves what the memory has told the finish process in order, whichever
\* value of finishing the step sets.
LEMMA AnswerTells ==
  ASSUME CoreCounts, MemoryAnswers, UNCHANGED <<prog, next, trap>>, FinishPending, Alive, ~gotFinish
  PROVE  /\ ~rvfi.valid /\ store' = "answered" /\ NextKind' = NextKind /\ ~tests_passed
         /\ tests_passed' => NextKind = "pass"
         /\ gotFinish' <=> NextKind \in {"fail", "oob"}
         /\ ~finishing => ~trap
<1>1. ~rvfi.valid /\ store = "no" /\ NextKind \in {"pass", "fail", "oob"}
  BY DEF MemoryAnswers, StorePending
<1>2. ~tests_passed
  BY <1>1 DEF FinishPending
<1>3. ~finishing => ~trap
  BY <1>1 DEF FinishPending
<1> QED BY <1>1, <1>2, <1>3 DEF MemoryAnswers, NextKind, Orders

LEMMA FinishStep ==
  TypeOK /\ CoreCounts /\ SpikeFollows /\ FinishPending /\ FinishRecorded /\ [Next]_vars
    => FinishPending' /\ FinishRecorded'
<1> SUFFICES ASSUME TypeOK, CoreCounts, SpikeFollows, FinishPending, FinishRecorded,
                    [Next]_vars, Alive, Alive'
             PROVE  FinishPending' /\ FinishRecorded'
  BY DEF FinishPending, FinishRecorded, Next, Alive, vars, ReleaseReset, Posedge, ReportSlot,
         FinishSlot, Negedge, ExternalTimeout, FinalAndExit, Running
<1>1. ASSUME NEW ok \in BOOLEAN, ReleaseReset(ok) PROVE FinishPending' /\ FinishRecorded'
  <2>1. /\ ~gotFinish /\ slot = "reset" /\ slot' = "negedge"
        /\ UNCHANGED <<finishing, trap, rvfi, store, tests_passed, gotFinish>>
    BY <1>1 DEF ReleaseReset, Running, core
  <2>2. ~tests_passed /\ ~finishing /\ ~trap
    BY <2>1 DEF FinishPending, TypeOK
  <2> QED BY <2>1, <2>2 DEF FinishPending, FinishRecorded
<1>2. ASSUME NEW first \in BOOLEAN, Posedge(first) PROVE FinishPending' /\ FinishRecorded'
  <2>1. /\ slot = "negedge" /\ slot' = "posedge" /\ ~gotFinish /\ ~finishing
        /\ UNCHANGED prog
        /\ finishing' = FinishNeeded(IF first THEN tests_passed ELSE tests_passed')
    BY <1>2 DEF Posedge, Running, fixed, FinishPending
  <2>2. CASE MemoryAnswers /\ Shows(FALSE) /\ UNCHANGED <<next, trap>>
    <3>1. ~rvfi'.valid
      BY <2>2 DEF Shows
    <3>2. /\ store' = "answered" /\ NextKind' = NextKind /\ ~trap /\ ~trap'
          /\ tests_passed' => NextKind = "pass"
          /\ gotFinish' => NextKind # "pass"
      BY <2>1, <2>2, AnswerTells
    <3> QED BY <2>1, <3>1, <3>2 DEF FinishPending, FinishRecorded
  <2>3. CASE CoreEdge /\ UNCHANGED tests_passed /\ gotFinish' = (trap /\ noerror /\ ~tests_passed)
    <3>1. finishing' = (trap \/ tests_passed)
      BY <2>1, <2>3 DEF FinishNeeded
    <3>2. CASE tests_passed
      <4>1. ~trap /\ ~rvfi.valid /\ NextKind = "pass" /\ store = "answered"
        BY <2>1, <3>2 DEF FinishPending
      <4>2. ~trap' /\ ~rvfi'.valid /\ store' # "no" /\ UNCHANGED next
        BY <2>3, <4>1 DEF CoreEdge, CoreWaits, CoreRetires, CoreSeesAnswer, CoreTraps,
                          CoreRetiresTrap, Shows
      <4>3. NextKind' = "pass"
        BY <2>1, <4>1, <4>2 DEF NextKind, Orders
      <4> QED BY <2>1, <2>3, <3>1, <3>2, <4>1, <4>2, <4>3 DEF FinishPending, FinishRecorded
    <3>3. CASE ~tests_passed
      <4>1. trap' /\ ~trap => NextKind = "trap" /\ UNCHANGED next
        BY <2>3 DEF CoreEdge, CoreWaits, CoreRetires, CoreSeesAnswer, CoreTraps, CoreRetiresTrap
      <4>2. trap' /\ ~finishing' => NextKind' = "trap"
        BY <2>1, <3>1, <4>1 DEF NextKind, Orders
      <4> QED BY <2>1, <2>3, <3>3, <4>2 DEF FinishPending, FinishRecorded
    <3> QED BY <3>2, <3>3
  <2> QED BY <1>2, <2>2, <2>3 DEF Posedge
<1>3. CASE ReportSlot
  <2>1. /\ slot = "posedge" /\ slot' = "plus1"
        /\ UNCHANGED <<prog, core, finishing, tests_passed, gotFinish, cosim_finished, test_passed>>
    BY <1>3 DEF ReportSlot, fixed
  <2>2. NextKind' = NextKind /\ UNCHANGED <<trap, rvfi, store>>
    BY <2>1, CoreStays DEF core
  <2> QED BY <2>1, <2>2 DEF FinishPending, FinishRecorded
<1>4. CASE FinishSlot
  <2>1. /\ ~cosim_finished /\ gotFinish' /\ UNCHANGED tests_passed
        /\ ~FinishDies("plus2") /\ finish_cosim("plus2")
    BY <1>4 DEF FinishSlot, SpikeFollows, Alive
  <2>2. cosim_finished' /\ test_passed' = tests_passed
    BY <2>1 DEF FinishDies, finish_cosim
  <2> QED BY <2>1, <2>2 DEF FinishPending, FinishRecorded
<1>5. CASE Negedge
  <2>1. /\ slot = "plus1" /\ slot' = "negedge" /\ ~gotFinish /\ ~finishing
        /\ UNCHANGED <<prog, next, trap, rvfi, finishing>>
    BY <1>5 DEF Negedge, Running, fixed
  <2>2. CASE MemoryAnswers
    <3>1. /\ ~rvfi'.valid /\ store' = "answered" /\ NextKind' = NextKind /\ ~trap'
          /\ tests_passed' => NextKind = "pass"
          /\ gotFinish' => NextKind # "pass"
      BY <2>1, <2>2, AnswerTells
    <3> QED BY <2>1, <3>1 DEF FinishPending, FinishRecorded
  <2>3. CASE UNCHANGED <<store, tests_passed, gotFinish>>
    <3>1. NextKind' = NextKind
      BY <2>1 DEF NextKind, Orders
    <3> QED BY <2>1, <2>3, <3>1 DEF FinishPending, FinishRecorded
  <2> QED BY <1>5, <2>2, <2>3 DEF Negedge
<1>6. CASE ExternalTimeout
  <2>1. UNCHANGED <<prog, core, slot, finishing, tests_passed, gotFinish>> /\ ~gotFinish
    BY <1>6 DEF ExternalTimeout, Running, fixed
  <2>2. NextKind' = NextKind /\ UNCHANGED <<trap, rvfi, store>>
    BY <2>1, CoreStays DEF core
  <2> QED BY <2>1, <2>2 DEF FinishPending, FinishRecorded
<1>7. CASE FinalAndExit
  BY <1>7 DEF FinalAndExit, Alive
<1>8. CASE UNCHANGED vars
  BY <1>8 DEF vars, fixed, core, FinishPending, FinishRecorded, Alive, NextKind, Orders
<1> QED BY <1>1, <1>2, <1>3, <1>4, <1>5, <1>6, <1>7, <1>8 DEF Next

-----------------------------------------------------------------------------
(* The exit status.                                                         *)

\* The final block's report makes Spike level with the core, or the process dies.
LEMMA FinalFollows ==
  ASSUME TypeOK, CoreCounts, SpikeFollows, FinalAndExit, exit' # "abort"
  PROVE  /\ fail_count' = 0
         /\ \A o \in 0 .. next - 1 : stepsFor'[o] = 1 /\ o \notin faulty
<1>1. /\ Alive /\ ~FinishDies(slot) /\ finish_cosim(slot)
      /\ UNCHANGED <<prog, faulty, next, rvfi>>
  BY DEF FinalAndExit, Alive, fixed, core
<1>2. next \in Nat /\ spike \in Nat /\ \A o \in 0 .. next - 1 : o \in Orders /\ o < next
  BY NextKindType DEF TypeOK, Orders
<1>3. CASE cosim_finished
  <2>1. UNCHANGED <<fail_count, stepsFor>> /\ spike = next
    BY <1>1, <1>3 DEF finish_cosim, compare, SpikeFollows
  <2> QED BY <1>1, <1>2, <2>1 DEF SpikeFollows
<1>4. CASE ~cosim_finished
  <2>1. report_dut_retire(slot) /\ ~Rejected(slot)
    BY <1>1, <1>4 DEF finish_cosim, FinishDies
  <2>2. CASE slot = "reset"
    <3>1. next = 0 /\ fail_count = 0
      BY <1>1, <2>2 DEF SpikeFollows
    <3> QED BY <2>1, <3>1 DEF report_dut_retire
  <2>3. CASE slot # "reset"
    <3>1. spike = next \/ (spike = rvfi.order /\ (rvfi.valid => Reports(slot)))
      BY <1>1, <2>3 DEF SpikeFollows, Reports, NewRetire, TypeOK
    <3>2. /\ spike' = next' /\ fail_count' = 0
          /\ \A o \in Orders' : stepsFor'[o] = (IF o < spike' THEN 1 ELSE 0)
          /\ \A o \in Orders' : o < spike' => o \notin faulty'
      BY <1>1, <2>1, <3>1, ReportFollows
    <3>3. Orders' = Orders
      BY <1>1 DEF Orders
    <3> QED BY <1>1, <1>2, <3>2, <3>3
  <2> QED BY <2>2, <2>3
<1> QED BY <1>3, <1>4

\* The process ends by an abort of its own or by the final block; the states after it
\* are the last one.
LEMMA VerdictStep == Inv /\ [Next]_vars => Verdicts'
<1> SUFFICES ASSUME Inv, [Next]_vars PROVE Verdicts'
  OBVIOUS
<1> USE DEF Inv
<1>1. CASE Alive'
  BY <1>1 DEF Alive, Verdicts, SuccessJustified, FaultIsReported, CorrectRunPasses
<1>2. CASE FinalAndExit
  <2>1. UNCHANGED <<prog, faulty, next, tests_passed, external_timeout>> /\ Alive
    BY <1>2 DEF FinalAndExit, fixed, core, Alive
  <2>2. CASE exit' = "abort"
    <3>1. FinishDies(slot) /\ (gotFinish \/ external_timeout)
      BY <1>2, <2>2 DEF FinalAndExit
    <3>2. tests_passed => external_timeout
      BY <2>1, <3>1 DEF FinishDies, FinishRecorded
    <3> QED BY <2>1, <2>2, <3>2 DEF Verdicts, SuccessJustified, FaultIsReported, CorrectRunPasses
  <2>3. CASE exit' # "abort"
    <3>1. /\ fail_count' = 0
          /\ \A o \in 0 .. next - 1 : stepsFor'[o] = 1 /\ o \notin faulty
      BY <1>2, <2>3, FinalFollows
    <3>2. exit' = (IF Success THEN "ok" ELSE "fail") /\ finish_cosim(slot) /\ ~FinishDies(slot)
      BY <1>2, <2>3 DEF FinalAndExit
    <3>3. test_passed' => tests_passed
      BY <2>1, <3>2 DEF finish_cosim, SpikeFollows, FinishDies
    <3>4. SuccessJustified'
      BY <2>1, <3>1, <3>2, <3>3 DEF SuccessJustified, Success
    <3>5. FaultIsReported'
      <4>1. \A o \in faulty : o \in Nat
        BY NextKindType DEF TypeOK, Orders
      <4>2. next \in Nat
        BY NextKindType DEF TypeOK
      <4> QED BY <2>1, <3>1, <4>1, <4>2 DEF FaultIsReported
    <3>6. CorrectRunPasses'
      <4>1. tests_passed /\ ~external_timeout => cosim_finished /\ test_passed
        BY <1>2, <2>1 DEF FinalAndExit, FinishRecorded
      <4>2. tests_passed /\ ~external_timeout => test_passed'
        BY <3>2, <4>1 DEF finish_cosim
      <4> QED BY <2>1, <3>1, <3>2, <4>2 DEF CorrectRunPasses, Success
    <3> QED BY <3>4, <3>5, <3>6 DEF Verdicts
  <2> QED BY <2>2, <2>3
<1>3. CASE ~Alive' /\ Alive /\ ~FinalAndExit
  <2>1. exit' = "abort"
    BY <1>3 DEF Next, Alive, vars, ReleaseReset, Posedge, ReportSlot, FinishSlot, Negedge,
                ExternalTimeout
  <2>2. ~tests_passed'
    <3>1. ASSUME NEW ok \in BOOLEAN, ReleaseReset(ok) PROVE ~tests_passed'
      BY <3>1 DEF ReleaseReset, Running, FinishPending, Alive
    <3>2. CASE ReportSlot
      <4>1. Rejected("plus1") /\ ~gotFinish /\ Alive /\ UNCHANGED tests_passed
        BY <1>3, <2>1, <3>2 DEF ReportSlot, ReportDies, Running, Alive
      <4> QED BY <4>1 DEF Rejected, Reports, FinishPending
    <3>3. CASE FinishSlot
      <4>1. ~gotFinish /\ Alive /\ UNCHANGED tests_passed /\ finish_cosim("plus2")
        BY <3>3 DEF FinishSlot, Running, Alive
      <4>2. fail_count = 0
        BY <4>1 DEF SpikeFollows
      <4>3. Rejected("plus2")
        <5>1. FinishDies("plus2") \/ fail_count' # 0
          BY <1>3, <3>3 DEF FinishSlot, Alive
        <5> QED BY <4>1, <4>2, <5>1 DEF FinishDies, finish_cosim, report_dut_retire, compare
      <4> QED BY <4>1, <4>3 DEF Rejected, Reports, FinishPending
    <3> QED BY <1>3, <3>1, <3>2, <3>3 DEF Next, Alive, vars, Posedge, Negedge, ExternalTimeout
  <2> QED BY <2>1, <2>2 DEF Verdicts, SuccessJustified, FaultIsReported, CorrectRunPasses
<1>4. CASE ~Alive
  <2>1. UNCHANGED vars
    BY <1>4 DEF Next, Alive, Running, ReleaseReset, Posedge, ReportSlot, FinishSlot, Negedge,
                ExternalTimeout, FinalAndExit
  <2> QED BY <2>1 DEF vars, fixed, core, compare, Verdicts, SuccessJustified, FaultIsReported,
                     CorrectRunPasses
<1> QED BY <1>1, <1>2, <1>3, <1>4

LEMMA InvHolds == Spec => []Inv
<1>1. Init => Inv
  <2> SUFFICES ASSUME Init PROVE Inv
    OBVIOUS
  <2>1. /\ next = 0 /\ spike = 0 /\ fail_count = 0 /\ slot = "reset" /\ exit = "none"
        /\ rvfi.valid = FALSE /\ rvfi.order = 0 /\ store = "no" /\ ~trap
        /\ ~tests_passed /\ ~cosim_finished /\ ~finishing /\ ~test_passed /\ ~gotFinish
        /\ stepsFor = [o \in Orders |-> 0]
    BY DEF Init, Orders
  <2>2. TypeOK
    BY TypeInit
  <2>3. \A o \in Orders : o \in Nat
    BY NextKindType, <2>2 DEF Orders
  <2>4. SpikeFollows
    BY <2>1, <2>3 DEF SpikeFollows
  <2>5. FinishPending /\ FinishRecorded /\ CoreCounts
    BY <2>1 DEF FinishPending, FinishRecorded, CoreCounts
  <2>6. Verdicts
    BY <2>1 DEF Verdicts, SuccessJustified, FaultIsReported, CorrectRunPasses
  <2> QED BY <2>2, <2>4, <2>5, <2>6 DEF Inv
<1>2. Inv /\ [Next]_vars => Inv'
  BY TypeStep, CoreStep, SpikeStep, FinishStep, VerdictStep DEF Inv
<1> QED BY <1>1, <1>2, PTL DEF Spec

\* Every state of the testbench has the declared shape.
THEOREM PicoTypeCorrect == Spec => []TypeOK
BY InvHolds, PTL DEF Inv

\* The process exits with success only if the firmware stored PASS or FINISH and every
\* instruction that retired was compared, once, and was right.
THEOREM SuccessTheorem == Spec => []SuccessJustified
BY InvHolds, PTL DEF Inv, Verdicts

\* An ordinary exit status means that no wrong instruction has retired.
THEOREM FaultTheorem == Spec => []FaultIsReported
BY InvHolds, PTL DEF Inv, Verdicts

\* A correct core whose firmware stores PASS or FINISH is not failed.
THEOREM CorrectRunTheorem == Spec => []CorrectRunPasses
BY InvHolds, PTL DEF Inv, Verdicts
=============================================================================
