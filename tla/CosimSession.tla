---------------------------- MODULE CosimSession ----------------------------
(***************************************************************************)
(* The comparison of CPU mode: the one CosimSession behind the cosim_bridge *)
(* C functions.  A testbench reports what its core retires; the session     *)
(* steps Spike once per report and compares.  `Retire' compares program     *)
(* counter and instruction (VeeR EL2), `StepDetail' the program counter,    *)
(* the written register and CSR reads (PicoRV32, Ibex).                     *)
(*                                                                          *)
(* The callers are modelled open: any bridge function may be called at any  *)
(* time, with any report of `Reports', so the properties hold for every     *)
(* testbench and every core, correct or not.  Spike is modelled by what a   *)
(* step may do to the state the session reads (Effects): the program it     *)
(* runs is arbitrary.                                                       *)
(***************************************************************************)
EXTENDS Naturals

CONSTANTS
  Reg,        \* x1 .. x31
  X0,         \* "no register written": register number 0
  Word,       \* register and CSR contents
  Zero,       \* Spike's reset value of a register and a CSR
  Csr,        \* CSRs
  Volatile,   \* cycle, cycleh, instret, instreth
  Normal,     \* [Csr -> [Word -> Word]], the legalisation set_csr applies
  Instr,      \* instruction words
  NoInstr,    \* 0xffffffff, what instruction_at answers for a fetch that traps
  Ebreak,     \* the two encodings of ebreak
  PcMod,      \* program counters are 0 .. PcMod - 1
  MemBase, MemSize,   \* the RAM of CosimConfig
  Fetch,      \* [0 .. PcMod - 1 -> Instr], the program in Spike's memory
  Entry,      \* the ELF entry point
  Effects,    \* what one Spike instruction can do
  Reports,    \* what a testbench can report of one retired instruction
  MaxCalls    \* bound on the number of bridge calls

Pc == 0 .. PcMod - 1

\* What a retired instruction is reported to have read of a CSR.  `rmask' says
\* whether any bit was read.
CsrRead == [valid : BOOLEAN, addr : Csr, rmask : BOOLEAN, rdata : Word]

\* A report: MonInstrTxn, or the arguments of step_detail.  rd = X0 stands for
\* gpr.valid = false as for gpr.addr = 0.
Report == [pc : Pc, instr : Instr, rd : Reg \cup {X0}, data : Word,
           trap : BOOLEAN, csr : CsrRead]

\* What an instruction of Spike does: the next pc, the registers it writes, the
\* CSR contents it leaves, and whether it stored the finish value to the
\* simulation MMIO device.
Effect == [pc : Pc, wr : UNION {[S -> Word] : S \in SUBSET Reg},
           csr : [Csr -> Word], finish : BOOLEAN]

ASSUME SessionAssumption ==
  /\ X0 \notin Reg
  /\ Zero \in Word
  /\ Volatile \subseteq Csr
  /\ Normal \in [Csr -> [Word -> Word]]
  /\ NoInstr \in Instr /\ Ebreak \subseteq Instr
  /\ PcMod \in Nat \ {0} /\ MemBase \in Pc /\ MemSize \in Nat
  /\ Fetch \in [Pc -> Instr] /\ Entry \in Pc
  /\ Effects \subseteq Effect /\ Reports \subseteq Report
  /\ MaxCalls \in Nat

VARIABLES
  initialized,     \* g_session exists and initialized_
  finished,        \* finished_
  reference_done,  \* reference_done_
  compare_index, pass_count, fail_count,
  errors,          \* the length of errors_
  iss,             \* Spike: pc, registers, CSRs, finish device, async inputs
  \* What follows is not state of the program.
  reported,        \* the register file as the core's reports give it
  unchecked,       \* registers last written by a step exempt from comparison
  opened,          \* sessions in which Spike came up
  verdicts,        \* verdict lines printed by finish()
  verdict,         \* the last of them
  answered,        \* what the last call returned, negated
  calls            \* calls so far

session == <<initialized, finished, reference_done, compare_index, pass_count,
             fail_count, errors, iss>>
ghosts == <<reported, unchecked, opened, verdicts, verdict>>
vars == <<session, ghosts, answered, calls>>

Iss == [pc : Pc, reg : [Reg -> Word], csr : [Csr -> Word], done : BOOLEAN,
        inputs : BOOLEAN]
ResetIss == [pc |-> Entry, reg |-> [r \in Reg |-> Zero],
             csr |-> [c \in Csr |-> Zero], done |-> FALSE, inputs |-> FALSE]

Answers(rc) ==
  /\ calls < MaxCalls
  /\ calls' = calls + 1
  /\ answered' = rc

\* Mutant: finished_ is not looked at.
LiveFinished == initialized

\* A session that still compares.
Live == initialized /\ ~finished

-----------------------------------------------------------------------------
\* Spike, seen through RiscvSimulator

\* SpikeSimulator::step(1): one instruction, whatever the program makes it.
Stepped(s, e) ==
  [s EXCEPT !.pc = e.pc,
            !.reg = [r \in Reg |-> IF r \in DOMAIN e.wr THEN e.wr[r] ELSE s.reg[r]],
            !.csr = e.csr,
            !.done = s.done \/ e.finish]

\* The registers whose value the step changed; a write of the value a register
\* already had is not seen.
Changed(before, after) == {r \in Reg : before.reg[r] # after.reg[r]}
AtMostOne(S) == \A r, s \in S : r = s

reference_entry_valid(pc, instr) ==
  /\ pc >= MemBase
  /\ pc < (MemBase + MemSize) % PcMod
  /\ instr # NoInstr

-----------------------------------------------------------------------------
\* The comparison of one step

VolatileCounter(t) == t.csr.valid /\ t.csr.addr \in Volatile

\* The steps of which no written register is compared.
Exempt(t, suppress) == t.trap \/ suppress \/ VolatileCounter(t)

\* Mutant: the reported value is compared, but not which register changed.
GprMatchesValue(t, suppress, before, after) ==
  \/ Exempt(t, suppress)
  \/ t.rd = X0 /\ Changed(before, after) = {}
  \/ t.rd # X0 /\ after.reg[t.rd] = t.data

GprMatches(t, suppress, before, after) ==
  LET changed == Changed(before, after) IN
  \/ t.trap
  \/ ~t.trap /\ suppress /\ t.rd = X0 /\ AtMostOne(changed)
  \/ ~t.trap /\ ~suppress /\ VolatileCounter(t) /\ AtMostOne(changed)
  \/ ~t.trap /\ ~suppress /\ ~VolatileCounter(t) /\ t.rd = X0 /\ changed = {}
  \/ /\ ~t.trap /\ ~suppress /\ ~VolatileCounter(t) /\ t.rd # X0
     /\ changed \subseteq {t.rd}
     /\ after.reg[t.rd] = t.data

CsrMatches(t, after) ==
  t.csr.valid /\ t.csr.rmask /\ ~VolatileCounter(t) =>
    t.csr.rdata = after.csr[t.csr.addr]

DetailMatches(t, suppress, before, after) ==
  /\ before.pc = t.pc
  /\ t.trap => t.rd = X0
  /\ GprMatches(t, suppress, before, after)
  /\ CsrMatches(t, after)

-----------------------------------------------------------------------------
\* The reports' register file

Written(t) == {t.rd} \ {X0}

Note(t, suppress, after) ==
  /\ reported' = [r \in Reg |-> IF r \in Written(t) THEN t.data ELSE reported[r]]
  /\ unchecked' = IF Exempt(t, suppress)
                    THEN unchecked \cup Changed(iss, after) \cup Written(t)
                    ELSE unchecked \ Written(t)

-----------------------------------------------------------------------------
\* The bridge's functions

\* cosim_bridge_retire when there is nothing to report to, or the session is over
RetireRejected ==
  /\ ~Live
  /\ Answers(IF initialized THEN 2 ELSE 1)
  /\ UNCHANGED <<session, ghosts>>

\* Spike has finished the program: the report is dropped
RetireIgnored ==
  /\ Live /\ reference_done
  /\ Answers(0)
  /\ UNCHANGED <<session, ghosts>>

\* Spike's next instruction is outside RAM or not fetchable: it is stepped over,
\* or ends the comparison, and the report is not compared.  `thrown' says that
\* Spike's step threw.
RetireSkipped(e, thrown) ==
  LET golden == Fetch[iss.pc]
      over == golden \notin Ebreak IN
  /\ Live /\ ~reference_done
  /\ ~reference_entry_valid(iss.pc, golden)
  /\ Answers(IF over /\ thrown THEN 2 ELSE 0)
  /\ iss' = IF over /\ ~thrown THEN Stepped(iss, e) ELSE iss
  /\ reference_done' = ~over
  /\ unchecked' = unchecked \cup Changed(iss, iss')
  /\ UNCHANGED <<initialized, finished, compare_index, pass_count, fail_count, errors,
                 reported, opened, verdicts, verdict>>

\* The comparison.  The counters have moved when the step throws.
RetireCompared(t, e, thrown) ==
  LET golden == Fetch[iss.pc]
      over == golden \notin Ebreak
      pass == iss.pc = t.pc /\ golden = t.instr IN
  /\ Live /\ ~reference_done
  /\ reference_entry_valid(iss.pc, golden)
  /\ Answers(IF over /\ thrown THEN 2 ELSE 0)
  /\ pass_count' = IF pass THEN pass_count + 1 ELSE pass_count
  /\ fail_count' = IF pass THEN fail_count ELSE fail_count + 1
  /\ compare_index' = compare_index + 1
  /\ iss' = IF over /\ ~thrown THEN Stepped(iss, e) ELSE iss
  /\ reference_done' = IF over THEN ~thrown /\ iss'.done ELSE TRUE
  /\ unchecked' = unchecked \cup Changed(iss, iss')
  /\ UNCHANGED <<initialized, finished, errors, reported, opened, verdicts, verdict>>

\* cosim_bridge_step_detail[_with_csr] with no session, or on a finished one,
\* which records an error and counts no failure
StepRejected ==
  /\ ~Live
  /\ Answers(IF initialized THEN 2 ELSE 1)
  /\ errors' = IF initialized THEN errors + 1 ELSE errors
  /\ UNCHANGED <<initialized, finished, reference_done, compare_index, pass_count,
                 fail_count, iss, ghosts>>

StepThrows(t, suppress) ==
  /\ Live
  /\ Answers(2)
  /\ errors' = errors + 1
  /\ fail_count' = fail_count + 1
  /\ Note(t, suppress, iss)
  /\ UNCHANGED <<initialized, finished, reference_done, compare_index, pass_count,
                 iss, opened, verdicts, verdict>>

\* Mutant: a failed step takes the index back.
NextIndexBack(pass) == IF pass THEN compare_index + 1 ELSE compare_index - 1

\* The index of the next line of the compare log.
NextIndex(pass) == IF pass THEN compare_index + 1 ELSE compare_index

\* Spike is stepped first and the report compared with what the step changed
StepDetail(t, suppress, e) ==
  LET after == Stepped(iss, e)
      pass == DetailMatches(t, suppress, iss, after) IN
  /\ Live
  /\ Answers(IF pass THEN 0 ELSE 2)
  /\ iss' = after
  /\ pass_count' = IF pass THEN pass_count + 1 ELSE pass_count
  /\ compare_index' = NextIndex(pass)
  /\ fail_count' = IF pass THEN fail_count ELSE fail_count + 1
  /\ errors' = IF pass THEN errors ELSE errors + 1
  /\ Note(t, suppress, after)
  /\ UNCHANGED <<initialized, finished, reference_done, opened, verdicts, verdict>>

\* set_csr; set_mip, set_nmi, set_nmi_int and set_debug_req; clear_errors
SetCsr(c, v) ==
  /\ initialized
  /\ Answers(0)
  /\ iss' = [iss EXCEPT !.csr[c] = Normal[c][v]]
  /\ UNCHANGED <<initialized, finished, reference_done, compare_index, pass_count,
                 fail_count, errors, ghosts>>

SetInputs(b) ==
  /\ initialized
  /\ Answers(0)
  /\ iss' = [iss EXCEPT !.inputs = b]
  /\ UNCHANGED <<initialized, finished, reference_done, compare_index, pass_count,
                 fail_count, errors, ghosts>>

ClearErrors ==
  /\ initialized
  /\ Answers(0)
  /\ errors' = 0
  /\ UNCHANGED <<initialized, finished, reference_done, compare_index, pass_count,
                 fail_count, iss, ghosts>>

-----------------------------------------------------------------------------
\* Lifecycle

\* Mutant: finish() prints each time it is called.
FinishPrintsAgain == initialized

\* finish() prints when it is called on a live session.
FinishPrints == initialized /\ ~finished

finish ==
  /\ verdicts' = IF FinishPrints THEN verdicts + 1 ELSE verdicts
  /\ verdict' = IF FinishPrints THEN <<pass_count, fail_count>> ELSE verdict
  /\ finished' = initialized

BridgeFinish ==
  /\ Answers(0)
  /\ finish
  /\ UNCHANGED <<initialized, reference_done, compare_index, pass_count, fail_count,
                 errors, iss, reported, unchecked, opened>>

\* The members a session starts with, and reset() leaves
Cleared ==
  /\ finished' = FALSE /\ reference_done' = FALSE
  /\ compare_index' = 0 /\ pass_count' = 0 /\ fail_count' = 0 /\ errors' = 0
  /\ iss' = ResetIss
  /\ reported' = ResetIss.reg /\ unchecked' = {}

\* cosim_bridge_reset: the destructor finishes a live session
BridgeReset ==
  /\ Answers(0)
  /\ initialized' = FALSE
  /\ Cleared
  /\ verdicts' = IF FinishPrints THEN verdicts + 1 ELSE verdicts
  /\ verdict' = IF FinishPrints THEN <<pass_count, fail_count>> ELSE verdict
  /\ UNCHANGED opened

\* cosim_bridge_init with a configuration: the old session is destroyed first.
\* `up' says that Spike came up, `log' that the log file could be opened; a
\* session whose log fails is initialised by then, so its destructor prints.
BridgeInit(up, log) ==
  /\ Answers(IF up /\ log THEN 0 ELSE 2)
  /\ initialized' = (up /\ log)
  /\ Cleared
  /\ opened' = IF up THEN opened + 1 ELSE opened
  /\ verdicts' = verdicts + (IF FinishPrints THEN 1 ELSE 0) + (IF up /\ ~log THEN 1 ELSE 0)
  /\ verdict' = IF up /\ ~log THEN <<0, 0>>
                ELSE IF FinishPrints THEN <<pass_count, fail_count>> ELSE verdict

\* cosim_bridge_init(nullptr)
BridgeInitNull ==
  /\ Answers(1)
  /\ UNCHANGED <<session, ghosts>>

Init ==
  /\ initialized = FALSE /\ finished = FALSE /\ reference_done = FALSE
  /\ compare_index = 0 /\ pass_count = 0 /\ fail_count = 0 /\ errors = 0
  /\ iss = ResetIss
  /\ reported = ResetIss.reg /\ unchecked = {}
  /\ opened = 0 /\ verdicts = 0 /\ verdict = <<0, 0>>
  /\ answered = 0
  /\ calls = 0

Next ==
  \/ RetireRejected
  \/ RetireIgnored
  \/ \E e \in Effects, b \in BOOLEAN : RetireSkipped(e, b)
  \/ \E t \in Reports, e \in Effects, b \in BOOLEAN : RetireCompared(t, e, b)
  \/ StepRejected
  \/ \E t \in Reports, s \in BOOLEAN : StepThrows(t, s)
  \/ \E t \in Reports, s \in BOOLEAN, e \in Effects : StepDetail(t, s, e)
  \/ \E c \in Csr, v \in Word : SetCsr(c, v)
  \/ \E b \in BOOLEAN : SetInputs(b)
  \/ ClearErrors
  \/ BridgeFinish
  \/ BridgeReset
  \/ \E up, log \in BOOLEAN : BridgeInit(up, log)
  \/ BridgeInitNull

Spec == Init /\ [][Next]_vars

-----------------------------------------------------------------------------
\* Properties

\* The shape of the state.
TypeOK ==
  /\ initialized \in BOOLEAN /\ finished \in BOOLEAN /\ reference_done \in BOOLEAN
  /\ compare_index \in Nat /\ pass_count \in Nat /\ fail_count \in Nat /\ errors \in Nat
  /\ iss \in Iss
  /\ reported \in [Reg -> Word] /\ unchecked \subseteq Reg
  /\ opened \in Nat /\ verdicts \in Nat /\ verdict \in Nat \X Nat
  /\ answered \in 0 .. 2
  /\ calls \in 0 .. MaxCalls

\* A session without a failure knows the core's register file: every register
\* not last touched by an exempt step holds, in Spike, what the core reported.
\* The code compares only the registers one step of Spike changed; this says
\* that over a whole run that is enough, and how far an exemption reaches.
RegisterFilesAgree ==
  initialized /\ fail_count = 0 =>
    \A r \in Reg \ unchecked : reported[r] = iss.reg[r]

\* Every session in which Spike came up prints its verdict exactly once, however
\* finish, reset, a second init, a failed init and the destructor follow each other.
VerdictOnce ==
  opened = verdicts + (IF initialized /\ ~finished THEN 1 ELSE 0)

\* The verdict printed by finish() is final: no call accepted afterwards changes
\* the counters it reported.
VerdictIsFinal ==
  finished => verdict = <<pass_count, fail_count>>
=============================================================================
