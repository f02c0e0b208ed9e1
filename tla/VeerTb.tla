------------------------------- MODULE VeerTb -------------------------------
(***************************************************************************)
(* The VeeR EL2 testbench: the retire monitor and the mailbox monitor bound *)
(* to the vendored tb_top, the C functions behind them and main's clock     *)
(* loop, composed with the cosim session and the instruction monitor they   *)
(* call.  The retire monitor reports on the rising edge of core_clk and     *)
(* drops the bridge's answer; the mailbox monitor pairs write data with     *)
(* write addresses on the falling edge and ends the run.                    *)
(*                                                                          *)
(* tb_top and the core are external.  What is assumed of them: instructions *)
(* are traced in the order of a path; a store's address is on the bus for   *)
(* one edge, in program order, once the store has been traced; its data     *)
(* comes with it or later; tb_top, which has a mailbox of its own, may also *)
(* end the simulation.                                                      *)
(***************************************************************************)
EXTENDS CosimSession, MonInstr, FiniteSets

CONSTANTS
  Paths,       \* the programs, as the program counters they retire; at the last one,
               \* which is no store, the core spins
  StoreAt,     \* [Pc -> Store], what the instruction at a pc stores
  QueueDepth   \* entries of aw_queue, 8 in the code

Addr == {"ram", "print", "finish"}
\* What write_lane_value finds on the lanes of a store, as far as the monitor tells
\* values apart.  "done" is SIM_FINISH_VALUE.
Value == {"other", "char", "pass", "fail", "end", "done"}
Store == [addr : Addr, value : Value]
NoStore == [addr |-> "ram", value |-> "other"]

ASSUME VeerAssumption ==
  /\ QueueDepth \in Nat \ {0}
  /\ StoreAt \in [Pc -> Store]
  /\ \A p \in Paths : /\ p \in Seq(Pc) /\ Len(p) > 0 /\ p[1] = Entry
                      /\ \A i, j \in 1 .. Len(p) : p[i] = p[j] => i = j
                      /\ StoreAt[p[Len(p)]] = NoStore

VARIABLES
  path, faulty,  \* the program, and the positions the core gets wrong
  threw,         \* the retires at which Spike's step threw (not in the code)
  stores,        \* the stores of the instructions traced so far
  clk,           \* core_clk
  cosim_ready, cosim_finished,
  init_rc,       \* what cosim_bridge_init answered, which only stderr is told
  retire_order,  \* veer_cosim_retire's static counter
  queue,         \* aw_queue and its head, tail and count
  aw, w,         \* stores whose address, whose data, has been on the bus
  handled,       \* what the mailbox monitor took for stores (not in the code)
  gotFinish,     \* who called $finish
  exit           \* how the process ended

tb == <<path, faulty, threw, stores, clk, cosim_ready, cosim_finished, init_rc, retire_order,
        queue, aw, w, handled, gotFinish, exit>>
program == <<path, faulty, threw, stores>>
checks == <<vars, monitor, mon_log>>
bus == <<queue, aw, w, handled>>
tbvars == <<tb, checks>>

InRam(pc) == reference_entry_valid(pc, Fetch[pc])
Place(k) == IF k <= Len(path) THEN k ELSE Len(path)
At(k) == path[Place(k)]
\* The position of an instruction on the path, and the one Spike goes to next.
Position(pc) == CHOOSE k \in 1 .. Len(path) : path[k] = pc
Follows(pc) == At(Position(pc) + 1)

EmptyQueue == [slot |-> [i \in 0 .. QueueDepth - 1 |-> "ram"], head |-> 0, tail |-> 0,
               count |-> 0]
\* Mutant: the tail does not wrap.
PushedFlat(q, a) == [q EXCEPT !.slot[q.tail] = a, !.tail = q.tail + 1, !.count = q.count + 1]
Pushed(q, a) == [q EXCEPT !.slot[q.tail] = a, !.tail = (q.tail + 1) % QueueDepth,
                          !.count = q.count + 1]
\* Mutant: the head stays.
PoppedStays(q) == [q EXCEPT !.count = q.count - 1]
Popped(q) == [q EXCEPT !.head = (q.head + 1) % QueueDepth, !.count = q.count - 1]

-----------------------------------------------------------------------------
\* Spike on the program

\* A step of Spike goes down the path; a store of the finish value ends Spike.
SpikeEffect(e) ==
  /\ e.pc = Follows(iss.pc)
  /\ e.finish <=> StoreAt[iss.pc] = [addr |-> "finish", value |-> "done"]

\* What the core traces at position k of the path.
Traces(t, k) ==
  (t.pc = At(k) /\ t.instr = Fetch[At(k)]) <=> ~(k \in faulty)

\* cosim_bridge_retire, whichever of its branches the session is in.  Any step of
\* Spike may throw; after an ebreak there is none.
bridge_retire(k) ==
  \/ /\ RetireRejected \/ RetireIgnored
     /\ UNCHANGED threw
  \/ \E e \in Effects, throws \in BOOLEAN :
       /\ SpikeEffect(e)
       /\ throws => Fetch[iss.pc] \notin Ebreak
       /\ threw' = IF throws THEN threw \cup {k} ELSE threw
       /\ \/ RetireSkipped(e, throws)
          \/ \E t \in Reports : Traces(t, k) /\ RetireCompared(t, e, throws)

\* The core has traced position k: its store, if it is one, will be on the bus.
TracedStore(k) ==
  /\ stores' = IF StoreAt[At(k)] = NoStore THEN stores ELSE Append(stores, StoreAt[At(k)])
  /\ UNCHANGED <<path, faulty>>

-----------------------------------------------------------------------------
\* The functions the testbench calls

\* veer_cosim_init: a bridge that does not come up is only reported on stderr,
\* while a monitor log that cannot be opened ends the process.
veer_cosim_init(up, log, mon) ==
  /\ BridgeInit(up, log)
  /\ init_rc' = answered'
  /\ IF mon THEN mon_instr_init_mode("retire") /\ exit' = "none"
            ELSE UNCHANGED <<monitor, mon_log>> /\ exit' = "abort"

\* veer_cosim_retire: both answers are dropped.
veer_cosim_retire ==
  /\ retire_order' = retire_order + 1
  /\ bridge_retire(retire_order + 1)
  /\ mon_instr_retire(retire_order, answered')

veer_cosim_finish == mon_instr_finish /\ BridgeFinish

\* Mutant: the monitor's log is left to the destructor.
finish_cosim_bridge ==
  /\ cosim_finished' = TRUE
  /\ UNCHANGED <<monitor, mon_log>>
  /\ IF cosim_finished THEN UNCHANGED vars ELSE BridgeFinish

finish_cosim ==
  /\ cosim_finished' = TRUE
  /\ IF cosim_finished THEN UNCHANGED checks ELSE veer_cosim_finish

\* Mutants: the count is lost with the session; a session that is gone has failed.
FailCountNever(n) == 0
FailCountGone(n) == IF initialized THEN n ELSE 1
veer_cosim_fail_count(n) == IF initialized THEN n ELSE 0

-----------------------------------------------------------------------------
\* The clock loop and the monitors

Running == exit = "none" /\ gotFinish = "no" /\ cosim_ready

\* The first edge after reset.
ReleaseReset(up, log, mon) ==
  /\ exit = "none" /\ ~cosim_ready
  /\ cosim_ready' = TRUE
  /\ clk' = 1
  /\ veer_cosim_init(up, log, mon)
  /\ UNCHANGED <<program, cosim_finished, retire_order, bus, gotFinish>>

\* tb_top may call $finish in any half cycle.
TbTop(f) == gotFinish' = IF f THEN "tb_top" ELSE gotFinish

\* A rising edge, with an instruction on the trace port or without.  Three calls
\* are kept for the end of the run.
PosedgeRetire(f) ==
  /\ Running /\ clk = 0 /\ ~cosim_finished /\ calls < MaxCalls - 2
  /\ clk' = 1
  /\ veer_cosim_retire
  /\ TracedStore(retire_order + 1)
  /\ TbTop(f)
  /\ UNCHANGED <<cosim_ready, cosim_finished, init_rc, bus, exit>>

PosedgeIdle(f) ==
  /\ Running /\ clk = 0
  /\ clk' = 1
  /\ TbTop(f)
  /\ UNCHANGED <<program, cosim_ready, cosim_finished, init_rc, retire_order, bus, exit, checks>>

\* The mailbox stores that end the run; `checked' says that the monitor looks at
\* the fail count itself.
Passes(s) == s \in {[addr |-> "finish", value |-> "done"], [addr |-> "print", value |-> "pass"]}
Ends(s) == Passes(s) \/ s \in {[addr |-> "print", value |-> "end"], [addr |-> "print", value |-> "fail"]}

Mailbox(s) ==
  \/ /\ ~Ends(s)
     /\ UNCHANGED <<cosim_finished, gotFinish, exit, checks>>
  \/ /\ Ends(s)
     /\ finish_cosim
     /\ exit' = IF s.value = "fail" THEN "firmware_failed"
                ELSE IF Passes(s) /\ veer_cosim_fail_count(fail_count) # 0 THEN "mismatch"
                ELSE exit
     /\ gotFinish' = IF exit' = "none" THEN "mailbox" ELSE gotFinish

AddressShown == aw < Len(stores)

\* A falling edge: an address, data, both or neither.
NegedgeIdle ==
  /\ Running /\ clk = 1
  /\ clk' = 0
  /\ UNCHANGED <<program, cosim_ready, cosim_finished, init_rc, retire_order, bus, gotFinish,
                 exit, checks>>

NegedgeAddress(a) ==
  /\ Running /\ clk = 1 /\ a = stores[aw + 1].addr
  /\ queue.count < QueueDepth
  /\ clk' = 0 /\ aw' = aw + 1
  /\ queue' = Pushed(queue, a)
  /\ UNCHANGED <<program, cosim_ready, cosim_finished, init_rc, retire_order, w, handled,
                 gotFinish, exit, checks>>

NegedgeOverflow ==
  /\ Running /\ clk = 1 /\ AddressShown
  /\ queue.count >= QueueDepth
  /\ clk' = 0
  /\ finish_cosim
  /\ exit' = "overflow"
  /\ UNCHANGED <<program, cosim_ready, init_rc, retire_order, bus, gotFinish>>

\* Data, with the next address on the same edge or without: the address goes into
\* the queue first.
NegedgeData(both) ==
  LET q == IF both THEN Pushed(queue, stores[aw + 1].addr) ELSE queue
      taken == [addr |-> q.slot[q.head], value |-> stores[w + 1].value] IN
  /\ Running /\ clk = 1
  /\ both => AddressShown /\ queue.count < QueueDepth
  /\ aw' = IF both THEN aw + 1 ELSE aw
  /\ w < aw' /\ w' = w + 1
  /\ q.count # 0
  /\ clk' = 0
  /\ queue' = Popped(q)
  /\ handled' = Append(handled, taken)
  /\ Mailbox(taken)
  /\ UNCHANGED <<program, cosim_ready, init_rc, retire_order>>

\* main gives up after VEER_EL2_MAX_CYCLES cycles.
HitMaxCycles ==
  /\ Running
  /\ veer_cosim_finish
  /\ exit' = "max_cycles"
  /\ UNCHANGED <<program, clk, cosim_ready, cosim_finished, init_rc, retire_order, bus, gotFinish>>

\* tb->final() runs the final block; main then asks for the fail count and frees
\* the monitor and the session.
Final ==
  /\ exit = "none" /\ gotFinish # "no"
  /\ finish_cosim
  /\ exit' = "final"
  /\ UNCHANGED <<program, clk, cosim_ready, init_rc, retire_order, bus, gotFinish>>

Return ==
  /\ exit = "final"
  /\ exit' = IF veer_cosim_fail_count(fail_count) = 0 THEN "ok" ELSE "failed"
  /\ mon_instr_reset /\ BridgeReset
  /\ UNCHANGED <<program, clk, cosim_ready, cosim_finished, init_rc, retire_order, bus, gotFinish>>

TbInit ==
  /\ Init
  /\ monitor = NoMonitor /\ mon_log = NoLog
  /\ path \in Paths
  /\ faulty \in SUBSET (1 .. Len(path))
  /\ threw = {} /\ stores = <<>>
  /\ clk = 0
  /\ cosim_ready = FALSE /\ cosim_finished = FALSE
  /\ init_rc = 0 /\ retire_order = 0
  /\ queue = EmptyQueue /\ aw = 0 /\ w = 0 /\ handled = <<>>
  /\ gotFinish = "no" /\ exit = "none"

TbNext ==
  \/ \E up, log, mon \in BOOLEAN : ReleaseReset(up, log, mon)
  \/ \E f \in BOOLEAN : PosedgeRetire(f)
  \/ \E f \in BOOLEAN : PosedgeIdle(f)
  \/ NegedgeIdle
  \/ \E a \in Addr : AddressShown /\ NegedgeAddress(a)
  \/ NegedgeOverflow
  \/ \E both \in BOOLEAN : NegedgeData(both)
  \/ HitMaxCycles
  \/ Final
  \/ Return

TbSpec == TbInit /\ [][TbNext]_tbvars

-----------------------------------------------------------------------------
\* Properties

\* The shape of the state.
TbTypeOK ==
  /\ path \in Paths /\ clk \in 0 .. 1 /\ stores \in Seq(Store)
  /\ cosim_ready \in BOOLEAN /\ cosim_finished \in BOOLEAN
  /\ init_rc \in 0 .. 2 /\ retire_order \in Nat
  /\ threw \subseteq 1 .. retire_order
  /\ queue \in [slot : [0 .. QueueDepth - 1 -> Addr], head : 0 .. QueueDepth - 1,
                tail : 0 .. QueueDepth - 1, count : 0 .. QueueDepth]
  /\ aw \in 0 .. Len(stores) /\ w \in 0 .. aw /\ handled \in Seq(Store)
  /\ gotFinish \in {"no", "mailbox", "tb_top"}
  /\ exit \in {"none", "final", "ok", "failed", "abort", "mismatch", "firmware_failed", "overflow",
               "max_cycles"}
  /\ MonTypeOK

\* The program has stored the finish value by position k.
FinishStored(k) == \E i \in 1 .. k : StoreAt[At(i)] = [addr |-> "finish", value |-> "done"]

\* The instruction at position j ends the reference: an ebreak, or the first one
\* compared and stepped once Spike has stored the finish value.
EndsReference(j) == Fetch[At(j)] \in Ebreak \/ (InRam(At(j)) /\ FinishStored(j))

\* The retires, of the first n, that are to be compared: those in RAM, up to the end of
\* the reference.
Compared(n) == {k \in 1 .. n : InRam(At(k)) /\ \A j \in 1 .. k - 1 : ~EndsReference(j)}

\* A run that ends with success, the bridge having come up, has no failure in its
\* verdict although the testbench drops the bridge's answers.  When Spike's step never
\* threw, every retire to be compared was compared, as the verdict says, and when it
\* did, those up to the first throw were; none of them was wrong.  The throw itself is
\* noticed only by what follows it: one in RAM passed because it came with the last
\* retire, or because the core retired the same instruction again, rightly (it spins) or
\* wrongly.  Of a run in which Spike threw outside RAM, where it stays and nothing is
\* compared meanwhile, the verdict says nothing from there on.  A mailbox that ended the
\* run was told to.
RetiresAccounted ==
  exit = "ok" /\ init_rc = 0 =>
    /\ verdict[2] = 0
    /\ threw = {} => verdict[1] = Cardinality(Compared(retire_order))
    /\ \A k \in Compared(retire_order) : (\A j \in threw : k <= j) => k \notin faulty
    /\ \A f \in threw :
         (\A j \in threw : f <= j) /\ InRam(At(f)) =>
           f = retire_order \/ At(f + 1) = At(f) \/ f + 1 \in faulty
    /\ gotFinish = "mailbox" => Ends(handled[Len(handled)])

\* A run that fails by the comparison had a wrong instruction among those reported, or
\* one at which Spike threw.
FailureJustified ==
  exit \in {"mismatch", "failed"} =>
    init_rc = 0 /\ (faulty \cap (1 .. retire_order) # {} \/ threw # {})

\* The mailbox monitor sees the program's stores, each once and in order, through
\* its ring of addresses: no address is lost or paired with another's data.
MailboxInOrder ==
  handled = SubSeq(stores, 1, Len(handled))

\* Whichever way the process ends, other than in reset, the monitor's log is
\* complete: a row for each report and their number, once.
MonitorLogComplete ==
  exit \notin {"none", "final", "abort"} => LogComplete(retire_order)

\* What the requirement on a successful cosim run asks: when the firmware has ended
\* the run and the process exits with success, the session has passed comparisons
\* and no failed one.
SuccessCompared ==
  exit = "ok" /\ gotFinish = "mailbox" => verdict[1] > 0 /\ verdict[2] = 0
=============================================================================
