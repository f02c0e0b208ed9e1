--------------------------- MODULE MCCosimSession ---------------------------
(* A two-register core and a four-address program for CosimSession: RAM is  *)
(* 1 .. 2, with an ebreak at 2; outside it 0 cannot be fetched and 3 holds  *)
(* an ebreak.                                                               *)
EXTENDS CosimSession, TLC

MCReg == {"x1", "x2"}
MCCsr == {"cycle", "mscratch"}
MCVolatile == {"cycle"}
MCNormal == [c \in MCCsr |-> [v \in {0, 1} |-> v]]
MCInstr == {"insn", "other", "ebreak", "none"}
MCEbreak == {"ebreak"}
MCFetch == 0 :> "none" @@ 1 :> "insn" @@ 2 :> "ebreak" @@ 3 :> "ebreak"

CsrsAre(v) == [c \in MCCsr |-> IF c = "mscratch" THEN v ELSE 0]
Does(pc, wr) == [pc |-> pc, wr |-> wr, csr |-> CsrsAre(0), finish |-> FALSE]
Nothing == [r \in {} |-> 0]

DetailEffects ==
  {Does(1, w) : w \in {Nothing, "x1" :> 0, "x1" :> 1, "x2" :> 1,
                       "x1" :> 1 @@ "x2" :> 1}}
  \cup {Does(0, Nothing), [Does(1, Nothing) EXCEPT !.csr = CsrsAre(1)]}
FlowEffects ==
  {Does(p, "x1" :> 1) : p \in 0 .. 3} \cup {[Does(1, Nothing) EXCEPT !.finish = TRUE]}

NoCsr == [valid |-> FALSE, addr |-> "cycle", rmask |-> FALSE, rdata |-> 0]
Reads(c, v) == [valid |-> TRUE, addr |-> c, rmask |-> TRUE, rdata |-> v]
Says(rd, data) == [pc |-> 1, instr |-> "insn", rd |-> rd, data |-> data,
                   trap |-> FALSE, csr |-> NoCsr]

DetailReports ==
  {Says("x0", 0), Says("x1", 0), Says("x1", 1), Says("x2", 1),
   [Says("x0", 0) EXCEPT !.pc = 2],
   [Says("x0", 0) EXCEPT !.trap = TRUE],
   [Says("x1", 1) EXCEPT !.trap = TRUE],
   [Says("x2", 1) EXCEPT !.csr = Reads("cycle", 1)],
   [Says("x0", 0) EXCEPT !.csr = Reads("mscratch", 1)]}
FlowReports ==
  {Says("x1", 1), [Says("x1", 1) EXCEPT !.instr = "other"],
   [Says("x1", 1) EXCEPT !.pc = 2, !.instr = "ebreak"]}
AllEffects == DetailEffects \cup FlowEffects
AllReports == DetailReports \cup FlowReports
=============================================================================
