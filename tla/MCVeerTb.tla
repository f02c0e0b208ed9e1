------------------------------ MODULE MCVeerTb ------------------------------
EXTENDS VeerTb

\* RAM is 1 .. 6; 0, 7 and 8 are outside it.
MCReg == {}
MCWord == {0}
MCCsr == {"mscratch"}
MCNormal == [c \in MCCsr |-> [x \in MCWord |-> x]]
MCInstr == {"i", "ebreak", "none"}
MCEbreak == {"ebreak"}
MCFetch == [p \in 0 .. 8 |-> IF p = 6 THEN "ebreak" ELSE "i"]
MCEffects == [pc : 0 .. 8, wr : {<<>>}, csr : [MCCsr -> MCWord], finish : BOOLEAN]
NoRead == [valid |-> FALSE, addr |-> "mscratch", rmask |-> FALSE, rdata |-> 0]
MCReports == [pc : 0 .. 8, instr : {"i", "ebreak"}, rd : {"x0"}, data : {0}, trap : {FALSE},
              csr : {NoRead}]

\* Two characters and PASS; the finish value, with an instruction outside RAM
\* before it, or from outside RAM; FINISH from outside RAM; and an ebreak.
MCPaths == {<<1, 2, 3, 5>>, <<1, 7, 4, 5>>, <<1, 8, 5>>, <<1, 0, 5>>, <<1, 2, 6>>}
MCStoreAt ==
  [p \in 0 .. 8 |->
    IF p \in {1, 2} THEN [addr |-> "print", value |-> "char"]
    ELSE IF p = 3 THEN [addr |-> "print", value |-> "pass"]
    ELSE IF p \in {4, 8} THEN [addr |-> "finish", value |-> "done"]
    ELSE IF p = 0 THEN [addr |-> "print", value |-> "end"]
    ELSE IF p = 7 THEN [addr |-> "print", value |-> "other"]
    ELSE NoStore]
=============================================================================
