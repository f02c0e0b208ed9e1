----------------------------- MODULE MCPicoSoc ------------------------------
(* Small firmware images for PicoSoc: every instruction is fetched from the *)
(* one code word c, data lives at d, the protocol goes to the sim MMIO.     *)
EXTENDS PicoSoc

CONSTANTS c, d

MCRamAddr == {c, d}
MCWord == {"zero", "code", "one", "char", "reg", "START", "QUIT"} \cup Status
MCImage == [a \in MCRamAddr |-> IF a = c THEN "code" ELSE "zero"]

Fetch == [op |-> "fetch", addr |-> c, val |-> "zero"]
Store(a, v) == <<Fetch, [op |-> "store", addr |-> a, val |-> v]>>
Load(a) == <<Fetch, [op |-> "load", addr |-> a, val |-> "zero"]>>
Loop == <<Fetch>>
Tell(v) == Store("sim_mmio", v)

PassProgram == <<Tell("PASS"), Tell("QUIT"), Loop>>
FailProgram == <<Tell("FAIL"), Tell("QUIT"), Loop>>
FinishThenFail == <<Tell("FINISH"), Tell("FAIL"), Tell("QUIT"), Loop>>
QuitFirst == <<Tell("QUIT"), Tell("char"), Tell("PASS"), Loop>>
MemoryProgram == <<Store(d, "one"), Load(d), Tell("FINISH"), Tell("QUIT"), Loop>>
RegisterProgram == <<Load("reg"), Loop>>
TrapProgram == <<Load(d), <<[Fetch EXCEPT !.addr = d]>>, Loop>>

ProtocolPrograms == {PassProgram, FailProgram, FinishThenFail, QuitFirst}
FinishPrograms == ProtocolPrograms \cup {TrapProgram}
AllPrograms == FinishPrograms \cup {MemoryProgram, RegisterProgram}
MemoryPrograms == {MemoryProgram, TrapProgram}
RegisterPrograms == {RegisterProgram}
ASSUME FirmwareSays == StoresApart /\ QuitIsLast
=============================================================================
