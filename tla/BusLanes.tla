------------------------------ MODULE BusLanes ------------------------------
(***************************************************************************)
(* The data of the SoC Spike mode: the byte accesses of Spike that          *)
(* issue_bus_request turns into words and write strobes, and picosoc_mem,   *)
(* which takes them.  When an access is made, and how it waits, is          *)
(* PicoSoc's; here it is one step.  A word is the number it is in the     *)
(* code, the shifts are products and quotients of it.                       *)
(***************************************************************************)
EXTENDS Integers, Sequences

CONSTANTS
  ByteSize,   \* values of a byte, 256 in the code
  RamWords    \* words of the RAM

ASSUME LanesAssumption == ByteSize \in Nat \ {0} /\ RamWords \in Nat

Byte == 0 .. ByteSize - 1
\* The values below lane i: shifting by it is multiplying by Weight[i].
Weight == [i \in 0 .. 4 |->
  CASE i = 0 -> 1
    [] i = 1 -> ByteSize
    [] i = 2 -> ByteSize * ByteSize
    [] i = 3 -> ByteSize * ByteSize * ByteSize
    [] i = 4 -> ByteSize * ByteSize * ByteSize * ByteSize]
WordSize == Weight[4]
RamAddr == 0 .. 4 * RamWords - 1

VARIABLES
  memory,   \* picosoc_mem, by word
  access,   \* the call of mmio_load or mmio_store
  answer    \* what it returned

vars == <<memory, access, answer>>

Idle == [op |-> "none"]
NoReply == <<"none">>
Refused == <<"refused">>

Shifted(w, i) == w * Weight[i]
Lane(w, i) == (w \div Weight[i]) % ByteSize
Offset(addr) == addr % 4

-----------------------------------------------------------------------------
\* spike_bus_dpi.cc

\* Mutant: the bytes stay in the low lanes.
pack_store_data_low(addr, data) ==
  LET part(i) == IF i <= Len(data) THEN Shifted(data[i], i - 1) ELSE 0
  IN (part(1) + part(2) + part(3) + part(4)) % WordSize

pack_store_data(addr, data) ==
  LET part(i) == IF i <= Len(data) THEN Shifted(data[i], Offset(addr) + i - 1) ELSE 0
  IN (part(1) + part(2) + part(3) + part(4)) % WordSize

pack_store_strobe(addr, len) == {i \in 0 .. 3 : i >= Offset(addr) /\ i < Offset(addr) + len}

\* Mutant: the byte is not masked.
unpack_load_data_wide(addr, len, rdata) ==
  [i \in 1 .. len |-> rdata \div Weight[Offset(addr) + i - 1]]
unpack_load_data(addr, len, rdata) == [i \in 1 .. len |-> Lane(rdata, Offset(addr) + i - 1)]

\* An access issue_bus_request does not put on the bus.
Refuses(addr, len) == len = 0 \/ len > 4 \/ Offset(addr) + len > 4

-----------------------------------------------------------------------------
\* picosoc_mem: the lanes whose wen is set

Written(old, wdata, wstrb) ==
  LET lane(i) == Shifted(Lane(IF i \in wstrb THEN wdata ELSE old, i), i)
  IN lane(0) + lane(1) + lane(2) + lane(3)

\* Spike calls the memory interface.
Call ==
  /\ access = Idle
  /\ access' \in
       [op : {"load"}, addr : RamAddr, len : 0 .. 5]
       \cup UNION {[op : {"store"}, addr : RamAddr, len : {n}, data : [1 .. n -> Byte]] : n \in 0 .. 5}
  /\ answer' = NoReply
  /\ UNCHANGED memory

mmio_refused ==
  /\ access # Idle /\ Refuses(access.addr, access.len)
  /\ answer' = Refused /\ access' = Idle
  /\ UNCHANGED memory

mmio_load ==
  /\ access.op = "load" /\ ~Refuses(access.addr, access.len)
  /\ answer' = <<"done", unpack_load_data(access.addr, access.len, memory[access.addr \div 4])>>
  /\ access' = Idle
  /\ UNCHANGED memory

mmio_store ==
  /\ access.op = "store" /\ ~Refuses(access.addr, access.len)
  /\ memory' = [memory EXCEPT ![access.addr \div 4] =
       Written(@, pack_store_data(access.addr, access.data),
                  pack_store_strobe(access.addr, access.len))]
  /\ answer' = <<"done", <<>>>>
  /\ access' = Idle

Init ==
  /\ memory = [w \in 0 .. RamWords - 1 |-> 0]
  /\ access = Idle /\ answer = NoReply

Next == Call \/ mmio_refused \/ mmio_load \/ mmio_store

Spec == Init /\ [][Next]_vars

-----------------------------------------------------------------------------
\* Properties

\* The shape of the state.
TypeOK ==
  /\ memory \in [0 .. RamWords - 1 -> 0 .. WordSize - 1]
  /\ Len(answer) = 2 => \A i \in 1 .. Len(answer[2]) : answer[2][i] \in Byte

\* Packing, strobes, write enables and unpacking together are a memory of bytes: a
\* sub-word store changes its bytes and no others, a load returns the bytes it asked
\* for, and an access across a word is refused with nothing done.
Memory == INSTANCE ByteMemory
  WITH Size <- 4 * RamWords, Bytes <- Byte, reply <- answer,
       bytes <- [a \in RamAddr |-> Lane(memory[a \div 4], a % 4)]
LanesAreBytes == Memory!Spec
=============================================================================
