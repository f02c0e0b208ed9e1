----------------------------- MODULE ByteMemory -----------------------------
(***************************************************************************)
(* What Spike expects of the bus it stores to and loads from: a memory of   *)
(* bytes.  An access of up to four bytes that stays within an aligned word  *)
(* is done; any other is refused and changes nothing.                       *)
(***************************************************************************)
EXTENDS Integers, Sequences

CONSTANTS Size, Bytes   \* of the memory

VARIABLES bytes, access, reply

Address == 0 .. Size - 1
InWord(a, n) == n > 0 /\ \E w \in 0 .. Size \div 4 - 1 : a .. a + n - 1 \subseteq 4 * w .. 4 * w + 3
Idle == [op |-> "none"]
NoReply == <<"none">>
Refused == <<"refused">>
Accesses ==
  [op : {"load"}, addr : Address, len : 0 .. 5]
  \cup UNION {[op : {"store"}, addr : Address, len : {n}, data : [1 .. n -> Bytes]] : n \in 0 .. 5}

Init == bytes = [a \in Address |-> 0] /\ access = Idle /\ reply = NoReply

Ask ==
  /\ access = Idle /\ access' \in Accesses
  /\ reply' = NoReply
  /\ UNCHANGED bytes

Answer ==
  LET covered == access.addr .. access.addr + access.len - 1 IN
  /\ access # Idle /\ access' = Idle
  /\ IF ~InWord(access.addr, access.len)
       THEN reply' = Refused /\ UNCHANGED bytes
       ELSE CASE access.op = "load" ->
                   /\ reply' = <<"done", [i \in 1 .. access.len |-> bytes[access.addr + i - 1]]>>
                   /\ UNCHANGED bytes
              [] access.op = "store" ->
                   /\ reply' = <<"done", <<>>>>
                   /\ bytes' = [a \in Address |-> IF a \in covered
                                  THEN access.data[a - access.addr + 1] ELSE bytes[a]]

Next == Ask \/ Answer

Spec == Init /\ [][Next]_<<bytes, access, reply>>
=============================================================================
