---------------------------- MODULE LanesProofs ----------------------------
(***************************************************************************)
(* The lanes of BusLanes are a memory of bytes, for every number of values *)
(* a byte has and every size of the RAM.  A word is written as the four    *)
(* digits it is made of, and a lane as the quotient and remainder that     *)
(* take one of them out; packing and writing are then seen to put bytes    *)
(* where the lanes are read.                                               *)
(***************************************************************************)
EXTENDS BusLanes, TLAPS

-----------------------------------------------------------------------------
(* Words and lanes.                                                        *)

\* Quotient and remainder of a product and a rest.
LEMMA DivMod ==
  ASSUME NEW b \in Nat \ {0}, NEW q \in Nat, NEW r \in 0 .. b - 1
  PROVE  (q * b + r) \div b = q /\ (q * b + r) % b = r
BY SMTT(30)

\* Each lane is ByteSize times the one below it.
LEMMA Weights ==
  /\ Weight[0] = 1 /\ Weight[1] = ByteSize
  /\ Weight[2] = ByteSize * Weight[1] /\ Weight[3] = ByteSize * Weight[2]
  /\ Weight[4] = ByteSize * Weight[3]
  /\ \A i \in 0 .. 4 : Weight[i] \in Nat \ {0}
<1>1. /\ Weight[0] = 1 /\ Weight[1] = ByteSize
      /\ Weight[2] = ByteSize * ByteSize
      /\ Weight[3] = ByteSize * ByteSize * ByteSize
      /\ Weight[4] = ByteSize * ByteSize * ByteSize * ByteSize
  BY DEF Weight
<1>2. \A a, b \in Nat \ {0} : a * b \in Nat \ {0}
  OBVIOUS
<1>3. Weight[1] \in Nat \ {0}
  BY <1>1, LanesAssumption
<1>4. Weight[2] = ByteSize * Weight[1] /\ Weight[2] \in Nat \ {0}
  BY <1>1, <1>2, <1>3, LanesAssumption
<1>5. Weight[3] = ByteSize * Weight[2] /\ Weight[3] \in Nat \ {0}
  BY <1>1, <1>2, <1>4, LanesAssumption
<1>6. Weight[4] = ByteSize * Weight[3] /\ Weight[4] \in Nat \ {0}
  BY <1>1, <1>2, <1>5, LanesAssumption
<1> QED BY <1>1, <1>3, <1>4, <1>5, <1>6

\* A number below m and a byte above it are a number below ByteSize * m.
LEMMA Below ==
  ASSUME NEW m \in Nat \ {0}, NEW r \in 0 .. m - 1, NEW d \in Byte
  PROVE  r + d * m \in 0 .. ByteSize * m - 1
<1>1. ByteSize \in Nat \ {0} /\ d \in Nat /\ d + 1 <= ByteSize
  BY LanesAssumption DEF Byte
<1>2. \A a, b, c \in Nat : a <= b => a * c <= b * c
  BY SMTT(30)
<1>3. (d + 1) * m <= ByteSize * m
  BY <1>1, <1>2
<1>4. (d + 1) * m = d * m + m
  BY <1>1
<1>5. d * m \in Nat /\ ByteSize * m \in Nat
  BY <1>1
<1> QED BY <1>1, <1>3, <1>4, <1>5

\* A lane is the last digit of what the lanes below it leave.
LEMMA LaneAbove ==
  ASSUME NEW i \in 0 .. 3, NEW q \in Nat, NEW r \in 0 .. Weight[i] - 1
  PROVE  Lane(q * Weight[i] + r, i) = q % ByteSize
<1>1. Weight[i] \in Nat \ {0}
  BY Weights
<1>2. (q * Weight[i] + r) \div Weight[i] = q
  BY <1>1, DivMod
<1> QED BY <1>2 DEF Lane

\* The word whose lanes are four given bytes.
WordOf(a, b, c, d) == a + b * Weight[1] + c * Weight[2] + d * Weight[3]

\* That word is one, and its lanes are the bytes.
LEMMA Lanes ==
  ASSUME NEW a \in Byte, NEW b \in Byte, NEW c \in Byte, NEW d \in Byte
  PROVE  /\ WordOf(a, b, c, d) \in 0 .. WordSize - 1
         /\ Lane(WordOf(a, b, c, d), 0) = a /\ Lane(WordOf(a, b, c, d), 1) = b
         /\ Lane(WordOf(a, b, c, d), 2) = c /\ Lane(WordOf(a, b, c, d), 3) = d
<1> DEFINE n == ByteSize  w == WordOf(a, b, c, d)
<1>0. /\ n \in Nat \ {0} /\ a \in Nat /\ b \in Nat /\ c \in Nat /\ d \in Nat
      /\ a \in 0 .. n - 1 /\ b \in 0 .. n - 1 /\ c \in 0 .. n - 1 /\ d \in 0 .. n - 1
  BY LanesAssumption DEF Byte
<1>1. /\ Weight[0] = 1 /\ Weight[1] = n /\ Weight[2] = n * Weight[1]
      /\ Weight[3] = n * Weight[2] /\ WordSize = n * Weight[3]
      /\ \A i \in 0 .. 4 : Weight[i] \in Nat \ {0}
  BY Weights DEF WordSize
<1>2. a + b * Weight[1] \in 0 .. Weight[2] - 1
  BY <1>0, <1>1, Below
<1>3. a + b * Weight[1] + c * Weight[2] \in 0 .. Weight[3] - 1
  BY <1>1, <1>2, Below
<1>4. w \in 0 .. WordSize - 1
  BY <1>1, <1>3, Below DEF WordOf
<1>5. \A x, y, z \in Nat : x * y \in Nat /\ (x + y * n) * z = x * z + y * (n * z)
  BY <1>0, SMTT(30)
<1>6. /\ d \in Nat /\ c + d * n \in Nat /\ b + (c + d * n) * n \in Nat
  BY <1>0, <1>5
<1>7. /\ w = (c + d * n) * Weight[2] + (a + b * Weight[1])
      /\ w = d * Weight[3] + (a + b * Weight[1] + c * Weight[2])
  <2>1. (c + d * n) * Weight[2] = c * Weight[2] + d * Weight[3]
    BY <1>0, <1>1, <1>5
  <2>2. b * Weight[1] \in Nat /\ c * Weight[2] \in Nat /\ d * Weight[3] \in Nat
    BY <1>0, <1>1, <1>5
  <2> QED BY <1>0, <2>1, <2>2 DEF WordOf
<1>8. w = (b + (c + d * n) * n) * Weight[1] + a
  <2>1. (b + (c + d * n) * n) * Weight[1] = b * Weight[1] + (c + d * n) * Weight[2]
    BY <1>0, <1>1, <1>5, <1>6
  <2>2. b * Weight[1] \in Nat /\ (c + d * n) * Weight[2] \in Nat
    BY <1>0, <1>1, <1>5, <1>6
  <2> QED BY <1>0, <1>7, <2>1, <2>2
<1> DEFINE e == c + d * n  f == b + e * n
<1>9. e \in Nat /\ f \in Nat /\ a + b * Weight[1] \in Nat
  BY <1>0, <1>1, <1>5, <1>6
<1>10. w = e * Weight[2] + (a + b * Weight[1]) /\ w = f * Weight[1] + a
  BY <1>7, <1>8
<1>11. (0 * n + d) % n = d /\ (d * n + c) % n = c /\ (e * n + b) % n = b /\ (f * n + a) % n = a
  BY <1>0, <1>9, DivMod
<1>12. d % n = d /\ e % n = c /\ f % n = b /\ w % n = a
  <2>1. d = 0 * n + d /\ e = d * n + c /\ f = e * n + b /\ w = f * n + a
    BY <1>0, <1>1, <1>5, <1>8, <1>9
  <2> QED BY <1>11, <2>1
<1>13. a \in 0 .. Weight[1] - 1 /\ 0 \in 0 .. Weight[0] - 1 /\ w = w * Weight[0] + 0 /\ w \in Nat
  BY <1>0, <1>1, <1>4
<1>14. Lane(d * Weight[3] + (a + b * Weight[1] + c * Weight[2]), 3) = d % n
  BY <1>0, <1>3, LaneAbove
<1>15. Lane(e * Weight[2] + (a + b * Weight[1]), 2) = e % n
  BY <1>2, <1>9, LaneAbove
<1>16. Lane(f * Weight[1] + a, 1) = f % n
  BY <1>9, <1>13, LaneAbove
<1>17. Lane(w * Weight[0] + 0, 0) = w % n
  BY <1>13, LaneAbove
<1>18. Lane(w, 3) = d /\ Lane(w, 2) = c /\ Lane(w, 1) = b /\ Lane(w, 0) = a
  BY <1>7, <1>10, <1>12, <1>13, <1>14, <1>15, <1>16, <1>17, Zenon
<1> QED BY <1>4, <1>18

\* A lane of a word is a byte.
LEMMA LaneByte ==
  ASSUME NEW w \in Nat, NEW i \in 0 .. 3
  PROVE  Lane(w, i) \in Byte
<1>1. \A m \in Nat \ {0} : w \div m \in Nat
  BY SMTT(30)
<1>2. w \div Weight[i] \in Nat
  BY <1>1, Weights
<1> QED BY <1>2, LanesAssumption DEF Lane, Byte

\* picosoc_mem: the lanes whose strobe is set are the written word's, the others stay.
LEMMA WrittenLanes ==
  ASSUME NEW old \in Nat, NEW wdata \in Nat, NEW wstrb
  PROVE  /\ Written(old, wdata, wstrb) \in 0 .. WordSize - 1
         /\ \A i \in 0 .. 3 :
              /\ i \in wstrb => Lane(Written(old, wdata, wstrb), i) = Lane(wdata, i)
              /\ i \notin wstrb => Lane(Written(old, wdata, wstrb), i) = Lane(old, i)
<1> DEFINE from(i) == IF i \in wstrb THEN wdata ELSE old
           l(i) == Lane(from(i), i)
<1>1. \A i \in 0 .. 3 : l(i) \in Byte
  BY LaneByte
<1>2. Written(old, wdata, wstrb) = WordOf(l(0), l(1), l(2), l(3))
  <2>1. l(0) * Weight[0] = l(0)
    BY <1>1, Weights DEF Byte
  <2>2. Written(old, wdata, wstrb)
          = l(0) * Weight[0] + l(1) * Weight[1] + l(2) * Weight[2] + l(3) * Weight[3]
    BY Zenon DEF Written, Shifted
  <2> QED BY <2>1, <2>2 DEF WordOf
<1> HIDE DEF l
<1>3. /\ WordOf(l(0), l(1), l(2), l(3)) \in 0 .. WordSize - 1
      /\ Lane(WordOf(l(0), l(1), l(2), l(3)), 0) = l(0)
      /\ Lane(WordOf(l(0), l(1), l(2), l(3)), 1) = l(1)
      /\ Lane(WordOf(l(0), l(1), l(2), l(3)), 2) = l(2)
      /\ Lane(WordOf(l(0), l(1), l(2), l(3)), 3) = l(3)
  BY <1>1, Lanes
<1>4. \A i \in 0 .. 3 : Lane(Written(old, wdata, wstrb), i) = l(i)
  BY <1>2, <1>3
<1> QED BY <1>2, <1>3, <1>4 DEF l

\* Under a set strobe the lane is the written word's.
LEMMA WrittenInside ==
  ASSUME NEW old \in Nat, NEW wdata \in Nat, NEW wstrb, NEW i \in 0 .. 3, i \in wstrb
  PROVE  Lane(Written(old, wdata, wstrb), i) = Lane(wdata, i)
BY WrittenLanes

\* Under a clear strobe the lane is the old word's.
LEMMA WrittenOutside ==
  ASSUME NEW old \in Nat, NEW wdata \in Nat, NEW wstrb, NEW i \in 0 .. 3, i \notin wstrb
  PROVE  Lane(Written(old, wdata, wstrb), i) = Lane(old, i)
BY WrittenLanes

\* The store the bus carries for an access within a word: under its strobes lie its bytes.
LEMMA PackedLanes ==
  ASSUME NEW addr \in Nat, NEW n \in 1 .. 4, Offset(addr) + n <= 4, NEW data \in [1 .. n -> Byte]
  PROVE  /\ pack_store_data(addr, data) \in 0 .. WordSize - 1
         /\ \A i \in pack_store_strobe(addr, n) :
              Lane(pack_store_data(addr, data), i) = data[i - Offset(addr) + 1]
<1> DEFINE o == Offset(addr)
           l(i) == IF o <= i /\ i < o + n THEN data[i - o + 1] ELSE 0
           part(i) == IF i <= n THEN data[i] * Weight[o + i - 1] ELSE 0
<1>1. o \in 0 .. 3
  BY DEF Offset
<1>2. 0 \in Byte /\ Byte \subseteq Nat /\ \A x \in Byte : x * Weight[0] = x
  BY LanesAssumption, Weights DEF Byte
<1>3. \A i \in 0 .. 3 : l(i) \in Byte
  BY <1>1, <1>2
<1>4. Len(data) = n
  OBVIOUS
<1>5. \A i \in 1 .. 4 : part(i) = IF i <= n THEN l(o + i - 1) * Weight[o + i - 1] ELSE 0
  BY <1>1
<1>6. \A i \in 0 .. 3 : l(i) * Weight[i] \in Nat /\ (i < o \/ i >= o + n => l(i) * Weight[i] = 0)
  <2>1. \A x, y \in Nat : x * y \in Nat /\ 0 * y = 0
    OBVIOUS
  <2>2. \A i \in 0 .. 3 : l(i) \in Nat /\ Weight[i] \in Nat
    <3> HIDE DEF l
    <3>1. \A i \in 0 .. 3 : Weight[i] \in Nat
      BY Weights
    <3> QED BY <1>2, <1>3, <3>1, Zenon
  <2>3. \A i \in 0 .. 3 : i < o \/ i >= o + n => l(i) = 0
    BY <1>1
  <2> HIDE DEF l, o
  <2> QED BY <2>1, <2>2, <2>3
<1>7. part(1) + part(2) + part(3) + part(4) = WordOf(l(0), l(1), l(2), l(3))
  <2> DEFINE term(i) == l(i) * Weight[i]
  <2>1. WordOf(l(0), l(1), l(2), l(3)) = term(0) + term(1) + term(2) + term(3)
    <3> HIDE DEF l
    <3>1. l(0) = term(0)
      BY <1>2, <1>3, 0 \in 0 .. 3
    <3> QED BY <3>1 DEF WordOf
  <2>2. /\ part(1) = IF 1 <= n THEN term(o + 0) ELSE 0
        /\ part(2) = IF 2 <= n THEN term(o + 1) ELSE 0
        /\ part(3) = IF 3 <= n THEN term(o + 2) ELSE 0
        /\ part(4) = IF 4 <= n THEN term(o + 3) ELSE 0
    BY <1>1, <1>5
  <2>3. /\ term(0) \in Nat /\ (0 < o \/ 0 >= o + n => term(0) = 0)
        /\ term(1) \in Nat /\ (1 < o \/ 1 >= o + n => term(1) = 0)
        /\ term(2) \in Nat /\ (2 < o \/ 2 >= o + n => term(2) = 0)
        /\ term(3) \in Nat /\ (3 < o \/ 3 >= o + n => term(3) = 0)
    BY <1>6
  <2> HIDE DEF term, part, l, o
  <2>4. o + n <= 4
    BY DEF o
  <2>5. CASE o = 0
    BY <2>1, <2>2, <2>3, <2>4, <2>5
  <2>6. CASE o = 1
    BY <2>1, <2>2, <2>3, <2>4, <2>6
  <2>7. CASE o = 2
    <3>1. /\ part(1) = term(2) /\ part(2) = IF 2 <= n THEN term(3) ELSE 0
          /\ part(3) = 0 /\ part(4) = 0
      BY <2>2, <2>4, <2>7
    <3>2. /\ term(0) = 0 /\ term(1) = 0 /\ term(2) \in Nat /\ term(3) \in Nat
          /\ n = 1 \/ n = 2
          /\ n = 1 => term(3) = 0
      BY <2>3, <2>4, <2>7
    <3> QED BY <2>1, <3>1, <3>2
  <2>8. CASE o = 3
    <3>1. part(1) = term(3) /\ part(2) = 0 /\ part(3) = 0 /\ part(4) = 0
      BY <2>2, <2>4, <2>8
    <3> QED BY <2>1, <2>3, <2>8, <3>1
  <2> QED BY <1>1, <2>5, <2>6, <2>7, <2>8
<1>8. pack_store_data(addr, data) = (part(1) + part(2) + part(3) + part(4)) % WordSize
  BY <1>4, Zenon DEF pack_store_data, Shifted
<1> HIDE DEF l, part
<1>9. /\ WordOf(l(0), l(1), l(2), l(3)) \in 0 .. WordSize - 1
      /\ Lane(WordOf(l(0), l(1), l(2), l(3)), 0) = l(0)
      /\ Lane(WordOf(l(0), l(1), l(2), l(3)), 1) = l(1)
      /\ Lane(WordOf(l(0), l(1), l(2), l(3)), 2) = l(2)
      /\ Lane(WordOf(l(0), l(1), l(2), l(3)), 3) = l(3)
  BY <1>3, Lanes
<1>10. pack_store_data(addr, data) = WordOf(l(0), l(1), l(2), l(3))
  <2>1. WordSize \in Nat \ {0}
    BY Weights DEF WordSize
  <2> QED BY <1>7, <1>8, <1>9, <2>1
<1>11. \A i \in 0 .. 3 : Lane(pack_store_data(addr, data), i) = l(i)
  BY <1>9, <1>10
<1>12. \A i \in pack_store_strobe(addr, n) : i \in 0 .. 3 /\ l(i) = data[i - o + 1]
  BY DEF pack_store_strobe, l
<1> QED BY <1>9, <1>10, <1>11, <1>12

-----------------------------------------------------------------------------
(* The invariant, and the memory of bytes.                                   *)

\* The calls of mmio_store and mmio_load.
Stores ==
  UNION {[op : {"store"}, addr : RamAddr, len : {n}, data : [1 .. n -> Byte]] : n \in 0 .. 5}
Loads == [op : {"load"}, addr : RamAddr, len : 0 .. 5]

\* What Spike may have asked for.
AccessOK == access \in Loads \cup Stores \cup {Idle}

\* The fields of a call.
LEMMA AccessTypes ==
  ASSUME AccessOK, access # Idle
  PROVE  /\ access.addr \in RamAddr /\ access.len \in 0 .. 5
         /\ access.op = "load" \/ (access.op = "store" /\ access.data \in [1 .. access.len -> Byte])
<1>1. CASE access \in Loads
  <2>1. access.op = "load" /\ access.addr \in RamAddr /\ access.len \in 0 .. 5
    BY <1>1 DEF Loads
  <2> QED BY <2>1
<1>2. CASE access \in Stores
  <2>1. PICK n \in 0 .. 5 :
          access \in [op : {"store"}, addr : RamAddr, len : {n}, data : [1 .. n -> Byte]]
    BY <1>2 DEF Stores
  <2>2. access.op = "store" /\ access.addr \in RamAddr /\ access.len = n /\ access.data \in [1 .. n -> Byte]
    BY <2>1
  <2> QED BY <2>2
<1> QED BY <1>1, <1>2 DEF AccessOK

\* No call is none of them.
LEMMA IdleOp == Idle.op = "none"
BY DEF Idle

\* A byte address is a lane of a word.
LEMMA Cells ==
  ASSUME NEW a \in RamAddr
  PROVE  /\ a \in Nat /\ a \div 4 \in 0 .. RamWords - 1 /\ a % 4 \in 0 .. 3
         /\ a = 4 * (a \div 4) + (a % 4)
<1> DEFINE n == RamWords
<1>1. n \in Nat /\ a \in Nat /\ a <= 4 * n - 1
  BY LanesAssumption DEF RamAddr
<1> HIDE DEF n
<1>2. a \div 4 \in 0 .. n - 1 /\ a % 4 \in 0 .. 3
  BY <1>1
<1>3. a = 4 * (a \div 4) + (a % 4)
  BY <1>1
<1> QED BY <1>1, <1>2, <1>3 DEF n

\* issue_bus_request refuses the accesses that are not within a word, and no others.
LEMMA RefusedOutside ==
  ASSUME NEW a \in RamAddr, NEW n \in 0 .. 5
  PROVE  Refuses(a, n) <=> ~Memory!InWord(a, n)
<1>0. /\ a \in Nat /\ a \div 4 \in 0 .. RamWords - 1 /\ a % 4 \in 0 .. 3
      /\ a = 4 * (a \div 4) + (a % 4) /\ RamWords \in Nat
  BY Cells, LanesAssumption
<1>1. (4 * RamWords) \div 4 = RamWords
  BY <1>0
<1>2. ASSUME ~Refuses(a, n) PROVE Memory!InWord(a, n)
  <2> DEFINE w == a \div 4
  <2>1. n > 0 /\ (a % 4) + n <= 4
    BY <1>0, <1>2 DEF Refuses, Offset
  <2>2. a .. a + n - 1 \subseteq 4 * w .. 4 * w + 3
    BY <1>0, <2>1
  <2> QED BY <1>0, <1>1, <2>1, <2>2 DEF Memory!InWord
<1>3. ASSUME Memory!InWord(a, n) PROVE ~Refuses(a, n)
  <2>1. PICK w \in 0 .. RamWords - 1 : a .. a + n - 1 \subseteq 4 * w .. 4 * w + 3
    BY <1>1, <1>3 DEF Memory!InWord
  <2>2. n > 0 /\ a \in a .. a + n - 1 /\ a + n - 1 \in a .. a + n - 1
    BY <1>0, <1>3 DEF Memory!InWord
  <2>3. a \in 4 * w .. 4 * w + 3 /\ a + n - 1 \in 4 * w .. 4 * w + 3
    BY <2>1, <2>2
  <2> QED BY <1>0, <2>2, <2>3 DEF Refuses, Offset
<1> QED BY <1>2, <1>3

\* An access that is not refused lies within a word of the RAM.
LEMMA Accepted ==
  ASSUME AccessOK, access # Idle, ~Refuses(access.addr, access.len)
  PROVE  /\ access.addr \in RamAddr /\ access.addr \in Nat
         /\ access.addr \div 4 \in 0 .. RamWords - 1 /\ Offset(access.addr) \in 0 .. 3
         /\ access.len \in 1 .. 4 /\ Offset(access.addr) + access.len <= 4
<1> DEFINE a == access.addr  n == access.len
<1>1. a \in RamAddr /\ n \in 0 .. 5
  BY AccessTypes
<1>2. ~Refuses(a, n)
  OBVIOUS
<1> HIDE DEF a, n
<1>3. a \in Nat /\ a \div 4 \in 0 .. RamWords - 1 /\ Offset(a) \in 0 .. 3
  BY <1>1, Cells DEF Offset
<1>4. n \in 1 .. 4 /\ Offset(a) + n <= 4
  BY <1>1, <1>2, <1>3 DEF Refuses
<1> QED BY <1>1, <1>3, <1>4 DEF a, n

\* Every step keeps the types and the shape of a call.
LEMMA Inductive == TypeOK /\ AccessOK /\ [Next]_vars => TypeOK' /\ AccessOK'
<1> SUFFICES ASSUME TypeOK, AccessOK, [Next]_vars PROVE TypeOK' /\ AccessOK'
  OBVIOUS
<1>0. Len(NoReply) = 1 /\ Len(Refused) = 1
  BY DEF NoReply, Refused
<1>1. CASE Call
  <2>1. access' \in Loads \cup Stores /\ answer' = NoReply /\ UNCHANGED memory
    BY <1>1 DEF Call, Loads, Stores
  <2> QED BY <1>0, <2>1 DEF TypeOK, AccessOK
<1>2. CASE mmio_refused
  BY <1>0, <1>2 DEF mmio_refused, TypeOK, AccessOK
<1>3. CASE mmio_load
  <2>1. access # Idle /\ access' = Idle /\ UNCHANGED memory
    BY <1>3, IdleOp DEF mmio_load
  <2>2. /\ access.addr \in RamAddr /\ access.addr \div 4 \in 0 .. RamWords - 1
        /\ Offset(access.addr) \in 0 .. 3
        /\ access.len \in 1 .. 4 /\ Offset(access.addr) + access.len <= 4
    BY <1>3, <2>1, Accepted, Zenon DEF mmio_load
  <2> DEFINE bytes == unpack_load_data(access.addr, access.len, memory[access.addr \div 4])
  <2>3. memory[access.addr \div 4] \in Nat
    BY <2>2, Weights DEF TypeOK, WordSize
  <2>4. \A i \in 1 .. access.len : Offset(access.addr) + i - 1 \in 0 .. 3
    BY <2>2, <2>3
  <2>5. bytes \in [1 .. access.len -> Byte]
    BY <2>3, <2>4, LaneByte DEF unpack_load_data
  <2>6. Len(bytes) = access.len
    BY <2>2, <2>5
  <2>7. answer' = <<"done", bytes>>
    BY <1>3 DEF mmio_load
  <2> HIDE DEF bytes
  <2>8. \A i \in 1 .. Len(answer'[2]) : answer'[2][i] \in Byte
    BY <2>5, <2>6, <2>7
  <2> QED BY <2>1, <2>8 DEF TypeOK, AccessOK
<1>4. CASE mmio_store
  <2>1. access # Idle /\ access' = Idle /\ answer' = <<"done", <<>>>>
    BY <1>4, IdleOp DEF mmio_store
  <2>2. /\ access.addr \in Nat /\ access.addr \div 4 \in 0 .. RamWords - 1
        /\ access.len \in 1 .. 4 /\ Offset(access.addr) + access.len <= 4
    BY <1>4, <2>1, Accepted, Zenon DEF mmio_store
  <2> DEFINE w == access.addr \div 4
             new == Written(memory[w], pack_store_data(access.addr, access.data),
                            pack_store_strobe(access.addr, access.len))
  <2>3. w \in 0 .. RamWords - 1 /\ memory[w] \in Nat
    BY <2>2, Weights DEF TypeOK, WordSize
  <2>4. pack_store_data(access.addr, access.data) \in Nat
    <3>1. access.data \in [1 .. access.len -> Byte]
      BY <1>4, <2>1, AccessTypes DEF mmio_store
    <3>2. pack_store_data(access.addr, access.data) \in 0 .. WordSize - 1
      BY <2>2, <3>1, PackedLanes
    <3> QED BY <3>2, Weights DEF WordSize
  <2>5. new \in 0 .. WordSize - 1
    BY <2>3, <2>4, WrittenLanes
  <2>6. memory' = [memory EXCEPT ![w] = new]
    BY <1>4 DEF mmio_store
  <2> HIDE DEF new, w
  <2>7. memory' \in [0 .. RamWords - 1 -> 0 .. WordSize - 1]
    BY <2>3, <2>5, <2>6 DEF TypeOK
  <2>8. Len(answer'[2]) = 0
    BY <2>1
  <2> QED BY <2>1, <2>7, <2>8 DEF TypeOK, AccessOK
<1>5. CASE UNCHANGED vars
  BY <1>5 DEF vars, TypeOK, AccessOK
<1> QED BY <1>1, <1>2, <1>3, <1>4, <1>5 DEF Next

\* What picosoc_mem writes stays a word and what a load unpacks are bytes, for every size
\* of a byte and of the RAM.
THEOREM LanesTypeCorrect == Spec => []TypeOK
<1>1. Init => TypeOK /\ AccessOK
  BY LanesAssumption, Weights DEF Init, TypeOK, AccessOK, WordSize, NoReply
<1> QED BY <1>1, Inductive, PTL DEF Spec

\* The cells of an access within a word are lanes of that word.
LEMMA Covered ==
  ASSUME NEW a \in RamAddr, NEW n \in 1 .. 4, Offset(a) + n <= 4
  PROVE  /\ \A i \in 1 .. n : /\ a + i - 1 \in RamAddr
                              /\ (a + i - 1) \div 4 = a \div 4
                              /\ (a + i - 1) % 4 = Offset(a) + i - 1
         /\ \A c \in RamAddr : c \in a .. a + n - 1 <=>
              c \div 4 = a \div 4 /\ c % 4 \in pack_store_strobe(a, n)
         /\ \A c \in RamAddr : c \div 4 = a \div 4 => (c % 4) - Offset(a) = c - a
<1> DEFINE w == a \div 4  o == Offset(a)
<1>1. /\ a \in Nat /\ w \in 0 .. RamWords - 1 /\ o \in 0 .. 3 /\ a = 4 * w + o
      /\ RamWords \in Nat /\ o + n <= 4
  BY Cells, LanesAssumption DEF Offset
<1> HIDE DEF w, o
<1>2. ASSUME NEW i \in 1 .. n
      PROVE  /\ a + i - 1 \in RamAddr
             /\ (a + i - 1) \div 4 = w
             /\ (a + i - 1) % 4 = o + i - 1
  <2>1. o + i - 1 \in 0 .. 3 /\ a + i - 1 = 4 * w + (o + i - 1)
    BY <1>1
  <2>2. \A k \in 0 .. 3 : (4 * w + k) \div 4 = w /\ (4 * w + k) % 4 = k
    BY <1>1
  <2>3. 4 * w + (o + i - 1) \in 0 .. 4 * RamWords - 1
    BY <1>1, <2>1
  <2> QED BY <2>1, <2>2, <2>3 DEF RamAddr
<1>3. ASSUME NEW c \in RamAddr
      PROVE  /\ c \in a .. a + n - 1 <=> c \div 4 = w /\ c % 4 \in pack_store_strobe(a, n)
             /\ c \div 4 = w => (c % 4) - o = c - a
  <2> DEFINE v == c \div 4  k == c % 4
  <2>1. c \in Nat /\ v \in 0 .. RamWords - 1 /\ k \in 0 .. 3 /\ c = 4 * v + k
    BY Cells
  <2> HIDE DEF v, k
  <2>2. c \in a .. a + n - 1 <=> v = w /\ k >= o /\ k < o + n
    BY <1>1, <2>1
  <2>3. k \in pack_store_strobe(a, n) <=> k >= o /\ k < o + n
    BY <2>1 DEF pack_store_strobe, o
  <2>4. v = w => k - o = c - a
    BY <1>1, <2>1
  <2> QED BY <2>2, <2>3, <2>4 DEF v, k
<1> QED BY <1>2, <1>3 DEF w, o

\* A load that is done returns the bytes of its cells.
LEMMA LoadStep ==
  ASSUME TypeOK, AccessOK, mmio_load
  PROVE  Memory!Answer
<1> DEFINE a == access.addr  n == access.len
           bytes == [c \in RamAddr |-> Lane(memory[c \div 4], c % 4)]
<1>1. access # Idle /\ access.op = "load" /\ access' = Idle /\ UNCHANGED memory
  BY IdleOp DEF mmio_load
<1>2. /\ a \in RamAddr /\ n \in 1 .. 4 /\ Offset(a) + n <= 4 /\ ~Refuses(a, n)
  BY <1>1, Accepted DEF mmio_load
<1>3. Memory!InWord(a, n)
  BY <1>2, RefusedOutside
<1>4. unpack_load_data(a, n, memory[a \div 4]) = [i \in 1 .. n |-> bytes[a + i - 1]]
  <2>1. \A i \in 1 .. n : bytes[a + i - 1] = Lane(memory[a \div 4], Offset(a) + i - 1)
    BY <1>2, Covered
  <2> QED BY <2>1, Zenon DEF unpack_load_data
<1>5. answer' = <<"done", [i \in 1 .. n |-> bytes[a + i - 1]]>>
  BY <1>4 DEF mmio_load
<1>6. UNCHANGED bytes
  BY <1>1
<1> QED BY <1>1, <1>3, <1>5, <1>6, Zenon DEF Memory!Answer, Memory!Idle, Idle

\* A store that is done changes the bytes of its cells and no others.
LEMMA StoreStep ==
  ASSUME TypeOK, AccessOK, mmio_store
  PROVE  Memory!Answer
<1> DEFINE a == access.addr  n == access.len  w == a \div 4
           wdata == pack_store_data(a, access.data)
           wstrb == pack_store_strobe(a, n)
           bytes == [c \in RamAddr |-> Lane(memory[c \div 4], c % 4)]
<1>1. access # Idle /\ access.op = "store" /\ access' = Idle /\ answer' = <<"done", <<>>>>
  BY IdleOp DEF mmio_store
<1>2. /\ a \in RamAddr /\ a \in Nat /\ n \in 1 .. 4 /\ Offset(a) + n <= 4 /\ ~Refuses(a, n)
      /\ w \in 0 .. RamWords - 1
  BY <1>1, Accepted DEF mmio_store
<1>3. access.data \in [1 .. n -> Byte]
  BY <1>1, AccessTypes
<1>4. Memory!InWord(a, n)
  BY <1>2, RefusedOutside
<1>5. /\ wdata \in Nat
      /\ \A i \in wstrb : Lane(wdata, i) = access.data[i - Offset(a) + 1]
  <2>1. wdata \in 0 .. WordSize - 1
    BY <1>2, <1>3, PackedLanes
  <2>2. \A i \in wstrb : Lane(wdata, i) = access.data[i - Offset(a) + 1]
    BY <1>2, <1>3, PackedLanes
  <2> QED BY <2>1, <2>2, Weights DEF WordSize
<1>6. memory' = [memory EXCEPT ![w] = Written(memory[w], wdata, wstrb)]
  BY DEF mmio_store
<1>7. memory[w] \in Nat /\ DOMAIN memory = 0 .. RamWords - 1
  BY <1>2, Weights DEF TypeOK, WordSize
<1> HIDE DEF wdata, wstrb, w
<1>8. \A i \in 0 .. 3 : Lane(memory'[w], i) = IF i \in wstrb THEN Lane(wdata, i) ELSE Lane(memory[w], i)
  <2>1. memory'[w] = Written(memory[w], wdata, wstrb)
    BY <1>2, <1>6, <1>7
  <2> SUFFICES ASSUME NEW i \in 0 .. 3
               PROVE  Lane(memory'[w], i) = IF i \in wstrb THEN Lane(wdata, i) ELSE Lane(memory[w], i)
    OBVIOUS
  <2>2. wdata \in Nat /\ memory[w] \in Nat
    BY <1>5, <1>7
  <2>3. ASSUME i \in wstrb PROVE Lane(Written(memory[w], wdata, wstrb), i) = Lane(wdata, i)
    BY <2>2, <2>3, WrittenInside, Zenon
  <2>4. ASSUME i \notin wstrb PROVE Lane(Written(memory[w], wdata, wstrb), i) = Lane(memory[w], i)
    BY <2>2, <2>4, WrittenOutside, Zenon
  <2> QED BY <2>1, <2>3, <2>4
<1>9. ASSUME NEW c \in RamAddr
      PROVE  Lane(memory'[c \div 4], c % 4) =
               IF c \in a .. a + n - 1 THEN access.data[c - a + 1] ELSE bytes[c]
  <2>1. c % 4 \in 0 .. 3 /\ bytes[c] = Lane(memory[c \div 4], c % 4)
    BY Cells
  <2>2. CASE c \div 4 = w
    <3>1. /\ c \in a .. a + n - 1 <=> c % 4 \in wstrb
          /\ (c % 4) - Offset(a) = c - a
      BY <1>2, <2>2, Covered DEF w, wstrb
    <3>2. Lane(memory'[w], c % 4) = IF c % 4 \in wstrb THEN Lane(wdata, c % 4) ELSE Lane(memory[w], c % 4)
      BY <1>8, <2>1
    <3> QED BY <1>5, <2>1, <2>2, <3>1, <3>2
  <2>3. CASE c \div 4 # w
    <3>1. c \notin a .. a + n - 1
      BY <1>2, <2>3, Covered DEF w
    <3>2. memory'[c \div 4] = memory[c \div 4]
      BY <1>6, <1>7, <2>3, Cells
    <3> QED BY <2>1, <3>1, <3>2
  <2> QED BY <2>2, <2>3
<1>10. bytes' = [c \in RamAddr |-> IF c \in a .. a + n - 1 THEN access.data[c - a + 1] ELSE bytes[c]]
  BY <1>9, Zenon
<1>11. Memory!Address = RamAddr
  BY DEF Memory!Address, RamAddr
<1> QED BY <1>1, <1>4, <1>10, <1>11 DEF Memory!Answer, Memory!Idle, Idle

\* Every step of the bus is one of the memory's.
LEMMA LanesStep ==
  TypeOK /\ AccessOK /\ [Next]_vars =>
    [Memory!Next]_<<[a \in RamAddr |-> Lane(memory[a \div 4], a % 4)], access, answer>>
<1> SUFFICES
      ASSUME TypeOK, AccessOK, [Next]_vars
      PROVE  [Memory!Next]_<<[a \in RamAddr |-> Lane(memory[a \div 4], a % 4)], access, answer>>
  OBVIOUS
<1>1. CASE Call
  <2>1. Memory!Accesses = Loads \cup Stores
    BY Zenon DEF Memory!Accesses, Memory!Address, Loads, Stores, RamAddr
  <2>2. access' \in Loads \cup Stores /\ access = Idle /\ answer' = NoReply /\ UNCHANGED memory
    BY <1>1, Zenon DEF Call, Loads, Stores
  <2> QED BY <2>1, <2>2 DEF Memory!Next, Memory!Ask, Memory!Idle, Memory!NoReply, Idle, NoReply
<1>2. CASE mmio_refused
  <2>1. /\ access # Idle /\ access' = Idle /\ answer' = Refused /\ UNCHANGED memory
        /\ Refuses(access.addr, access.len)
    BY <1>2 DEF mmio_refused
  <2>2. ~Memory!InWord(access.addr, access.len)
    BY <2>1, AccessTypes, RefusedOutside
  <2> QED BY <2>1, <2>2 DEF Memory!Next, Memory!Answer, Memory!Idle, Memory!Refused, Idle, Refused
<1>3. CASE mmio_load
  BY <1>3, LoadStep DEF Memory!Next
<1>4. CASE mmio_store
  BY <1>4, StoreStep DEF Memory!Next
<1>5. CASE UNCHANGED vars
  BY <1>5 DEF vars
<1> QED BY <1>1, <1>2, <1>3, <1>4, <1>5 DEF Next

\* pack_store_data, the strobes, the write enables of picosoc_mem and unpack_load_data
\* together are a memory of bytes: a store of one to four bytes changes those and no
\* others, a load returns what was stored, for every size of a byte and of the RAM.
THEOREM LanesTheorem == Spec => LanesAreBytes
<1>1. Init => Memory!Init
  <2> SUFFICES ASSUME Init PROVE Memory!Init
    OBVIOUS
  <2>1. \A i \in 0 .. 3 : Lane(0, i) = 0
    <3>1. \A m \in Nat \ {0} : 0 \div m = 0 /\ 0 % m = 0
      OBVIOUS
    <3> QED BY <3>1, Weights, LanesAssumption DEF Lane
  <2>2. \A c \in RamAddr : Lane(memory[c \div 4], c % 4) = 0
    BY <2>1, Cells DEF Init
  <2> QED BY <2>2 DEF Init, Memory!Init, Memory!Address, Memory!Idle, Memory!NoReply, RamAddr, Idle, NoReply
<1>2. Init => TypeOK /\ AccessOK
  BY LanesAssumption, Weights DEF Init, TypeOK, AccessOK, WordSize, NoReply
<1> QED BY <1>1, <1>2, Inductive, LanesStep, PTL DEF Spec, LanesAreBytes, Memory!Spec
=============================================================================
