---------------------------- MODULE VeerTbProofs ----------------------------
(***************************************************************************)
(* Theorems about VeerTb for every program, core, queue and sequence of     *)
(* edges.  The monitor's log is complete whichever way the process ends;    *)
(* the testbench is a client of the session, so that what CosimSession      *)
(* promises holds of it; the mailbox sees the program's stores in order;    *)
(* and the exit status and the verdict say what the core did.               *)
(***************************************************************************)
EXTENDS VeerTb, MonInstrProofs, CosimSessionProofs, FiniteSetTheorems

-----------------------------------------------------------------------------
(* The instruction monitor's log.                                           *)

\* While the testbench runs, the monitor's log is that of the retires so far, and it is
\* closed exactly when the testbench has finished the comparison.
LogFollows ==
  /\ retire_order \in Nat
  /\ gotFinish # "no" => cosim_ready
  /\ exit = "none" /\ ~cosim_ready => retire_order = 0 /\ ~cosim_finished
  /\ exit \in {"none", "final"} /\ cosim_ready =>
       LogSoFar(retire_order) /\ (cosim_finished <=> ~monitor.open)
  /\ exit = "final" => cosim_ready /\ cosim_finished

LogInv == LogFollows /\ MonitorLogComplete

-----------------------------------------------------------------------------

\* finish_cosim completes the log, or finds it complete.
LEMMA FinishCosimLogs ==
  ASSUME LogInv, exit = "none", cosim_ready, finish_cosim, UNCHANGED retire_order
  PROVE  LogSoFar(retire_order)' /\ ~monitor'.open /\ LogComplete(retire_order)' /\ cosim_finished'
<1>1. retire_order \in Nat /\ LogSoFar(retire_order) /\ (cosim_finished <=> ~monitor.open)
  BY DEF LogInv, LogFollows
<1>2. cosim_finished'
  BY DEF finish_cosim
<1>3. CASE cosim_finished
  <2>1. UNCHANGED <<monitor, mon_log>>
    BY <1>3 DEF finish_cosim, checks
  <2>2. LogSoFar(retire_order)' /\ ~monitor'.open
    BY <1>1, <1>3, <2>1 DEF LogSoFar, MonTypeOK
  <2>3. LogComplete(retire_order)'
    BY <2>2 DEF LogSoFar, LogComplete
  <2> QED BY <1>2, <2>2, <2>3
<1>4. CASE ~cosim_finished
  <2>1. mon_instr_finish
    BY <1>4 DEF finish_cosim, veer_cosim_finish
  <2>2. \A n \in Nat : LogSoFar(n) => LogSoFar(n)' /\ ~monitor'.open /\ LogComplete(n)'
    BY <2>1, FinishLogs
  <2>3. PICK n \in Nat : n = retire_order
    BY <1>1
  <2>4. LogSoFar(n)' /\ ~monitor'.open /\ LogComplete(n)' /\ retire_order' = n
    BY <1>1, <2>2, <2>3
  <2> QED BY <1>2, <2>4 DEF LogSoFar, LogComplete
<1> QED BY <1>3, <1>4

\* A step that touches neither the monitor nor what the invariant ties it to.
LEMMA LogStays ==
  ASSUME LogInv, UNCHANGED <<monitor, mon_log, retire_order, cosim_ready, cosim_finished, exit>>,
         gotFinish' # "no" => cosim_ready
  PROVE  LogInv'
BY DEF LogInv, LogFollows, MonitorLogComplete, LogSoFar, LogComplete, MonTypeOK

LEMMA LogStep == LogInv /\ [TbNext]_tbvars => LogInv'
<1> SUFFICES ASSUME LogInv, [TbNext]_tbvars PROVE LogInv'
  OBVIOUS
<1>1. ASSUME NEW up \in BOOLEAN, NEW log \in BOOLEAN, NEW mon \in BOOLEAN, ReleaseReset(up, log, mon)
      PROVE  LogInv'
  <2>1. /\ retire_order = 0 /\ ~cosim_finished /\ cosim_ready'
        /\ UNCHANGED <<retire_order, cosim_finished, gotFinish>>
    BY <1>1 DEF ReleaseReset, LogInv, LogFollows
  <2>2. CASE mon
    <3>1. mon_instr_init_mode("retire") /\ exit' = "none"
      BY <1>1, <2>2 DEF ReleaseReset, veer_cosim_init
    <3>2. LogSoFar(0)' /\ monitor'.open
      BY <3>1, InitLogs
    <3> QED BY <2>1, <3>1, <3>2 DEF LogInv, LogFollows, MonitorLogComplete, LogSoFar
  <2>3. CASE ~mon
    <3>1. exit' = "abort"
      BY <1>1, <2>3 DEF ReleaseReset, veer_cosim_init
    <3> QED BY <2>1, <3>1 DEF LogInv, LogFollows, MonitorLogComplete
  <2> QED BY <2>2, <2>3
<1>2. ASSUME NEW f \in BOOLEAN, PosedgeRetire(f) PROVE LogInv'
  <2>1. /\ exit = "none" /\ cosim_ready /\ ~cosim_finished
        /\ UNCHANGED <<exit, cosim_ready, cosim_finished>>
        /\ retire_order' = retire_order + 1
        /\ mon_instr_retire(retire_order, answered')
    BY <1>2 DEF PosedgeRetire, Running, veer_cosim_retire
  <2>2. retire_order \in Nat /\ LogSoFar(retire_order) /\ monitor.open
    BY <2>1 DEF LogInv, LogFollows
  <2>3. PICK n \in Nat : n = retire_order
    BY <2>2
  <2>4. \A rc : LogSoFar(n) /\ monitor.open /\ mon_instr_retire(n, rc)
                  => LogSoFar(n + 1)' /\ monitor'.open
    BY RetireLogs
  <2>5. LogSoFar(n + 1)' /\ monitor'.open /\ retire_order' = n + 1
    BY <2>1, <2>2, <2>3, <2>4
  <2>6. LogSoFar(retire_order)'
    BY <2>5 DEF LogSoFar
  <2> QED BY <2>1, <2>5, <2>6 DEF LogInv, LogFollows, MonitorLogComplete
<1>3. ASSUME NEW f \in BOOLEAN, PosedgeIdle(f) PROVE LogInv'
  BY <1>3, LogStays DEF PosedgeIdle, Running, checks
<1>4. CASE NegedgeIdle
  BY <1>4, LogStays DEF NegedgeIdle, Running, checks
<1>5. ASSUME NEW a \in Addr, NegedgeAddress(a) PROVE LogInv'
  BY <1>5, LogStays DEF NegedgeAddress, Running, checks
<1>6. CASE NegedgeOverflow
  <2>1. /\ exit = "none" /\ cosim_ready /\ finish_cosim /\ exit' = "overflow"
        /\ UNCHANGED <<cosim_ready, retire_order, gotFinish>>
    BY <1>6 DEF NegedgeOverflow, Running
  <2>2. LogComplete(retire_order)'
    BY <2>1, FinishCosimLogs
  <2> QED BY <2>1, <2>2 DEF LogInv, LogFollows, MonitorLogComplete
<1>7. ASSUME NEW both \in BOOLEAN, NegedgeData(both) PROVE LogInv'
  <2>1. PICK s : Mailbox(s)
    BY <1>7 DEF NegedgeData
  <2>2. exit = "none" /\ cosim_ready /\ UNCHANGED <<cosim_ready, retire_order>>
    BY <1>7 DEF NegedgeData, Running
  <2>3. CASE ~Ends(s)
    BY <2>1, <2>2, <2>3, LogStays DEF Mailbox, checks
  <2>4. CASE Ends(s)
    <3>1. finish_cosim /\ exit' \in {"firmware_failed", "mismatch", "none"}
      BY <2>1, <2>2, <2>4 DEF Mailbox
    <3>2. LogSoFar(retire_order)' /\ ~monitor'.open /\ LogComplete(retire_order)' /\ cosim_finished'
      BY <2>2, <3>1, FinishCosimLogs
    <3> QED BY <2>2, <3>1, <3>2 DEF LogInv, LogFollows, MonitorLogComplete
  <2> QED BY <2>3, <2>4
<1>8. CASE HitMaxCycles
  <2>1. /\ exit = "none" /\ cosim_ready /\ mon_instr_finish /\ exit' = "max_cycles"
        /\ UNCHANGED <<cosim_ready, retire_order>>
    BY <1>8 DEF HitMaxCycles, Running, veer_cosim_finish
  <2>2. PICK n \in Nat : n = retire_order
    BY DEF LogInv, LogFollows
  <2>3. LogSoFar(n) => LogComplete(n)'
    BY <2>1, FinishLogs
  <2>4. LogComplete(retire_order)'
    BY <2>1, <2>2, <2>3 DEF LogComplete, LogInv, LogFollows
  <2> QED BY <2>1, <2>4 DEF LogInv, LogFollows, MonitorLogComplete
<1>9. CASE Final
  <2>1. /\ exit = "none" /\ cosim_ready /\ finish_cosim /\ exit' = "final"
        /\ UNCHANGED <<cosim_ready, retire_order>>
    BY <1>9 DEF Final, LogInv, LogFollows
  <2>2. LogSoFar(retire_order)' /\ ~monitor'.open /\ cosim_finished'
    BY <2>1, FinishCosimLogs
  <2> QED BY <2>1, <2>2 DEF LogInv, LogFollows, MonitorLogComplete
<1>10. CASE Return
  <2>1. /\ exit = "final" /\ mon_instr_reset /\ exit' \in {"ok", "failed"}
        /\ UNCHANGED <<cosim_ready, retire_order, gotFinish>>
    BY <1>10 DEF Return
  <2>2. LogSoFar(retire_order) /\ ~monitor.open
    BY <2>1 DEF LogInv, LogFollows
  <2>3. PICK n \in Nat : n = retire_order
    BY DEF LogInv, LogFollows
  <2>4. LogComplete(n)'
    BY <2>1, <2>2, <2>3, ResetLogs
  <2>5. LogComplete(retire_order)'
    BY <2>1, <2>3, <2>4 DEF LogComplete
  <2> QED BY <2>1, <2>5 DEF LogInv, LogFollows, MonitorLogComplete
<1>11. CASE UNCHANGED tbvars
  BY <1>11, LogStays DEF tbvars, tb, checks, LogInv, LogFollows
<1> QED BY <1>1, <1>2, <1>3, <1>4, <1>5, <1>6, <1>7, <1>8, <1>9, <1>10, <1>11 DEF TbNext

\* Whichever way the process ends, other than in reset, the monitor's log has a row for
\* each report and their number, once.
THEOREM MonitorLogTheorem == TbSpec => []MonitorLogComplete
<1>1. TbInit => LogInv
  BY DEF TbInit, LogInv, LogFollows, MonitorLogComplete
<1> QED BY <1>1, LogStep, PTL DEF TbSpec, LogInv

-----------------------------------------------------------------------------
(* The testbench is one of the session's callers: what holds for every       *)
(* sequence of bridge calls holds for it.                                    *)

LEMMA RetireIsCall ==
  ASSUME NEW k, bridge_retire(k)
  PROVE  Next
<1>1. \/ RetireRejected
      \/ RetireIgnored
      \/ \E e \in Effects, throws \in BOOLEAN : RetireSkipped(e, throws)
      \/ \E t \in Reports, e \in Effects, throws \in BOOLEAN : RetireCompared(t, e, throws)
  BY Zenon DEF bridge_retire
<1>2. ASSUME NEW e \in Effects, NEW throws \in BOOLEAN, RetireSkipped(e, throws) PROVE Next
  BY <1>2, Zenon DEF Next
<1>3. ASSUME NEW t \in Reports, NEW e \in Effects, NEW throws \in BOOLEAN,
             RetireCompared(t, e, throws)
      PROVE  Next
  BY <1>3, Zenon DEF Next
<1>4. CASE RetireRejected \/ RetireIgnored
  BY <1>4, Zenon DEF Next
<1> QED BY <1>1, <1>2, <1>3, <1>4, Zenon

LEMMA SessionStep == [TbNext]_tbvars => [Next]_vars
<1> SUFFICES ASSUME [TbNext]_tbvars PROVE [Next]_vars
  OBVIOUS
<1>1. CASE UNCHANGED checks
  BY <1>1 DEF checks
<1>2. CASE BridgeFinish \/ BridgeReset
  BY <1>2 DEF Next
<1>3. ASSUME NEW up \in BOOLEAN, NEW log \in BOOLEAN, NEW mon \in BOOLEAN, ReleaseReset(up, log, mon)
      PROVE  [Next]_vars
  <2>1. BridgeInit(up, log)
    BY <1>3 DEF ReleaseReset, veer_cosim_init
  <2> QED BY <2>1, Zenon DEF Next
<1>4. ASSUME NEW f \in BOOLEAN, PosedgeRetire(f) PROVE [Next]_vars
  <2>1. bridge_retire(retire_order + 1)
    BY <1>4, Zenon DEF PosedgeRetire, veer_cosim_retire
  <2> QED BY <2>1, RetireIsCall, Zenon
<1>5. CASE finish_cosim
  BY <1>1, <1>2, <1>5 DEF finish_cosim, veer_cosim_finish
<1>6. ASSUME NEW f \in BOOLEAN, PosedgeIdle(f) PROVE [Next]_vars
  BY <1>1, <1>6 DEF PosedgeIdle
<1>7. ASSUME NEW a \in Addr, NegedgeAddress(a) PROVE [Next]_vars
  BY <1>1, <1>7 DEF NegedgeAddress
<1>8. ASSUME NEW both \in BOOLEAN, NegedgeData(both) PROVE [Next]_vars
  <2>1. PICK s : Mailbox(s)
    BY <1>8 DEF NegedgeData
  <2> QED BY <1>1, <1>5, <2>1 DEF Mailbox
<1>9. CASE NegedgeIdle
  BY <1>1, <1>9 DEF NegedgeIdle
<1>10. CASE NegedgeOverflow \/ Final
  BY <1>5, <1>10 DEF NegedgeOverflow, Final
<1>11. CASE HitMaxCycles \/ Return
  BY <1>2, <1>11 DEF HitMaxCycles, veer_cosim_finish, Return
<1>12. CASE UNCHANGED tbvars
  BY <1>1, <1>12 DEF tbvars
<1> QED BY <1>3, <1>4, <1>6, <1>7, <1>8, <1>9, <1>10, <1>11, <1>12 DEF TbNext

\* The testbench drives a session: every behaviour of the testbench is one of the
\* session's, so its type, its register files and its verdicts are as proved there.
THEOREM SessionTheorem == TbSpec => Spec
<1>1. TbInit => Init
  BY DEF TbInit
<1> QED BY <1>1, SessionStep, PTL DEF TbSpec, Spec

-----------------------------------------------------------------------------
(* The ring of addresses.                                                    *)

Queue == [slot : [0 .. QueueDepth - 1 -> Addr], head : 0 .. QueueDepth - 1,
          tail : 0 .. QueueDepth - 1, count : 0 .. QueueDepth]

\* The slot i places after the head.
Slot(h, i) == IF h + i < QueueDepth THEN h + i ELSE h + i - QueueDepth

\* The ring holds the addresses of the stores that follow the first n, in order.
Holds(q, n, s) ==
  /\ q.tail = Slot(q.head, q.count)
  /\ \A i \in 0 .. q.count - 1 : q.slot[Slot(q.head, i)] = s[n + 1 + i].addr

\* Going round the ring by one.
LEMMA NextSlot ==
  ASSUME NEW h \in 0 .. QueueDepth - 1
  PROVE  (h + 1) % QueueDepth = Slot(h, 1) /\ Slot(h, 1) \in 0 .. QueueDepth - 1
BY VeerAssumption DEF Slot

LEMMA SlotNext ==
  ASSUME NEW h \in 0 .. QueueDepth - 1
  PROVE  /\ Slot(h, 0) = h
         /\ \A i \in 0 .. QueueDepth - 1 : Slot(Slot(h, 1), i) = Slot(h, i + 1)
         /\ \A i \in 0 .. QueueDepth - 1 : Slot(Slot(h, i), 1) = Slot(h, i + 1)
         /\ \A i, j \in 0 .. QueueDepth - 1 : Slot(h, i) = Slot(h, j) => i = j
         /\ \A i \in 0 .. QueueDepth - 1 : Slot(h, i) \in 0 .. QueueDepth - 1
BY VeerAssumption DEF Slot

\* What the ring is after an address goes in, and after one comes out.
LEMMA QueueFields ==
  ASSUME NEW q \in Queue, NEW a \in Addr
  PROVE  /\ /\ Pushed(q, a).slot = [q.slot EXCEPT ![q.tail] = a]
            /\ Pushed(q, a).head = q.head
            /\ Pushed(q, a).tail = Slot(q.tail, 1)
            /\ Pushed(q, a).count = q.count + 1
            /\ q.count < QueueDepth => Pushed(q, a) \in Queue
         /\ /\ Popped(q).slot = q.slot
            /\ Popped(q).head = Slot(q.head, 1)
            /\ Popped(q).tail = q.tail
            /\ Popped(q).count = q.count - 1
            /\ q.count # 0 => Popped(q) \in Queue
<1> DEFINE front == (q.head + 1) % QueueDepth
           back == (q.tail + 1) % QueueDepth
           more == q.count + 1
           less == q.count - 1
<1>1. /\ QueueDepth \in Nat \ {0}
      /\ q.slot \in [0 .. QueueDepth - 1 -> Addr]
      /\ q.head \in 0 .. QueueDepth - 1 /\ q.tail \in 0 .. QueueDepth - 1
      /\ q.count \in 0 .. QueueDepth
  BY VeerAssumption DEF Queue
<1>2. back = Slot(q.tail, 1) /\ back \in 0 .. QueueDepth - 1
  BY <1>1, NextSlot
<1>3. front = Slot(q.head, 1) /\ front \in 0 .. QueueDepth - 1
  BY <1>1, NextSlot
<1>4. /\ q.count < QueueDepth => more \in 0 .. QueueDepth
      /\ q.count # 0 => less \in 0 .. QueueDepth
  BY <1>1
<1>5. /\ Pushed(q, a) = [q EXCEPT !.slot[q.tail] = a, !.tail = back, !.count = more]
      /\ Popped(q) = [q EXCEPT !.head = front, !.count = less]
  BY DEF Pushed, Popped
<1>6. /\ q.count + 1 = more /\ q.count - 1 = less
  OBVIOUS
<1> HIDE DEF front, back, more, less
<1>7. /\ Pushed(q, a).slot = [q.slot EXCEPT ![q.tail] = a]
      /\ Pushed(q, a).head = q.head
      /\ Pushed(q, a).tail = back
      /\ Pushed(q, a).count = more
  BY <1>5 DEF Queue
<1>8. /\ Popped(q).slot = q.slot
      /\ Popped(q).head = front
      /\ Popped(q).tail = q.tail
      /\ Popped(q).count = less
  BY <1>5 DEF Queue
<1>9. q.count < QueueDepth => Pushed(q, a) \in Queue
  <2>1. [q.slot EXCEPT ![q.tail] = a] \in [0 .. QueueDepth - 1 -> Addr]
    BY <1>1
  <2> QED BY <1>2, <1>4, <1>5, <2>1 DEF Queue
<1>10. q.count # 0 => Popped(q) \in Queue
  BY <1>3, <1>4, <1>5 DEF Queue
<1> QED BY <1>2, <1>3, <1>6, <1>7, <1>8, <1>9, <1>10

\* An address goes in behind the others.
LEMMA PushHolds ==
  ASSUME NEW q \in Queue, NEW s, NEW n \in Nat, Holds(q, n, s), q.count < QueueDepth,
         NEW a \in Addr, a = s[n + 1 + q.count].addr
  PROVE  Pushed(q, a) \in Queue /\ Pushed(q, a).count = q.count + 1 /\ Holds(Pushed(q, a), n, s)
<1> DEFINE p == Pushed(q, a)
           h == q.head
           c == q.count
<1>1. /\ QueueDepth \in Nat \ {0}
      /\ q.slot \in [0 .. QueueDepth - 1 -> Addr]
      /\ h \in 0 .. QueueDepth - 1 /\ q.tail \in 0 .. QueueDepth - 1
      /\ c \in 0 .. QueueDepth - 1
  BY VeerAssumption DEF Queue
<1>2. /\ p.slot = [q.slot EXCEPT ![q.tail] = a] /\ p.head = h
      /\ p.tail = Slot(q.tail, 1) /\ p.count = c + 1 /\ p \in Queue
  BY QueueFields
<1>3. q.tail = Slot(h, c)
  BY DEF Holds
<1> HIDE DEF p, h, c
<1>4. Slot(Slot(h, c), 1) = Slot(h, c + 1)
  BY <1>1, SlotNext
<1>5. \A i \in 0 .. QueueDepth - 1 : Slot(h, i) \in 0 .. QueueDepth - 1
  BY <1>1, SlotNext
<1>6. \A i \in 0 .. QueueDepth - 1 : Slot(h, i) = Slot(h, c) => i = c
  BY <1>1, SlotNext
<1>7. p.tail = Slot(p.head, p.count)
  BY <1>2, <1>3, <1>4
<1>8. ASSUME NEW i \in 0 .. p.count - 1 PROVE p.slot[Slot(p.head, i)] = s[n + 1 + i].addr
  <2>1. i \in 0 .. c /\ i \in 0 .. QueueDepth - 1
    BY <1>1, <1>2
  <2>2. Slot(h, i) \in 0 .. QueueDepth - 1
    BY <1>5, <2>1
  <2>3. CASE i = c
    BY <1>1, <1>2, <1>3, <2>3 DEF c
  <2>4. CASE i # c
    <3>1. i \in 0 .. q.count - 1
      BY <1>1, <2>1, <2>4 DEF c
    <3>2. Slot(h, i) # q.tail
      BY <1>3, <1>6, <2>1, <2>4
    <3>3. q.slot[Slot(q.head, i)] = s[n + 1 + i].addr
      BY <3>1 DEF Holds
    <3> QED BY <1>1, <1>2, <2>2, <3>2, <3>3 DEF h
  <2> QED BY <2>3, <2>4
<1> QED BY <1>2, <1>7, <1>8 DEF Holds, p, c

\* The address that comes out is that of the next store.
LEMMA PopHolds ==
  ASSUME NEW q \in Queue, NEW s, NEW n \in Nat, Holds(q, n, s), q.count # 0
  PROVE  /\ q.slot[q.head] = s[n + 1].addr
         /\ Popped(q) \in Queue /\ Popped(q).count = q.count - 1 /\ Holds(Popped(q), n + 1, s)
<1> DEFINE p == Popped(q)
           h == q.head
           c == q.count
<1>1. /\ QueueDepth \in Nat \ {0}
      /\ q.slot \in [0 .. QueueDepth - 1 -> Addr]
      /\ h \in 0 .. QueueDepth - 1 /\ q.tail \in 0 .. QueueDepth - 1
      /\ c \in 1 .. QueueDepth
  BY VeerAssumption DEF Queue
<1>2. p \in Queue /\ p.slot = q.slot /\ p.head = Slot(h, 1) /\ p.tail = q.tail /\ p.count = c - 1
  <2>1. "ram" \in Addr
    BY DEF Addr
  <2> QED BY <2>1, QueueFields
<1>5. /\ q.tail = Slot(h, c)
      /\ \A i \in 0 .. c - 1 : q.slot[Slot(h, i)] = s[n + 1 + i].addr
  BY DEF Holds
<1> HIDE DEF p, h, c
<1>6. Slot(h, 0) = h /\ \A i \in 0 .. QueueDepth - 1 : Slot(Slot(h, 1), i) = Slot(h, i + 1)
  BY <1>1, SlotNext
<1>7. \A i \in 0 .. c - 1 : Slot(p.head, i) = Slot(h, i + 1)
  BY <1>1, <1>2, <1>6
<1>8. p.tail = Slot(p.head, p.count)
  <2>1. c - 1 \in 0 .. c - 1 /\ (c - 1) + 1 = c
    BY <1>1
  <2> QED BY <1>2, <1>5, <1>7, <2>1
<1>9. ASSUME NEW i \in 0 .. p.count - 1 PROVE p.slot[Slot(p.head, i)] = s[(n + 1) + 1 + i].addr
  <2>1. i \in 0 .. c - 1 /\ i + 1 \in 0 .. c - 1 /\ n + 1 + (i + 1) = (n + 1) + 1 + i
    BY <1>1, <1>2
  <2>2. q.slot[Slot(h, i + 1)] = s[n + 1 + (i + 1)].addr
    BY <1>5, <2>1
  <2> QED BY <1>2, <1>7, <2>1, <2>2
<1>10. q.slot[h] = s[n + 1].addr
  <2>1. 0 \in 0 .. c - 1 /\ n + 1 + 0 = n + 1
    BY <1>1
  <2> QED BY <1>5, <1>6, <2>1
<1> QED BY <1>2, <1>8, <1>9, <1>10 DEF Holds, p, h, c

-----------------------------------------------------------------------------
(* Type correctness.                                                         *)

Exits == {"none", "final", "ok", "failed", "abort", "mismatch", "firmware_failed", "overflow",
          "max_cycles"}

\* The monitor keeps its type whatever is called.
LEMMA MonTypeStep ==
  ASSUME MonTypeOK,
         \/ UNCHANGED <<monitor, mon_log>>
         \/ \E mode : mon_instr_init_mode(mode)
         \/ \E n \in Nat : \E rc : mon_instr_retire(n, rc)
         \/ mon_instr_finish
         \/ mon_instr_reset
  PROVE  MonTypeOK'
<1>1. monitor \in Monitor /\ mon_log \in Log /\ monitor.retire_count \in Nat
  BY DEF MonTypeOK, Monitor, Log
<1> DEFINE Right == monitor' \in Monitor /\ mon_log' \in Log
<1>2. ASSUME NEW row \in Row PROVE [mon_log EXCEPT !.rows = Append(@, row)] \in Log
  BY <1>1, <1>2, LogFields
<1>3. [mon_log EXCEPT !.footers = Append(@, monitor.retire_count)] \in Log
  <2>1. [order |-> 0, result |-> "LOG"] \in Row
    BY DEF Row
  <2> QED BY <1>1, <2>1, LogFields
<1>4. /\ [monitor EXCEPT !.retire_count = @ + 1] \in Monitor
      /\ [monitor EXCEPT !.open = FALSE] \in Monitor
  BY <1>1, MonitorFields
<1>5. ASSUME UNCHANGED <<monitor, mon_log>> PROVE Right
  BY <1>1, <1>5
<1>6. ASSUME NEW mode, mon_instr_init_mode(mode) PROVE Right
  BY <1>6, InitLogs DEF LogSoFar, MonTypeOK, Monitor, Log
<1>7. ASSUME NEW n \in Nat, NEW rc, mon_instr_retire(n, rc) PROVE Right
  <2>1. LoggedRow(n, rc) \in Row
    BY DEF LoggedRow, Result, Row
  <2> QED BY <1>1, <1>2, <1>4, <1>7, <2>1 DEF mon_instr_retire
<1>8. ASSUME mon_instr_finish PROVE Right
  BY <1>1, <1>3, <1>4, <1>8 DEF mon_instr_finish, mon_finish
<1>9. ASSUME mon_instr_reset PROVE Right
  <2>1. NoMonitor \in Monitor
    BY DEF NoMonitor, Monitor, Mode
  <2> QED BY <1>1, <1>3, <1>9, <2>1 DEF mon_instr_reset, mon_finish
<1>10. Right
  BY <1>5, <1>6, <1>7, <1>8, <1>9
<1> QED BY <1>10 DEF MonTypeOK, Monitor, Log

\* A position of the path is a program counter.
LEMMA AtType ==
  ASSUME path \in Paths, NEW k \in Nat \ {0}
  PROVE  At(k) \in Pc /\ StoreAt[At(k)] \in Store
<1>1. path \in Seq(Pc) /\ Len(path) \in Nat \ {0}
  BY VeerAssumption
<1>2. At(k) \in Pc
  BY <1>1 DEF At, Place
<1> QED BY <1>2, VeerAssumption

\* A call that ends the comparison keeps the monitor's type.
LEMMA FinishCosimType ==
  ASSUME MonTypeOK, finish_cosim
  PROVE  MonTypeOK' /\ cosim_finished' = TRUE
<1>1. UNCHANGED <<monitor, mon_log>> \/ mon_instr_finish
  BY DEF finish_cosim, checks, veer_cosim_finish
<1> QED BY <1>1, MonTypeStep DEF finish_cosim

\* What the bus has shown is bounded by what was traced, whatever the edge.
LEMMA DataType ==
  ASSUME TbTypeOK, NEW both \in BOOLEAN, NegedgeData(both)
  PROVE  /\ queue' \in Queue /\ aw' \in 0 .. Len(stores) /\ w' \in 0 .. aw'
         /\ handled' \in Seq(Store)
<1> DEFINE q == IF both THEN Pushed(queue, stores[aw + 1].addr) ELSE queue
           taken == [addr |-> q.slot[q.head], value |-> stores[w + 1].value]
<1>1. /\ queue \in Queue /\ stores \in Seq(Store) /\ Len(stores) \in Nat
      /\ aw \in 0 .. Len(stores) /\ w \in 0 .. aw /\ handled \in Seq(Store)
  BY DEF TbTypeOK, Queue
<1>2. /\ both => aw < Len(stores) /\ queue.count < QueueDepth
      /\ aw' = IF both THEN aw + 1 ELSE aw
      /\ w < aw' /\ w' = w + 1
      /\ q.count # 0 /\ queue' = Popped(q)
      /\ handled' = Append(handled, taken)
  BY Zenon DEF NegedgeData, AddressShown
<1>3. both => stores[aw + 1].addr \in Addr
  <2>1. both => stores[aw + 1] \in Store
    BY <1>1, <1>2
  <2> QED BY <2>1 DEF Store
<1>4. q \in Queue
  BY <1>1, <1>2, <1>3, QueueFields
<1>5. aw' \in 0 .. Len(stores) /\ w' \in 0 .. aw' /\ w + 1 \in 1 .. Len(stores)
  BY <1>1, <1>2
<1>6. stores[w + 1] \in Store
  BY <1>1, <1>5
<1>7. q.slot[q.head] \in Addr
  BY <1>4 DEF Queue
<1> HIDE DEF q
<1>8. queue' \in Queue
  BY <1>2, <1>4, <1>7, QueueFields
<1>9. taken \in Store
  BY <1>6, <1>7 DEF Store
<1> QED BY <1>1, <1>2, <1>5, <1>8, <1>9

\* What an action that only moves the clock and ends the run may change.
LEMMA TbTypeStays ==
  ASSUME TbTypeOK, UNCHANGED <<path, threw, stores, init_rc, retire_order, bus>>,
         clk' \in 0 .. 1, cosim_ready' \in BOOLEAN, cosim_finished' \in BOOLEAN,
         gotFinish' \in {"no", "mailbox", "tb_top"}, exit' \in Exits, MonTypeOK'
  PROVE  TbTypeOK'
BY DEF TbTypeOK, bus, Exits

\* A call marks no other retire than its own.
LEMMA ThrewGrows ==
  ASSUME NEW k, bridge_retire(k)
  PROVE  threw' \subseteq threw \cup {k}
<1>1. threw' = threw \/ threw' = threw \cup {k}
  BY DEF bridge_retire
<1> QED BY <1>1

LEMMA TbTypeStep == TbTypeOK /\ [TbNext]_tbvars => TbTypeOK'
<1> SUFFICES ASSUME TbTypeOK, [TbNext]_tbvars PROVE TbTypeOK'
  OBVIOUS
<1>0. /\ path \in Paths /\ clk \in 0 .. 1 /\ stores \in Seq(Store)
      /\ cosim_ready \in BOOLEAN /\ cosim_finished \in BOOLEAN
      /\ init_rc \in 0 .. 2 /\ retire_order \in Nat /\ threw \subseteq 1 .. retire_order
      /\ queue \in Queue /\ Len(stores) \in Nat
      /\ aw \in 0 .. Len(stores) /\ w \in 0 .. aw /\ handled \in Seq(Store)
      /\ gotFinish \in {"no", "mailbox", "tb_top"} /\ exit \in Exits
      /\ MonTypeOK
  BY DEF TbTypeOK, Queue, Exits
<1>a. UNCHANGED <<monitor, mon_log>> => MonTypeOK'
  BY <1>0, MonTypeStep
<1>1. ASSUME NEW up \in BOOLEAN, NEW log \in BOOLEAN, NEW mon \in BOOLEAN, ReleaseReset(up, log, mon)
      PROVE  TbTypeOK'
  <2>1. init_rc' \in 0 .. 2 /\ exit' \in Exits
    BY <1>1 DEF ReleaseReset, veer_cosim_init, BridgeInit, Answers, Exits
  <2>2. MonTypeOK'
    BY <1>0, <1>1, MonTypeStep DEF ReleaseReset, veer_cosim_init
  <2>3. /\ cosim_ready' = TRUE /\ clk' = 1
        /\ UNCHANGED <<path, threw, stores, cosim_finished, retire_order, queue, aw, w, handled, gotFinish>>
    BY <1>1 DEF ReleaseReset, program, bus
  <2> QED BY <1>0, <2>1, <2>2, <2>3 DEF TbTypeOK, Queue, Exits
<1>2. ASSUME NEW f \in BOOLEAN, PosedgeRetire(f) PROVE TbTypeOK'
  <2>1. /\ UNCHANGED <<path, cosim_ready, cosim_finished, init_rc, queue, aw, w, handled, exit>>
        /\ clk' = 1 /\ retire_order' = retire_order + 1
        /\ gotFinish' \in {gotFinish, "tb_top"}
        /\ stores' \in {stores, Append(stores, StoreAt[At(retire_order + 1)])}
        /\ mon_instr_retire(retire_order, answered')
        /\ bridge_retire(retire_order + 1)
    BY <1>2 DEF PosedgeRetire, TracedStore, TbTop, bus, veer_cosim_retire
  <2>2. MonTypeOK'
    BY <1>0, <2>1, MonTypeStep
  <2>3. StoreAt[At(retire_order + 1)] \in Store
    BY <1>0, AtType
  <2>4. stores' \in Seq(Store) /\ Len(stores') \in {Len(stores), Len(stores) + 1}
    <3> DEFINE new == StoreAt[At(retire_order + 1)]
    <3> HIDE DEF new
    <3>1. new \in Store /\ stores' \in {stores, Append(stores, new)}
      BY <2>1, <2>3 DEF new
    <3>2. Append(stores, new) \in Seq(Store) /\ Len(Append(stores, new)) = Len(stores) + 1
      BY <1>0, <3>1
    <3> QED BY <1>0, <3>1, <3>2
  <2>5. aw' \in 0 .. Len(stores')
    BY <1>0, <2>1, <2>4
  <2>6. threw' \subseteq 1 .. retire_order'
    <3>1. threw' \subseteq threw \cup {retire_order + 1}
      BY <2>1, ThrewGrows
    <3> QED BY <1>0, <2>1, <3>1
  <2> QED BY <1>0, <2>1, <2>2, <2>4, <2>5, <2>6 DEF TbTypeOK, Queue, Exits
<1>3. ASSUME NEW f \in BOOLEAN, PosedgeIdle(f) PROVE TbTypeOK'
  BY <1>0, <1>3, <1>a, TbTypeStays DEF PosedgeIdle, TbTop, program, checks
<1>4. CASE NegedgeIdle
  BY <1>0, <1>4, <1>a, TbTypeStays DEF NegedgeIdle, program, checks
<1>5. ASSUME NEW a \in Addr, AddressShown, NegedgeAddress(a) PROVE TbTypeOK'
  <2>1. /\ queue.count < QueueDepth /\ queue' = Pushed(queue, a)
        /\ clk' = 0 /\ aw' = aw + 1 /\ aw < Len(stores)
        /\ UNCHANGED <<path, threw, stores, cosim_ready, cosim_finished, init_rc, retire_order, w,
                       handled, gotFinish, exit, monitor, mon_log>>
    BY <1>5 DEF NegedgeAddress, AddressShown, program, checks
  <2>2. queue' \in Queue
    BY <1>0, <2>1, QueueFields
  <2>3. aw' \in 0 .. Len(stores') /\ w' \in 0 .. aw'
    BY <1>0, <2>1
  <2> QED BY <1>0, <1>a, <2>1, <2>2, <2>3 DEF TbTypeOK, Queue, Exits
<1>6. CASE NegedgeOverflow
  BY <1>0, <1>6, FinishCosimType, TbTypeStays DEF NegedgeOverflow, program, Exits
<1>7. ASSUME NEW both \in BOOLEAN, NegedgeData(both) PROVE TbTypeOK'
  <2>1. PICK s : Mailbox(s)
    BY <1>7 DEF NegedgeData
  <2>2. /\ MonTypeOK' /\ cosim_finished' \in BOOLEAN
        /\ gotFinish' \in {"no", "mailbox", "tb_top"} /\ exit' \in Exits
    BY <1>0, <1>a, <2>1, FinishCosimType DEF Mailbox, checks, Exits
  <2>3. clk' = 0 /\ UNCHANGED <<path, threw, stores, cosim_ready, init_rc, retire_order>>
    BY <1>7 DEF NegedgeData, program
  <2>4. /\ queue' \in Queue /\ aw' \in 0 .. Len(stores) /\ w' \in 0 .. aw'
        /\ handled' \in Seq(Store)
    BY <1>7, DataType
  <2> QED BY <1>0, <2>2, <2>3, <2>4 DEF TbTypeOK, Queue, Exits
<1>8. CASE HitMaxCycles
  <2>1. MonTypeOK'
    BY <1>0, <1>8, MonTypeStep DEF HitMaxCycles, veer_cosim_finish
  <2> QED BY <1>0, <1>8, <2>1, TbTypeStays DEF HitMaxCycles, program, Exits
<1>9. CASE Final
  BY <1>0, <1>9, FinishCosimType, TbTypeStays DEF Final, program, Exits
<1>10. CASE Return
  <2>1. MonTypeOK'
    BY <1>0, <1>10, MonTypeStep DEF Return
  <2> QED BY <1>0, <1>10, <2>1, TbTypeStays DEF Return, program, Exits
<1>11. CASE UNCHANGED tbvars
  BY <1>0, <1>11, <1>a, TbTypeStays DEF tbvars, tb, checks, bus
<1> QED BY <1>1, <1>2, <1>3, <1>4, <1>5, <1>6, <1>7, <1>8, <1>9, <1>10, <1>11 DEF TbNext

\* Every state of the testbench has the declared shape.
THEOREM VeerTypeCorrect == TbSpec => []TbTypeOK
<1>1. TbInit => TbTypeOK
  <2> SUFFICES ASSUME TbInit PROVE TbTypeOK
    OBVIOUS
  <2>1. EmptyQueue \in Queue
    BY VeerAssumption DEF EmptyQueue, Queue, Addr
  <2>2. MonTypeOK
    BY DEF TbInit, MonTypeOK, NoMonitor, NoLog, Mode
  <2>3. stores = <<>> /\ handled = <<>> /\ Len(stores) = 0 /\ aw = 0 /\ w = 0
    BY DEF TbInit
  <2>4. stores \in Seq(Store) /\ handled \in Seq(Store) /\ aw \in 0 .. Len(stores) /\ w \in 0 .. aw
    BY <2>3
  <2>5. /\ path \in Paths /\ clk = 0 /\ cosim_ready = FALSE /\ cosim_finished = FALSE
        /\ init_rc = 0 /\ retire_order = 0 /\ queue = EmptyQueue
        /\ threw = {} /\ gotFinish = "no" /\ exit = "none"
    BY Zenon DEF TbInit
  <2>6. queue \in Queue
    BY <2>1, <2>5, Zenon
  <2>7. clk \in 0 .. 1 /\ init_rc \in 0 .. 2 /\ retire_order \in Nat /\ threw \subseteq 1 .. retire_order
    BY <2>5
  <2>8. cosim_ready \in BOOLEAN /\ cosim_finished \in BOOLEAN
    BY <2>5
  <2>9. gotFinish \in {"no", "mailbox", "tb_top"} /\ exit \in Exits
    BY <2>5, Zenon DEF Exits
  <2> QED BY <2>2, <2>4, <2>5, <2>6, <2>7, <2>8, <2>9 DEF TbTypeOK, Queue, Exits
<1> QED BY <1>1, TbTypeStep, PTL DEF TbSpec

-----------------------------------------------------------------------------
(* The mailbox.                                                              *)

\* What the ring and the monitor's record are at any moment: the ring holds the
\* addresses shown whose data has not come, in order, and what was taken before
\* them is the program's first stores.
MailboxInv ==
  /\ queue.count = aw - w
  /\ Holds(queue, w, stores)
  /\ Len(handled) = w
  /\ \A k \in 1 .. w : handled[k] = stores[k]

\* The invariant is about no more than this.
LEMMA MailboxStays ==
  ASSUME MailboxInv, UNCHANGED <<stores, bus>>
  PROVE  MailboxInv'
BY DEF MailboxInv, bus, Holds

\* The program's record grows at its end.
LEMMA MailboxGrows ==
  ASSUME TbTypeOK, MailboxInv, UNCHANGED bus, NEW s \in Store, stores' = Append(stores, s)
  PROVE  MailboxInv'
<1>1. /\ queue \in Queue /\ stores \in Seq(Store) /\ Len(stores) \in Nat
      /\ aw \in 0 .. Len(stores) /\ w \in 0 .. aw
      /\ UNCHANGED <<queue, aw, w, handled>>
  BY DEF TbTypeOK, Queue, bus
<1>2. \A k \in 1 .. Len(stores) : stores'[k] = stores[k]
  BY <1>1
<1>3. ASSUME NEW i \in 0 .. queue.count - 1 PROVE queue.slot[Slot(queue.head, i)] = stores'[w + 1 + i].addr
  <2>1. w + 1 + i \in 1 .. Len(stores)
    BY <1>1 DEF MailboxInv, Queue
  <2> QED BY <1>2, <2>1 DEF MailboxInv, Holds
<1>4. \A k \in 1 .. w : handled[k] = stores'[k]
  BY <1>1, <1>2 DEF MailboxInv
<1> QED BY <1>1, <1>3, <1>4 DEF MailboxInv, Holds

\* An address is shown.
LEMMA AddressPushed ==
  ASSUME TbTypeOK, MailboxInv, aw < Len(stores), queue.count < QueueDepth
  PROVE  LET q == Pushed(queue, stores[aw + 1].addr) IN
         q \in Queue /\ q.count = (aw + 1) - w /\ Holds(q, w, stores)
<1> DEFINE a == stores[aw + 1].addr
<1>1. /\ queue \in Queue /\ stores \in Seq(Store) /\ Len(stores) \in Nat
      /\ aw \in 0 .. Len(stores) /\ w \in 0 .. aw
      /\ queue.count = aw - w /\ Holds(queue, w, stores)
  BY DEF TbTypeOK, Queue, MailboxInv
<1>2. stores[aw + 1] \in Store /\ w + 1 + queue.count = aw + 1 /\ w \in Nat
  BY <1>1
<1>3. a \in Addr /\ a = stores[w + 1 + queue.count].addr
  BY <1>2 DEF Store
<1> HIDE DEF a
<1>4. /\ Pushed(queue, a) \in Queue /\ Pushed(queue, a).count = queue.count + 1
      /\ Holds(Pushed(queue, a), w, stores)
  BY <1>1, <1>2, <1>3, PushHolds
<1>5. queue.count + 1 = (aw + 1) - w
  BY <1>1
<1> QED BY <1>4, <1>5 DEF a

\* Data comes, with the next address or without: the address it is paired with is its own.
LEMMA DataTaken ==
  ASSUME TbTypeOK, MailboxInv, NEW both \in BOOLEAN, NegedgeData(both)
  PROVE  MailboxInv'
<1> DEFINE q == IF both THEN Pushed(queue, stores[aw + 1].addr) ELSE queue
           taken == [addr |-> q.slot[q.head], value |-> stores[w + 1].value]
<1>1. /\ queue \in Queue /\ stores \in Seq(Store) /\ Len(stores) \in Nat
      /\ aw \in 0 .. Len(stores) /\ w \in 0 .. aw /\ handled \in Seq(Store)
  BY DEF TbTypeOK, Queue
<1>0. /\ queue.count = aw - w /\ Holds(queue, w, stores)
      /\ Len(handled) = w /\ \A k \in 1 .. w : handled[k] = stores[k]
  BY DEF MailboxInv
<1>2. /\ both => aw < Len(stores) /\ queue.count < QueueDepth
      /\ aw' = IF both THEN aw + 1 ELSE aw
      /\ w < aw' /\ w' = w + 1
      /\ q.count # 0 /\ queue' = Popped(q)
      /\ handled' = Append(handled, taken)
      /\ stores' = stores
  BY Zenon DEF NegedgeData, AddressShown, program
<1>3. q \in Queue /\ q.count = aw' - w /\ Holds(q, w, stores)
  BY <1>0, <1>1, <1>2, AddressPushed
<1> HIDE DEF q
<1>4. /\ q.slot[q.head] = stores[w + 1].addr
      /\ queue' \in Queue /\ queue'.count = q.count - 1 /\ Holds(queue', w + 1, stores)
  BY <1>1, <1>2, <1>3, PopHolds
<1>5. aw' \in Nat /\ w \in Nat /\ w + 1 \in 1 .. Len(stores)
  BY <1>1, <1>2
<1>6. taken = stores[w + 1] /\ taken \in Store
  <2>1. stores[w + 1] \in Store
    BY <1>1, <1>5
  <2> QED BY <1>4, <2>1 DEF Store
<1> HIDE DEF taken
<1>7. Len(handled') = w + 1 /\ \A k \in 1 .. w + 1 : handled'[k] = stores[k]
  BY <1>0, <1>1, <1>2, <1>5, <1>6
<1>8. queue'.count = aw' - w'
  BY <1>2, <1>3, <1>4, <1>5
<1> QED BY <1>2, <1>4, <1>7, <1>8 DEF MailboxInv, Holds

LEMMA MailboxStep == TbTypeOK /\ MailboxInv /\ [TbNext]_tbvars => MailboxInv'
<1> SUFFICES ASSUME TbTypeOK, MailboxInv, [TbNext]_tbvars PROVE MailboxInv'
  OBVIOUS
<1>1. ASSUME NEW up \in BOOLEAN, NEW log \in BOOLEAN, NEW mon \in BOOLEAN, ReleaseReset(up, log, mon)
      PROVE  MailboxInv'
  BY <1>1, MailboxStays DEF ReleaseReset, program
<1>2. ASSUME NEW f \in BOOLEAN, PosedgeRetire(f) PROVE MailboxInv'
  <2> DEFINE new == StoreAt[At(retire_order + 1)]
  <2>1. UNCHANGED bus /\ (stores' = stores \/ stores' = Append(stores, new))
    BY <1>2 DEF PosedgeRetire, TracedStore
  <2>2. new \in Store
    BY AtType DEF TbTypeOK
  <2> QED BY <2>1, <2>2, MailboxStays, MailboxGrows
<1>3. ASSUME NEW f \in BOOLEAN, PosedgeIdle(f) PROVE MailboxInv'
  BY <1>3, MailboxStays DEF PosedgeIdle, program
<1>4. CASE NegedgeIdle
  BY <1>4, MailboxStays DEF NegedgeIdle, program
<1>5. ASSUME NEW a \in Addr, AddressShown, NegedgeAddress(a) PROVE MailboxInv'
  <2>1. /\ aw < Len(stores) /\ queue.count < QueueDepth
        /\ queue' = Pushed(queue, stores[aw + 1].addr) /\ aw' = aw + 1
        /\ stores' = stores /\ w' = w /\ handled' = handled
    BY <1>5 DEF NegedgeAddress, AddressShown, program
  <2>2. queue'.count = aw' - w' /\ Holds(queue', w', stores')
    BY <2>1, AddressPushed, Zenon
  <2>3. Len(handled') = w' /\ \A k \in 1 .. w' : handled'[k] = stores'[k]
    BY <2>1 DEF MailboxInv
  <2> QED BY <2>2, <2>3 DEF MailboxInv
<1>6. CASE NegedgeOverflow
  BY <1>6, MailboxStays DEF NegedgeOverflow, program
<1>7. ASSUME NEW both \in BOOLEAN, NegedgeData(both) PROVE MailboxInv'
  BY <1>7, DataTaken
<1>8. CASE HitMaxCycles
  BY <1>8, MailboxStays DEF HitMaxCycles, program
<1>9. CASE Final
  BY <1>9, MailboxStays DEF Final, program
<1>10. CASE Return
  BY <1>10, MailboxStays DEF Return, program
<1>11. CASE UNCHANGED tbvars
  BY <1>11, MailboxStays DEF tbvars, tb, bus
<1> QED BY <1>1, <1>2, <1>3, <1>4, <1>5, <1>6, <1>7, <1>8, <1>9, <1>10, <1>11 DEF TbNext

\* The mailbox monitor sees the program's stores, each once and in order, whatever the
\* program, the depth of the ring and the edges on which addresses and data come.
THEOREM MailboxTheorem == TbSpec => []MailboxInOrder
<1>1. TbInit => MailboxInv
  BY VeerAssumption DEF TbInit, MailboxInv, EmptyQueue, Holds, Slot
<1>2. TbTypeOK /\ MailboxInv => MailboxInOrder
  <2> SUFFICES ASSUME TbTypeOK, MailboxInv PROVE MailboxInOrder
    OBVIOUS
  <2>1. /\ handled \in Seq(Store) /\ stores \in Seq(Store) /\ Len(stores) \in Nat
        /\ w \in 0 .. Len(stores)
    BY DEF TbTypeOK
  <2>2. Len(handled) = w /\ \A k \in 1 .. w : handled[k] = stores[k]
    BY DEF MailboxInv
  <2>3. /\ SubSeq(stores, 1, w) \in Seq(Store) /\ Len(SubSeq(stores, 1, w)) = w
        /\ \A k \in 1 .. w : SubSeq(stores, 1, w)[k] = stores[k]
    BY <2>1
  <2>4. handled = SubSeq(stores, 1, w)
    BY <2>1, <2>2, <2>3
  <2> QED BY <2>2, <2>4 DEF MailboxInOrder
<1> QED BY <1>1, <1>2, MailboxStep, VeerTypeCorrect, PTL DEF TbSpec

-----------------------------------------------------------------------------
(* The reference.  A run is followed through what its program p makes of the    *)
(* first n retires; the operators below are VeerTb's for a program that is a    *)
(* parameter.                                                                   *)

FinishStore == [addr |-> "finish", value |-> "done"]

Spot(p, k) == IF k <= Len(p) THEN k ELSE Len(p)
PcAt(p, k) == p[Spot(p, k)]

StoredBy(p, k) == \E i \in 1 .. k : StoreAt[PcAt(p, i)] = FinishStore

GoesAt(p, j) == Fetch[PcAt(p, j)] \notin Ebreak /\ ~(InRam(PcAt(p, j)) /\ StoredBy(p, j))

Going(p, n) == \A j \in 1 .. n : GoesAt(p, j)

ComparedOf(p, n) == {k \in 1 .. n : InRam(PcAt(p, k)) /\ Going(p, k - 1)}

\* Where Spike is, the comparison not having failed and no step having thrown: at the
\* instruction the core retires next, or at the end of the reference.
Following(p, n, pc, done, ended) ==
  /\ Going(p, n) => ~ended /\ (done <=> StoredBy(p, n)) /\ pc = PcAt(p, n + 1)
  /\ ~Going(p, n) => ended

\* The core, of which f is wrong, was right where it was compared before Spike's steps
\* first threw; th are the retires at which they did.
RightBefore(p, f, th, n) ==
  \A k \in ComparedOf(p, n) : (\A j \in th : k <= j) => k \notin f

\* What is known of the first throw when it was in RAM: Spike is held there, or the core
\* has retired the same instruction again, rightly or wrongly.
Held(p, f, th, n, pc, ended) ==
  \A i \in th :
    (\A j \in th : i <= j) /\ InRam(PcAt(p, i)) =>
      \/ n = i /\ pc = PcAt(p, i) /\ ~ended
      \/ PcAt(p, i + 1) = PcAt(p, i)
      \/ i + 1 \in f

Reference(p, f, th, n, pc, done, ended, passed, failed) ==
  /\ th \subseteq 1 .. n
  /\ failed = 0 =>
       /\ RightBefore(p, f, th, n)
       /\ Held(p, f, th, n, pc, ended)
       /\ th = {} => /\ passed = Cardinality(ComparedOf(p, n))
                     /\ Following(p, n, pc, done, ended)
  /\ th = {} /\ f \cap (1 .. n) = {} => failed = 0

\* The operators are VeerTb's.
LEMMA SameCompared ==
  ASSUME NEW n \in Nat
  PROVE  Compared(n) = ComparedOf(path, n)
<1>1. \A j : EndsReference(j) <=> ~GoesAt(path, j)
  BY Zenon DEF GoesAt, EndsReference, FinishStored, StoredBy, FinishStore, At, Place, Spot, PcAt
<1>2. \A k : InRam(At(k)) <=> InRam(PcAt(path, k))
  BY Zenon DEF At, Place, Spot, PcAt
<1> QED BY <1>1, <1>2, Zenon DEF Compared, ComparedOf, Going

LEMMA SpotType ==
  ASSUME NEW p \in Paths, NEW k \in Nat \ {0}
  PROVE  /\ Len(p) \in Nat \ {0} /\ Spot(p, k) \in 1 .. Len(p) /\ PcAt(p, k) \in Pc
         /\ \A i \in 1 .. Len(p) : PcAt(p, i) = p[i] /\ Spot(p, i) = i
         /\ \A i, j \in 1 .. Len(p) : p[i] = p[j] => i = j
<1>1. p \in Seq(Pc) /\ Len(p) \in Nat \ {0}
  BY VeerAssumption
<1>2. Spot(p, k) \in 1 .. Len(p)
  BY <1>1 DEF Spot
<1>3. PcAt(p, k) \in Pc
  BY <1>1, <1>2 DEF PcAt
<1>4. \A i \in 1 .. Len(p) : PcAt(p, i) = p[i] /\ Spot(p, i) = i
  BY <1>1 DEF PcAt, Spot
<1>5. \A i, j \in 1 .. Len(p) : p[i] = p[j] => i = j
  BY VeerAssumption
<1> QED BY <1>1, <1>2, <1>3, <1>4, <1>5

\* Spike finds its place on the path.
LEMMA PositionIs ==
  ASSUME path \in Paths, NEW k \in Nat \ {0}
  PROVE  /\ Position(PcAt(path, k)) = Spot(path, k)
         /\ Follows(PcAt(path, k)) = PcAt(path, k + 1)
<1> DEFINE s == Spot(path, k)
<1>1. Len(path) \in Nat \ {0} /\ s \in 1 .. Len(path) /\ PcAt(path, k) = path[s]
  BY SpotType DEF PcAt
<1>2. \A i \in 1 .. Len(path) : path[i] = path[s] => i = s
  BY <1>1, SpotType
<1> HIDE DEF s
<1>3. Position(path[s]) = s
  BY <1>1, <1>2 DEF Position
<1>4. Follows(path[s]) = At(s + 1)
  BY <1>3 DEF Follows
<1>5. At(s + 1) = PcAt(path, k + 1)
  BY <1>1 DEF At, Place, PcAt, Spot, s
<1> QED BY <1>1, <1>3, <1>4, <1>5 DEF s

\* One retire more.
LEMMA OneMore ==
  ASSUME NEW p \in Paths, NEW n \in Nat
  PROVE  /\ Going(p, n + 1) <=> Going(p, n) /\ GoesAt(p, n + 1)
         /\ StoredBy(p, n + 1) <=>
              \/ StoredBy(p, n)
              \/ StoreAt[PcAt(p, n + 1)] = FinishStore
         /\ ComparedOf(p, n) \subseteq 1 .. n
         /\ InRam(PcAt(p, n + 1)) /\ Going(p, n) =>
              /\ ComparedOf(p, n + 1) = ComparedOf(p, n) \cup {n + 1}
              /\ Cardinality(ComparedOf(p, n + 1)) = Cardinality(ComparedOf(p, n)) + 1
         /\ ~(InRam(PcAt(p, n + 1)) /\ Going(p, n)) => ComparedOf(p, n + 1) = ComparedOf(p, n)
<1>1. Going(p, n + 1) <=> Going(p, n) /\ GoesAt(p, n + 1)
  <2>1. 1 .. n + 1 = (1 .. n) \cup {n + 1}
    OBVIOUS
  <2> QED BY <2>1, Zenon DEF Going
<1>2. StoredBy(p, n + 1) <=>
              \/ StoredBy(p, n)
              \/ StoreAt[PcAt(p, n + 1)] = FinishStore
  <2>1. 1 .. n + 1 = (1 .. n) \cup {n + 1}
    OBVIOUS
  <2> QED BY <2>1, Zenon DEF StoredBy
<1>3. ComparedOf(p, n) \subseteq 1 .. n
  BY DEF ComparedOf
<1> DEFINE Fits(k) == InRam(PcAt(p, k)) /\ Going(p, k - 1)
<1>4. /\ ComparedOf(p, n) = {k \in 1 .. n : Fits(k)}
      /\ ComparedOf(p, n + 1) = {k \in 1 .. n + 1 : Fits(k)}
  BY DEF ComparedOf
<1>5. Fits(n + 1) <=> InRam(PcAt(p, n + 1)) /\ Going(p, n)
  <2>1. (n + 1) - 1 = n
    OBVIOUS
  <2> QED BY <2>1
<1> HIDE DEF Fits
<1>6. Fits(n + 1) => ComparedOf(p, n + 1) = ComparedOf(p, n) \cup {n + 1}
  BY <1>4
<1>7. ~Fits(n + 1) => ComparedOf(p, n + 1) = ComparedOf(p, n)
  BY <1>4
<1>8. IsFiniteSet(ComparedOf(p, n)) /\ n + 1 \notin ComparedOf(p, n)
  <2>1. IsFiniteSet(1 .. n)
    BY FS_Interval
  <2>2. IsFiniteSet(ComparedOf(p, n))
    BY <1>3, <2>1, FS_Subset
  <2> QED BY <1>3, <2>2
<1>9. Cardinality(ComparedOf(p, n) \cup {n + 1}) = Cardinality(ComparedOf(p, n)) + 1
  BY <1>8, FS_AddElement
<1> QED BY <1>1, <1>2, <1>3, <1>5, <1>6, <1>7, <1>9

\* What one call of bridge_retire does to the reference.
LEMMA RetireOutcome ==
  ASSUME TypeOK, initialized, ~finished, NEW k, bridge_retire(k)
  PROVE  LET over == Fetch[iss.pc] \notin Ebreak IN
         /\ UNCHANGED <<initialized, finished>>
         /\ reference_done => UNCHANGED <<iss, reference_done, pass_count, fail_count, threw>>
         /\ ~reference_done =>
              \E throws \in BOOLEAN :
                /\ throws => over
                /\ threw' = IF throws THEN threw \cup {k} ELSE threw
                /\ ~over \/ throws => iss' = iss
                /\ over /\ ~throws =>
                     /\ iss'.pc = Follows(iss.pc)
                     /\ iss'.done <=> iss.done \/ StoreAt[iss.pc] = FinishStore
                /\ ~InRam(iss.pc) => /\ UNCHANGED <<pass_count, fail_count>>
                                     /\ reference_done' <=> ~over
                /\ InRam(iss.pc) =>
                     /\ reference_done' <=> ~over \/ (~throws /\ iss'.done)
                     /\ fail_count' \in {fail_count, fail_count + 1}
                     /\ At(k) = iss.pc /\ k \notin faulty =>
                          pass_count' = pass_count + 1 /\ fail_count' = fail_count
                     /\ At(k) = iss.pc /\ k \in faulty => fail_count' = fail_count + 1
                     /\ At(k) # iss.pc /\ k \notin faulty => fail_count' = fail_count + 1
<1> DEFINE over == Fetch[iss.pc] \notin Ebreak
           Marks(throws) == /\ throws => over
                            /\ threw' = IF throws THEN threw \cup {k} ELSE threw
           Moves(throws) == /\ ~over \/ throws => iss' = iss
                            /\ over /\ ~throws =>
                                 /\ iss'.pc = Follows(iss.pc)
                                 /\ iss'.done <=> iss.done \/ StoreAt[iss.pc] = FinishStore
<1>1. \/ RetireRejected /\ UNCHANGED threw
      \/ RetireIgnored /\ UNCHANGED threw
      \/ \E e \in Effects, throws \in BOOLEAN :
           SpikeEffect(e) /\ Marks(throws) /\ RetireSkipped(e, throws)
      \/ \E t \in Reports, e \in Effects, throws \in BOOLEAN :
           Traces(t, k) /\ SpikeEffect(e) /\ Marks(throws) /\ RetireCompared(t, e, throws)
  BY Zenon DEF bridge_retire
<1>3. ASSUME NEW e \in Effects
      PROVE  Stepped(iss, e).pc = e.pc /\ (Stepped(iss, e).done <=> iss.done \/ e.finish)
  <2>1. iss \in Iss
    BY DEF TypeOK
  <2>2. Stepped(iss, e).pc = e.pc
    BY <2>1 DEF Stepped, Iss
  <2>3. Stepped(iss, e).done = (iss.done \/ e.finish)
    BY <2>1 DEF Stepped, Iss
  <2> QED BY <2>2, <2>3
<1> HIDE DEF Marks
<1>4. CASE RetireRejected /\ UNCHANGED threw
  BY <1>4 DEF RetireRejected, Live
<1>5. CASE RetireIgnored /\ UNCHANGED threw
  BY <1>5 DEF RetireIgnored, session
<1>6. ASSUME NEW e \in Effects, NEW throws \in BOOLEAN, SpikeEffect(e), RetireSkipped(e, throws)
      PROVE  /\ UNCHANGED <<initialized, finished, pass_count, fail_count>>
             /\ ~reference_done /\ ~InRam(iss.pc)
             /\ Moves(throws)
             /\ reference_done' <=> ~over
  <2>1. /\ UNCHANGED <<initialized, finished, pass_count, fail_count>>
        /\ ~reference_done /\ ~InRam(iss.pc)
        /\ iss' = IF over /\ ~throws THEN Stepped(iss, e) ELSE iss
        /\ reference_done' = ~over
    BY <1>6, Zenon DEF RetireSkipped, InRam
  <2>2. e.pc = Follows(iss.pc) /\ (e.finish <=> StoreAt[iss.pc] = FinishStore)
    BY <1>6 DEF SpikeEffect, FinishStore
  <2> QED BY <1>3, <2>1, <2>2
<1>7. ASSUME NEW t \in Reports, NEW e \in Effects, NEW throws \in BOOLEAN, Traces(t, k),
             SpikeEffect(e), RetireCompared(t, e, throws)
      PROVE  /\ UNCHANGED <<initialized, finished>>
             /\ ~reference_done /\ InRam(iss.pc)
             /\ Moves(throws)
             /\ reference_done' <=> ~over \/ (~throws /\ iss'.done)
             /\ fail_count' \in {fail_count, fail_count + 1}
             /\ At(k) = iss.pc /\ k \notin faulty =>
                  pass_count' = pass_count + 1 /\ fail_count' = fail_count
             /\ At(k) = iss.pc /\ k \in faulty => fail_count' = fail_count + 1
             /\ At(k) # iss.pc /\ k \notin faulty => fail_count' = fail_count + 1
  <2> DEFINE pass == iss.pc = t.pc /\ Fetch[iss.pc] = t.instr
  <2>1. /\ UNCHANGED <<initialized, finished>>
        /\ ~reference_done /\ InRam(iss.pc)
        /\ iss' = IF over /\ ~throws THEN Stepped(iss, e) ELSE iss
        /\ pass_count' = IF pass THEN pass_count + 1 ELSE pass_count
        /\ fail_count' = IF pass THEN fail_count ELSE fail_count + 1
        /\ reference_done' = IF over THEN ~throws /\ iss'.done ELSE TRUE
    BY <1>7, Zenon DEF RetireCompared, InRam
  <2>2. e.pc = Follows(iss.pc) /\ (e.finish <=> StoreAt[iss.pc] = FinishStore)
    BY <1>7 DEF SpikeEffect, FinishStore
  <2>3. (t.pc = At(k) /\ t.instr = Fetch[At(k)]) <=> k \notin faulty
    BY <1>7 DEF Traces
  <2>4. /\ At(k) = iss.pc => (pass <=> k \notin faulty)
        /\ At(k) # iss.pc /\ k \notin faulty => ~pass
    BY <2>3
  <2> HIDE DEF pass
  <2>5. /\ fail_count' \in {fail_count, fail_count + 1}
        /\ At(k) = iss.pc /\ k \notin faulty =>
             pass_count' = pass_count + 1 /\ fail_count' = fail_count
        /\ At(k) = iss.pc /\ k \in faulty => fail_count' = fail_count + 1
        /\ At(k) # iss.pc /\ k \notin faulty => fail_count' = fail_count + 1
    BY <2>1, <2>4
  <2>6. reference_done' <=> ~over \/ (~throws /\ iss'.done)
    BY <2>1
  <2>7. Moves(throws)
    BY <1>3, <2>1, <2>2
  <2> QED BY <2>1, <2>5, <2>6, <2>7
<1>8. CASE \E e \in Effects, throws \in BOOLEAN :
             SpikeEffect(e) /\ Marks(throws) /\ RetireSkipped(e, throws)
  <2>1. PICK e \in Effects, throws \in BOOLEAN :
             SpikeEffect(e) /\ Marks(throws) /\ RetireSkipped(e, throws)
    BY <1>8
  <2> QED BY <1>6, <2>1 DEF Marks
<1>9. CASE \E t \in Reports, e \in Effects, throws \in BOOLEAN :
             Traces(t, k) /\ SpikeEffect(e) /\ Marks(throws) /\ RetireCompared(t, e, throws)
  <2>1. PICK t \in Reports, e \in Effects, throws \in BOOLEAN :
             Traces(t, k) /\ SpikeEffect(e) /\ Marks(throws) /\ RetireCompared(t, e, throws)
    BY <1>9
  <2> QED BY <1>7, <2>1 DEF Marks
<1> QED BY <1>1, <1>4, <1>5, <1>8, <1>9

\* The reference follows the core by one retire.
LEMMA RetireFollows ==
  ASSUME TypeOK, path \in Paths, initialized, ~finished, NEW n \in Nat, bridge_retire(n + 1),
         Reference(path, faulty, threw, n, iss.pc, iss.done, reference_done, pass_count, fail_count)
  PROVE  Reference(path, faulty, threw', n + 1, iss'.pc, iss'.done, reference_done', pass_count', fail_count')
<1> DEFINE k == n + 1
           here == PcAt(path, k)
           over == Fetch[iss.pc] \notin Ebreak
           C(m) == ComparedOf(path, m)
           Now == Following(path, n, iss.pc, iss.done, reference_done)
           After == Following(path, k, iss'.pc, iss'.done, reference_done')
           Right == RightBefore(path, faulty, threw', k)
           Kept == Held(path, faulty, threw', k, iss'.pc, reference_done')
<1>1. /\ k \in Nat \ {0} /\ 1 .. k = (1 .. n) \cup {k} /\ k \notin 1 .. n /\ 1 .. n \subseteq Nat
      /\ pass_count \in Nat /\ fail_count \in Nat
      /\ At(k) = here
  BY DEF TypeOK, At, Place, PcAt, Spot
<1>2. reference_done => UNCHANGED <<iss, reference_done, pass_count, fail_count, threw>>
  BY RetireOutcome
<1>3. /\ Going(path, k) <=> Going(path, n) /\ GoesAt(path, k)
      /\ StoredBy(path, k) <=> StoredBy(path, n) \/ StoreAt[here] = FinishStore
      /\ C(n) \subseteq 1 .. n
      /\ InRam(here) /\ Going(path, n) =>
           C(k) = C(n) \cup {k} /\ Cardinality(C(k)) = Cardinality(C(n)) + 1
      /\ ~(InRam(here) /\ Going(path, n)) => C(k) = C(n)
  BY <1>1, OneMore
<1>4. /\ GoesAt(path, k) <=> Fetch[here] \notin Ebreak /\ ~(InRam(here) /\ StoredBy(path, k))
      /\ Follows(here) = PcAt(path, k + 1)
  BY <1>1, PositionIs DEF GoesAt
<1>5. /\ threw \subseteq 1 .. n
      /\ fail_count = 0 =>
           /\ RightBefore(path, faulty, threw, n)
           /\ Held(path, faulty, threw, n, iss.pc, reference_done)
           /\ threw = {} => pass_count = Cardinality(C(n)) /\ Now
      /\ threw = {} /\ faulty \cap (1 .. n) = {} => fail_count = 0
  BY DEF Reference
<1>6. \A m \in C(k) : m \in C(n) \/ m = k
  BY <1>3
<1>7. ASSUME ~reference_done
      PROVE  \E throws \in BOOLEAN :
                /\ throws => over
                /\ threw' = IF throws THEN threw \cup {k} ELSE threw
                /\ ~over \/ throws => iss' = iss
                /\ over /\ ~throws =>
                     /\ iss'.pc = Follows(iss.pc)
                     /\ iss'.done <=> iss.done \/ StoreAt[iss.pc] = FinishStore
                /\ ~InRam(iss.pc) => /\ UNCHANGED <<pass_count, fail_count>>
                                     /\ reference_done' <=> ~over
                /\ InRam(iss.pc) =>
                     /\ reference_done' <=> ~over \/ (~throws /\ iss'.done)
                     /\ fail_count' \in {fail_count, fail_count + 1}
                     /\ here = iss.pc /\ k \notin faulty =>
                          pass_count' = pass_count + 1 /\ fail_count' = fail_count
                     /\ here = iss.pc /\ k \in faulty => fail_count' = fail_count + 1
                     /\ here # iss.pc /\ k \notin faulty => fail_count' = fail_count + 1
  BY <1>1, <1>7, RetireOutcome
<1>8. /\ threw' = threw \/ threw' = threw \cup {k}
      /\ fail_count' \in Nat /\ (fail_count' = 0 => fail_count = 0)
  BY <1>1, <1>2, <1>7
<1>9. threw' \subseteq 1 .. k
  BY <1>1, <1>5, <1>8
<1> HIDE DEF k, here, over, C
\* After the first throw.
<1>10. CASE threw # {}
  <2>1. PICK i \in threw : TRUE
    BY <1>10
  <2>2. i \in Nat /\ i < k /\ i \in threw' /\ \A j \in threw : j \in Nat /\ j < k
    BY <1>1, <1>5, <1>8, <2>1 DEF k
  <2>3. ASSUME fail_count' = 0 PROVE Right
    <3>1. SUFFICES ASSUME NEW m \in C(k), \A j \in threw' : m <= j
                   PROVE  m \notin faulty
      BY DEF RightBefore, C
    <3>2. m # k
      BY <1>1, <2>2, <3>1
    <3>3. m \in C(n) /\ \A j \in threw : m <= j
      BY <1>6, <1>8, <3>1, <3>2
    <3>4. RightBefore(path, faulty, threw, n)
      BY <1>5, <1>8, <2>3
    <3> QED BY <3>3, <3>4 DEF RightBefore, C
  <2>4. ASSUME fail_count' = 0 PROVE Kept
    <3>1. SUFFICES ASSUME NEW f \in threw', \A j \in threw' : f <= j, InRam(PcAt(path, f))
                   PROVE  PcAt(path, f + 1) = PcAt(path, f) \/ f + 1 \in faulty
      BY DEF Held
    <3>2. f # k
      BY <1>1, <2>2, <3>1
    <3>3. f \in threw /\ \A j \in threw : f <= j
      BY <1>8, <3>1, <3>2
    <3>4. Held(path, faulty, threw, n, iss.pc, reference_done)
      BY <1>5, <1>8, <2>4
    <3>5. \/ n = f /\ iss.pc = PcAt(path, f) /\ ~reference_done
          \/ PcAt(path, f + 1) = PcAt(path, f)
          \/ f + 1 \in faulty
      BY <3>1, <3>3, <3>4 DEF Held
    <3>6. CASE n = f /\ iss.pc = PcAt(path, f) /\ ~reference_done
      <4>1. f + 1 = k /\ PcAt(path, f + 1) = here /\ InRam(iss.pc)
        BY <3>1, <3>6 DEF k, here
      <4>2. here # iss.pc /\ k \notin faulty => fail_count' = fail_count + 1
        BY <1>7, <3>6, <4>1
      <4>3. here = iss.pc \/ k \in faulty
        BY <1>1, <1>8, <2>4, <4>2
      <4> QED BY <3>6, <4>1, <4>3
    <3> QED BY <3>5, <3>6
  <2> QED BY <1>9, <2>2, <2>3, <2>4 DEF Reference, k
\* The reference has ended.
<1>11. CASE threw = {} /\ fail_count = 0 /\ ~Going(path, n)
  <2>1. reference_done
    BY <1>5, <1>11 DEF Following
  <2>2. UNCHANGED <<iss, reference_done, pass_count, fail_count, threw>>
    BY <1>2, <2>1
  <2>3. C(k) = C(n) /\ ~Going(path, k)
    BY <1>3, <1>11
  <2>4. After /\ Right /\ Kept
    BY <1>5, <1>11, <2>1, <2>2, <2>3 DEF Following, RightBefore, Held, C
  <2>5. pass_count' = Cardinality(C(k))
    BY <1>5, <1>11, <2>2, <2>3
  <2> QED BY <1>9, <1>11, <2>2, <2>4, <2>5 DEF Reference, C, k
\* The comparison goes on.
<1>12. CASE threw = {} /\ fail_count = 0 /\ Going(path, n)
  <2>1. ~reference_done /\ (iss.done <=> StoredBy(path, n)) /\ iss.pc = here
    BY <1>5, <1>12 DEF Following, here, k
  <2>2. PICK throws \in BOOLEAN :
                /\ throws => over
                /\ threw' = IF throws THEN threw \cup {k} ELSE threw
                /\ ~over \/ throws => iss' = iss
                /\ over /\ ~throws =>
                     /\ iss'.pc = Follows(iss.pc)
                     /\ iss'.done <=> iss.done \/ StoreAt[iss.pc] = FinishStore
                /\ ~InRam(iss.pc) => /\ UNCHANGED <<pass_count, fail_count>>
                                     /\ reference_done' <=> ~over
                /\ InRam(iss.pc) =>
                     /\ reference_done' <=> ~over \/ (~throws /\ iss'.done)
                     /\ fail_count' \in {fail_count, fail_count + 1}
                     /\ here = iss.pc /\ k \notin faulty =>
                          pass_count' = pass_count + 1 /\ fail_count' = fail_count
                     /\ here = iss.pc /\ k \in faulty => fail_count' = fail_count + 1
                     /\ here # iss.pc /\ k \notin faulty => fail_count' = fail_count + 1
    BY <1>7, <2>1
  <2>3. /\ threw' = IF throws THEN {k} ELSE {}
        /\ throws => over /\ iss'.pc = here /\ ~reference_done'
    BY <1>12, <2>1, <2>2
  <2>4. ASSUME fail_count' = 0 PROVE Right
    <3>1. SUFFICES ASSUME NEW m \in C(k) PROVE m \notin faulty
      BY DEF RightBefore, C
    <3>2. CASE m = k
      <4>1. InRam(here)
        BY <1>1, <1>3, <3>1, <3>2
      <4> QED BY <1>1, <1>12, <2>1, <2>2, <2>4, <3>2, <4>1
    <3>3. CASE m \in C(n)
      BY <1>5, <1>12, <3>3 DEF RightBefore, C
    <3> QED BY <1>6, <3>1, <3>2, <3>3
  <2>5. Kept
    BY <2>3 DEF Held, here
  <2>6. ASSUME ~throws PROVE After
    <3>1. over => /\ iss'.pc = PcAt(path, k + 1)
                  /\ iss'.done <=> StoredBy(path, k)
      BY <1>3, <1>4, <2>1, <2>2, <2>6
    <3>2. reference_done' <=> ~over \/ (InRam(here) /\ iss'.done)
      BY <2>1, <2>2, <2>6
    <3>3. Going(path, k) <=> over /\ ~(InRam(here) /\ StoredBy(path, k))
      BY <1>3, <1>4, <1>12, <2>1 DEF over
    <3> QED BY <3>1, <3>2, <3>3 DEF Following
  <2>7. ASSUME ~throws, fail_count' = 0 PROVE pass_count' = Cardinality(C(k))
    <3>1. pass_count = Cardinality(C(n))
      BY <1>5, <1>12
    <3>2. CASE InRam(here)
      <4>1. k \in C(k) /\ Cardinality(C(k)) = Cardinality(C(n)) + 1
        BY <1>3, <1>12, <3>2
      <4>2. k \notin faulty
        BY <1>1, <1>12, <2>1, <2>2, <2>7, <3>2
      <4> QED BY <2>1, <2>2, <3>1, <3>2, <4>1, <4>2
    <3>3. CASE ~InRam(here)
      BY <1>3, <2>1, <2>2, <3>1, <3>3
    <3> QED BY <3>2, <3>3
  <2>8. ASSUME ~throws, faulty \cap (1 .. k) = {} PROVE fail_count' = 0
    <3>1. k \notin faulty
      BY <1>1, <2>8
    <3> QED BY <1>12, <2>1, <2>2, <3>1
  <2> QED BY <1>9, <2>3, <2>4, <2>5, <2>6, <2>7, <2>8 DEF Reference, C, k
\* The comparison has failed.
<1>13. CASE threw = {} /\ fail_count # 0
  <2>1. faulty \cap (1 .. n) # {} /\ fail_count' # 0
    BY <1>5, <1>8, <1>13
  <2>2. faulty \cap (1 .. k) # {}
    BY <1>1, <2>1
  <2> QED BY <1>9, <2>1, <2>2 DEF Reference, k
<1> QED BY <1>10, <1>11, <1>12, <1>13

-----------------------------------------------------------------------------
(* The verdict and the exit status.                                          *)

\* Which states of the session, the testbench and the process go together.
Control ==
  /\ ~cosim_ready => /\ exit = "none" /\ gotFinish = "no" /\ retire_order = 0
                     /\ ~cosim_finished /\ ~initialized
  /\ cosim_ready /\ exit \notin {"ok", "failed"} => (initialized <=> init_rc = 0)
  /\ exit = "none" /\ ~cosim_finished => ~finished
  /\ exit \in {"none", "final"} /\ cosim_finished => (finished <=> initialized)
  /\ exit = "final" => cosim_ready /\ cosim_finished

RefInv ==
  initialized => Reference(path, faulty, threw, retire_order, iss.pc, iss.done, reference_done,
                           pass_count, fail_count)

\* What remains of Held when the run is over.
Noticed(p, f, th, n) ==
  \A i \in th :
    (\A j \in th : i <= j) /\ InRam(PcAt(p, i)) =>
      n = i \/ PcAt(p, i + 1) = PcAt(p, i) \/ i + 1 \in f

\* RetiresAccounted over the operators that take the program.
Accounted ==
  exit = "ok" /\ init_rc = 0 =>
    /\ verdict[2] = 0
    /\ threw = {} => verdict[1] = Cardinality(ComparedOf(path, retire_order))
    /\ RightBefore(path, faulty, threw, retire_order)
    /\ Noticed(path, faulty, threw, retire_order)
    /\ gotFinish = "mailbox" => Ends(handled[Len(handled)])

MailboxEnds == gotFinish = "mailbox" => Ends(handled[Len(handled)])

Outcome == Accounted /\ FailureJustified /\ MailboxEnds

\* finish_cosim ends a live session once and leaves its counters.
LEMMA FinishCosimSession ==
  ASSUME finish_cosim, Control, exit = "none"
  PROVE  /\ cosim_finished' = TRUE /\ (finished' <=> initialized)
         /\ UNCHANGED <<initialized, iss, reference_done, pass_count, fail_count>>
BY DEF finish_cosim, Control, checks, vars, session, veer_cosim_finish, BridgeFinish, finish

\* The control after finish_cosim, however the process goes on.
LEMMA FinishCosimControl ==
  ASSUME finish_cosim, Control, exit = "none", cosim_ready, UNCHANGED <<cosim_ready, init_rc>>,
         exit' \notin {"ok", "failed"}
  PROVE  Control'
<1>1. /\ cosim_finished' /\ (finished' <=> initialized) /\ (initialized' <=> initialized)
      /\ cosim_ready' /\ init_rc' = init_rc
  BY FinishCosimSession
<1>2. initialized <=> init_rc = 0
  BY DEF Control
<1> QED BY <1>1, <1>2 DEF Control

LEMMA ControlStep == TypeOK /\ TbTypeOK /\ Control /\ [TbNext]_tbvars => Control'
<1> SUFFICES ASSUME TypeOK, TbTypeOK, Control, [TbNext]_tbvars PROVE Control'
  OBVIOUS
<1>a. ASSUME UNCHANGED <<cosim_ready, init_rc, retire_order, gotFinish, exit, cosim_finished, initialized, finished>>
      PROVE  Control'
  BY <1>a DEF Control
<1>b. ASSUME UNCHANGED <<cosim_ready, init_rc, exit, cosim_finished, initialized, finished>>, cosim_ready
      PROVE  Control'
  BY <1>b DEF Control
<1>c. UNCHANGED checks => UNCHANGED <<initialized, finished>>
  BY DEF checks, vars, session
<1>1. ASSUME NEW up \in BOOLEAN, NEW log \in BOOLEAN, NEW mon \in BOOLEAN, ReleaseReset(up, log, mon)
      PROVE  Control'
  <2>1. /\ exit = "none" /\ ~cosim_ready /\ ~cosim_finished
        /\ cosim_ready' /\ UNCHANGED <<cosim_finished, retire_order, gotFinish>>
        /\ exit' \in {"none", "abort"}
        /\ init_rc' = answered'
    BY <1>1 DEF ReleaseReset, veer_cosim_init, Control
  <2>2. /\ initialized' <=> up /\ log
        /\ answered' = IF up /\ log THEN 0 ELSE 2
        /\ finished' = FALSE
    BY <1>1 DEF ReleaseReset, veer_cosim_init, BridgeInit, Answers, Cleared
  <2> QED BY <2>1, <2>2 DEF Control
<1>2. ASSUME NEW f \in BOOLEAN, PosedgeRetire(f) PROVE Control'
  <2>1. /\ UNCHANGED <<cosim_ready, init_rc, exit, cosim_finished>> /\ cosim_ready
        /\ exit = "none" /\ ~cosim_finished
        /\ bridge_retire(retire_order + 1)
    BY <1>2 DEF PosedgeRetire, Running, veer_cosim_retire
  <2>2. UNCHANGED <<initialized, finished>>
    <3>1. CASE initialized
      BY <2>1, <3>1, RetireOutcome DEF Control
    <3>2. CASE ~initialized
      <4>1. RetireRejected
        BY <2>1, <3>2 DEF bridge_retire, RetireIgnored, RetireSkipped, RetireCompared, Live
      <4> QED BY <4>1 DEF RetireRejected, session
    <3> QED BY <3>1, <3>2
  <2> QED BY <1>b, <2>1, <2>2
<1>3. ASSUME NEW f \in BOOLEAN, PosedgeIdle(f) PROVE Control'
  BY <1>3, <1>b, <1>c DEF PosedgeIdle, Running
<1>4. CASE NegedgeIdle
  BY <1>4, <1>b, <1>c DEF NegedgeIdle, Running
<1>5. ASSUME NEW a \in Addr, NegedgeAddress(a) PROVE Control'
  BY <1>5, <1>b, <1>c DEF NegedgeAddress, Running
<1>6. CASE NegedgeOverflow
  <2>1. /\ exit = "none" /\ cosim_ready /\ finish_cosim /\ exit' = "overflow"
        /\ UNCHANGED <<cosim_ready, init_rc>>
    BY <1>6 DEF NegedgeOverflow, Running
  <2> QED BY <2>1, FinishCosimControl
<1>7. ASSUME NEW both \in BOOLEAN, NegedgeData(both) PROVE Control'
  <2>1. PICK s : Mailbox(s)
    BY <1>7 DEF NegedgeData
  <2>2. /\ exit = "none" /\ cosim_ready /\ UNCHANGED <<cosim_ready, init_rc>>
    BY <1>7 DEF NegedgeData, Running
  <2>3. CASE ~Ends(s)
    BY <1>b, <1>c, <2>1, <2>2, <2>3 DEF Mailbox
  <2>4. CASE Ends(s)
    <3>1. finish_cosim /\ exit' \in {"none", "mismatch", "firmware_failed"}
      BY <2>1, <2>2, <2>4 DEF Mailbox
    <3> QED BY <2>2, <3>1, FinishCosimControl
  <2> QED BY <2>3, <2>4
<1>8. CASE HitMaxCycles
  <2>1. /\ exit = "none" /\ cosim_ready /\ cosim_ready' /\ BridgeFinish /\ exit' = "max_cycles"
        /\ UNCHANGED init_rc
    BY <1>8 DEF HitMaxCycles, Running, veer_cosim_finish
  <2> QED BY <2>1 DEF Control, BridgeFinish
<1>9. CASE Final
  <2>1. /\ exit = "none" /\ cosim_ready /\ finish_cosim /\ exit' = "final"
        /\ UNCHANGED <<cosim_ready, init_rc>>
    BY <1>9 DEF Final, Control
  <2> QED BY <2>1, FinishCosimControl
<1>10. CASE Return
  <2>1. /\ exit = "final" /\ cosim_ready' /\ exit' \in {"ok", "failed"}
    BY <1>10 DEF Return, Control
  <2> QED BY <2>1 DEF Control
<1>11. CASE UNCHANGED tbvars
  BY <1>11, <1>a DEF tbvars, tb, checks, vars, session
<1> QED BY <1>1, <1>2, <1>3, <1>4, <1>5, <1>6, <1>7, <1>8, <1>9, <1>10, <1>11 DEF TbNext

\* A session that comes up starts where the program does.
LEMMA ReferenceStarts ==
  ASSUME path \in Paths
  PROVE  Reference(path, faulty, {}, 0, Entry, FALSE, FALSE, 0, 0)
<1>1. Going(path, 0) /\ ~StoredBy(path, 0)
  BY DEF Going, StoredBy
<1>2. ComparedOf(path, 0) = {}
  BY DEF ComparedOf
<1>3. PcAt(path, 0 + 1) = Entry
  BY VeerAssumption DEF PcAt, Spot
<1>4. Following(path, 0, Entry, FALSE, FALSE)
  BY <1>1, <1>3 DEF Following
<1> QED BY <1>2, <1>4, FS_EmptySet DEF Reference, RightBefore, Held

LEMMA RefStep ==
  TypeOK /\ TbTypeOK /\ Control /\ RefInv /\ [TbNext]_tbvars => RefInv'
<1> SUFFICES ASSUME TypeOK, TbTypeOK, Control, RefInv, [TbNext]_tbvars, initialized'
             PROVE  RefInv'
  BY DEF RefInv
<1>a. ASSUME UNCHANGED <<path, faulty, threw, retire_order, initialized, iss, reference_done, pass_count, fail_count>>
      PROVE  RefInv'
  BY <1>a DEF RefInv
<1>b. UNCHANGED checks => UNCHANGED <<initialized, iss, reference_done, pass_count, fail_count>>
  BY DEF checks, vars, session
<1>c. BridgeFinish => UNCHANGED <<initialized, iss, reference_done, pass_count, fail_count>>
  BY DEF BridgeFinish
<1>d. finish_cosim => UNCHANGED <<initialized, iss, reference_done, pass_count, fail_count>>
  BY <1>b, <1>c DEF finish_cosim, veer_cosim_finish
<1>1. ASSUME NEW up \in BOOLEAN, NEW log \in BOOLEAN, NEW mon \in BOOLEAN, ReleaseReset(up, log, mon)
      PROVE  RefInv'
  <2>1. /\ retire_order' = 0 /\ threw' = {} /\ UNCHANGED <<path, faulty>>
    BY <1>1 DEF ReleaseReset, Control, program, TbTypeOK
  <2>2. iss' = ResetIss /\ reference_done' = FALSE /\ pass_count' = 0 /\ fail_count' = 0
    BY <1>1 DEF ReleaseReset, veer_cosim_init, BridgeInit, Cleared
  <2>3. ResetIss.pc = Entry /\ ResetIss.done = FALSE
    BY DEF ResetIss
  <2>4. Reference(path, faulty, {}, 0, Entry, FALSE, FALSE, 0, 0)
    BY ReferenceStarts DEF TbTypeOK
  <2> QED BY <2>1, <2>2, <2>3, <2>4 DEF RefInv
<1>2. ASSUME NEW f \in BOOLEAN, PosedgeRetire(f) PROVE RefInv'
  <2>1. /\ exit = "none" /\ ~cosim_finished
        /\ bridge_retire(retire_order + 1) /\ retire_order' = retire_order + 1
        /\ UNCHANGED <<path, faulty>>
    BY <1>2 DEF PosedgeRetire, Running, veer_cosim_retire, TracedStore
  <2>2. initialized /\ ~finished
    <3>1. CASE ~initialized
      <4>1. RetireRejected
        BY <2>1, <3>1 DEF bridge_retire, RetireIgnored, RetireSkipped, RetireCompared, Live
      <4> QED BY <3>1, <4>1 DEF RetireRejected, session
    <3> QED BY <2>1, <3>1 DEF Control
  <2>3. PICK n \in Nat : n = retire_order
    BY DEF TbTypeOK
  <2>4. Reference(path, faulty, threw, n, iss.pc, iss.done, reference_done, pass_count, fail_count)
    BY <2>2, <2>3 DEF RefInv
  <2>5. Reference(path, faulty, threw', n + 1, iss'.pc, iss'.done, reference_done', pass_count', fail_count')
    BY <2>1, <2>2, <2>3, <2>4, RetireFollows DEF TbTypeOK
  <2> QED BY <2>1, <2>3, <2>5 DEF RefInv
<1>3. ASSUME NEW f \in BOOLEAN, PosedgeIdle(f) PROVE RefInv'
  BY <1>3, <1>a, <1>b DEF PosedgeIdle, program
<1>4. CASE NegedgeIdle
  BY <1>4, <1>a, <1>b DEF NegedgeIdle, program
<1>5. ASSUME NEW a \in Addr, NegedgeAddress(a) PROVE RefInv'
  BY <1>5, <1>a, <1>b DEF NegedgeAddress, program
<1>6. CASE NegedgeOverflow
  BY <1>6, <1>a, <1>d DEF NegedgeOverflow, program
<1>7. ASSUME NEW both \in BOOLEAN, NegedgeData(both) PROVE RefInv'
  <2>1. PICK s : Mailbox(s)
    BY <1>7 DEF NegedgeData
  <2>2. UNCHANGED <<path, faulty, threw, retire_order>>
    BY <1>7 DEF NegedgeData, program
  <2> QED BY <1>a, <1>b, <1>d, <2>1, <2>2 DEF Mailbox
<1>8. CASE HitMaxCycles
  BY <1>8, <1>a, <1>c DEF HitMaxCycles, veer_cosim_finish, program
<1>9. CASE Final
  BY <1>9, <1>a, <1>d DEF Final, program
<1>10. CASE Return
  BY <1>10 DEF Return, BridgeReset
<1>11. CASE UNCHANGED tbvars
  BY <1>11, <1>a, <1>b DEF tbvars, tb
<1> QED BY <1>1, <1>2, <1>3, <1>4, <1>5, <1>6, <1>7, <1>8, <1>9, <1>10, <1>11 DEF TbNext

\* The run's outcome.
LEMMA OutcomeStays ==
  ASSUME Outcome, UNCHANGED <<gotFinish, handled>>, exit' \notin {"ok", "mismatch", "failed"}
  PROVE  Outcome'
BY DEF Outcome, Accounted, FailureJustified, MailboxEnds

\* What FailureJustified asks of the core and of Spike.
Blamed == faulty \cap (1 .. retire_order) # {} \/ threw # {}

LEMMA OutcomeStep ==
  TypeOK /\ Verdicts /\ TbTypeOK /\ Control /\ RefInv /\ Outcome /\ [TbNext]_tbvars => Outcome'
<1> SUFFICES ASSUME TypeOK, Verdicts, TbTypeOK, Control, RefInv, Outcome, [TbNext]_tbvars
             PROVE  Outcome'
  OBVIOUS
<1>1. ASSUME NEW up \in BOOLEAN, NEW log \in BOOLEAN, NEW mon \in BOOLEAN, ReleaseReset(up, log, mon)
      PROVE  Outcome'
  BY <1>1, OutcomeStays DEF ReleaseReset, veer_cosim_init, bus
<1>2. ASSUME NEW f \in BOOLEAN, PosedgeRetire(f) \/ PosedgeIdle(f) PROVE Outcome'
  <2>1. /\ exit' = "none" /\ gotFinish' # "mailbox"
    BY <1>2 DEF PosedgeRetire, PosedgeIdle, Running, TbTop
  <2> QED BY <2>1 DEF Outcome, Accounted, FailureJustified, MailboxEnds
<1>4. CASE NegedgeIdle
  BY <1>4, OutcomeStays DEF NegedgeIdle, Running, bus
<1>5. ASSUME NEW a \in Addr, NegedgeAddress(a) PROVE Outcome'
  BY <1>5, OutcomeStays DEF NegedgeAddress, Running
<1>6. CASE NegedgeOverflow
  BY <1>6, OutcomeStays DEF NegedgeOverflow, bus
<1>7. ASSUME NEW both \in BOOLEAN, NegedgeData(both) PROVE Outcome'
  <2>1. PICK s \in Store : Mailbox(s) /\ handled' = Append(handled, s)
    <3> DEFINE q == IF both THEN Pushed(queue, stores[aw + 1].addr) ELSE queue
               taken == [addr |-> q.slot[q.head], value |-> stores[w + 1].value]
    <3>1. Mailbox(taken) /\ handled' = Append(handled, taken)
      BY <1>7, Zenon DEF NegedgeData
    <3> HIDE DEF taken
    <3>2. handled' \in Seq(Store) /\ handled \in Seq(Store)
      BY <1>7, DataType DEF TbTypeOK
    <3>3. taken \in Store
      <4>1. handled'[Len(handled) + 1] = taken /\ Len(handled') = Len(handled) + 1
        BY <3>1, <3>2
      <4> QED BY <3>2, <4>1
    <3> QED BY <3>1, <3>3
  <2>2. handled'[Len(handled')] = s
    BY <2>1 DEF TbTypeOK
  <2>3. /\ exit = "none" /\ gotFinish = "no" /\ cosim_ready
        /\ UNCHANGED <<path, faulty, threw, init_rc, retire_order>>
    BY <1>7 DEF NegedgeData, Running, program
  <2>4. /\ exit' \in {"none", "firmware_failed", "mismatch"}
        /\ gotFinish' = "mailbox" => Ends(s)
        /\ exit' = "mismatch" => initialized /\ fail_count # 0
    BY <2>1, <2>3 DEF Mailbox, veer_cosim_fail_count
  <2>5. exit' = "mismatch" => init_rc = 0 /\ Blamed
    <3>1. SUFFICES ASSUME exit' = "mismatch" PROVE init_rc = 0 /\ Blamed
      OBVIOUS
    <3>2. init_rc = 0
      BY <2>3, <2>4, <3>1 DEF Control
    <3> QED BY <2>4, <3>1, <3>2 DEF RefInv, Reference, Blamed
  <2>6. FailureJustified'
    BY <2>3, <2>4, <2>5 DEF FailureJustified, Blamed
  <2>7. MailboxEnds' /\ Accounted'
    BY <2>2, <2>4 DEF MailboxEnds, Accounted
  <2> QED BY <2>6, <2>7 DEF Outcome
<1>8. CASE HitMaxCycles
  BY <1>8, OutcomeStays DEF HitMaxCycles, bus
<1>9. CASE Final
  BY <1>9, OutcomeStays DEF Final, bus
<1>10. CASE Return
  <2>1. /\ exit = "final" /\ BridgeReset
        /\ exit' = IF veer_cosim_fail_count(fail_count) = 0 THEN "ok" ELSE "failed"
        /\ UNCHANGED <<path, faulty, threw, init_rc, retire_order, gotFinish, handled>>
    BY <1>10 DEF Return, program, bus
  <2>2. cosim_ready /\ (initialized <=> init_rc = 0) /\ (finished <=> initialized)
    BY <2>1 DEF Control
  <2>3. exit' = "failed" => initialized /\ fail_count # 0
    BY <2>1 DEF veer_cosim_fail_count
  <2>4. exit' = "failed" => init_rc = 0 /\ Blamed
    BY <2>2, <2>3 DEF RefInv, Reference, Blamed
  <2>5. FailureJustified'
    BY <2>1, <2>4 DEF FailureJustified, Blamed
  <2>6. exit' = "ok" /\ init_rc = 0 =>
          /\ verdict'[2] = 0
          /\ threw = {} => verdict'[1] = Cardinality(ComparedOf(path, retire_order))
          /\ RightBefore(path, faulty, threw, retire_order)
          /\ Noticed(path, faulty, threw, retire_order)
    <3> SUFFICES ASSUME exit' = "ok", init_rc = 0
                 PROVE  /\ verdict'[2] = 0
                        /\ threw = {} => verdict'[1] = Cardinality(ComparedOf(path, retire_order))
                        /\ RightBefore(path, faulty, threw, retire_order)
                        /\ Noticed(path, faulty, threw, retire_order)
      OBVIOUS
    <3>1. initialized /\ finished /\ fail_count = 0
      BY <2>1, <2>2 DEF veer_cosim_fail_count
    <3>2. verdict' = verdict
      BY <2>1, <3>1 DEF BridgeReset, FinishPrints
    <3>3. verdict = <<pass_count, fail_count>>
      BY <3>1 DEF Verdicts, VerdictIsFinal
    <3>4. Held(path, faulty, threw, retire_order, iss.pc, reference_done)
      BY <3>1 DEF RefInv, Reference
    <3>5. Noticed(path, faulty, threw, retire_order)
      BY <3>4, Zenon DEF Held, Noticed
    <3>6. /\ RightBefore(path, faulty, threw, retire_order)
          /\ threw = {} => pass_count = Cardinality(ComparedOf(path, retire_order))
      BY <3>1 DEF RefInv, Reference
    <3> QED BY <3>1, <3>2, <3>3, <3>5, <3>6
  <2>7. MailboxEnds'
    BY <2>1 DEF Outcome, MailboxEnds
  <2>8. Accounted'
    BY <2>1, <2>6, <2>7 DEF Accounted, MailboxEnds
  <2> QED BY <2>5, <2>7, <2>8 DEF Outcome
<1>11. CASE UNCHANGED tbvars
  BY <1>11 DEF tbvars, tb, checks, vars, ghosts, Outcome, Accounted, FailureJustified, MailboxEnds
<1> QED BY <1>1, <1>2, <1>4, <1>5, <1>6, <1>7, <1>8, <1>9, <1>10, <1>11 DEF TbNext

\* The conjunction is an invariant of the testbench.
RunInv == Control /\ RefInv /\ Outcome

LEMMA RunInvHolds == TbSpec => []RunInv
<1>1. TbInit => RunInv
  <2> SUFFICES ASSUME TbInit PROVE RunInv
    OBVIOUS
  <2>1. /\ path \in Paths /\ cosim_ready = FALSE /\ cosim_finished = FALSE /\ gotFinish = "no"
        /\ exit = "none" /\ retire_order = 0
    BY Zenon DEF TbInit
  <2>2. initialized = FALSE /\ finished = FALSE
    BY DEF TbInit, Init
  <2>5. Control /\ RefInv
    BY <2>1, <2>2 DEF Control, RefInv
  <2>6. Outcome
    BY <2>1 DEF Outcome, Accounted, FailureJustified, MailboxEnds
  <2> QED BY <2>5, <2>6 DEF RunInv
<1>2. TypeOK /\ Verdicts /\ TbTypeOK /\ RunInv /\ [TbNext]_tbvars => RunInv'
  BY ControlStep, RefStep, OutcomeStep DEF RunInv
<1> QED BY <1>1, <1>2, SessionTheorem, SessionTypeCorrect, VerdictsHold, VeerTypeCorrect, PTL DEF TbSpec

\* A run that fails by the comparison had a wrong instruction among those reported, or one
\* at which Spike threw, for every program and every core.
THEOREM FailureTheorem == TbSpec => []FailureJustified
BY RunInvHolds, PTL DEF RunInv, Outcome

\* A run that ends with success, the bridge having come up, compared every retire it
\* should have up to the first throw of Spike, all of them when it never threw, and none
\* was wrong, although the testbench drops the bridge's answers.  A first throw in RAM
\* passed only with the last retire, or with one of the same instruction after it; of
\* what follows a throw outside RAM nothing is claimed, the code compares nothing there
\* for as long as Spike does not get by.
THEOREM AccountedTheorem == TbSpec => []RetiresAccounted
<1>1. TbTypeOK /\ Outcome => RetiresAccounted
  <2> SUFFICES ASSUME TbTypeOK, Accounted, exit = "ok", init_rc = 0 PROVE RetiresAccounted
    BY DEF Outcome, RetiresAccounted
  <2>1. Compared(retire_order) = ComparedOf(path, retire_order)
    BY SameCompared DEF TbTypeOK
  <2>2. \A k : At(k) = PcAt(path, k)
    BY Zenon DEF At, Place, Spot, PcAt
  <2>3. \A f \in threw :
          (\A j \in threw : f <= j) /\ InRam(At(f)) =>
            f = retire_order \/ At(f + 1) = At(f) \/ f + 1 \in faulty
    BY <2>2, Zenon DEF Accounted, Noticed
  <2>4. \A k \in Compared(retire_order) : (\A j \in threw : k <= j) => k \notin faulty
    BY <2>1, Zenon DEF Accounted, RightBefore
  <2> QED BY <2>1, <2>3, <2>4 DEF Accounted, RetiresAccounted
<1> QED BY <1>1, RunInvHolds, VeerTypeCorrect, PTL DEF RunInv
=============================================================================
