----------------------------- MODULE AtomicBus ------------------------------
(***************************************************************************)
(* What the SoC Spike mode promises to Spike and to the firmware: one      *)
(* access at a time, each taking effect exactly once at a single point     *)
(* between being issued and being answered, loads answered with the        *)
(* memory as it is then, and console/protocol bytes arriving in the order  *)
(* the firmware wrote them.                                                *)
(***************************************************************************)
EXTENDS Integers, Sequences

CONSTANTS RamAddr, Image

VARIABLES
  memory,    \* contents of the RAM
  console,   \* bytes the firmware has sent to the testbench
  cur,       \* the access under way: acc, done and whether there is one
  gone,      \* Spike has been told to stop while waiting
  answer     \* the last word a fetch or load was answered with

aVars == <<memory, console, cur, gone, answer>>

Init ==
  /\ memory = Image
  /\ console = << >>
  /\ cur.busy = FALSE
  /\ gone = FALSE
  /\ answer = "zero"

Issue ==
  /\ ~cur.busy /\ ~gone
  /\ cur'.busy /\ ~cur'.done
  /\ UNCHANGED <<memory, console, gone, answer>>

\* The access takes effect.
Perform ==
  /\ cur.busy /\ ~cur.done
  /\ cur' = [busy |-> TRUE, done |-> TRUE, acc |-> cur.acc]
  /\ memory' = IF cur.acc.op = "store" /\ cur.acc.addr \in RamAddr
               THEN [memory EXCEPT ![cur.acc.addr] = cur.acc.val] ELSE memory
  /\ console' = IF cur.acc.op = "store" /\ cur.acc.addr = "sim_mmio"
                THEN Append(console, cur.acc.val) ELSE console
  /\ UNCHANGED <<gone, answer>>

WordAt(a) == IF a \in RamAddr THEN memory[a] ELSE "zero"

Answer ==
  /\ cur.busy /\ cur.done /\ ~gone
  /\ ~cur'.busy
  /\ answer' = IF cur.acc.op = "store" THEN answer ELSE WordAt(cur.acc.addr)
  /\ UNCHANGED <<memory, console, gone>>

\* The run is being stopped: the access under way is never answered, and
\* may or may not still take effect.
Abandon ==
  /\ cur.busy /\ ~gone
  /\ gone' = TRUE
  /\ UNCHANGED <<memory, console, cur, answer>>

Next == Issue \/ Perform \/ Answer \/ Abandon

Spec == Init /\ [][Next]_aVars
=============================================================================
