----------------------------- MODULE CosimInit -----------------------------
(***************************************************************************)
(* How a CPU-mode session comes up: the log paths BuildCosimConfig takes    *)
(* from the environment, SpikeSimulator::init with the ELF segments it      *)
(* loads into Spike's RAM one program header after the other, the entry     *)
(* point, and the compare log.  A step that throws ends the initialisation  *)
(* (cosim_bridge_init answers -2); what has been opened by then stays.      *)
(*                                                                          *)
(* Addresses are small numbers and do not wrap; mem_t::contents is taken    *)
(* for the start of memory that is contiguous, as the code uses it.         *)
(***************************************************************************)
EXTENDS Integers, Sequences

CONSTANTS
  MemBase, MemSize,   \* the RAM of CosimConfig
  Byte,               \* contents of a byte; 0 is one
  Files,              \* ELF files
  Envs,               \* environments: [Var -> a path, or Unset]
  Unset,              \* an unset or empty variable
  Default,            \* [{"cosim", "commit"} -> the fallback path]
  Unwritable          \* sets of paths that cannot be opened

Var == {"COSIM_LOG_PATH", "SPIKE_COMMIT_LOG_PATH", "target_cosim", "target_commit",
        "legacy_commit"}

\* A program header: `inside' says that it lies in the file itself.  Nothing keeps a
\* segment from having more bytes in the file than in memory: the loader never compares
\* the two.
PhdrOK(h) ==
  /\ h.inside \in BOOLEAN /\ h.type \in {"load", "other"}
  /\ h.offset \in Nat /\ h.paddr \in Nat /\ h.filesz \in Nat /\ h.memsz \in Nat

ASSUME InitAssumption ==
  /\ MemBase \in Nat /\ MemSize \in Nat /\ 0 \in Byte
  /\ \A f \in Files :
       /\ f.header \in {"ok", "missing", "empty", "short", "magic", "endian", "class"}
       /\ f.size \in Nat /\ f.data \in [0 .. f.size - 1 -> Byte]
       /\ f.entry \in Nat
       /\ f.phdrs \in Seq([inside : BOOLEAN, type : {"load", "other"}, offset : Nat,
                           paddr : Nat, filesz : Nat, memsz : Nat])
       /\ \A i \in 1 .. Len(f.phdrs) : PhdrOK(f.phdrs[i])

VARIABLES
  env, file, unwritable,   \* the process's surroundings
  config,   \* the paths of CosimConfig
  stage,    \* what init does next
  next,     \* the program header load_elf_segments looks at
  ram,      \* Spike's RAM
  pc,       \* Spike's program counter
  opened    \* the logs opened, and so truncated

inputs == <<env, file, unwritable>>
vars == <<inputs, config, stage, next, ram, pc, opened>>

Cell == 0 .. MemSize - 1
Stage == {"config", "commit_log", "header", "segments", "entry", "cosim_log", "up", "failed",
          "crashed"}

-----------------------------------------------------------------------------
\* cosim_config_policy.cc: the generic variable, then the target's

Set(v) == env[v] # Unset
ResolveLogPath ==
  IF Set("COSIM_LOG_PATH") THEN env["COSIM_LOG_PATH"]
  ELSE IF Set("target_cosim") THEN env["target_cosim"] ELSE Default["cosim"]
\* Mutant: the legacy variable is not looked at.
ResolveCommitLogPathNew ==
  IF Set("SPIKE_COMMIT_LOG_PATH") THEN env["SPIKE_COMMIT_LOG_PATH"]
  ELSE IF Set("target_commit") THEN env["target_commit"] ELSE Default["commit"]
ResolveCommitLogPath ==
  IF Set("SPIKE_COMMIT_LOG_PATH") THEN env["SPIKE_COMMIT_LOG_PATH"]
  ELSE IF Set("target_commit") THEN env["target_commit"]
  ELSE IF Set("legacy_commit") THEN env["legacy_commit"] ELSE Default["commit"]

BuildCosimConfig ==
  /\ stage = "config" /\ stage' = "commit_log"
  /\ config' = [cosim |-> ResolveLogPath, commit |-> ResolveCommitLogPath]
  /\ UNCHANGED <<inputs, next, ram, pc, opened>>

-----------------------------------------------------------------------------
\* SpikeSimulator::init

\* A log is opened for writing, or the initialisation fails.
OpenLog(which, after) ==
  IF config[which] \in unwritable
    THEN stage' = "failed" /\ UNCHANGED opened
    ELSE stage' = after /\ opened' = opened \cup {which}

\* Mutant: the compare log is opened before Spike is known to come up.
OpenCommitLogAfter ==
  /\ stage = "commit_log"
  /\ OpenLog("cosim", "header")
  /\ UNCHANGED <<inputs, config, next, ram, pc>>
OpenCommitLog ==
  /\ stage = "commit_log"
  /\ OpenLog("commit", "header")
  /\ UNCHANGED <<inputs, config, next, ram, pc>>

\* The checks of load_elf_segments before the first program header.
ReadHeader ==
  /\ stage = "header"
  /\ stage' = IF file.header = "ok" THEN "segments" ELSE "failed"
  /\ UNCHANGED <<inputs, config, next, ram, pc, opened>>

\* A segment that is not wholly in RAM is left out without a word.
Placed(h) == h.type = "load" /\ h.paddr >= MemBase /\ h.paddr - MemBase + h.memsz <= MemSize

\* The room of a segment is measured by its size in memory, the copy by its size in the
\* file: one that ends behind RAM writes where the process keeps other things.
Overruns(h) == Placed(h) /\ h.paddr - MemBase + h.filesz > MemSize

\* The program headers at which the load throws.
Broken(h) == ~h.inside \/ (h.type = "load" /\ h.offset + h.filesz > file.size)

\* Mutant: the bss is not cleared.
LoadedNoBss(h, a) ==
  LET off == a - (h.paddr - MemBase) IN
  IF off \in 0 .. h.filesz - 1 THEN file.data[h.offset + off] ELSE ram[a]

\* The byte at a when the segment has been copied and its bss cleared.
Loaded(h, a) ==
  LET off == a - (h.paddr - MemBase) IN
  IF off \in 0 .. h.filesz - 1 THEN file.data[h.offset + off]
  ELSE IF off \in h.filesz .. h.memsz - 1 THEN 0
  ELSE ram[a]

\* Mutant: the index moves by two.
FollowingPast == next + 2
Following == next + 1

\* After a copy behind RAM, which is undefined, the process may be gone.
LoadSegment ==
  LET h == file.phdrs[next] IN
  /\ stage = "segments" /\ next <= Len(file.phdrs)
  /\ IF Broken(h)
       THEN stage' = "failed" /\ UNCHANGED <<next, ram>>
       ELSE /\ stage' \in IF Overruns(h) THEN {stage, "crashed"} ELSE {stage}
            /\ next' = Following
            /\ ram' = IF Placed(h) THEN [a \in Cell |-> Loaded(h, a)] ELSE ram
  /\ UNCHANGED <<inputs, config, pc, opened>>

LoadDone ==
  /\ stage = "segments" /\ next > Len(file.phdrs)
  /\ stage' = "entry"
  /\ UNCHANGED <<inputs, config, next, ram, pc, opened>>

\* read_elf_entry opens the file again and is content with a shorter header.
ReadElfEntry ==
  /\ stage = "entry"
  /\ stage' = IF file.header \in {"ok", "short"} THEN "cosim_log" ELSE "failed"
  /\ pc' = IF stage' = "failed" THEN pc ELSE file.entry
  /\ UNCHANGED <<inputs, config, next, ram, opened>>

\* CosimSession::ensure_log_open, the session being initialised by now.
OpenCosimLog ==
  /\ stage = "cosim_log"
  /\ OpenLog("cosim", "up")
  /\ UNCHANGED <<inputs, config, next, ram, pc>>

Init ==
  /\ env \in Envs /\ file \in Files /\ unwritable \in Unwritable
  /\ config = Default
  /\ stage = "config" /\ next = 1
  /\ ram = [a \in Cell |-> 0] /\ pc = 0 /\ opened = {}

Next ==
  \/ BuildCosimConfig
  \/ OpenCommitLog
  \/ ReadHeader
  \/ LoadSegment
  \/ LoadDone
  \/ ReadElfEntry
  \/ OpenCosimLog

Spec == Init /\ [][Next]_vars

-----------------------------------------------------------------------------
\* Properties

\* The shape of the state.
TypeOK ==
  /\ stage \in Stage
  /\ next \in 1 .. Len(file.phdrs) + 1
  /\ ram \in [Cell -> Byte]
  /\ pc \in Nat
  /\ opened \subseteq {"cosim", "commit"}

\* What an ELF file says of memory: a byte belongs to the last segment in RAM that
\* covers it, and is 0 when the segment has no byte of the file there, or when no
\* segment covers it.
Covers(h, a) == Placed(h) /\ a + MemBase \in h.paddr .. h.paddr + h.memsz - 1
Content(h, a) ==
  LET off == a + MemBase - h.paddr
  IN IF off < h.filesz THEN file.data[h.offset + off] ELSE 0
IsImage(n, a) ==
  /\ \A k \in 1 .. n :
       /\ Covers(file.phdrs[k], a)
       /\ \A j \in k + 1 .. n : ~Covers(file.phdrs[j], a)
       => ram[a] = Content(file.phdrs[k], a)
  /\ (\A k \in 1 .. n : ~Covers(file.phdrs[k], a)) => ram[a] = 0

\* A file as linkers write it: no segment has more bytes in the file than in memory.
\* What any other describes is not said.
WellFormed ==
  \A i \in 1 .. Len(file.phdrs) :
    file.phdrs[i].type = "load" => file.phdrs[i].filesz <= file.phdrs[i].memsz

\* Spike starts at the entry point of the file and, when it is well formed, from the
\* memory it describes, however its segments overlap, leave RAM or have no bytes in the
\* file; and the load of such a file writes nowhere else.
RamIsImage ==
  /\ stage \in {"cosim_log", "up"} =>
       /\ WellFormed => \A a \in Cell : IsImage(Len(file.phdrs), a)
       /\ pc = file.entry
  /\ WellFormed => stage # "crashed"

\* A path is that of a variable whenever one of those that name it is set; which of
\* several goes first is left open, the documents disagree.  With the paths taken, the
\* initialisation fails exactly when a log cannot be written or the file is one of those
\* it refuses, wherever that is found; a segment outside RAM, or one with more bytes in
\* the file than in memory, is not refused.
Chosen(path, names, fallback) ==
  IF \E v \in names : Set(v) THEN \E v \in names : Set(v) /\ path = env[v]
  ELSE path = fallback
Good ==
  /\ config.commit \notin unwritable /\ config.cosim \notin unwritable
  /\ file.header = "ok"
  /\ \A i \in 1 .. Len(file.phdrs) : ~Broken(file.phdrs[i])
FailureExplained ==
  /\ stage # "config" =>
       /\ Chosen(config.commit, {"SPIKE_COMMIT_LOG_PATH", "target_commit", "legacy_commit"},
                 Default["commit"])
       /\ Chosen(config.cosim, {"COSIM_LOG_PATH", "target_cosim"}, Default["cosim"])
  /\ stage = "up" => Good
  /\ stage = "failed" => ~Good

\* An initialisation that fails, or dies in the load, keeps the compare log of the run
\* before; the commit log is the first thing it truncates.  `opened' names logs: two that
\* share one file are not told apart.
CompareLogKept ==
  /\ stage = "up" => opened = {"commit", "cosim"}
  /\ stage \in {"failed", "crashed"} => "cosim" \notin opened
=============================================================================
