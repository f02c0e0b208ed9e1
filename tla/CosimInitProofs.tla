-------------------------- MODULE CosimInitProofs --------------------------
(***************************************************************************)
(* Theorems about CosimInit for every ELF file, RAM, environment and set of *)
(* paths that cannot be written: Spike starts from the image a well-formed  *)
(* file describes, the initialisation fails exactly for the reasons it      *)
(* checks, and one that does not come up leaves the compare log alone.      *)
(***************************************************************************)
EXTENDS CosimInit, TLAPS

-----------------------------------------------------------------------------
(* The inductive invariant: how far the initialisation has come.            *)

Constant == env \in Envs /\ file \in Files

\* The logs opened so far.
OpenedSoFar ==
  /\ stage \in {"config", "commit_log"} => opened = {}
  /\ stage \in {"header", "segments", "entry", "cosim_log"} => opened = {"commit"}
  /\ stage = "up" => opened = {"commit", "cosim"}
  /\ stage \in {"failed", "crashed"} => "cosim" \notin opened

\* The program headers looked at are `next - 1' of them, all of them in the end; RAM is
\* the image these say, in a well-formed file.
LoadedSoFar ==
  /\ stage \in {"config", "commit_log", "header"} => next = 1
  /\ stage \in {"entry", "cosim_log", "up"} => next = Len(file.phdrs) + 1
  /\ WellFormed => (stage # "crashed" /\ \A a \in Cell : IsImage(next - 1, a))
  /\ stage \in {"cosim_log", "up"} => pc = file.entry

\* What has been found in order so far.
PathsChosen ==
  /\ Chosen(config.commit, {"SPIKE_COMMIT_LOG_PATH", "target_commit", "legacy_commit"},
            Default["commit"])
  /\ Chosen(config.cosim, {"COSIM_LOG_PATH", "target_cosim"}, Default["cosim"])
Later == {"segments", "entry", "cosim_log", "up"}
CheckedSoFar ==
  /\ stage # "config" => PathsChosen
  /\ stage \in {"header"} \cup Later => config.commit \notin unwritable
  /\ stage \in Later => file.header = "ok"
  /\ stage \in Later => \A i \in 1 .. next - 1 : ~Broken(file.phdrs[i])
  /\ stage = "up" => config.cosim \notin unwritable
  /\ stage = "failed" => ~Good

Inv == Constant /\ TypeOK /\ OpenedSoFar /\ LoadedSoFar /\ CheckedSoFar

-----------------------------------------------------------------------------
(* The paths.                                                               *)

\* The nested tests of the code take a variable that is set, if there is one.
LEMMA SetOneChosen ==
  /\ Chosen(ResolveCommitLogPath, {"SPIKE_COMMIT_LOG_PATH", "target_commit", "legacy_commit"},
            Default["commit"])
  /\ Chosen(ResolveLogPath, {"COSIM_LOG_PATH", "target_cosim"}, Default["cosim"])
BY DEF Chosen, ResolveCommitLogPath, ResolveLogPath

-----------------------------------------------------------------------------
(* The segments.                                                            *)

\* A program header of a file has numbers in its fields.
LEMMA HeaderType ==
  ASSUME Constant, NEW i \in 1 .. Len(file.phdrs)
  PROVE  PhdrOK(file.phdrs[i]) /\ Len(file.phdrs) \in Nat
<1>1. /\ file.phdrs \in Seq([inside : BOOLEAN, type : {"load", "other"}, offset : Nat,
                             paddr : Nat, filesz : Nat, memsz : Nat])
      /\ \A k \in 1 .. Len(file.phdrs) : PhdrOK(file.phdrs[k])
  BY InitAssumption DEF Constant
<1> QED BY <1>1

\* The load of one more segment extends the image by it, wherever it overlaps the
\* segments before.
LEMMA SegmentExtendsImage ==
  ASSUME Constant, next \in 1 .. Len(file.phdrs), ram \in [Cell -> Byte],
         NEW a \in Cell, IsImage(next - 1, a),
         WellFormed, UNCHANGED file, next' = next + 1,
         ram' = IF Placed(file.phdrs[next]) THEN [b \in Cell |-> Loaded(file.phdrs[next], b)]
                ELSE ram
  PROVE  IsImage(next - 1, a)'
<1> DEFINE h == file.phdrs[next]
<1>1. PhdrOK(h) /\ Len(file.phdrs) \in Nat /\ MemBase \in Nat /\ MemSize \in Nat
  BY HeaderType, InitAssumption
<1>2. a \in Int
  BY <1>1 DEF Cell
<1> DEFINE off == a - (h.paddr - MemBase)
<1>3. /\ off \in Int /\ off = a + MemBase - h.paddr
      /\ h.paddr \in Nat /\ h.filesz \in Nat /\ h.memsz \in Nat
      /\ Placed(h) => h.filesz <= h.memsz
  <2>1. Placed(h) => h.filesz <= h.memsz
    BY DEF WellFormed, Placed
  <2> QED BY <1>1, <1>2, <2>1 DEF PhdrOK
<1>4. Covers(h, a) <=> Placed(h) /\ off \in 0 .. h.memsz - 1
  <2>1. \A x, b, p, m \in Int : x + b \in p .. p + m - 1 <=> x - (p - b) \in 0 .. m - 1
    OBVIOUS
  <2>2. a \in Int /\ MemBase \in Int /\ h.paddr \in Int /\ h.memsz \in Int
    BY <1>1, <1>2, <1>3
  <2>3. a + MemBase \in h.paddr .. h.paddr + h.memsz - 1 <=> off \in 0 .. h.memsz - 1
    BY <2>1, <2>2
  <2> QED BY <2>3 DEF Covers
<1>5. next' - 1 = next
  BY <1>1
<1>6. \A k : /\ Content(file.phdrs[k], a)' = Content(file.phdrs[k], a)
            /\ Covers(file.phdrs[k], a)' = Covers(file.phdrs[k], a)
  BY DEF Content, Covers, Placed
<1>7. CASE Covers(h, a)
  <2>1. Placed(h) /\ off \in 0 .. h.memsz - 1
    BY <1>7, <1>4
  <2>2. ram'[a] = Loaded(h, a)
    BY <2>1
  <2>3. ram'[a] = Content(h, a)
    <3>1. CASE off < h.filesz
      BY <3>1, <2>1, <2>2, <1>3 DEF Loaded, Content
    <3>2. CASE ~(off < h.filesz)
      <4>1. off \notin 0 .. h.filesz - 1 /\ off \in h.filesz .. h.memsz - 1
        BY <3>2, <2>1, <1>3
      <4>2. Loaded(h, a) = 0
        BY <4>1 DEF Loaded
      <4>3. Content(h, a) = 0
        BY <3>2, <1>3 DEF Content
      <4> QED BY <4>2, <4>3, <2>2
    <3> QED BY <3>1, <3>2
  <2>4. ASSUME NEW k \in 1 .. next,
               \A j \in k + 1 .. next : ~Covers(file.phdrs[j], a)
        PROVE  k = next
    BY <2>4, <1>7, <1>1
  <2>5. ~ \A k \in 1 .. next : ~Covers(file.phdrs[k], a)
    BY <1>7, <1>1
  <2> QED BY <2>3, <2>4, <2>5, <1>5, <1>6 DEF IsImage
<1>8. CASE ~Covers(h, a)
  <2>1. ram'[a] = ram[a]
    <3>1. CASE Placed(h)
      <4>1. off \notin 0 .. h.memsz - 1
        BY <3>1, <1>8, <1>4
      <4>2. off \notin 0 .. h.filesz - 1 /\ off \notin h.filesz .. h.memsz - 1
        BY <3>1, <4>1, <1>3
      <4>3. Loaded(h, a) = ram[a]
        BY <4>2 DEF Loaded
      <4> QED BY <4>3, <3>1
    <3>2. CASE ~Placed(h)
      BY <3>2
    <3> QED BY <3>1, <3>2
  <2>2. \A k \in 1 .. next : k \in 1 .. next - 1 \/ k = next
    BY <1>1
  <2>3. \A k \in 1 .. next - 1 : k \in 1 .. next /\ k + 1 .. next - 1 \subseteq k + 1 .. next
    BY <1>1
  <2>4. ASSUME NEW k \in 1 .. next, Covers(file.phdrs[k], a),
               \A j \in k + 1 .. next : ~Covers(file.phdrs[j], a)
        PROVE  ram[a] = Content(file.phdrs[k], a)
    <3>1. k \in 1 .. next - 1
      BY <2>4, <2>2, <1>8
    <3>2. \A j \in k + 1 .. next - 1 : ~Covers(file.phdrs[j], a)
      BY <3>1, <2>3, <2>4
    <3> QED BY <3>1, <3>2, <2>4 DEF IsImage
  <2>5. ASSUME \A k \in 1 .. next : ~Covers(file.phdrs[k], a)
        PROVE  ram[a] = 0
    BY <2>3, <2>5 DEF IsImage
  <2> QED BY <2>1, <2>4, <2>5, <1>5, <1>6 DEF IsImage
<1> QED BY <1>7, <1>8

-----------------------------------------------------------------------------
(* The invariant is inductive.                                              *)

\* The initial states satisfy the invariant.
LEMMA InvInit == Init => Inv
<1> SUFFICES ASSUME Init PROVE Inv
  OBVIOUS
<1>1. /\ MemBase \in Nat /\ MemSize \in Nat /\ 0 \in Byte
      /\ Constant /\ Len(file.phdrs) \in Nat
  BY InitAssumption DEF Init, Constant
<1>2. TypeOK
  BY <1>1 DEF Init, TypeOK, Stage
<1>3. OpenedSoFar
  BY DEF Init, OpenedSoFar
<1>4. LoadedSoFar
  BY DEF Init, LoadedSoFar, IsImage
<1>5. CheckedSoFar
  BY DEF Init, CheckedSoFar, Later
<1> QED BY <1>1, <1>2, <1>3, <1>4, <1>5 DEF Inv

\* Steps that leave the segments, or what has been found, alone.
LEMMA ImageKept ==
  ASSUME LoadedSoFar, UNCHANGED <<file, next, ram>>, stage' # "crashed" \/ stage' = stage
  PROVE  (WellFormed => (stage # "crashed" /\ \A a \in Cell : IsImage(next - 1, a)))'
BY DEF LoadedSoFar, IsImage, Covers, Placed, Content, Cell, WellFormed

\* The file and the environment stay, and so does what is expected of them.
LEMMA SameInputs ==
  ASSUME UNCHANGED inputs
  PROVE  /\ UNCHANGED config => PathsChosen' = PathsChosen /\ Good' = Good
         /\ \A i : Broken(file.phdrs[i])' = Broken(file.phdrs[i])
         /\ Constant' = Constant
<1>1. UNCHANGED config => PathsChosen' = PathsChosen
  BY DEF inputs, PathsChosen, Chosen, Set
<1>2. \A i : Broken(file.phdrs[i])' = Broken(file.phdrs[i])
  BY DEF inputs, Broken
<1>3. UNCHANGED config => Good' = Good
  BY <1>2 DEF inputs, Good
<1> QED BY <1>1, <1>2, <1>3 DEF inputs, Constant

\* The paths are those of variables that are set.
LEMMA ConfigStep ==
  ASSUME Inv, BuildCosimConfig
  PROVE  Inv'
<1>1. TypeOK'
  BY DEF Inv, BuildCosimConfig, TypeOK, Stage, inputs
<1>2. OpenedSoFar'
  BY DEF Inv, BuildCosimConfig, OpenedSoFar
<1>3. LoadedSoFar'
  BY ImageKept DEF Inv, BuildCosimConfig, LoadedSoFar, inputs
<1>4. CheckedSoFar'
  <2>1. stage' = "commit_log" /\ UNCHANGED inputs
        /\ config' = [cosim |-> ResolveLogPath, commit |-> ResolveCommitLogPath]
    BY DEF BuildCosimConfig
  <2>2. PathsChosen'
    BY <2>1, SetOneChosen DEF inputs, PathsChosen, Chosen, Set
  <2> QED BY <2>1, <2>2 DEF CheckedSoFar, Later
<1> QED BY <1>1, <1>2, <1>3, <1>4, SameInputs DEF Inv, BuildCosimConfig

\* The commit log is the first thing opened.
LEMMA CommitLogStep ==
  ASSUME Inv, OpenCommitLog
  PROVE  Inv'
<1>2. opened = {}
  BY DEF Inv, OpenedSoFar, OpenCommitLog
<1>3. TypeOK'
  BY <1>2 DEF Inv, OpenCommitLog, OpenLog, TypeOK, Stage, inputs
<1>4. OpenedSoFar'
  BY <1>2 DEF Inv, OpenCommitLog, OpenLog, OpenedSoFar
<1>5. LoadedSoFar'
  BY ImageKept DEF Inv, OpenCommitLog, OpenLog, LoadedSoFar, inputs
<1>6. CheckedSoFar'
  <2>1. config.commit \in unwritable => ~Good
    BY DEF Good
  <2> QED BY <2>1, SameInputs DEF Inv, OpenCommitLog, OpenLog, CheckedSoFar, Later, inputs
<1> QED BY <1>3, <1>4, <1>5, <1>6, SameInputs DEF Inv, OpenCommitLog

\* The header is read.
LEMMA HeaderStep ==
  ASSUME Inv, ReadHeader
  PROVE  Inv'
<1>1. TypeOK'
  BY DEF Inv, ReadHeader, TypeOK, Stage, inputs
<1>2. OpenedSoFar'
  BY DEF Inv, ReadHeader, OpenedSoFar
<1>3. LoadedSoFar'
  BY ImageKept DEF Inv, ReadHeader, LoadedSoFar, inputs
<1>4. CheckedSoFar'
  <2>1. file.header # "ok" => ~Good
    BY DEF Good
  <2>2. next = 1
    BY DEF Inv, LoadedSoFar, ReadHeader
  <2> QED BY <2>1, <2>2, SameInputs DEF Inv, ReadHeader, CheckedSoFar, Later, inputs
<1> QED BY <1>1, <1>2, <1>3, <1>4, SameInputs DEF Inv, ReadHeader

\* One segment more, or a program header that cannot be used.
LEMMA SegmentStep ==
  ASSUME Inv, LoadSegment
  PROVE  Inv'
<1> DEFINE h == file.phdrs[next]
<1>1. next \in 1 .. Len(file.phdrs) /\ Len(file.phdrs) \in Nat /\ Constant
  BY HeaderType, InitAssumption DEF Inv, TypeOK, LoadSegment, Constant
<1>2. UNCHANGED inputs /\ UNCHANGED <<config, pc, opened>> /\ stage = "segments"
  BY DEF LoadSegment
<1>3. CASE Broken(h)
  <2>1. stage' = "failed" /\ UNCHANGED <<next, ram>>
    BY <1>3 DEF LoadSegment
  <2>2. TypeOK'
    BY <1>2, <2>1 DEF Inv, TypeOK, Stage, inputs
  <2>3. OpenedSoFar'
    BY <1>2, <2>1 DEF Inv, OpenedSoFar
  <2>4. LoadedSoFar'
    BY <1>2, <2>1, ImageKept DEF Inv, LoadedSoFar, inputs
  <2>5. CheckedSoFar'
    <3>1. ~Good
      BY <1>1, <1>3 DEF Good
    <3> QED BY <1>2, <2>1, <3>1, SameInputs DEF Inv, CheckedSoFar, Later, inputs
  <2> QED BY <1>2, <2>2, <2>3, <2>4, <2>5, SameInputs DEF Inv
<1>4. CASE ~Broken(h)
  <2>1. /\ stage' \in {"segments", "crashed"} /\ next' = next + 1
        /\ stage' = "crashed" => Overruns(h)
        /\ ram' = IF Placed(h) THEN [a \in Cell |-> Loaded(h, a)] ELSE ram
    BY <1>2, <1>4 DEF LoadSegment, Following
  <2>2. TypeOK'
    <3>1. ram' \in [Cell -> Byte]
      <4>1. ASSUME NEW a \in Cell, Placed(h)
            PROVE  Loaded(h, a) \in Byte
        <5> DEFINE off == a - (h.paddr - MemBase)
        <5>1. /\ h.paddr \in Nat /\ h.offset \in Nat /\ h.filesz \in Nat /\ h.memsz \in Nat
              /\ MemBase \in Nat /\ MemSize \in Nat /\ a \in Int
          BY <1>1, HeaderType, InitAssumption DEF PhdrOK, Cell
        <5>2. /\ file.size \in Nat /\ file.data \in [0 .. file.size - 1 -> Byte]
              /\ 0 \in Byte /\ ram[a] \in Byte
          BY <1>1, InitAssumption DEF Constant, Inv, TypeOK
        <5>3. h.offset + h.filesz <= file.size
          BY <4>1, <1>4, <5>1, <5>2 DEF Broken, Placed
        <5>4. ASSUME off \in 0 .. h.filesz - 1
              PROVE  file.data[h.offset + off] \in Byte
          <6>1. h.offset + off \in 0 .. file.size - 1
            <7>1. \A x, o, f, z \in Int : o + f <= z /\ o >= 0 /\ x \in 0 .. f - 1
                                      => o + x \in 0 .. z - 1
              OBVIOUS
            <7>2. off \in Int /\ h.offset \in Int /\ h.filesz \in Int /\ file.size \in Int
              BY <5>1, <5>2
            <7> QED BY <5>1, <5>3, <5>4, <7>1, <7>2
          <6> QED BY <6>1, <5>2
        <5> QED BY <5>2, <5>4 DEF Loaded
      <4> QED BY <4>1, <2>1 DEF Inv, TypeOK
    <3> QED BY <1>1, <1>2, <2>1, <3>1 DEF Inv, TypeOK, Stage, inputs
  <2>3. OpenedSoFar'
    BY <1>2, <2>1 DEF Inv, OpenedSoFar
  <2>4. LoadedSoFar'
    <3>1. ASSUME WellFormed, NEW a \in Cell
          PROVE  IsImage(next - 1, a)'
      <4>1. IsImage(next - 1, a) /\ ram \in [Cell -> Byte]
        BY <3>1 DEF Inv, LoadedSoFar, TypeOK
      <4>2. UNCHANGED file
        BY <1>2 DEF inputs
      <4>3. ram' = IF Placed(file.phdrs[next])
                   THEN [b \in Cell |-> Loaded(file.phdrs[next], b)] ELSE ram
        BY <2>1
      <4> QED BY <1>1, <2>1, <3>1, <4>1, <4>2, <4>3, SegmentExtendsImage
    <3>2. Cell' = Cell /\ WellFormed' = WellFormed
      BY <1>2 DEF Cell, WellFormed, inputs
    <3>3. WellFormed => ~Overruns(h)
      <4>1. /\ h.paddr \in Nat /\ h.filesz \in Nat /\ h.memsz \in Nat
            /\ MemBase \in Nat /\ MemSize \in Nat
        BY <1>1, HeaderType, InitAssumption DEF PhdrOK
      <4>2. WellFormed /\ Placed(h) => h.filesz <= h.memsz
        BY <1>1 DEF WellFormed, Placed
      <4> QED BY <4>1, <4>2 DEF Overruns, Placed
    <3> QED BY <1>2, <2>1, <3>1, <3>2, <3>3 DEF LoadedSoFar
  <2>5. CheckedSoFar'
    <3>1. \A i \in 1 .. next' - 1 : i \in 1 .. next - 1 \/ i = next
      BY <1>1, <2>1
    <3>2. \A i \in 1 .. next' - 1 : ~Broken(file.phdrs[i])
      BY <3>1, <1>2, <1>4 DEF Inv, CheckedSoFar, Later
    <3> QED BY <1>2, <2>1, <3>2, SameInputs DEF Inv, CheckedSoFar, Later, inputs
  <2> QED BY <1>2, <2>2, <2>3, <2>4, <2>5, SameInputs DEF Inv
<1> QED BY <1>3, <1>4

\* All the segments are in.
LEMMA DoneStep ==
  ASSUME Inv, LoadDone
  PROVE  Inv'
<1>1. next = Len(file.phdrs) + 1
  <2>1. Len(file.phdrs) \in Nat
    BY InitAssumption DEF Inv, Constant
  <2> QED BY <2>1 DEF Inv, TypeOK, LoadDone
<1>2. TypeOK'
  BY DEF Inv, LoadDone, TypeOK, Stage, inputs
<1>3. OpenedSoFar'
  BY DEF Inv, LoadDone, OpenedSoFar
<1>4. LoadedSoFar'
  BY <1>1, ImageKept DEF Inv, LoadDone, LoadedSoFar, inputs
<1>5. CheckedSoFar'
  BY SameInputs DEF Inv, LoadDone, CheckedSoFar, Later, inputs
<1> QED BY <1>2, <1>3, <1>4, <1>5, SameInputs DEF Inv, LoadDone

\* Spike's program counter.
LEMMA EntryStep ==
  ASSUME Inv, ReadElfEntry
  PROVE  Inv'
<1>1. file.header = "ok" /\ stage' = "cosim_log" /\ pc' = file.entry /\ file.entry \in Nat
  BY InitAssumption DEF Inv, Constant, CheckedSoFar, Later, ReadElfEntry
<1>2. TypeOK'
  BY <1>1 DEF Inv, ReadElfEntry, TypeOK, Stage, inputs
<1>3. OpenedSoFar'
  BY <1>1 DEF Inv, ReadElfEntry, OpenedSoFar
<1>4. LoadedSoFar'
  BY <1>1, ImageKept DEF Inv, ReadElfEntry, LoadedSoFar, inputs
<1>5. CheckedSoFar'
  BY <1>1, SameInputs DEF Inv, ReadElfEntry, CheckedSoFar, Later, inputs
<1> QED BY <1>2, <1>3, <1>4, <1>5, SameInputs DEF Inv, ReadElfEntry

\* The compare log is the last.
LEMMA CosimLogStep ==
  ASSUME Inv, OpenCosimLog
  PROVE  Inv'
<1>2. opened = {"commit"}
  BY DEF Inv, OpenedSoFar, OpenCosimLog
<1>3. TypeOK'
  BY <1>2 DEF Inv, OpenCosimLog, OpenLog, TypeOK, Stage, inputs
<1>4. OpenedSoFar'
  BY <1>2 DEF Inv, OpenCosimLog, OpenLog, OpenedSoFar
<1>5. LoadedSoFar'
  BY ImageKept DEF Inv, OpenCosimLog, OpenLog, LoadedSoFar, inputs
<1>6. CheckedSoFar'
  <2>1. config.cosim \in unwritable => ~Good
    BY DEF Good
  <2> QED BY <2>1, SameInputs DEF Inv, OpenCosimLog, OpenLog, CheckedSoFar, Later, inputs
<1> QED BY <1>3, <1>4, <1>5, <1>6, SameInputs DEF Inv, OpenCosimLog

\* Every step keeps the invariant.
LEMMA InvNext == Inv /\ [Next]_vars => Inv'
<1> SUFFICES ASSUME Inv, [Next]_vars PROVE Inv'
  OBVIOUS
<1>1. CASE Next
  BY <1>1, ConfigStep, CommitLogStep, HeaderStep, SegmentStep, DoneStep, EntryStep,
     CosimLogStep DEF Next
<1>2. CASE UNCHANGED vars
  <2>1. UNCHANGED inputs /\ UNCHANGED <<file, next, ram>> /\ UNCHANGED <<stage, pc, opened, config>>
    BY <1>2 DEF vars, inputs
  <2>2. LoadedSoFar'
    BY <2>1, ImageKept DEF Inv, LoadedSoFar
  <2>3. CheckedSoFar'
    BY <2>1, SameInputs DEF Inv, CheckedSoFar, Later, inputs
  <2>4. TypeOK' /\ OpenedSoFar'
    BY <2>1 DEF Inv, TypeOK, OpenedSoFar
  <2> QED BY <2>1, <2>2, <2>3, <2>4, SameInputs DEF Inv
<1> QED BY <1>1, <1>2

\* The invariant holds in every reachable state.
LEMMA InvAlways == Spec => []Inv
<1>1. Init => Inv
  BY InvInit
<1>2. Inv /\ [Next]_vars => Inv'
  BY InvNext
<1> QED BY <1>1, <1>2, PTL DEF Spec

-----------------------------------------------------------------------------
(* The theorems.                                                            *)

\* The state keeps its shape: the load never reads past the file, and leaves every byte
\* of RAM a byte (SpikeSimulator::init, load_elf_segments).
THEOREM InitTypeCorrect == Spec => []TypeOK
<1>1. Inv => TypeOK
  BY DEF Inv
<1> QED BY <1>1, InvAlways, PTL

\* load_elf_segments leaves in RAM what a well-formed ELF file describes, for any number
\* of segments that overlap, leave RAM or have a bss, and writes nowhere else; Spike
\* starts at the entry point of every file.
THEOREM RamIsImageTheorem == Spec => []RamIsImage
<1>1. Inv => RamIsImage
  <2> SUFFICES ASSUME Inv, stage \in {"cosim_log", "up"} PROVE RamIsImage
    BY DEF RamIsImage, Inv, LoadedSoFar
  <2>1. next - 1 = Len(file.phdrs)
    BY InitAssumption DEF Inv, Constant, LoadedSoFar
  <2> QED BY <2>1 DEF Inv, LoadedSoFar, RamIsImage
<1> QED BY <1>1, InvAlways, PTL

\* A log path is a set variable's when one of its variables is set, and the default
\* otherwise; with these, cosim_bridge_init succeeds only when both logs can be written,
\* the header is sound and every program header and its bytes lie in the file, and fails
\* only when one of these is not so.
THEOREM FailureExplainedTheorem == Spec => []FailureExplained
<1>1. Inv => FailureExplained
  <2>1. ASSUME Inv, stage = "up" PROVE Good
    <3>1. next - 1 = Len(file.phdrs)
      BY <2>1, InitAssumption DEF Inv, Constant, LoadedSoFar
    <3>2. \A i \in 1 .. Len(file.phdrs) : ~Broken(file.phdrs[i])
      BY <2>1, <3>1 DEF Inv, CheckedSoFar, Later
    <3> QED BY <2>1, <3>2 DEF Inv, CheckedSoFar, Later, Good
  <2>2. ASSUME Inv, stage = "failed" PROVE ~Good
    BY <2>2 DEF Inv, CheckedSoFar
  <2> QED BY <2>1, <2>2 DEF FailureExplained, Inv, CheckedSoFar, PathsChosen
<1> QED BY <1>1, InvAlways, PTL

\* The compare log of the run before is truncated only when Spike is up.
THEOREM CompareLogKeptTheorem == Spec => []CompareLogKept
<1>1. Inv => CompareLogKept
  <2> SUFFICES ASSUME Inv PROVE CompareLogKept
    OBVIOUS
  <2>1. stage \in Stage
    BY DEF Inv, TypeOK
  <2> QED BY <2>1 DEF Inv, OpenedSoFar, CompareLogKept, Stage
<1> QED BY <1>1, InvAlways, PTL
=============================================================================
