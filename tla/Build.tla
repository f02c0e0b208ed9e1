------------------------------- MODULE Build -------------------------------
(***************************************************************************)
(* How build.sh keeps the firmware of a case current: the build stamp of    *)
(* firmware_ready, make, and the commands that call them.  `run cpu' calls   *)
(* run_one_cpu as the condition of an `if', where bash ignores `set -e': a  *)
(* step that fails there does not stop the ones after it.  `run soc' and    *)
(* `build firmware' stop at the first failure.                              *)
(*                                                                          *)
(* A version stands for the contents of the C and assembly files and the    *)
(* linker script, or of the headers; toolchains, Spike and the simulator     *)
(* executables are there.                                                   *)
(***************************************************************************)
EXTENDS Naturals

CONSTANTS
  MaxEdits,   \* edits of the sources
  None        \* no such file

Source == [code : 0 .. MaxEdits, header : 0 .. MaxEdits, compiles : BOOLEAN]
Command == {"run cpu", "run soc", "build firmware"}

VARIABLES
  source,    \* the case's and the common sources, as they are
  stamp,     \* what .build.stamp holds: the sources it was computed from
  made,      \* what the ELF in the case's build directory was made from
  image,     \* what the installed ELF and hex were made from
  command,   \* the command that is running
  step,      \* where it is
  edits      \* edits so far

vars == <<source, stamp, made, image, command, step, edits>>

\* set -e, unless the functions run as the condition of an `if'
errexit == command # "run cpu"
After == IF command = "build firmware" THEN "idle" ELSE "sim"

-----------------------------------------------------------------------------
\* The cksum of firmware_stamp covers the headers too.
firmware_ready == image # None /\ stamp = source

Start ==
  /\ step = "idle" /\ step' = "ensure"
  /\ command' \in Command
  /\ UNCHANGED <<source, stamp, made, image, edits>>

\* ensure_firmware_case; `build firmware' does not ask.
Ensure ==
  /\ step = "ensure"
  /\ step' = IF command # "build firmware" /\ firmware_ready THEN "sim" ELSE "make"
  /\ UNCHANGED <<source, stamp, made, image, command, edits>>

\* The rules of firmware.mk: an object depends on its C or assembly file alone.
UpToDate == made # None /\ made.code = source.code

\* firmware: make installs what it has made, or keeps what was installed.
Make ==
  /\ step = "make"
  /\ IF UpToDate \/ source.compiles
       THEN /\ made' = IF UpToDate THEN made ELSE source
            /\ image' = made'
            /\ step' = "stamp"
       ELSE /\ step' = IF errexit THEN "idle" ELSE "stamp"
            /\ UNCHANGED <<made, image>>
  /\ UNCHANGED <<source, stamp, command, edits>>

\* build_firmware_case writes the stamp of the sources as they are.
WriteStamp ==
  /\ step = "stamp"
  /\ stamp' = source
  /\ step' = After
  /\ UNCHANGED <<source, made, image, command, edits>>

\* The simulator runs on the installed image, if there is one.
Simulate ==
  /\ step = "sim" /\ step' = "idle"
  /\ UNCHANGED <<source, stamp, made, image, command, edits>>

\* Ctrl-C.
Interrupt ==
  /\ step # "idle" /\ step' = "idle"
  /\ UNCHANGED <<source, stamp, made, image, command, edits>>

\* clean: the build directories of all cases and the installed files.
Clean ==
  /\ step = "idle"
  /\ stamp' = None /\ made' = None /\ image' = None
  /\ UNCHANGED <<source, command, step, edits>>

\* Somebody edits a file between two commands.
Edit ==
  /\ step = "idle" /\ edits < MaxEdits /\ edits' = edits + 1
  /\ \E ok \in BOOLEAN :
       \/ source' = [source EXCEPT !.header = edits + 1, !.compiles = ok]
       \/ source' = [source EXCEPT !.code = edits + 1, !.compiles = ok]
  /\ UNCHANGED <<stamp, made, image, command, step>>

Init ==
  /\ source = [code |-> 0, header |-> 0, compiles |-> TRUE]
  /\ stamp = None /\ made = None /\ image = None
  /\ command = "run cpu" /\ step = "idle" /\ edits = 0

Next ==
  \/ Start
  \/ Ensure
  \/ Make
  \/ WriteStamp
  \/ Simulate
  \/ Interrupt
  \/ Clean
  \/ Edit

Spec == Init /\ [][Next]_vars

-----------------------------------------------------------------------------
\* Properties

\* What docs/arch.md says of the stamp: sources that have changed are built again before
\* the next run, so a simulator never runs an image of other sources.
FirmwareIsCurrent == step = "sim" /\ image # None => image = source
=============================================================================
