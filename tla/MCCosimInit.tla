---------------------------- MODULE MCCosimInit ----------------------------
(* RAM is the three bytes at 2 .. 4.  Files of two segments that overlap,   *)
(* touch or leave RAM or have more bytes than room, and of three.           *)
EXTENDS CosimInit

MCBytes == 0 .. 3
Load(o, a, f, m) ==
  [inside |-> TRUE, type |-> "load", offset |-> o, paddr |-> a, filesz |-> f, memsz |-> m]
Segments ==
  {Load(a % 2, a, f, m) : a \in 1 .. 4, f \in 0 .. 2, m \in 0 .. 3}
OddHeaders ==
  {[Load(0, 2, 1, 1) EXCEPT !.inside = FALSE], [Load(0, 2, 1, 1) EXCEPT !.type = "other"],
   Load(2, 2, 2, 2)}
File(h, phdrs) ==
  [header |-> h, size |-> 3, data |-> [i \in 0 .. 2 |-> i + 1], entry |-> 3, phdrs |-> phdrs]
MCFiles ==
  {File("ok", <<g, h>>) : g, h \in Segments}
  \cup {File("ok", <<g, h>>) : g \in Segments, h \in OddHeaders}
  \cup {File("ok", <<Load(0, 2, 2, 3), h, Load(1, 3, 1, 2)>>) : h \in Segments}
  \cup {File(h, <<>>) : h \in {"missing", "empty", "short", "magic", "endian", "class"}}

MCDefault == [cosim |-> "d", commit |-> "d"]
NoEnv == [v \in Var |-> "unset"]
MCEnvs ==
  {NoEnv, [NoEnv EXCEPT !["legacy_commit"] = "t", !["target_cosim"] = "g"],
   [NoEnv EXCEPT !["target_commit"] = "g", !["legacy_commit"] = "t"],
   [NoEnv EXCEPT !["COSIM_LOG_PATH"] = "g", !["target_cosim"] = "t",
                 !["SPIKE_COMMIT_LOG_PATH"] = "t", !["target_commit"] = "g"]}
MCUnwritable == {{}, {"t"}}
=============================================================================
