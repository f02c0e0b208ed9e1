------------------------- MODULE CosimSessionProofs -------------------------
(***************************************************************************)
(* Theorems about CosimSession for every register set, program, effect of   *)
(* an instruction and sequence of bridge calls: type correctness, that a     *)
(* session without a failure knows the core's register file, and that each   *)
(* session prints one verdict, which stays true.                             *)
(***************************************************************************)
EXTENDS CosimSession, TLAPS

-----------------------------------------------------------------------------
(* Type correctness.                                                        *)

\* Spike's state keeps its type when it steps and when it is reset.
LEMMA IssType ==
  /\ ResetIss \in Iss
  /\ \A s \in Iss, e \in Effects : Stepped(s, e) \in Iss
<1>1. ResetIss \in Iss
  BY SessionAssumption DEF ResetIss, Iss
<1>2. ASSUME NEW s \in Iss, NEW e \in Effects
      PROVE  Stepped(s, e) \in Iss
  <2>1. e \in Effect
    BY SessionAssumption
  <2>2. \A r \in Reg : r \in DOMAIN e.wr => e.wr[r] \in Word
    BY <2>1 DEF Effect
  <2>3. [r \in Reg |-> IF r \in DOMAIN e.wr THEN e.wr[r] ELSE s.reg[r]] \in [Reg -> Word]
    BY <2>2 DEF Iss
  <2> QED BY <2>1, <2>3 DEF Stepped, Iss, Effect
<1> QED BY <1>1, <1>2

\* What a report adds to the ghosts has their type.
LEMMA NoteType ==
  ASSUME TypeOK, NEW t \in Reports, NEW s \in BOOLEAN, NEW after, Note(t, s, after)
  PROVE  reported' \in [Reg -> Word] /\ unchecked' \subseteq Reg
<1>1. t.data \in Word /\ Written(t) \subseteq Reg
  BY SessionAssumption DEF Report, Written
<1> QED BY <1>1 DEF TypeOK, Note, Changed

\* The lifecycle functions set the counters to numbers and Spike to its reset state.
LEMMA ClearedType ==
  ASSUME Cleared
  PROVE  /\ finished' \in BOOLEAN /\ reference_done' \in BOOLEAN
         /\ compare_index' \in Nat /\ pass_count' \in Nat /\ fail_count' \in Nat
         /\ errors' \in Nat /\ iss' \in Iss
         /\ reported' \in [Reg -> Word] /\ unchecked' \subseteq Reg
<1>1. ResetIss.reg \in [Reg -> Word]
  BY SessionAssumption DEF ResetIss
<1> QED BY <1>1, IssType DEF Cleared

\* A call's answer and count have their types.
LEMMA AnswersType ==
  ASSUME TypeOK, NEW rc \in 0 .. 2, Answers(rc)
  PROVE  answered' \in 0 .. 2 /\ calls' \in 0 .. MaxCalls
BY SessionAssumption DEF TypeOK, Answers

\* Every state of the session has the declared shape.
LEMMA TypeStep == TypeOK /\ [Next]_vars => TypeOK'
<1> SUFFICES ASSUME TypeOK, [Next]_vars PROVE TypeOK'
  OBVIOUS
<1> USE DEF TypeOK, session, ghosts
<1>1. CASE RetireRejected
  <2>1. answered' \in 0 .. 2 /\ calls' \in 0 .. MaxCalls
    BY <1>1, AnswersType DEF RetireRejected
  <2> QED BY <1>1, <2>1 DEF RetireRejected
<1>2. CASE RetireIgnored
  <2>1. answered' \in 0 .. 2 /\ calls' \in 0 .. MaxCalls
    BY <1>2, AnswersType DEF RetireIgnored
  <2> QED BY <1>2, <2>1 DEF RetireIgnored
<1>3. ASSUME NEW e \in Effects, NEW b \in BOOLEAN, RetireSkipped(e, b)
      PROVE  TypeOK'
  <2>1. answered' \in 0 .. 2 /\ calls' \in 0 .. MaxCalls
    BY <1>3, AnswersType DEF RetireSkipped
  <2>2. iss' \in Iss /\ unchecked' \subseteq Reg
    BY <1>3, IssType DEF RetireSkipped, Changed
  <2> QED BY <1>3, <2>1, <2>2 DEF RetireSkipped
<1>4. ASSUME NEW t \in Reports, NEW e \in Effects, NEW b \in BOOLEAN, RetireCompared(t, e, b)
      PROVE  TypeOK'
  <2>1. answered' \in 0 .. 2 /\ calls' \in 0 .. MaxCalls
    BY <1>4, AnswersType DEF RetireCompared
  <2>2. iss' \in Iss /\ unchecked' \subseteq Reg
    BY <1>4, IssType DEF RetireCompared, Changed
  <2>3. reference_done' \in BOOLEAN
    BY <1>4, <2>2 DEF RetireCompared, Iss
  <2>4. pass_count' \in Nat /\ fail_count' \in Nat /\ compare_index' \in Nat
    BY <1>4 DEF RetireCompared
  <2>5. UNCHANGED <<initialized, finished, errors, reported, opened, verdicts, verdict>>
    BY <1>4 DEF RetireCompared
  <2> QED BY <2>1, <2>2, <2>3, <2>4, <2>5
<1>5. CASE StepRejected
  <2>1. answered' \in 0 .. 2 /\ calls' \in 0 .. MaxCalls
    BY <1>5, AnswersType DEF StepRejected
  <2> QED BY <1>5, <2>1 DEF StepRejected
<1>6. ASSUME NEW t \in Reports, NEW s \in BOOLEAN, StepThrows(t, s)
      PROVE  TypeOK'
  <2>1. answered' \in 0 .. 2 /\ calls' \in 0 .. MaxCalls
    BY <1>6, AnswersType DEF StepThrows
  <2>2. reported' \in [Reg -> Word] /\ unchecked' \subseteq Reg
    BY <1>6, NoteType DEF StepThrows
  <2> QED BY <1>6, <2>1, <2>2 DEF StepThrows
<1>7. ASSUME NEW t \in Reports, NEW s \in BOOLEAN, NEW e \in Effects, StepDetail(t, s, e)
      PROVE  TypeOK'
  <2>1. answered' \in 0 .. 2 /\ calls' \in 0 .. MaxCalls
    BY <1>7, AnswersType DEF StepDetail
  <2>2. reported' \in [Reg -> Word] /\ unchecked' \subseteq Reg
    BY <1>7, NoteType DEF StepDetail
  <2>3. iss' \in Iss
    BY <1>7, IssType DEF StepDetail
  <2> QED BY <1>7, <2>1, <2>2, <2>3 DEF StepDetail, NextIndex
<1>8. ASSUME NEW c \in Csr, NEW v \in Word, SetCsr(c, v)
      PROVE  TypeOK'
  <2>1. answered' \in 0 .. 2 /\ calls' \in 0 .. MaxCalls
    BY <1>8, AnswersType DEF SetCsr
  <2>2. Normal[c][v] \in Word
    BY SessionAssumption
  <2>3. iss' \in Iss
    BY <1>8, <2>2 DEF SetCsr, Iss
  <2> QED BY <1>8, <2>1, <2>3 DEF SetCsr
<1>9. ASSUME NEW b \in BOOLEAN, SetInputs(b)
      PROVE  TypeOK'
  <2>1. answered' \in 0 .. 2 /\ calls' \in 0 .. MaxCalls
    BY <1>9, AnswersType DEF SetInputs
  <2>2. iss' \in Iss
    BY <1>9 DEF SetInputs, Iss
  <2> QED BY <1>9, <2>1, <2>2 DEF SetInputs
<1>10. CASE ClearErrors
  <2>1. answered' \in 0 .. 2 /\ calls' \in 0 .. MaxCalls
    BY <1>10, AnswersType DEF ClearErrors
  <2> QED BY <1>10, <2>1 DEF ClearErrors
<1>11. CASE BridgeFinish
  <2>1. answered' \in 0 .. 2 /\ calls' \in 0 .. MaxCalls
    BY <1>11, AnswersType DEF BridgeFinish
  <2> QED BY <1>11, <2>1 DEF BridgeFinish, finish
<1>12. CASE BridgeReset
  <2>1. answered' \in 0 .. 2 /\ calls' \in 0 .. MaxCalls
    BY <1>12, AnswersType DEF BridgeReset
  <2>2. Cleared /\ initialized' \in BOOLEAN /\ opened' \in Nat
    BY <1>12 DEF BridgeReset
  <2>3. verdicts' \in Nat /\ verdict' \in Nat \X Nat
    BY <1>12 DEF BridgeReset
  <2> QED BY <2>1, <2>2, <2>3, ClearedType
<1>13. ASSUME NEW up \in BOOLEAN, NEW log \in BOOLEAN, BridgeInit(up, log)
       PROVE  TypeOK'
  <2>1. answered' \in 0 .. 2 /\ calls' \in 0 .. MaxCalls
    BY <1>13, AnswersType DEF BridgeInit
  <2> QED BY <1>13, <2>1, ClearedType DEF BridgeInit
<1>14. CASE BridgeInitNull
  <2>1. answered' \in 0 .. 2 /\ calls' \in 0 .. MaxCalls
    BY <1>14, AnswersType DEF BridgeInitNull
  <2> QED BY <1>14, <2>1 DEF BridgeInitNull
<1>15. CASE UNCHANGED vars
  BY <1>15 DEF vars
<1> QED
  BY <1>1, <1>2, <1>3, <1>4, <1>5, <1>6, <1>7, <1>8, <1>9, <1>10, <1>11, <1>12,
     <1>13, <1>14, <1>15 DEF Next

\* The initial state has the declared shape.
LEMMA TypeInit == Init => TypeOK
<1>1. ResetIss \in Iss /\ ResetIss.reg \in [Reg -> Word]
  BY IssType DEF Iss
<1>3. ASSUME Init PROVE TypeOK
  <2>1. verdict \in Nat \X Nat /\ opened \in Nat /\ verdicts \in Nat
    BY <1>3 DEF Init
  <2>2. calls \in 0 .. MaxCalls
    BY <1>3, SessionAssumption DEF Init
  <2>3. answered \in 0 .. 2 /\ iss \in Iss /\ reported \in [Reg -> Word]
    BY <1>1, <1>3 DEF Init
  <2> QED BY <1>3, <2>1, <2>2, <2>3 DEF Init, TypeOK
<1> QED BY <1>3

\* Every reachable state of the session has the declared shape, whatever the
\* testbench calls and reports.
THEOREM SessionTypeCorrect == Spec => []TypeOK
BY TypeInit, TypeStep, PTL DEF Spec

-----------------------------------------------------------------------------
(* The register files.  RegisterFilesAgree is inductive with TypeOK: a       *)
(* failure is never uncounted within a session, and a step that counts none  *)
(* leaves the two files equal outside unchecked.                             *)

\* A step of Spike changes a register or leaves it alone.
LEMMA ChangedOrSame ==
  ASSUME NEW before, NEW after, NEW r \in Reg, r \notin Changed(before, after)
  PROVE  before.reg[r] = after.reg[r]
BY DEF Changed

\* A retire moves Spike only through registers it adds to unchecked.
LEMMA RetireAgrees ==
  ASSUME TypeOK, RegisterFilesAgree, initialized' = initialized,
         reported' = reported, unchecked' = unchecked \cup Changed(iss, iss'),
         fail_count' = 0 => fail_count = 0
  PROVE  RegisterFilesAgree'
<1> SUFFICES ASSUME initialized', fail_count' = 0, NEW r \in Reg \ unchecked'
             PROVE  reported'[r] = iss'.reg[r]
  BY DEF RegisterFilesAgree
<1>1. r \in Reg \ unchecked /\ r \notin Changed(iss, iss')
  OBVIOUS
<1>2. iss.reg[r] = iss'.reg[r]
  BY <1>1, ChangedOrSame
<1> QED BY <1>1, <1>2 DEF RegisterFilesAgree

\* A detail step that matches leaves the files equal outside unchecked.
LEMMA DetailAgrees ==
  ASSUME TypeOK, RegisterFilesAgree, NEW t \in Reports, NEW s \in BOOLEAN,
         NEW e \in Effects, StepDetail(t, s, e)
  PROVE  RegisterFilesAgree'
<1> DEFINE after == Stepped(iss, e)
<1> SUFFICES ASSUME initialized', fail_count' = 0, NEW r \in Reg \ unchecked'
             PROVE  reported'[r] = iss'.reg[r]
  BY DEF RegisterFilesAgree
<1>1. Note(t, s, after) /\ iss' = after
  BY DEF StepDetail
<1>2. DetailMatches(t, s, iss, after) /\ fail_count = 0 /\ initialized
  BY DEF StepDetail, Live, TypeOK
<1>3. reported'[r] = IF r \in Written(t) THEN t.data ELSE reported[r]
  BY <1>1 DEF Note
<1>4. CASE Exempt(t, s)
  <2>1. r \notin unchecked /\ r \notin Changed(iss, after) /\ r \notin Written(t)
    BY <1>1, <1>4 DEF Note
  <2>2. iss.reg[r] = after.reg[r]
    BY <2>1, ChangedOrSame
  <2> QED BY <1>1, <1>2, <1>3, <2>1, <2>2 DEF RegisterFilesAgree
<1>5. CASE ~Exempt(t, s) /\ r \in Written(t)
  <2>1. t.rd = r /\ t.rd # X0
    BY <1>5 DEF Written
  <2>2. after.reg[t.rd] = t.data
    BY <1>2, <1>5, <2>1 DEF DetailMatches, GprMatches, Exempt
  <2> QED BY <1>1, <1>3, <1>5, <2>1, <2>2
<1>6. CASE ~Exempt(t, s) /\ r \notin Written(t)
  <2>1. r \notin unchecked
    BY <1>1, <1>6 DEF Note
  <2>2. r \notin Changed(iss, after)
    BY <1>2, <1>6, SessionAssumption DEF DetailMatches, GprMatches, Exempt, Written
  <2>3. iss.reg[r] = after.reg[r]
    BY <2>2, ChangedOrSame
  <2> QED BY <1>1, <1>2, <1>3, <1>6, <2>1, <2>3 DEF RegisterFilesAgree
<1> QED BY <1>4, <1>5, <1>6

\* A session that starts, or is gone, has nothing to disagree about.
LEMMA ClearedAgrees == Cleared => RegisterFilesAgree'
BY DEF Cleared, RegisterFilesAgree

\* No call breaks the agreement.
LEMMA AgreeStep == TypeOK /\ RegisterFilesAgree /\ [Next]_vars => RegisterFilesAgree'
<1> SUFFICES ASSUME TypeOK, RegisterFilesAgree, [Next]_vars PROVE RegisterFilesAgree'
  OBVIOUS
<1>1. ASSUME UNCHANGED <<initialized, fail_count, iss, reported, unchecked>>
      PROVE  RegisterFilesAgree'
  BY <1>1 DEF RegisterFilesAgree
<1>2. ASSUME UNCHANGED <<initialized, fail_count, reported, unchecked>>,
             iss'.reg = iss.reg
      PROVE  RegisterFilesAgree'
  BY <1>2 DEF RegisterFilesAgree
<1>3. CASE RetireRejected \/ RetireIgnored \/ BridgeInitNull
  BY <1>1, <1>3 DEF RetireRejected, RetireIgnored, BridgeInitNull, session, ghosts
<1>4. ASSUME NEW e \in Effects, NEW b \in BOOLEAN, RetireSkipped(e, b)
      PROVE  RegisterFilesAgree'
  BY <1>4, RetireAgrees DEF RetireSkipped
<1>5. ASSUME NEW t \in Reports, NEW e \in Effects, NEW b \in BOOLEAN, RetireCompared(t, e, b)
      PROVE  RegisterFilesAgree'
  <2>1. fail_count' = 0 => fail_count = 0
    BY <1>5 DEF RetireCompared, TypeOK
  <2>2. /\ initialized' = initialized /\ reported' = reported
        /\ unchecked' = unchecked \cup Changed(iss, iss')
    BY <1>5 DEF RetireCompared
  <2> QED BY <2>1, <2>2, RetireAgrees
<1>6. CASE StepRejected \/ ClearErrors
  BY <1>1, <1>6 DEF StepRejected, ClearErrors, ghosts
<1>7. ASSUME NEW t \in Reports, NEW s \in BOOLEAN, StepThrows(t, s)
      PROVE  RegisterFilesAgree'
  <2>1. fail_count' # 0
    BY <1>7 DEF StepThrows, TypeOK
  <2> QED BY <2>1 DEF RegisterFilesAgree
<1>8. ASSUME NEW t \in Reports, NEW s \in BOOLEAN, NEW e \in Effects, StepDetail(t, s, e)
      PROVE  RegisterFilesAgree'
  BY <1>8, DetailAgrees
<1>9. ASSUME NEW c \in Csr, NEW v \in Word, SetCsr(c, v)
      PROVE  RegisterFilesAgree'
  <2>1. iss'.reg = iss.reg
    BY <1>9 DEF SetCsr, TypeOK, Iss
  <2> QED BY <1>2, <1>9, <2>1 DEF SetCsr, ghosts
<1>10. ASSUME NEW b \in BOOLEAN, SetInputs(b)
       PROVE  RegisterFilesAgree'
  <2>1. iss'.reg = iss.reg
    BY <1>10 DEF SetInputs, TypeOK, Iss
  <2> QED BY <1>2, <1>10, <2>1 DEF SetInputs, ghosts
<1>11. CASE BridgeFinish
  BY <1>1, <1>11 DEF BridgeFinish
<1>12. CASE BridgeReset
  BY <1>12, ClearedAgrees DEF BridgeReset
<1>13. ASSUME NEW up \in BOOLEAN, NEW log \in BOOLEAN, BridgeInit(up, log)
       PROVE  RegisterFilesAgree'
  BY <1>13, ClearedAgrees DEF BridgeInit
<1>14. CASE UNCHANGED vars
  BY <1>1, <1>14 DEF vars, session, ghosts
<1> QED
  BY <1>3, <1>4, <1>5, <1>6, <1>7, <1>8, <1>9, <1>10, <1>11, <1>12, <1>13, <1>14
     DEF Next

\* As long as a session has counted no failure, every register not last touched
\* by an exempt step holds in Spike what the core has reported: comparing only
\* the registers one step of Spike changed misses no divergence of the files.
THEOREM RegisterFilesTheorem == Spec => []RegisterFilesAgree
<1>1. Init => RegisterFilesAgree
  BY DEF Init, RegisterFilesAgree
<1> QED BY <1>1, AgreeStep, SessionTypeCorrect, PTL DEF Spec

-----------------------------------------------------------------------------
(* The verdict lines.                                                        *)

\* What ties a printed verdict to the session that printed it: only a session
\* that exists is finished.
FinishedIsInitialized == finished => initialized
Verdicts == FinishedIsInitialized /\ VerdictOnce /\ VerdictIsFinal

\* No call prints a second verdict, leaves one out or invalidates one.
LEMMA VerdictStep == TypeOK /\ Verdicts /\ [Next]_vars => Verdicts'
<1> SUFFICES ASSUME TypeOK, Verdicts, [Next]_vars PROVE Verdicts'
  OBVIOUS
<1> USE DEF Verdicts, FinishedIsInitialized, VerdictOnce, VerdictIsFinal
<1>1. ASSUME UNCHANGED <<initialized, finished, pass_count, fail_count, opened, verdicts, verdict>>
      PROVE  Verdicts'
  BY <1>1
<1>2. ASSUME ~finished, UNCHANGED <<initialized, finished, opened, verdicts>>
      PROVE  Verdicts'
  BY <1>2
<1>3. CASE RetireRejected \/ RetireIgnored \/ BridgeInitNull \/ StepRejected \/ ClearErrors
  BY <1>1, <1>3 DEF RetireRejected, RetireIgnored, BridgeInitNull, StepRejected,
                    ClearErrors, session, ghosts
<1>4. ASSUME NEW e \in Effects, NEW b \in BOOLEAN, RetireSkipped(e, b)
      PROVE  Verdicts'
  BY <1>1, <1>4 DEF RetireSkipped
<1>5. ASSUME NEW t \in Reports, NEW e \in Effects, NEW b \in BOOLEAN, RetireCompared(t, e, b)
      PROVE  Verdicts'
  BY <1>2, <1>5 DEF RetireCompared, Live
<1>6. ASSUME NEW t \in Reports, NEW s \in BOOLEAN, StepThrows(t, s)
      PROVE  Verdicts'
  BY <1>2, <1>6 DEF StepThrows, Live
<1>7. ASSUME NEW t \in Reports, NEW s \in BOOLEAN, NEW e \in Effects, StepDetail(t, s, e)
      PROVE  Verdicts'
  BY <1>2, <1>7 DEF StepDetail, Live
<1>8. ASSUME NEW c \in Csr, NEW v \in Word, SetCsr(c, v)
      PROVE  Verdicts'
  BY <1>1, <1>8 DEF SetCsr, ghosts
<1>9. ASSUME NEW b \in BOOLEAN, SetInputs(b)
      PROVE  Verdicts'
  BY <1>1, <1>9 DEF SetInputs, ghosts
<1>10. CASE BridgeFinish
  BY <1>10 DEF BridgeFinish, finish, FinishPrints, TypeOK
<1>11. CASE BridgeReset
  BY <1>11 DEF BridgeReset, Cleared, FinishPrints, TypeOK
<1>12. ASSUME NEW up \in BOOLEAN, NEW log \in BOOLEAN, BridgeInit(up, log)
       PROVE  Verdicts'
  <2>1. ~finished'
    BY <1>12 DEF BridgeInit, Cleared
  <2>2. /\ opened' = IF up THEN opened + 1 ELSE opened
        /\ verdicts' = verdicts + (IF FinishPrints THEN 1 ELSE 0)
                        + (IF up /\ ~log THEN 1 ELSE 0)
        /\ initialized' = (up /\ log)
    BY <1>12 DEF BridgeInit
  <2>3. VerdictOnce'
    BY <2>1, <2>2 DEF FinishPrints, TypeOK
  <2> QED BY <2>1, <2>3
<1>13. CASE UNCHANGED vars
  BY <1>1, <1>13 DEF vars, session, ghosts
<1> QED
  BY <1>3, <1>4, <1>5, <1>6, <1>7, <1>8, <1>9, <1>10, <1>11, <1>12, <1>13 DEF Next

\* The conjunction is an invariant of the session.
LEMMA VerdictsHold == Spec => []Verdicts
<1>1. Init => Verdicts
  BY DEF Init, Verdicts, FinishedIsInitialized, VerdictOnce, VerdictIsFinal
<1> QED BY <1>1, VerdictStep, SessionTypeCorrect, PTL DEF Spec

\* Each session in which Spike came up prints exactly one verdict line.
THEOREM VerdictOnceTheorem == Spec => []VerdictOnce
BY VerdictsHold, PTL DEF Verdicts

\* The counters of a finished session stay those it printed.
THEOREM VerdictFinalTheorem == Spec => []VerdictIsFinal
BY VerdictsHold, PTL DEF Verdicts
=============================================================================
