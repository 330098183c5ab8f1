--------------------------- MODULE PipelineProofs ---------------------------
(***************************************************************************)
(* Proofs about AssurancePipeline for one worker, any stages, runs and     *)
(* number of deaths: what results.json says has happened, and whose copy   *)
(* a run directory holds.                                                  *)
(***************************************************************************)
EXTENDS AssurancePipeline, FiniteSetTheorems, TLAPS

(* The stages that write their status and go on *)
StageDone(r) ==
  \/ RunTool(r) \/ RunWrapper(r) \/ WrapperDies(r) \/ ScanZap(r) \/ SkipStage(r)
  \/ RunChaos(r) \/ SkipIntelligence(r) \/ RunIntelligence(r)

(* The words a stage may leave in its file, and what it may have done *)
Words == States \cup {"simulated"}

-----------------------------------------------------------------------------
(* Types *)

(* A step to the next stage keeps the type of at. *)
LEMMA ProceedType ==
  ASSUME TypeOK, NEW r \in Runs, IsAt(r, Stages), Proceed(r)
  PROVE  at' \in [Runs -> 0..LastStep]
<1>1. at[r] \in 1..Len(Order) /\ Len(Order) \in Nat
  BY PipelineAssumption DEF IsAt, Active, TypeOK
<1>2. at[r] + 1 \in 0..LastStep
  BY <1>1 DEF LastStep
<1> QED
  BY <1>2 DEF Proceed, TypeOK

(* Record writes a word of the right type for every outcome of a stage. *)
LEMMA RecordType ==
  ASSUME TypeOK, NEW r \in Runs, IsAt(r, Stages), NEW what \in Words, Record(r, what)
  PROVE  /\ status' \in [Stages -> States \cup {"none"}]
         /\ did' \in [Runs -> [Stages -> States \cup {"none", "simulated", "died"}]]
         /\ failed' \in [Runs -> BOOLEAN]
         /\ at' \in [Runs -> 0..LastStep]
<1>1. Stage(r) \in Stages /\ at[r] \in 1..Len(Order) /\ Len(Order) \in Nat
  BY PipelineAssumption DEF IsAt, Stage, Active, TypeOK
<1>2. Word(what) \in States
  BY DEF Word, Words, States
<1>3. /\ status' = [status EXCEPT ![Stage(r)] = Word(what)]
      /\ did' = [did EXCEPT ![r][Stage(r)] = what]
      /\ failed' = [failed EXCEPT ![r] = @ \/ what = "fail"]
      /\ at' = [at EXCEPT ![r] = @ + 1]
  BY DEF Record, Proceed
<1>4. status' \in [Stages -> States \cup {"none"}]
  BY <1>1, <1>2, <1>3 DEF TypeOK
<1>5. did' \in [Runs -> [Stages -> States \cup {"none", "simulated", "died"}]]
  BY <1>1, <1>3 DEF TypeOK, Words
<1>6. failed' \in [Runs -> BOOLEAN]
  BY <1>3, ZenonT(30) DEF TypeOK
<1>7. at' \in [Runs -> 0..LastStep]
  BY ProceedType DEF Record
<1> QED
  BY <1>4, <1>5, <1>6, <1>7

(* A stage at which a run stands is one of the order, not yet behind it. *)
LEMMA StageHere ==
  ASSUME TypeOK, NEW r \in Runs, NEW S, IsAt(r, S)
  PROVE  /\ Stage(r) \in Stages /\ Stage(r) \in S /\ IsAt(r, Stages)
         /\ Stage(r) \notin Behind(r)
         /\ at[r] \in 1..Len(Order)
<1>1. at[r] \in 1..Len(Order) /\ Len(Order) \in Nat
  BY PipelineAssumption DEF IsAt, Active, TypeOK
<1>2. Stage(r) \in Stages
  BY <1>1, PipelineAssumption DEF Stage
<1>3. Stage(r) \notin Behind(r)
  <2>1. SUFFICES ASSUME NEW k \in 1..Len(Order), k < at[r], Order[k] = Order[at[r]] PROVE FALSE
    BY DEF Behind, Stage
  <2>2. k = at[r]
    BY <1>1, <2>1, PipelineAssumption
  <2> QED
    BY <1>1, <2>1, <2>2
<1> QED
  BY <1>1, <1>2, <1>3 DEF IsAt, Stage

(* When it proceeds that stage is behind it, and nothing else is new. *)
LEMMA BehindGrows ==
  ASSUME TypeOK, NEW r \in Runs, IsAt(r, Stages), Proceed(r)
  PROVE  Behind(r)' = Behind(r) \cup {Stage(r)}
<1>1. at[r] \in 1..Len(Order) /\ Len(Order) \in Nat /\ at'[r] = at[r] + 1
  BY StageHere, PipelineAssumption DEF Proceed, TypeOK
<1>2. {j \in 1..Len(Order) : j < at'[r]} = {j \in 1..Len(Order) : j < at[r]} \cup {at[r]}
  BY <1>1
<1> QED
  BY <1>2 DEF Behind, Stage

(* At the end of the script every stage is behind it. *)
LEMMA AllBehind ==
  ASSUME TypeOK, NEW r \in Runs, at[r] > Len(Order)
  PROVE  Behind(r) = Stages
<1>1. \A k \in 1..Len(Order) : k < at[r] /\ Order[k] \in Stages
  BY PipelineAssumption DEF TypeOK
<1> QED
  BY <1>1, PipelineAssumption DEF Behind

(* Every variable keeps its type in every step. *)
LEMMA TypeStep ==
  ASSUME TypeOK, StagesWritten, [Next]_vars
  PROVE  TypeOK'
<1> USE DEF TypeOK
<1>a. \A b : b \in 0..MaxFaults /\ b < MaxFaults => b + 1 \in 0..MaxFaults
  BY PipelineAssumption
<1>1. ASSUME NEW r \in Runs, Start(r) PROVE TypeOK'
  <2>1. 1 \in 0..LastStep
    BY PipelineAssumption DEF LastStep
  <2> QED
    BY <1>1, <2>1 DEF Start
<1>2. ASSUME NEW r \in Runs, NEW S \in SUBSET Stages, IsAt(r, S),
             NEW what \in Words, Record(r, what),
             faults' = faults \/ Fault
      PROVE  TypeOK'
  <2>1. IsAt(r, Stages)
    BY <1>2, StageHere
  <2>2. faults' \in 0..MaxFaults
    BY <1>2, <1>a DEF Fault
  <2> QED
    BY <1>2, <2>1, <2>2, RecordType DEF Record
<1>3. ASSUME NEW r \in Runs, RunTool(r) PROVE TypeOK'
  <2>1. PICK what \in {"pass", "fail", WithoutTool(mode[r])} : Record(r, what)
    BY <1>3 DEF RunTool
  <2>2. what \in Words /\ Tools \in SUBSET Stages
    BY DEF WithoutTool, Words, States, Stages
  <2> QED
    BY <1>3, <2>1, <2>2, <1>2 DEF RunTool
<1>4. ASSUME NEW r \in Runs, RunWrapper(r) PROVE TypeOK'
  <2>1. PICK what \in States : Record(r, what)
    BY <1>4 DEF RunWrapper
  <2>2. what \in Words /\ Wrapped \cup Smoke \in SUBSET Stages
    BY DEF Words, Stages
  <2> QED
    BY <1>4, <2>1, <2>2, <1>2 DEF RunWrapper
<1>5. ASSUME NEW r \in Runs, ScanZap(r) PROVE TypeOK'
  <2>1. PICK what \in {"skipped", "pass", "fail"} : Record(r, what)
    BY <1>5 DEF ScanZap
  <2>2. what \in Words /\ {Dast} \in SUBSET Stages
    BY DEF Words, States, Stages
  <2> QED
    BY <1>5, <2>1, <2>2, <1>2 DEF ScanZap
<1>6. ASSUME NEW r \in Runs, SkipStage(r) PROVE TypeOK'
  <2>1. "skipped" \in Words /\ Stages \ {Dast} \in SUBSET Stages
    BY DEF Words, States
  <2> QED
    BY <1>6, <2>1, <1>2 DEF SkipStage
<1>7. ASSUME NEW r \in Runs, WrapperDies(r) PROVE TypeOK'
  <2>1. IsAt(r, Wrapped) /\ Wrapped \subseteq Stages
    BY <1>7 DEF WrapperDies, Stages
  <2>2. Stage(r) \in Stages /\ at[r] \in 1..Len(Order)
    BY <2>1, StageHere
  <2>3. status' \in [Stages -> States \cup {"none"}]
    BY <1>7, <2>2 DEF WrapperDies, States
  <2>4. did' \in [Runs -> [Stages -> States \cup {"none", "simulated", "died"}]]
    BY <1>7, <2>2 DEF WrapperDies
  <2>5. failed' \in [Runs -> BOOLEAN]
    BY <1>7, ZenonT(30) DEF WrapperDies
  <2>6. at' \in [Runs -> 0..LastStep]
    BY <1>7, <2>1, StageHere, ProceedType DEF WrapperDies
  <2> QED
    BY <1>7, <1>a, <2>3, <2>4, <2>5, <2>6 DEF WrapperDies, Fault
<1>8. ASSUME NEW r \in Runs, RunChaos(r) \/ SkipIntelligence(r) PROVE TypeOK'
  <2>1. IsAt(r, {Chaos, RI})
    BY <1>8 DEF RunChaos, SkipIntelligence, IsAt
  <2>2. at[r] \in 1..Len(Order) /\ Chaos \in Stages /\ RI \in Stages
    BY <2>1, StageHere DEF Stages
  <2>3. status' \in [Stages -> States \cup {"none"}]
    BY <1>8, <2>2 DEF RunChaos, SkipIntelligence, States
  <2>4. did' \in [Runs -> [Stages -> States \cup {"none", "simulated", "died"}]]
    <3>1. PICK s \in Stages, what \in States : did' = [did EXCEPT ![r][s] = what]
      BY <1>8, <2>2 DEF RunChaos, SkipIntelligence, Experiments, States
    <3> QED
      BY <3>1
  <2>5. at' \in [Runs -> 0..LastStep]
    BY <1>8, <2>1, StageHere, ProceedType DEF RunChaos, SkipIntelligence
  <2> QED
    BY <1>8, <2>3, <2>4, <2>5 DEF RunChaos, SkipIntelligence
<1>9. ASSUME NEW r \in Runs, RunIntelligence(r) PROVE TypeOK'
  <2>1. at[r] \in 1..Len(Order) /\ Chaos \in Stages /\ RI \in Stages
    BY <1>9, StageHere DEF Stages, RunIntelligence
  <2>2. PICK c \in States \cup {"timeout"}, says \in {"pass", "fail"} :
          /\ status' = [status EXCEPT ![Chaos] = IF c = "timeout" THEN @ ELSE ChaosFile(c),
                                      ![RI] = says]
          /\ did' = [did EXCEPT ![r][Chaos] = IF c = "timeout" THEN @ ELSE c,
                                ![r][RI] = says]
          /\ Count(r, says)
    BY <1>9 DEF RunIntelligence, Experiments, States
  <2>3. ChaosFile(c) \in States \/ c = "timeout"
    BY DEF ChaosFile, States
  <2>4. status' \in [Stages -> States \cup {"none"}]
    BY <2>1, <2>2, <2>3 DEF States
  <2>5. did' \in [Runs -> [Stages -> States \cup {"none", "simulated", "died"}]]
    BY <2>1, <2>2 DEF States
  <2>6. failed' \in [Runs -> BOOLEAN]
    BY <2>2, ZenonT(30) DEF Count
  <2>7. at' \in [Runs -> 0..LastStep]
    BY <1>9, StageHere, ProceedType DEF RunIntelligence
  <2> QED
    BY <1>9, <2>4, <2>5, <2>6, <2>7 DEF RunIntelligence
<1>10. ASSUME NEW r \in Runs, NEW code \in {"zero", "nonzero"}, Leave(r, code)
       PROVE  /\ exit' \in [Runs -> {"none", "zero", "nonzero"}]
              /\ did' \in [Runs -> [Stages -> States \cup {"none", "simulated", "died"}]]
  BY <1>10 DEF Leave
<1>11. ASSUME NEW r \in Runs, ChaosDies(r) PROVE TypeOK'
  <2>1. status' \in [Stages -> States \cup {"none"}]
    BY <1>11 DEF ChaosDies, Stages, States
  <2> QED
    BY <1>11, <1>10, <1>a, <2>1 DEF ChaosDies, Fault
<1>12. ASSUME NEW r \in Runs, RateNothing(r) PROVE TypeOK'
  BY <1>12, <1>10 DEF RateNothing
<1>13. ASSUME NEW r \in Runs, OpenResults(r) PROVE TypeOK'
  <2>1. at' \in [Runs -> 0..LastStep]
    BY <1>13, PipelineAssumption DEF OpenResults, Proceed, LastStep
  <2> QED
    BY <1>13, <2>1 DEF OpenResults, Files
<1>14. ASSUME NEW r \in Runs, Publish(r) PROVE TypeOK'
  <2>1. Active(r) /\ at[r] > Len(Order)
    BY <1>14, PipelineAssumption DEF Publish, LastStep
  <2>2. \A s \in Stages : status[s] \in States
    BY <2>1, AllBehind DEF StagesWritten
  <2>3. [run |-> r, tests |-> status, critical |-> failed[r]] \in Reports
    BY <2>2 DEF Reports
  <2>4. at' \in [Runs -> 0..LastStep]
    BY <1>14, PipelineAssumption DEF Publish, Proceed, LastStep
  <2> QED
    BY <1>14, <2>3, <2>4 DEF Publish, Files
<1>15. ASSUME NEW r \in Runs, Summarize(r) \/ Killed(r) PROVE TypeOK'
  BY <1>15, <1>10, <1>a DEF Summarize, Killed, Fault
<1>16. ASSUME NEW r \in Runs, Finalize(r) PROVE TypeOK'
  BY <1>16 DEF Finalize
<1>17. CASE UNCHANGED vars
  BY <1>17 DEF vars
<1> QED
  BY <1>1, <1>3, <1>4, <1>5, <1>6, <1>7, <1>8, <1>9, <1>11, <1>12, <1>13, <1>14, <1>15,
     <1>16, <1>17 DEF Next

-----------------------------------------------------------------------------
(* What a stage does *)

(* It goes on to the next, touches no other run's state and no other file  *)
(* but the one of chaos, and counts a failure exactly if it reports one.   *)
StageEffect(r) ==
  /\ IsAt(r, Stages) /\ Proceed(r) /\ UNCHANGED <<results, mode, exit, copy>>
  /\ \A q \in Runs \ {r} : did'[q] = did[q] /\ (failed'[q] <=> failed[q])
  /\ \A s \in Stages \ {Stage(r), Chaos} : status'[s] = status[s] /\ did'[r][s] = did[r][s]
  /\ status'[Stage(r)] # "none" /\ (status[Chaos] # "none" => status'[Chaos] # "none")
  /\ failed'[r] <=> failed[r] \/ status'[Stage(r)] = "fail"
  /\ Stage(r) \notin {Chaos, RI} /\ status'[Stage(r)] = "pass" =>
       \/ did'[r][Stage(r)] = "pass"
       \/ did'[r][Stage(r)] = "simulated" /\ mode[r] = "pragmatic"
       \/ did'[r][Stage(r)] = "died" /\ Stage(r) \in Wrapped
  /\ Stage(r) \notin {Chaos, RI} => status'[Chaos] = status[Chaos]
  /\ Stage(r) = Chaos => status'[Chaos] # "fail"
  /\ Stage(r) = RI /\ status'[Chaos] = "fail" => status[Chaos] = "fail" \/ status'[RI] = "fail"

(* A stage that records what it did has that effect. *)
LEMMA RecordEffect ==
  ASSUME TypeOK, NEW r \in Runs, NEW S \in SUBSET Stages, IsAt(r, S), NEW what \in Words,
         Record(r, what), what = "simulated" => mode[r] = "pragmatic",
         what = "fail" => Chaos \notin S
  PROVE  StageEffect(r)
<1>1. Stage(r) \in Stages /\ Stage(r) \in S /\ IsAt(r, Stages)
  BY StageHere
<1>2. status' = [status EXCEPT ![Stage(r)] = Word(what)]
  BY DEF Record
<1>3. did' = [did EXCEPT ![r][Stage(r)] = what]
  BY DEF Record
<1>4. failed' = [failed EXCEPT ![r] = @ \/ what = "fail"]
  BY DEF Record
<1>5. /\ Word(what) # "none" /\ (Word(what) = "fail" <=> what = "fail")
      /\ Word(what) = "pass" => what = "pass" \/ what = "simulated"
  BY DEF Word, Words, States
<1>6. status'[Stage(r)] = Word(what) /\ did'[r][Stage(r)] = what /\ Chaos \in Stages /\ RI \in Stages
  BY <1>1, <1>2, <1>3 DEF TypeOK, Stages
<1>7. \A q \in Runs \ {r} : did'[q] = did[q] /\ (failed'[q] <=> failed[q])
  <2>1. \A q \in Runs \ {r} : did'[q] = did[q]
    BY <1>3 DEF TypeOK
  <2>2. \A q \in Runs \ {r} : failed'[q] <=> failed[q]
    BY <1>4, ZenonT(30) DEF TypeOK
  <2> QED
    BY <2>1, <2>2
<1>8. \A s \in Stages \ {Stage(r), Chaos} : status'[s] = status[s] /\ did'[r][s] = did[r][s]
  BY <1>1, <1>2, <1>3 DEF TypeOK
<1>9. failed'[r] <=> failed[r] \/ what = "fail"
  BY <1>4, ZenonT(30) DEF TypeOK
<1>10. failed'[r] <=> failed[r] \/ status'[Stage(r)] = "fail"
  BY <1>5, <1>6, <1>9
<1>11. Stage(r) # Chaos => status'[Chaos] = status[Chaos]
  BY <1>1, <1>2, <1>6 DEF TypeOK
<1>12. Stage(r) = Chaos => status'[Chaos] # "fail"
  BY <1>1, <1>5, <1>6
<1>13. Chaos # RI
  BY DEF Chaos, RI
<1>14. Proceed(r) /\ UNCHANGED <<results, mode, exit, copy>>
  BY DEF Record
<1> QED
  BY <1>1, <1>5, <1>6, <1>7, <1>8, <1>10, <1>11, <1>12, <1>13, <1>14 DEF StageEffect

(* Every stage has that effect. *)
LEMMA StageDoneEffect ==
  ASSUME TypeOK, NEW r \in Runs, StageDone(r)
  PROVE  StageEffect(r)
<1>a. Chaos \notin Tools \cup Wrapped \cup Smoke /\ RI \notin Tools \cup Wrapped \cup Smoke
  BY PipelineAssumption
<1>b. /\ Tools \in SUBSET Stages /\ Wrapped \cup Smoke \in SUBSET Stages
      /\ Wrapped \in SUBSET Stages /\ Dast \in Stages /\ Chaos \in Stages /\ RI \in Stages
      /\ Chaos # RI /\ Chaos # Dast
  BY DEF Stages, Dast, Chaos, RI
<1>1. ASSUME RunTool(r) PROVE StageEffect(r)
  <2>1. PICK what \in {"pass", "fail", WithoutTool(mode[r])} : Record(r, what)
    BY <1>1 DEF RunTool
  <2>2. what \in Words /\ (what = "simulated" => mode[r] = "pragmatic")
    BY DEF WithoutTool, Words, States
  <2> QED
    BY <1>1, <1>a, <1>b, <2>1, <2>2, RecordEffect DEF RunTool
<1>2. ASSUME RunWrapper(r) PROVE StageEffect(r)
  <2>1. PICK what \in States : Record(r, what)
    BY <1>2 DEF RunWrapper
  <2>2. what \in Words /\ what # "simulated"
    BY DEF Words, States
  <2> QED
    BY <1>2, <1>a, <1>b, <2>1, <2>2, RecordEffect DEF RunWrapper
<1>3. ASSUME ScanZap(r) PROVE StageEffect(r)
  <2>1. PICK what \in {"skipped", "pass", "fail"} : Record(r, what)
    BY <1>3 DEF ScanZap
  <2>2. what \in Words /\ what # "simulated"
    BY DEF Words, States
  <2> QED
    BY <1>3, <1>b, <2>1, <2>2, RecordEffect DEF ScanZap
<1>4. ASSUME SkipStage(r) PROVE StageEffect(r)
  <2>1. "skipped" \in Words
    BY DEF Words, States
  <2> QED
    BY <1>4, <2>1, RecordEffect DEF SkipStage
<1>5. ASSUME WrapperDies(r) PROVE StageEffect(r)
  <2>1. Stage(r) \in Wrapped /\ Stage(r) \in Stages /\ IsAt(r, Stages)
    BY <1>5, StageHere DEF WrapperDies
  <2>2. status' = [status EXCEPT ![Stage(r)] = IF @ = "none" THEN "skipped" ELSE @]
    BY <1>5 DEF WrapperDies
  <2>3. did' = [did EXCEPT ![r][Stage(r)] = "died"]
    BY <1>5 DEF WrapperDies
  <2>4. failed' = [failed EXCEPT ![r] = @ \/ status[Stage(r)] = "fail"]
    BY <1>5 DEF WrapperDies
  <2>5. status'[Stage(r)] # "none" /\ (status'[Stage(r)] = "fail" <=> status[Stage(r)] = "fail")
    BY <2>1, <2>2 DEF TypeOK
  <2>6. failed'[r] <=> failed[r] \/ status[Stage(r)] = "fail"
    BY <2>4, ZenonT(30) DEF TypeOK
  <2>7. \A q \in Runs \ {r} : failed'[q] <=> failed[q]
    BY <2>4, ZenonT(30) DEF TypeOK
  <2>8. /\ \A q \in Runs \ {r} : did'[q] = did[q]
        /\ \A s \in Stages \ {Stage(r), Chaos} : did'[r][s] = did[r][s]
        /\ did'[r][Stage(r)] = "died"
    BY <2>1, <2>3 DEF TypeOK
  <2>9. \A s \in Stages \ {Stage(r)} : status'[s] = status[s]
    BY <2>1, <2>2 DEF TypeOK
  <2>10. Proceed(r) /\ UNCHANGED <<results, mode, exit, copy>>
    BY <1>5 DEF WrapperDies
  <2> QED
    BY <1>a, <1>b, <2>1, <2>5, <2>6, <2>7, <2>8, <2>9, <2>10 DEF StageEffect
<1>6. ASSUME RunChaos(r) \/ SkipIntelligence(r) PROVE StageEffect(r)
  <2>1. Stage(r) \in {Chaos, RI} /\ Stage(r) \in Stages /\ IsAt(r, Stages)
    BY <1>6, StageHere DEF RunChaos, SkipIntelligence
  <2>2. status' = [status EXCEPT ![Stage(r)] = "pass"]
    BY <1>6, StageHere DEF RunChaos, SkipIntelligence
  <2>3. PICK what : did' = [did EXCEPT ![r][Stage(r)] = what]
    BY <1>6, StageHere DEF RunChaos, SkipIntelligence
  <2>4. Proceed(r) /\ UNCHANGED <<results, mode, exit, copy, failed>>
    BY <1>6 DEF RunChaos, SkipIntelligence
  <2>5. /\ \A q \in Runs \ {r} : did'[q] = did[q]
        /\ \A s \in Stages \ {Stage(r), Chaos} : did'[r][s] = did[r][s]
    BY <2>3 DEF TypeOK
  <2>6. /\ \A s \in Stages \ {Stage(r)} : status'[s] = status[s]
        /\ status'[Stage(r)] = "pass"
    BY <2>1, <2>2 DEF TypeOK
  <2> QED
    BY <1>b, <2>1, <2>4, <2>5, <2>6 DEF StageEffect
<1>7. ASSUME RunIntelligence(r) PROVE StageEffect(r)
  <2>1. Stage(r) = RI /\ IsAt(r, Stages)
    BY <1>7, StageHere DEF RunIntelligence
  <2>2. PICK c \in States \cup {"timeout"}, says \in {"pass", "fail"} :
          /\ c = "fail" => says = "fail"
          /\ status' = [status EXCEPT ![Chaos] = IF c = "timeout" THEN @ ELSE ChaosFile(c),
                                      ![RI] = says]
          /\ did' = [did EXCEPT ![r][Chaos] = IF c = "timeout" THEN @ ELSE c,
                                ![r][RI] = says]
          /\ Count(r, says)
    BY <1>7 DEF RunIntelligence, Experiments, States
  <2>3. /\ c # "timeout" => ChaosFile(c) \in States
        /\ ChaosFile(c) = "fail" => c = "fail"
    BY DEF ChaosFile, States
  <2>4. /\ status'[RI] = says
        /\ status'[Chaos] = IF c = "timeout" THEN status[Chaos] ELSE ChaosFile(c)
        /\ \A s \in Stages \ {RI, Chaos} : status'[s] = status[s]
    BY <1>b, <2>2 DEF TypeOK
  <2>5. /\ \A q \in Runs \ {r} : did'[q] = did[q]
        /\ \A s \in Stages \ {RI, Chaos} : did'[r][s] = did[r][s]
    BY <1>b, <2>2 DEF TypeOK
  <2>6. failed'[r] <=> failed[r] \/ says = "fail"
    BY <2>2, ZenonT(30) DEF Count, TypeOK
  <2>7. \A q \in Runs \ {r} : failed'[q] <=> failed[q]
    BY <2>2, ZenonT(30) DEF Count, TypeOK
  <2>8. Proceed(r) /\ UNCHANGED <<results, mode, exit, copy>>
    BY <1>7 DEF RunIntelligence
  <2>9. status'[Chaos] = "fail" => status[Chaos] = "fail" \/ status'[RI] = "fail"
    BY <2>2, <2>3, <2>4
  <2>10. status'[RI] # "none" /\ (status[Chaos] # "none" => status'[Chaos] # "none")
    BY <2>2, <2>3, <2>4 DEF States
  <2>11. Stage(r) # Chaos
    BY <1>b, <2>1
  <2> QED
    BY <2>1, <2>4, <2>5, <2>6, <2>7, <2>8, <2>9, <2>10, <2>11 DEF StageEffect
<1> QED
  BY <1>1, <1>2, <1>3, <1>4, <1>5, <1>6, <1>7 DEF StageDone

-----------------------------------------------------------------------------
(* The steps, and the one run that takes them *)

(* the ways a script ends, with 0 only when nothing is left to do *)
Ends(r) ==
  /\ Active(r) /\ \E code \in {"zero", "nonzero"} : Leave(r, code) /\ (code = "zero" => at[r] = LastStep)
  /\ \A s \in Stages : status[s] # "none" => status'[s] # "none"
  /\ UNCHANGED <<results, at, mode, failed, copy>>

(* A step is one of six kinds, or nothing. *)
LEMMA Steps ==
  ASSUME TypeOK, [Next]_vars
  PROVE  \/ UNCHANGED vars
         \/ \E r \in Runs : \/ Start(r) \/ StageEffect(r) \/ Ends(r)
                            \/ OpenResults(r) \/ Publish(r) \/ Finalize(r)
<1>1. ASSUME NEW r \in Runs, ChaosDies(r) \/ RateNothing(r) \/ Killed(r) \/ Summarize(r) PROVE Ends(r)
  BY <1>1 DEF ChaosDies, RateNothing, Killed, Summarize, Ends, IsAt, TypeOK
<1>2. ASSUME NEW r \in Runs, StageDone(r) PROVE StageEffect(r)
  BY <1>2, StageDoneEffect
<1> QED
  BY <1>1, <1>2 DEF Next, StageDone

(* An active run keeps the worker busy. *)
LEMMA ActiveIsBusy ==
  ASSUME RunsInOrder, NEW r \in Runs, Active(r)
  PROVE  r \in Busy
  BY DEF RunsInOrder, Active, Busy

(* While a run is busy no other one is active, nor becomes it unmoved. *)
LEMMA OthersIdle ==
  ASSUME RunsInOrder, NEW r \in Runs, r \in Busy, NEW q \in Runs, q # r,
         at'[q] = at[q], exit'[q] = exit[q]
  PROVE  ~Active(q)'
<1>1. ~Active(q)
  BY ActiveIsBusy DEF RunsInOrder
<1> QED
  BY <1>1 DEF Active

(* A run starts when none is busy, so none is active but itself. *)
LEMMA StartsAlone ==
  ASSUME Workers = 1, TypeOK, RunsInOrder, NEW r \in Runs, Start(r)
  PROVE  /\ Busy = {} /\ at[r] = 0 /\ Behind(r)' = {}
         /\ \A q \in Runs : Active(q)' => q = r
<1>1. IsFiniteSet(Busy)
  BY FS_Subset, PipelineAssumption DEF Busy
<1>2. Cardinality(Busy) \in Nat /\ Cardinality(Busy) < 1
  BY <1>1, FS_CardinalityType DEF Start
<1>3. Busy = {}
  BY <1>1, <1>2, FS_EmptySet
<1>4. ASSUME NEW q \in Runs, q # r PROVE ~Active(q)'
  <2>1. ~Active(q)
    BY <1>3, ActiveIsBusy
  <2>2. at'[q] = at[q] /\ exit'[q] = exit[q]
    BY <1>4 DEF Start, TypeOK
  <2> QED
    BY <2>1, <2>2 DEF Active
<1>5. at'[r] = 1 /\ at[r] = 0
  BY DEF Start, TypeOK
<1>6. \A j \in 1..Len(Order) : ~(j < at'[r])
  BY <1>5, PipelineAssumption
<1>7. Behind(r)' = {}
  BY <1>6 DEF Behind
<1> QED
  BY <1>3, <1>4, <1>5, <1>7

(* In a step of r that is not its start, no other run is active after it. *)
LEMMA ActsAlone ==
  ASSUME TypeOK, RunsInOrder, NEW r \in Runs,
         StageEffect(r) \/ Ends(r) \/ OpenResults(r) \/ Publish(r) \/ Finalize(r)
  PROVE  /\ r \in Busy
         /\ \A q \in Runs : Active(q)' => q = r
         /\ Ends(r) \/ Finalize(r) => ~Active(r)'
<1>1. r \in Busy
  <2>1. CASE Finalize(r)
    BY <2>1 DEF Finalize, Busy, RunsInOrder, TypeOK
  <2>2. CASE ~Finalize(r)
    BY <2>2, ActiveIsBusy DEF StageEffect, IsAt, Ends, OpenResults, Publish
  <2> QED
    BY <2>1, <2>2
<1>2. ASSUME NEW q \in Runs, q # r PROVE at'[q] = at[q] /\ exit'[q] = exit[q]
  BY <1>2 DEF TypeOK, StageEffect, Proceed, Ends, Leave, OpenResults, Publish, Finalize
<1>3. Ends(r) \/ Finalize(r) => exit'[r] # "none"
  BY DEF TypeOK, Ends, Leave, Finalize
<1> QED
  BY <1>1, <1>2, <1>3, OthersIdle DEF Active

(* The order of a run's life, and that one worker has one run, stay. *)
LEMMA OrderStep ==
  ASSUME Workers = 1, TypeOK, RunsInOrder, [Next]_vars
  PROVE  RunsInOrder'
<1> USE DEF RunsInOrder
<1>1. ASSUME NEW r \in Runs, Start(r) PROVE RunsInOrder'
  <2>1. Busy = {} /\ at[r] = 0
    BY <1>1, StartsAlone
  <2>2. \A q \in Runs : at'[q] = IF q = r THEN 1 ELSE at[q]
    BY <1>1 DEF Start, TypeOK
  <2>3. UNCHANGED <<exit, copy>>
    BY <1>1 DEF Start
  <2>4. Busy' \subseteq {r}
    BY <2>1, <2>2, <2>3 DEF Busy
  <2> QED
    BY <2>2, <2>3, <2>4
<1>2. ASSUME NEW r \in Runs,
             StageEffect(r) \/ Ends(r) \/ OpenResults(r) \/ Publish(r) \/ Finalize(r)
      PROVE  RunsInOrder'
  <2>1. \A q \in Runs : at'[q] > 0 <=> at[q] > 0
    BY <1>2 DEF TypeOK, StageEffect, Proceed, Ends, OpenResults, Publish, Finalize, IsAt, Active
  <2>2. at[r] > 0
    BY <1>2, ActsAlone DEF Busy
  <2>3. \A q \in Runs : q # r => exit'[q] = exit[q]
    BY <1>2 DEF TypeOK, StageEffect, Ends, Leave, OpenResults, Publish, Finalize
  <2>4. \A q \in Runs : copy'[q] # Pending => copy[q] # Pending \/ (q = r /\ exit'[r] # "none")
    BY <1>2 DEF TypeOK, StageEffect, Ends, OpenResults, Publish, Finalize
  <2>5. \A q \in Runs : exit[q] # "none" => exit'[q] # "none"
    BY <1>2 DEF TypeOK, StageEffect, IsAt, Active, Ends, Leave, OpenResults, Publish, Finalize
  <2>6. \A q \in Runs : copy'[q] = Pending => copy[q] = Pending
    BY <1>2 DEF TypeOK, StageEffect, Ends, OpenResults, Publish, Finalize
  <2>7. Busy' \subseteq Busy
    BY <2>1, <2>6 DEF Busy
  <2> QED
    BY <2>1, <2>2, <2>3, <2>4, <2>5, <2>7
<1>3. CASE UNCHANGED vars
  BY <1>3 DEF vars, Busy
<1> QED
  BY <1>1, <1>2, <1>3, Steps

-----------------------------------------------------------------------------
(* What the status files say *)

(* The stage of a run that proceeds is behind it now, with its word. *)
LEMMA StageBehind ==
  ASSUME TypeOK, NEW r \in Runs, StageEffect(r)
  PROVE  /\ Behind(r)' = Behind(r) \cup {Stage(r)} /\ Stage(r) \notin Behind(r)
         /\ Stage(r) \in Stages /\ Behind(r) \subseteq Stages /\ Active(r)
         /\ at'[r] > 0
<1>1. IsAt(r, Stages) /\ Proceed(r)
  BY DEF StageEffect
<1>2. Behind(r)' = Behind(r) \cup {Stage(r)} /\ Stage(r) \notin Behind(r) /\ Stage(r) \in Stages
  BY <1>1, StageHere, BehindGrows
<1>3. Behind(r) \subseteq Stages
  BY PipelineAssumption DEF Behind
<1>4. at'[r] > 0
  BY <1>1 DEF IsAt, Active, Proceed, TypeOK
<1> QED
  BY <1>1, <1>2, <1>3, <1>4 DEF IsAt

(* Opening and completing results.json leave every stage behind. *)
LEMMA OpenBehind ==
  ASSUME TypeOK, NEW r \in Runs, OpenResults(r) \/ Publish(r)
  PROVE  /\ Behind(r) = Stages /\ Behind(r)' = Stages /\ Active(r)
         /\ UNCHANGED <<status, failed, did, mode>> /\ at'[r] > 0
<1>0. /\ Len(Order) \in Nat
      /\ at[r] \in {Len(Order) + 1, Len(Order) + 2} /\ at'[r] = at[r] + 1
  BY PipelineAssumption DEF OpenResults, Publish, Proceed, TypeOK
<1>1. /\ at[r] > Len(Order) /\ at'[r] > Len(Order) /\ Len(Order) \in Nat
      /\ at'[r] > 0
  BY <1>0
<1>2. Behind(r) = Stages
  BY <1>1, AllBehind
<1>3. \A k \in 1..Len(Order) : k < at'[r] /\ Order[k] \in Stages
  BY <1>0, PipelineAssumption
<1>4. Behind(r)' = Stages
  BY <1>3, PipelineAssumption DEF Behind
<1> QED
  BY <1>1, <1>2, <1>4 DEF OpenResults, Publish

(* The stages a run has behind it have written their files, and no script  *)
(* takes a file away, whoever runs beside it.                              *)
LEMMA WrittenStep ==
  ASSUME TypeOK, StagesWritten, [Next]_vars
  PROVE  StagesWritten'
<1>1. ASSUME NEW q \in Runs, Active(q), Behind(q)' = Behind(q),
             \A s \in Stages : status[s] # "none" => status'[s] # "none",
             NEW s \in Behind(q)'
      PROVE  status'[s] # "none"
  <2>1. s \in Stages
    BY <1>1, PipelineAssumption DEF Behind
  <2> QED
    BY <1>1, <2>1 DEF StagesWritten
<1>2. ASSUME NEW q \in Runs, at'[q] = at[q] PROVE Behind(q)' = Behind(q)
  BY <1>2 DEF Behind
<1>3. ASSUME NEW r \in Runs, Start(r) PROVE StagesWritten'
  <2>1. at'[r] = 1 /\ status' = status
    BY <1>3 DEF Start, TypeOK
  <2>2. Behind(r)' = {}
    BY <2>1, PipelineAssumption DEF Behind
  <2>3. ASSUME NEW q \in Runs, q # r, Active(q)' PROVE Active(q) /\ Behind(q)' = Behind(q)
    BY <1>2, <1>3, <2>3 DEF Start, TypeOK, Active
  <2> QED
    BY <1>1, <2>1, <2>2, <2>3 DEF StagesWritten
<1>4. ASSUME NEW r \in Runs, StageEffect(r) PROVE StagesWritten'
  <2>1. \A s \in Stages : status[s] # "none" => status'[s] # "none"
    BY <1>4 DEF StageEffect
  <2>2. \A s \in Behind(r)' : status'[s] # "none"
    BY <1>4, StageBehind DEF StagesWritten, StageEffect
  <2>3. ASSUME NEW q \in Runs, q # r, Active(q)' PROVE Active(q) /\ Behind(q)' = Behind(q)
    BY <1>2, <1>4, <2>3 DEF StageEffect, Proceed, TypeOK, Active
  <2> QED
    BY <1>1, <2>1, <2>2, <2>3 DEF StagesWritten
<1>5. ASSUME NEW r \in Runs, OpenResults(r) \/ Publish(r) PROVE StagesWritten'
  <2>1. Behind(r)' = Behind(r) /\ Active(r) /\ status' = status
    BY <1>5, OpenBehind
  <2>2. ASSUME NEW q \in Runs, q # r, Active(q)' PROVE Active(q) /\ Behind(q)' = Behind(q)
    BY <1>2, <1>5, <2>2 DEF OpenResults, Publish, Proceed, TypeOK, Active
  <2> QED
    BY <1>1, <2>1, <2>2 DEF StagesWritten
<1>6. ASSUME NEW r \in Runs, Ends(r) \/ Finalize(r) PROVE StagesWritten'
  <2>1. at' = at /\ \A q \in Runs : Active(q)' => Active(q)
    BY <1>6 DEF Ends, Finalize, Leave, TypeOK, Active
  <2>2. \A s \in Stages : status[s] # "none" => status'[s] # "none"
    BY <1>6 DEF Ends, Finalize
  <2> QED
    BY <1>1, <1>2, <2>1, <2>2 DEF StagesWritten
<1>7. CASE UNCHANGED vars
  BY <1>7 DEF vars, StagesWritten, Active, Behind
<1> QED
  BY <1>3, <1>4, <1>5, <1>6, <1>7, Steps

(* Chaos comes before resilience intelligence. *)
LEMMA ChaosFirst ==
  ASSUME TypeOK, NEW r \in Runs, IsAt(r, Stages), Stage(r) = RI
  PROVE  Chaos \in Behind(r)
<1>1. at[r] \in 1..Len(Order) /\ Order[at[r]] = RI
  BY StageHere DEF Stage
<1>2. PICK k \in 1..Len(Order) : Order[k] = Chaos
  BY PipelineAssumption DEF Stages
<1>3. k < at[r]
  BY <1>1, <1>2, PipelineAssumption
<1> QED
  BY <1>2, <1>3 DEF Behind

(* FAILURES goes on agreeing with the files, through each kind of step. *)
LEMMA CountStep ==
  ASSUME Workers = 1, TypeOK, RunsInOrder, CountAgrees, [Next]_vars
  PROVE  CountAgrees'
<1>1. ASSUME NEW r \in Runs, Start(r) PROVE CountAgrees'
  <2>1. at[r] = 0 /\ Behind(r)' = {} /\ failed' = failed /\ \A q \in Runs : Active(q)' => q = r
    BY <1>1, StartsAlone DEF Start
  <2>2. \A q \in Runs : at'[q] = 0 => at[q] = 0
    BY <1>1 DEF Start, TypeOK
  <2> QED
    BY <2>1, <2>2 DEF CountAgrees
<1>2. ASSUME NEW r \in Runs, StageEffect(r) PROVE CountAgrees'
  <2> DEFINE here == Stage(r)
  <2>1. /\ Behind(r)' = Behind(r) \cup {here} /\ here \notin Behind(r)
        /\ here \in Stages /\ Behind(r) \subseteq Stages /\ Active(r) /\ at'[r] > 0
    BY <1>2, StageBehind
  <2>2. /\ failed[r] <=> \E s \in Behind(r) : status[s] = "fail"
        /\ Chaos \in Behind(r) /\ RI \notin Behind(r) => status[Chaos] # "fail"
    BY <2>1 DEF CountAgrees
  <2>3. failed'[r] <=> failed[r] \/ status'[here] = "fail"
    BY <1>2 DEF StageEffect
  <2>4. \A s \in Behind(r) \ {Chaos} : status'[s] = status[s]
    BY <1>2, <2>1 DEF StageEffect
  <2>5. here # RI => Chaos \notin Behind(r) \/ status'[Chaos] = status[Chaos]
    BY <1>2, <2>1 DEF StageEffect
  <2>6. here = RI =>
          /\ Chaos \in Behind(r) /\ status[Chaos] # "fail"
          /\ status'[Chaos] = "fail" => status'[here] = "fail"
    BY <1>2, <2>1, <2>2, ChaosFirst DEF StageEffect
  <2>7. (\E s \in Behind(r)' : status'[s] = "fail")
           <=> (\E s \in Behind(r) : status[s] = "fail") \/ status'[here] = "fail"
    BY <2>1, <2>4, <2>5, <2>6
  <2>8. failed'[r] <=> \E s \in Behind(r)' : status'[s] = "fail"
    BY <2>2, <2>3, <2>7
  <2>9. Chaos \in Behind(r)' /\ RI \notin Behind(r)' => status'[Chaos] # "fail"
    BY <1>2, <2>1, <2>2, <2>5 DEF StageEffect
  <2>10. \A q \in Runs : at'[q] = 0 => q # r /\ at[q] = 0
    BY <1>2, <2>1 DEF StageEffect, Proceed, TypeOK
  <2>11. \A q \in Runs \ {r} : failed'[q] <=> failed[q]
    BY <1>2 DEF StageEffect
  <2>12. \A q \in Runs : at'[q] = 0 => ~failed'[q]
    BY <2>10, <2>11 DEF CountAgrees
  <2> QED
    BY <1>2, <2>8, <2>9, <2>12, ActsAlone DEF CountAgrees
<1>3. ASSUME NEW r \in Runs, OpenResults(r) \/ Publish(r) PROVE CountAgrees'
  <2>1. \A q \in Runs : at'[q] = 0 => at[q] = 0
    BY <1>3, OpenBehind DEF OpenResults, Publish, Proceed, TypeOK
  <2> QED
    BY <1>3, <2>1, OpenBehind, ActsAlone DEF CountAgrees
<1>4. ASSUME NEW r \in Runs, Ends(r) \/ Finalize(r) PROVE CountAgrees'
  <2>1. UNCHANGED <<at, failed>>
    BY <1>4 DEF Ends, Finalize
  <2> QED
    BY <1>4, <2>1, ActsAlone DEF CountAgrees
<1>5. CASE UNCHANGED vars
  BY <1>5 DEF vars, CountAgrees, Active, Behind
<1> QED
  BY <1>1, <1>2, <1>3, <1>4, <1>5, Steps

(* The passes behind a run keep their reasons. *)
LEMMA ExplainedStep ==
  ASSUME Workers = 1, TypeOK, RunsInOrder, StagesExplained, [Next]_vars
  PROVE  StagesExplained'
<1>1. ASSUME NEW r \in Runs, Start(r) PROVE StagesExplained'
  BY <1>1, StartsAlone DEF StagesExplained
<1>2. ASSUME NEW r \in Runs, StageEffect(r) PROVE StagesExplained'
  <2>1. /\ Behind(r)' = Behind(r) \cup {Stage(r)} /\ Stage(r) \notin Behind(r)
        /\ Stage(r) \in Stages /\ Behind(r) \subseteq Stages /\ Active(r)
    BY <1>2, StageBehind
  <2>2. ASSUME NEW s \in Behind(r) \ {Chaos, RI}, status'[s] = "pass" PROVE Explained(r, s)'
    <3>1. status'[s] = status[s] /\ did'[r][s] = did[r][s] /\ mode' = mode
      BY <1>2, <2>1, <2>2 DEF StageEffect
    <3>2. Explained(r, s)
      BY <2>1, <2>2, <3>1 DEF StagesExplained
    <3> QED
      BY <3>1, <3>2 DEF Explained
  <2>3. ASSUME NEW s \in Stages \ {Chaos, RI}, s = Stage(r), status'[s] = "pass"
        PROVE  Explained(r, s)'
    BY <1>2, <2>3 DEF StageEffect, Explained
  <2> QED
    BY <1>2, <2>1, <2>2, <2>3, ActsAlone DEF StagesExplained
<1>3. ASSUME NEW r \in Runs, OpenResults(r) \/ Publish(r) PROVE StagesExplained'
  BY <1>3, OpenBehind, ActsAlone DEF StagesExplained, Explained
<1>4. ASSUME NEW r \in Runs, Ends(r) \/ Finalize(r) PROVE StagesExplained'
  BY <1>4, ActsAlone DEF StagesExplained
<1>5. CASE UNCHANGED vars
  BY <1>5 DEF vars, StagesExplained, Explained, Active, Behind
<1> QED
  BY <1>1, <1>2, <1>3, <1>4, <1>5, Steps

-----------------------------------------------------------------------------
(* Whose results.json is *)

(* A step other than opening or publishing leaves the results alone. *)
LEMMA ResultsChange ==
  ASSUME TypeOK, [Next]_vars
  PROVE  results' = results \/ \E r \in Runs : OpenResults(r) \/ Publish(r)
BY Steps DEF vars, Start, StageEffect, Ends, Finalize

(* The exit code of a run changes when it ends, its copy when it is made,  *)
(* and it comes to its last step by publishing.                            *)
LEMMA EndsChange ==
  ASSUME TypeOK, [Next]_vars, NEW q \in Runs
  PROVE  /\ exit'[q] = exit[q] \/ Ends(q)
         /\ copy'[q] = copy[q] \/ Finalize(q)
         /\ exit'[q] = "zero" => exit[q] = "zero" \/ at[q] = LastStep
<1>1. /\ exit'[q] = exit[q] \/ Ends(q)
      /\ copy'[q] = copy[q] \/ Finalize(q)
  BY Steps DEF TypeOK, vars, Start, StageEffect, Ends, Leave, OpenResults, Publish, Finalize
<1>2. Ends(q) /\ exit'[q] = "zero" => at[q] = LastStep
  BY DEF Ends, Leave, TypeOK
<1> QED
  BY <1>1, <1>2

(* A run comes to its last step by publishing, and stays there. *)
LEMMA LastChange ==
  ASSUME TypeOK, [Next]_vars, NEW q \in Runs
  PROVE  /\ at[q] = LastStep => at'[q] = LastStep
         /\ at'[q] = LastStep => at[q] = LastStep \/ Publish(q)
<1>1. Len(Order) \in Nat /\ LastStep = Len(Order) + 3 /\ at[q] \in Nat
  BY PipelineAssumption DEF TypeOK, LastStep
<1>2. ASSUME NEW r \in Runs, Start(r) \/ StageEffect(r) \/ OpenResults(r)
      PROVE  /\ at[q] = LastStep => at'[q] = LastStep
             /\ at'[q] = LastStep => at[q] = LastStep
  BY <1>1, <1>2 DEF TypeOK, Start, StageEffect, IsAt, Proceed, OpenResults
<1>3. ASSUME NEW r \in Runs, Publish(r)
      PROVE  /\ at[q] = LastStep => at'[q] = LastStep
             /\ at'[q] = LastStep => at[q] = LastStep \/ Publish(q)
  <2>1. at[r] = Len(Order) + 2 /\ at' = [at EXCEPT ![r] = @ + 1]
    BY <1>3 DEF Publish, Proceed
  <2>2. CASE q = r
    BY <1>1, <1>3, <2>1, <2>2
  <2>3. CASE q # r
    BY <2>1, <2>3 DEF TypeOK
  <2> QED
    BY <2>2, <2>3
<1>4. ASSUME NEW r \in Runs, Ends(r) \/ Finalize(r) PROVE at' = at
  BY <1>4 DEF Ends, Finalize
<1> QED
  BY <1>2, <1>3, <1>4, Steps DEF vars

(* What a run publishes: its own results. *)
LEMMA Published ==
  ASSUME TypeOK, StagesWritten, NEW r \in Runs, Publish(r)
  PROVE  /\ results' = [run |-> r, tests |-> status, critical |-> failed[r]]
         /\ results' \in Reports /\ Behind(r) = Stages /\ Active(r)
<1>1. Active(r) /\ at[r] > Len(Order)
  BY PipelineAssumption DEF Publish
<1>2. Behind(r) = Stages
  BY <1>1, AllBehind
<1>3. status \in [Stages -> States]
  BY <1>1, <1>2 DEF StagesWritten, TypeOK
<1>4. failed[r] \in BOOLEAN
  BY DEF TypeOK
<1>5. [run |-> r, tests |-> status, critical |-> failed[r]] \in Reports
  BY <1>3, <1>4 DEF Reports
<1> QED
  BY <1>1, <1>2, <1>5 DEF Publish

(* A run ends with 0 when nothing is left to do. *)
LEMMA EndStep ==
  ASSUME TypeOK, EndsAtTheEnd, [Next]_vars
  PROVE  EndsAtTheEnd'
<1> SUFFICES ASSUME NEW q \in Runs, exit'[q] = "zero" PROVE at'[q] = LastStep
  BY DEF EndsAtTheEnd, LastStep
<1>1. at[q] = LastStep
  BY EndsChange DEF EndsAtTheEnd
<1> QED
  BY <1>1, LastChange

(* Until a run that has published is copied nobody else opens results.json. *)
LEMMA FreshStep ==
  ASSUME Workers = 1, TypeOK, RunsInOrder, StagesWritten, ResultsAreFresh, [Next]_vars
  PROVE  ResultsAreFresh'
<1> SUFFICES ASSUME NEW q \in Runs, at'[q] = LastStep, copy'[q] = Pending
             PROVE  results' \in Reports /\ results'.run = q
  BY DEF ResultsAreFresh, LastStep
<1>1. CASE Publish(q)
  BY <1>1, Published
<1>2. CASE ~Publish(q)
  <2>0. Len(Order) \in Nat /\ LastStep = Len(Order) + 3
    BY PipelineAssumption DEF LastStep
  <2>1. at[q] = LastStep /\ at[q] > 0
    BY <1>2, <2>0, LastChange
  <2>2. copy[q] = Pending
    BY EndsChange DEF Finalize
  <2>3. q \in Busy
    BY <2>1, <2>2 DEF Busy
  <2>4. ASSUME NEW r \in Runs, OpenResults(r) \/ Publish(r) PROVE FALSE
    <3>1. Active(r) /\ at[r] \in {Len(Order) + 1, Len(Order) + 2}
      BY <2>4 DEF OpenResults, Publish
    <3>2. r = q
      BY <2>3, <3>1, ActiveIsBusy DEF RunsInOrder
    <3> QED
      BY <2>0, <2>1, <3>1, <3>2
  <2>5. results' = results
    BY <2>4, ResultsChange
  <2> QED
    BY <2>1, <2>2, <2>5 DEF ResultsAreFresh
<1> QED
  BY <1>1, <1>2

(* What is published is counted, and nothing else is a report. *)
LEMMA CountedStep ==
  ASSUME TypeOK, StagesWritten, CountAgrees, FailuresCounted, [Next]_vars
  PROVE  FailuresCounted'
<1>1. ASSUME NEW r \in Runs, OpenResults(r) PROVE FailuresCounted'
  BY <1>1, PipelineAssumption DEF OpenResults, FailuresCounted
<1>2. ASSUME NEW r \in Runs, Publish(r) PROVE FailuresCounted'
  <2>1. results'.critical = failed[r] /\ results'.tests = status /\ Behind(r) = Stages /\ Active(r)
    BY <1>2, Published
  <2>2. failed[r] <=> \E s \in Stages : status[s] = "fail"
    BY <2>1 DEF CountAgrees
  <2> QED
    BY <2>1, <2>2, Zenon DEF FailuresCounted
<1>3. CASE results' = results
  BY <1>3 DEF FailuresCounted
<1> QED
  BY <1>1, <1>2, <1>3, ResultsChange

(* The copy of a passed run is what it had published. *)
LEMMA KeepStep ==
  ASSUME TypeOK, RunsInOrder, EndsAtTheEnd, ResultsAreFresh, PassedRunKeepsResults, [Next]_vars
  PROVE  PassedRunKeepsResults'
<1> SUFFICES ASSUME NEW q \in Runs, exit'[q] = "zero", copy'[q] # Pending
             PROVE  copy'[q] \in Reports /\ copy'[q].run = q
  BY DEF PassedRunKeepsResults
<1>1. CASE Finalize(q)
  <2>1. copy'[q] = results /\ exit[q] = "zero" /\ copy[q] = Pending
    BY <1>1 DEF Finalize, TypeOK
  <2> QED
    BY <2>1 DEF ResultsAreFresh, EndsAtTheEnd
<1>2. CASE ~Finalize(q)
  <2>1. copy'[q] = copy[q]
    BY <1>2, EndsChange
  <2>2. exit[q] # "none"
    BY <2>1 DEF RunsInOrder
  <2>3. exit[q] = "zero"
    BY <2>2, EndsChange DEF Ends, Active
  <2> QED
    BY <2>1, <2>3 DEF PassedRunKeepsResults
<1> QED
  BY <1>1, <1>2

(* No step makes a report but the one by which a run publishes, and it had *)
(* not published before.                                                   *)
LEMMA SettledStep ==
  ASSUME TypeOK, StagesWritten, ReportsAreSettled, [Next]_vars
  PROVE  ReportsAreSettled'
<1> HIDE DEF ReportsAreSettled, LastStep
<1>1. ASSUME NEW x \in Complete'
      PROVE  x \in Complete \/ (x = results' /\ \E r \in Runs : Publish(r))
  <2>1. x \in Reports /\ (x = results' \/ \E q \in Runs : x = copy'[q])
    BY <1>1 DEF Complete
  <2>2. ASSUME NEW q \in Runs PROVE copy'[q] \in {copy[q], results}
    BY EndsChange DEF Finalize, TypeOK
  <2>3. x = results' => x = results \/ \E r \in Runs : Publish(r)
    BY <2>1, ResultsChange, PipelineAssumption DEF OpenResults
  <2> QED
    BY <2>1, <2>2, <2>3 DEF Complete
<1>2. ASSUME NEW x \in Complete PROVE x.run \in Runs /\ at[x.run] = LastStep /\ at'[x.run] = LastStep
  <2>1. x.run \in Runs
    BY DEF Complete, Reports
  <2> QED
    BY <2>1, LastChange DEF ReportsAreSettled
<1>3. ASSUME NEW r \in Runs, Publish(r)
      PROVE  /\ results'.run = r /\ at'[r] = LastStep
             /\ \A x \in Complete : x.run # r
  <2>1. results'.run = r
    BY <1>3, Published
  <2>2. at[r] = Len(Order) + 2 /\ at'[r] = Len(Order) + 3
    BY <1>3, PipelineAssumption DEF Publish, Proceed, TypeOK
  <2> QED
    BY <1>2, <2>1, <2>2, PipelineAssumption DEF LastStep
<1>4. ASSUME NEW x \in Complete' PROVE at'[x.run] = LastStep
  BY <1>1, <1>2, <1>3, <1>4
<1>5. ASSUME NEW x \in Complete', NEW y \in Complete', x.run = y.run PROVE x = y
  <2>1. CASE x \in Complete /\ y \in Complete
    BY <1>5, <2>1 DEF ReportsAreSettled
  <2>2. CASE x \notin Complete \/ y \notin Complete
    BY <1>1, <1>3, <1>5, <2>2
  <2> QED
    BY <2>1, <2>2
<1> QED
  BY <1>4, <1>5 DEF ReportsAreSettled, LastStep

(* The one worker copies a report home before anybody else can copy it.    *)
LEMMA HomeStep ==
  ASSUME TypeOK, RunsInOrder, StagesWritten, ReportsAreSettled,
         ReportsLieAtHome, [Next]_vars
  PROVE  ReportsLieAtHome'
<1>1. ASSUME results' \in Reports PROVE copy'[results'.run] \in {Pending, results'}
  <2>1. ASSUME results' = results PROVE copy'[results'.run] \in {Pending, results'}
    <3>1. results.run \in Runs
      BY <1>1, <2>1 DEF Reports
    <3>2. copy'[results.run] \in {copy[results.run], results}
      BY <3>1, EndsChange DEF Finalize, TypeOK
    <3> QED
      BY <1>1, <2>1, <3>2 DEF ReportsLieAtHome
  <2>2. ASSUME NEW r \in Runs, OpenResults(r) PROVE FALSE
    BY <1>1, <2>2, PipelineAssumption DEF OpenResults
  <2>3. ASSUME NEW r \in Runs, Publish(r) PROVE copy'[results'.run] \in {Pending, results'}
    <3>1. results'.run = r /\ Active(r) /\ copy' = copy
      BY <2>3 DEF Publish
    <3>2. copy[r] = Pending
      BY <3>1, ActiveIsBusy DEF Busy
    <3> QED
      BY <3>1, <3>2
  <2> QED
    BY <2>1, <2>2, <2>3, ResultsChange
<1>2. ASSUME NEW q \in Runs, copy'[q] \in Reports PROVE copy'[copy'[q].run] = copy'[q]
  <2>1. CASE copy'[q] = copy[q]
    <3>1. copy[q].run \in Runs /\ copy[copy[q].run] = copy[q]
      BY <1>2, <2>1 DEF Reports, ReportsLieAtHome
    <3>2. copy[copy[q].run] # Pending
      BY <1>2, <2>1, <3>1, PipelineAssumption
    <3>3. copy'[copy[q].run] = copy[copy[q].run]
      BY <3>1, <3>2, EndsChange DEF Finalize
    <3> QED
      BY <2>1, <3>1, <3>3
  <2>2. CASE Finalize(q)
    <3>1. copy'[q] = results /\ copy[q] = Pending /\ exit[q] # "none"
      BY <2>2 DEF Finalize, TypeOK
    <3>2. results \in Reports /\ results.run \in Runs
      BY <1>2, <3>1 DEF Reports
    <3>3. copy[results.run] \in {Pending, results} /\ at[results.run] > 0
      BY <3>2, PipelineAssumption DEF ReportsLieAtHome, ReportsAreSettled, Complete, LastStep
    <3>4. CASE results.run = q
      BY <3>1, <3>4
    <3>5. CASE results.run # q
      <4>1. copy[results.run] # Pending
        BY <3>1, <3>2, <3>3, <3>5 DEF RunsInOrder, Busy
      <4>2. copy'[results.run] = copy[results.run]
        BY <2>2, <3>5 DEF Finalize, TypeOK
      <4> QED
        BY <3>1, <3>3, <4>1, <4>2
    <3> QED
      BY <3>4, <3>5
  <2> QED
    BY <2>1, <2>2, EndsChange
<1> QED
  BY <1>1, <1>2 DEF ReportsLieAtHome

-----------------------------------------------------------------------------
(* Theorems *)

(* With one worker every step of every script, and the worker's copying,   *)
(* preserves whose the shared files are and what they rest on              *)
(* (run-assurance.sh, worker.mjs, artifacts.mjs).                          *)
THEOREM PipelineInductive ==
  ASSUME Workers = 1
  PROVE  Spec => []IndInv
<1>1. Init => IndInv
  <2> SUFFICES ASSUME Init PROVE IndInv
    OBVIOUS
  <2>1. TypeOK
    BY PipelineAssumption DEF Init, TypeOK, Files, LastStep
  <2>2. Busy = {} /\ \A r \in Runs : ~Active(r)
    BY DEF Init, Busy, Active
  <2>3. RunsInOrder /\ EndsAtTheEnd /\ ResultsAreFresh /\ StagesWritten /\ StagesExplained
    BY <2>2, PipelineAssumption
    DEF Init, RunsInOrder, EndsAtTheEnd, ResultsAreFresh, StagesWritten, StagesExplained, LastStep
  <2>4. CountAgrees
    BY <2>2, Zenon DEF Init, CountAgrees
  <2>5. FailuresCounted
    BY PipelineAssumption DEF Init, FailuresCounted
  <2>6. PassedRunKeepsResults
    BY DEF Init, PassedRunKeepsResults
  <2>7. ReportsAreSettled /\ ReportsLieAtHome
    BY PipelineAssumption DEF Init, ReportsAreSettled, Complete, ReportsLieAtHome
  <2> QED
    BY <2>1, <2>3, <2>4, <2>5, <2>6, <2>7 DEF IndInv
<1>2. IndInv /\ [Next]_vars => IndInv'
  <2> SUFFICES ASSUME IndInv, [Next]_vars PROVE IndInv'
    OBVIOUS
  <2> QED
    BY TypeStep, OrderStep, EndStep, FreshStep, WrittenStep, CountStep, ExplainedStep,
       CountedStep, KeepStep, SettledStep, HomeStep DEF IndInv
<1> QED
  BY <1>1, <1>2, PTL DEF Spec

(* A run that ends with 0 has its own results in its run directory.        *)
THEOREM PassedRunsKeepResults ==
  ASSUME Workers = 1
  PROVE  Spec => []PassedRunKeepsResults
<1>1. IndInv => PassedRunKeepsResults
  BY DEF IndInv
<1> QED
  BY <1>1, PipelineInductive, PTL

(* Of a report in a run directory that is not its own, the original lies   *)
(* in the directory of the run it is of (finalizeRunArtifacts copies what  *)
(* it finds, for a failed run, too).                                       *)
THEOREM ReportsStayAtHome ==
  ASSUME Workers = 1
  PROVE  Spec => []ReportsLieAtHome
<1>1. IndInv => ReportsLieAtHome
  BY DEF IndInv
<1> QED
  BY <1>1, PipelineInductive, PTL

(* However many workers share artifacts/latest, every results.json that is *)
(* complete, there or in a run directory, is of a run that has gone        *)
(* through all its stages, and all that are of one run say the same:       *)
(* a script writes the document once, after its stages (run-assurance.sh), *)
(* and finalizeRunArtifacts copies what it finds.                          *)
THEOREM ReportsOfARunAreOne == Spec => []ReportsAreSettled
<1> DEFINE Inv == TypeOK /\ StagesWritten /\ ReportsAreSettled
<1>1. Init => Inv
  BY PipelineAssumption
  DEF Init, TypeOK, Files, LastStep, ReportsAreSettled, Complete, StagesWritten, Active
<1>2. Inv /\ [Next]_vars => Inv'
  BY TypeStep, WrittenStep, SettledStep
<1>3. Inv => ReportsAreSettled
  OBVIOUS
<1> QED
  BY <1>1, <1>2, <1>3, PTL DEF Spec

(* critical_test_failures of results.json agrees with its test statuses.   *)
THEOREM FailuresAreCounted ==
  ASSUME Workers = 1
  PROVE  Spec => []FailuresCounted
<1>1. IndInv => FailuresCounted
  BY DEF IndInv
<1> QED
  BY <1>1, PipelineInductive, PTL

(* A stage reported as passed has passed, was simulated in a pragmatic     *)
(* run, or is that of a wrapper that died.                                 *)
THEOREM PassesHaveReasons ==
  ASSUME Workers = 1
  PROVE  Spec => PassesAreExplained
<1>1. ASSUME IndInv, [Next]_vars, NEW r \in Runs, Publishes(r),
             NEW s \in Stages \ {Chaos, RI}, results'.tests[s] = "pass"
      PROVE  Explained(r, s)
  <2>1. PICK q \in Runs : Publish(q)
    BY <1>1, ResultsChange, PipelineAssumption DEF IndInv, Publishes, OpenResults
  <2>2. q = r
    BY <1>1, <2>1 DEF Publish, Publishes
  <2>3. results'.tests = status /\ Behind(r) = Stages /\ Active(r)
    BY <1>1, <2>1, <2>2, Published DEF IndInv
  <2> QED
    BY <1>1, <2>3 DEF IndInv, StagesExplained
<1>2. IndInv /\ [Next]_vars =>
        [\A r \in Runs : Publishes(r) =>
           \A s \in Stages \ {Chaos, RI} :
             results'.tests[s] = "pass" => Explained(r, s)]_vars
  BY <1>1
<1> QED
  BY <1>2, PipelineInductive, PTL DEF Spec, PassesAreExplained
=============================================================================
