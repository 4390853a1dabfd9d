------------------------ MODULE ResetGeneratorProofs ------------------------
(***************************************************************************)
(* What one and two complete runs of the generator leave behind, for any   *)
(* structures, packages and edits between the runs.                        *)
(***************************************************************************)
EXTENDS ResetGenerator, TLAPS

USE GeneratorAssumption

Paths == ToSet(Packages)

\* What the current run still has to write, and for which packages.
RunTypes ==
    /\ DOMAIN file = Paths /\ DOMAIN output = Paths
    /\ fresh \in 0..2
    /\ \A n \in pending : n \in DOMAIN Packages /\ Targets(Packages[n]) # {}

\* A file has methods of its own package only, and so has what a run will write.
AtHome ==
    /\ \A p \in Paths : \A s \in DOMAIN file[p] : PkgOf[s] = p
    /\ pending # {} => \A p \in Paths : DOMAIN output[p] = Targets(p)

Coming(p) == \E n \in pending : Packages[n] = p

\* A package the current run has passed without a failure has the methods it
\* should have.
Passed ==
    pending # {} /\ intact =>
        \A p \in Paths : Targets(p) # {} => Coming(p) \/ DOMAIN file[p] = Targets(p)

\* After one complete run the right methods exist, whatever they call.
OneRun ==
    fresh > 0 => \A p \in Paths : Targets(p) # {} => DOMAIN file[p] = Targets(p)

\* The next run then decides by methods that it will not add or remove, so what it
\* has found stays true while it writes.
SecondRun ==
    fresh > 0 /\ pending # {} =>
        /\ intact
        /\ \A p \in Paths :
              /\ output[p] = Contents(p)
              /\ Targets(p) # {} => Coming(p) \/ file[p] = Contents(p)

Settled == fresh = 2 => \A p \in Paths : Targets(p) # {} => file[p] = Contents(p)

GeneratorInv ==
    /\ RunTypes /\ AtHome /\ Passed
    /\ OneRun /\ SecondRun /\ Settled

-----------------------------------------------------------------------------
(* What a run finds depends on the source and on which methods exist.       *)

LEMMA SameTargets ==
    ASSUME UNCHANGED source, NEW p
    PROVE  Targets(p)' = Targets(p)
BY DEF source, Targets, HasManual

LEMMA SameContents ==
    ASSUME UNCHANGED source, Generated' = Generated, NEW p
    PROVE  Contents(p)' = Contents(p)
<1>1. marked' = marked /\ manual' = manual /\ fields' = fields
  BY DEF source
<1>2. Owners' = Owners
  BY <1>1 DEF Owners
<1>3. ASSUME NEW s
      PROVE  HasReset(s)' = HasReset(s)
  BY <1>1, <1>2 DEF HasReset, Declares
<1>4. ASSUME NEW type
      PROVE  How(type)' = How(type)
  <2>1. HasReset(type)' = HasReset(type)
    BY <1>3
  <2>2. QED
    BY <2>1 DEF How
<1>5. ASSUME NEW s
      PROVE  Method(s)' = Method(s)
  BY <1>1, <1>4 DEF Method
<1>6. Targets(p)' = Targets(p)
  BY SameTargets
<1>7. QED
  BY <1>5, <1>6 DEF Contents

LEMMA ContentsDomain ==
    ASSUME NEW p
    PROVE  DOMAIN Contents(p) = Targets(p)
BY DEF Contents

LEMMA TargetsAtHome ==
    ASSUME NEW p, NEW s \in Targets(p)
    PROVE  PkgOf[s] = p /\ manual[s] = "none"
BY DEF Targets, HasManual

-----------------------------------------------------------------------------
(* The steps.                                                               *)

LEMMA LoadKeeps ==
    ASSUME GeneratorInv, Load
    PROVE  GeneratorInv'
<1>1. /\ pending = {} /\ intact' = TRUE /\ file' = file
      /\ pending' = {n \in DOMAIN Packages : Targets(Packages[n]) # {}}
      /\ output' = [p \in Paths |-> Contents(p)]
      /\ fresh' = IF pending' = {} /\ intact' /\ fresh < 2 THEN fresh + 1 ELSE fresh
      /\ UNCHANGED source
  BY DEF Load, CountRun, Paths
<1>2. \A p : Targets(p)' = Targets(p)
  BY <1>1, SameTargets
<1>3. \A p : Contents(p)' = Contents(p)
  BY <1>1, SameContents DEF Generated
<1>4. \A p \in Paths : Targets(p) # {} => \E n \in pending' : Packages[n] = p
  BY <1>1 DEF Paths, ToSet
<1>5. fresh \in 0..2 /\ fresh' \in 0..2
  BY <1>1 DEF GeneratorInv, RunTypes
<1>6. fresh' = fresh \/ pending' = {}
  BY <1>1
<1>7. RunTypes'
  BY <1>1, <1>2, <1>5 DEF GeneratorInv, RunTypes
<1>8. AtHome'
  BY <1>1, <1>2, ContentsDomain DEF GeneratorInv, AtHome
<1>9. Passed'
  BY <1>2, <1>4 DEF Passed, Coming
<1>10. CASE pending' = {}
  <2>1. \A p \in Paths : Targets(p)' = {}
    BY <1>2, <1>4, <1>10
  <2>2. OneRun' /\ SecondRun' /\ Settled'
    BY <1>10, <2>1 DEF OneRun, SecondRun, Settled
  <2>3. QED
    BY <1>7, <1>8, <1>9, <2>2 DEF GeneratorInv
<1>11. CASE pending' # {}
  <2>1. fresh' = fresh
    BY <1>6, <1>11
  <2>2. OneRun' /\ Settled'
    BY <1>1, <1>2, <1>3, <2>1 DEF GeneratorInv, OneRun, Settled
  <2>3. SecondRun'
    BY <1>1, <1>2, <1>3, <1>4 DEF SecondRun, Coming
  <2>4. QED
    BY <1>7, <1>8, <1>9, <2>2, <2>3 DEF GeneratorInv
<1>12. QED
  BY <1>10, <1>11

LEMMA WriteKeeps ==
    ASSUME GeneratorInv, WriteFile
    PROVE  GeneratorInv'
<1>1. PICK n \in pending :
          /\ pending' = pending \ {n}
          /\ file' = [file EXCEPT ![Packages[n]] = output[Packages[n]]]
  BY DEF WriteFile
<1>2. /\ UNCHANGED source /\ output' = output /\ intact' = intact
      /\ fresh' = IF pending' = {} /\ intact' /\ fresh < 2 THEN fresh + 1 ELSE fresh
  BY DEF WriteFile, CountRun
<1> DEFINE q == Packages[n]
<1>3. /\ n \in DOMAIN Packages /\ q \in Paths /\ Targets(q) # {}
      /\ DOMAIN file = Paths /\ DOMAIN output = Paths /\ pending # {}
      /\ fresh \in 0..2
  BY DEF GeneratorInv, RunTypes, Paths, ToSet
<1> HIDE DEF q
<1>4. /\ DOMAIN file' = Paths /\ file'[q] = output[q]
      /\ \A p \in Paths : p # q => file'[p] = file[p]
  BY <1>1, <1>3 DEF q
<1>5. \A p : Targets(p)' = Targets(p)
  BY <1>2, SameTargets
<1>6. DOMAIN output[q] = Targets(q)
  BY <1>3 DEF GeneratorInv, AtHome
<1>7. DOMAIN file'[q] = Targets(q)
  BY <1>4, <1>6
<1>8. \A p \in Paths : Coming(p) => p = q \/ Coming(p)'
  BY <1>1 DEF Coming, q
<1>9. /\ fresh' \in 0..2
      /\ fresh' = fresh \/ (pending' = {} /\ intact /\ fresh' = fresh + 1)
  <2>1. fresh' = fresh \/ (pending' = {} /\ intact /\ fresh < 2 /\ fresh' = fresh + 1)
    BY <1>2
  <2>2. QED
    BY <1>3, <2>1
<1>10. RunTypes'
  BY <1>1, <1>2, <1>3, <1>4, <1>5, <1>9 DEF GeneratorInv, RunTypes
<1>11. AtHome'
  <2>1. ASSUME NEW p \in Paths, NEW s \in DOMAIN file'[p]
        PROVE  PkgOf[s] = p
    <3>1. CASE p = q
      BY <1>7, <2>1, <3>1, TargetsAtHome
    <3>2. CASE p # q
      BY <1>4, <2>1, <3>2 DEF GeneratorInv, AtHome
    <3>3. QED
      BY <3>1, <3>2
  <2>2. \A p \in Paths : DOMAIN output'[p] = Targets(p)'
    BY <1>2, <1>3, <1>5 DEF GeneratorInv, AtHome
  <2>3. QED
    BY <2>1, <2>2 DEF AtHome
<1>12. intact => \A p \in Paths : Targets(p) # {} => Coming(p)' \/ DOMAIN file'[p] = Targets(p)
  <2>1. intact => \A p \in Paths : Targets(p) # {} => Coming(p) \/ DOMAIN file[p] = Targets(p)
    BY <1>3 DEF GeneratorInv, Passed
  <2>2. QED
    BY <1>4, <1>7, <1>8, <2>1
<1>13. Passed'
  BY <1>2, <1>5, <1>12 DEF Passed
<1>14. pending' = {} => \A p \in Paths : ~Coming(p)'
  BY DEF Coming
<1>15. CASE fresh = 0
  <2>1. OneRun'
    <3>1. CASE fresh' = fresh
      BY <1>15, <3>1 DEF OneRun
    <3>2. CASE pending' = {} /\ intact
      BY <1>5, <1>12, <1>14, <3>2 DEF OneRun
    <3>3. QED
      BY <1>9, <3>1, <3>2
  <2>2. fresh' # 2 /\ (fresh' > 0 => pending' = {})
    BY <1>9, <1>15
  <2>3. SecondRun' /\ Settled'
    BY <2>2 DEF SecondRun, Settled
  <2>4. QED
    BY <1>10, <1>11, <1>13, <2>1, <2>3 DEF GeneratorInv
<1>16. CASE fresh > 0
  <2>1. \A p \in Paths : Targets(p) # {} => DOMAIN file[p] = Targets(p)
    BY <1>16 DEF GeneratorInv, OneRun
  <2>2. \A p \in Paths : DOMAIN file'[p] = DOMAIN file[p]
    BY <1>3, <1>4, <1>7, <2>1
  <2>3. Generated' = Generated
    BY <2>2 DEF Generated, Paths
  <2>4. \A p : Contents(p)' = Contents(p)
    BY <1>2, <2>3, SameContents
  <2>5. /\ intact
        /\ \A p \in Paths :
              /\ output[p] = Contents(p)
              /\ Targets(p) # {} => Coming(p) \/ file[p] = Contents(p)
    BY <1>3, <1>16 DEF GeneratorInv, SecondRun
  <2>6. \A p \in Paths : Targets(p) # {} => Coming(p)' \/ file'[p] = Contents(p)
    BY <1>3, <1>4, <1>8, <2>5
  <2>7. OneRun'
    BY <1>5, <2>1, <2>2 DEF OneRun
  <2>8. SecondRun'
    BY <1>2, <1>5, <2>4, <2>5, <2>6 DEF SecondRun
  <2>9. Settled'
    <3>1. CASE pending' = {}
      BY <1>5, <1>14, <2>4, <2>6, <3>1 DEF Settled
    <3>2. CASE pending' # {}
      <4>1. fresh' = fresh
        BY <1>9, <3>2
      <4>2. fresh = 2 => \A p \in Paths : Targets(p) # {} => file[p] = Contents(p)
        BY DEF GeneratorInv, Settled
      <4>3. fresh = 2 => \A p \in Paths : Targets(p) # {} => file'[p] = Contents(p)
        BY <1>3, <1>4, <2>5, <4>2
      <4>4. QED
        BY <1>5, <2>4, <4>1, <4>3 DEF Settled
    <3>3. QED
      BY <3>1, <3>2
  <2>10. QED
    BY <1>10, <1>11, <1>13, <2>7, <2>8, <2>9 DEF GeneratorInv
<1>17. QED
  BY <1>3, <1>15, <1>16

\* After a failure, and after an edit, the count of complete runs starts again.
LEMMA RestartKeeps ==
    ASSUME GeneratorInv, fresh' = 0, output' = output,
           DOMAIN file' = Paths,
           \A p \in Paths : \A s \in DOMAIN file'[p] : PkgOf[s] = p,
           \/ UNCHANGED source /\ pending' \subseteq pending /\ intact' = FALSE
           \/ pending' = {}
    PROVE  GeneratorInv'
<1>1. RunTypes'
  <2>1. CASE UNCHANGED source /\ pending' \subseteq pending
    BY <2>1, SameTargets DEF GeneratorInv, RunTypes
  <2>2. CASE pending' = {}
    BY <2>2 DEF GeneratorInv, RunTypes
  <2>3. QED
    BY <2>1, <2>2
<1>2. AtHome'
  <2>1. CASE UNCHANGED source /\ pending' \subseteq pending
    BY <2>1, SameTargets DEF GeneratorInv, AtHome
  <2>2. CASE pending' = {}
    BY <2>2 DEF GeneratorInv, AtHome
  <2>3. QED
    BY <2>1, <2>2
<1>3. Passed' /\ OneRun' /\ SecondRun' /\ Settled'
  BY DEF Passed, OneRun, SecondRun, Settled
<1>4. QED
  BY <1>1, <1>2, <1>3 DEF GeneratorInv

\* What a run that stops leaves of a method file belongs to the package.
LEMMA StoppedKeeps ==
    ASSUME GeneratorInv, Stopped
    PROVE  GeneratorInv'
<1>0. PICK n \in pending : \E written \in SUBSET DOMAIN output[Packages[n]] :
          /\ pending' \in {pending \ {n}, {}}
          /\ \/ UNCHANGED file
             \/ file' = [file EXCEPT ![Packages[n]] = Restrict(output[Packages[n]], written)]
  BY DEF Stopped
<1>1. PICK written \in SUBSET DOMAIN output[Packages[n]] :
          /\ pending' \in {pending \ {n}, {}}
          /\ \/ UNCHANGED file
             \/ file' = [file EXCEPT ![Packages[n]] = Restrict(output[Packages[n]], written)]
  BY <1>0
<1>2. /\ intact' = FALSE /\ fresh' = 0 /\ output' = output /\ UNCHANGED source
      /\ pending' \subseteq pending
  BY <1>1 DEF Stopped
<1> DEFINE q == Packages[n]
<1>3. /\ q \in Paths /\ DOMAIN file = Paths
      /\ DOMAIN output[q] = Targets(q)
  BY DEF GeneratorInv, RunTypes, AtHome, Paths, ToSet
<1> DEFINE left == Restrict(output[q], written)
<1>4. DOMAIN left \subseteq Targets(q)
  BY <1>3 DEF Restrict
<1>5. file' = file \/ file' = [file EXCEPT ![q] = left]
  BY <1>1
<1> HIDE DEF q, left
<1>6. DOMAIN file' = Paths
  BY <1>3, <1>5
<1>7. ASSUME NEW p \in Paths, NEW s \in DOMAIN file'[p]
      PROVE  PkgOf[s] = p
  <2>1. file'[p] = file[p] \/ (p = q /\ file'[p] = left)
    BY <1>3, <1>5
  <2>2. CASE file'[p] = file[p]
    BY <1>7, <2>2 DEF GeneratorInv, AtHome
  <2>3. CASE p = q /\ file'[p] = left
    BY <1>4, <1>7, <2>3, TargetsAtHome
  <2>4. QED
    BY <2>1, <2>2, <2>3
<1>8. QED
  BY <1>2, <1>6, <1>7, RestartKeeps

LEMMA StepKeepsGenerator ==
    ASSUME GeneratorInv, [Next]_vars
    PROVE  GeneratorInv'
<1>1. CASE Load
  BY <1>1, LoadKeeps
<1>2. CASE WriteFile
  BY <1>2, WriteKeeps
<1>3. CASE Stopped
  BY <1>3, StoppedKeeps
<1>4. CASE \E s \in Structs : Mark(s) \/ WriteManual(s) \/ ChangeField(s)
  <2>1. Edit
    BY <1>4 DEF Mark, WriteManual, ChangeField
  <2>2. fresh' = 0 /\ file' = file /\ output' = output /\ pending' = {}
    BY <2>1 DEF Edit, run
  <2>3. DOMAIN file' = Paths /\ \A p \in Paths : \A s \in DOMAIN file'[p] : PkgOf[s] = p
    BY <2>2 DEF GeneratorInv, RunTypes, AtHome
  <2>4. QED
    BY <2>2, <2>3, RestartKeeps
<1>5. CASE UNCHANGED vars
  <2>1. UNCHANGED <<source, file, pending, output, intact, fresh>>
    BY <1>5 DEF vars, run
  <2>2. \A p : Targets(p)' = Targets(p) /\ Contents(p)' = Contents(p)
    BY <2>1, SameTargets, SameContents DEF Generated
  <2>3. \A p : Coming(p)' = Coming(p)
    BY <2>1 DEF Coming
  <2>4. QED
    BY <2>1, <2>2, <2>3
       DEF GeneratorInv, RunTypes, AtHome, Passed, OneRun, SecondRun, Settled
<1>6. QED
  BY <1>1, <1>2, <1>3, <1>4, <1>5 DEF Next

LEMMA SpecKeepsGenerator == Spec => []GeneratorInv
<1>1. Init => GeneratorInv
  BY DEF Init, NoFile, GeneratorInv, RunTypes, AtHome, Passed, OneRun, SecondRun, Settled, Paths
<1>2. GeneratorInv /\ [Next]_vars => GeneratorInv'
  BY StepKeepsGenerator
<1>3. QED
  BY <1>1, <1>2, PTL DEF Spec

-----------------------------------------------------------------------------
(* The results.                                                             *)

LEMMA AbandonedTargets ==
    ASSUME NEW p
    PROVE  Abandoned(p) <=> Targets(p) = {}
BY DEF Abandoned, Targets, HasManual

\* After a complete run no structure has a generated and a handwritten Reset,
\* except in a package the generator finds nothing to generate for.
THEOREM OneMethodEach == Spec => []DeclaredOnce
<1>1. GeneratorInv => DeclaredOnce
  <2> SUFFICES ASSUME GeneratorInv, fresh > 0, NEW s \in Generated, manual[s] # "none"
               PROVE  Abandoned(PkgOf[s])
    BY DEF DeclaredOnce
  <2>1. PICK p \in Paths : s \in DOMAIN file[p]
    BY DEF Generated, Paths
  <2>2. PkgOf[s] = p
    BY <2>1 DEF GeneratorInv, AtHome
  <2>3. Targets(p) # {} => s \in Targets(p)
    BY <2>1 DEF GeneratorInv, OneRun
  <2>4. Targets(p) = {}
    BY <2>3, TargetsAtHome
  <2>5. QED
    BY <2>2, <2>4, AbandonedTargets
<1>2. QED
  BY <1>1, SpecKeepsGenerator, PTL

\* The methods Contents decides on call Reset() exactly where there is one to call.
LEMMA ContentsUpToDate ==
    ASSUME NEW p \in Paths, file[p] = Contents(p), marked \subseteq Structs,
           \A s \in Structs : fields[s] \subseteq DOMAIN AllFields[s]
    PROVE  UpToDate(p)
<1>1. DOMAIN file[p] = {s \in marked : PkgOf[s] = p /\ manual[s] = "none"}
  BY ContentsDomain DEF Targets, HasManual
<1>2. ASSUME NEW s \in DOMAIN file[p]
      PROVE  /\ DOMAIN file[p][s] = fields[s]
             /\ \A f \in fields[s] :
                   (file[p][s][f] = "call")
                       <=> (AllFields[s][f] \in Structs /\ HasReset(AllFields[s][f]))
  <2>1. file[p][s] = Method(s) /\ s \in Structs
    BY <1>1, <1>2 DEF Contents
  <2>2. ASSUME NEW f \in fields[s]
        PROVE  (Method(s)[f] = "call")
                   <=> (AllFields[s][f] \in Structs /\ HasReset(AllFields[s][f]))
    <3> DEFINE type == AllFields[s][f]
    <3>1. type \in Structs \union PlainTypes /\ Structs \intersect PlainTypes = {}
      BY <2>1
    <3> HIDE DEF type
    <3>2. How(type) = "call" <=> type \in Structs /\ HasReset(type)
      BY <3>1 DEF How, PlainTypes
    <3>3. QED
      BY <3>2 DEF Method, type
  <2>3. QED
    BY <2>1, <2>2 DEF Method
<1>3. QED
  BY <1>1, <1>2 DEF UpToDate

\* The source keeps its shape under the edits.
SourceTypes ==
    /\ marked \subseteq Structs
    /\ DOMAIN fields = Structs
    /\ \A s \in Structs : fields[s] \subseteq DOMAIN AllFields[s]

LEMMA SpecKeepsSource == Spec => []SourceTypes
<1>1. Init => SourceTypes
  BY DEF Init, SourceTypes
<1>2. SourceTypes /\ [Next]_vars => SourceTypes'
  <2> SUFFICES ASSUME SourceTypes, [Next]_vars
               PROVE  SourceTypes'
    OBVIOUS
  <2>1. CASE UNCHANGED source
    BY <2>1 DEF source, SourceTypes
  <2>2. ASSUME NEW s \in Structs, Mark(s) \/ WriteManual(s)
        PROVE  SourceTypes'
    BY <2>2 DEF Mark, WriteManual, SourceTypes
  <2>3. ASSUME NEW s \in Structs, ChangeField(s)
        PROVE  SourceTypes'
    BY <2>3 DEF ChangeField, SourceTypes
  <2>4. QED
    BY <2>1, <2>2, <2>3 DEF Next, Load, WriteFile, Stopped, vars
<1>3. QED
  BY <1>1, <1>2, PTL DEF Spec

\* Two complete runs after the last edit make every file what the comment on top
\* of main.go asks for, whatever earlier runs and edits have left behind.
THEOREM TwoRunsAreEnough == Spec => []TwoRunsSettle
<1>1. GeneratorInv /\ SourceTypes => TwoRunsSettle
  <2> SUFFICES ASSUME GeneratorInv, SourceTypes, fresh = 2, NEW p \in Paths, ~Abandoned(p)
               PROVE  UpToDate(p)
    BY DEF TwoRunsSettle, Paths
  <2>1. file[p] = Contents(p)
    BY AbandonedTargets DEF GeneratorInv, Settled
  <2>2. QED
    BY <2>1, ContentsUpToDate DEF SourceTypes
<1>2. QED
  BY <1>1, SpecKeepsGenerator, SpecKeepsSource, PTL

=============================================================================
