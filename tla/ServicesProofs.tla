---------------------------- MODULE ServicesProofs ----------------------------
(***************************************************************************)
(* Safety of three parts around the contracts, each by itself: the corpus  *)
(* audits of overlapping keepers, the relay to a real arm, and a tab at a  *)
(* task's station. For any number of passes, pages, poses, runs,           *)
(* submissions and page loads.                                             *)
(***************************************************************************)
EXTENDS Integers, CorpusAudit, ArmRelay, StationRun, FiniteSetTheorems, WellFoundedInduction,
        TLAPS

-----------------------------------------------------------------------------
(* The audit. Two lists of one task are nested but for what was lost,      *)
(* whichever was read first.                                               *)

Nested(A, B) == A \ B \subseteq lostRuns \/ B \ A \subseteq lostRuns

AuditStages == {"idle", "served", "read", "differs", "stamped"}

PassRecords == [at : AuditStages, served : SUBSET Episodes,
                committed : SUBSET Episodes, stamp : Int]

AuditTypeOK ==
  /\ settledRuns \subseteq Episodes /\ IsFiniteSet(settledRuns)
  /\ manifest \in Seq(SUBSET Episodes) /\ script \in SUBSET Episodes
  /\ pass \in [Passes -> PassRecords] /\ clock \in Int

\* A served list and a committed one are nested but for the lost, or one is full.
NestedOrFull(A, B) ==
  Nested(A, B) \/ Cardinality(A) >= ServeLimit \/ Cardinality(B) >= CommitLimit

\* What a keeper or the committing script holds was settled by then, and a
\* list of the runs is nested with whatever was or may be committed.
ListsNested ==
  /\ script \subseteq settledRuns /\ Latest \subseteq settledRuns
  /\ \A k \in Passes :
       /\ pass[k].served \subseteq settledRuns /\ pass[k].committed \subseteq settledRuns
       /\ NestedOrFull(pass[k].served, script) /\ NestedOrFull(pass[k].served, Latest)
       /\ NestedOrFull(pass[k].served, pass[k].committed)

AuditInv == AuditTypeOK /\ ListsNested /\ AlteredIsTrue

\* A list that is not full left nothing out: the best of what it left out would
\* have as many as the list may hold before it.
LEMMA BestIsWhole ==
  ASSUME AuditAssumption, NEW S \in SUBSET Episodes, IsFiniteSet(S), NEW n \in Nat
  PROVE  Best(S, n) = S \/ Cardinality(Best(S, n)) >= n
<1> SUFFICES ASSUME Best(S, n) # S
             PROVE  Cardinality(Best(S, n)) >= n
  OBVIOUS
<1> DEFINE before(e) == {d \in S : Rank[d] < Rank[e]}
           cut == {before(e) : e \in S \ Best(S, n)}
<1>1. Best(S, n) \in SUBSET S
  BY DEF Best
<1>2. cut \subseteq FiniteSubsetsOf(S) /\ cut # {}
  <2>1. \A e \in S : before(e) \in SUBSET S
    OBVIOUS
  <2>2. PICK e \in S : e \notin Best(S, n)
    BY <1>1
  <2> HIDE DEF before
  <2>3. cut \subseteq SUBSET S /\ before(e) \in cut
    BY <2>1, <2>2
  <2>4. FiniteSubsetsOf(S) = SUBSET S
    BY FS_FiniteSubsetsOfFinite
  <2> QED BY <2>3, <2>4
<1>3. PICK B \in cut : \A U \in cut : ~ (<<U, B>> \in StrictSubsetOrdering(S))
  <2> HIDE DEF cut
  <2> QED BY <1>2, FS_StrictSubsetOrderingWellFounded, WFMin
<1>4. PICK e \in S \ Best(S, n) : before(e) = B
  OBVIOUS
<1>5. before(e) \in SUBSET Best(S, n)
  <2>1. ASSUME NEW d \in S, Rank[d] < Rank[e], d \notin Best(S, n) PROVE FALSE
    <3>1. Rank[d] \in Nat /\ Rank[e] \in Nat /\ \A x \in S : Rank[x] \in Nat
      BY DEF AuditAssumption
    <3>2. before(d) \subseteq before(e) /\ d \in before(e) /\ d \notin before(d)
      BY <2>1, <3>1
    <3>3. before(d) \in cut /\ before(d) \subseteq S /\ before(e) \subseteq S
      BY <2>1
    <3> HIDE DEF before, cut
    <3> QED BY <1>3, <1>4, <3>2, <3>3 DEF StrictSubsetOrdering
  <2> QED BY <2>1
<1>6. ~ Cardinality(before(e)) < n
  BY <1>4 DEF Best
<1>7. /\ IsFiniteSet(Best(S, n)) /\ IsFiniteSet(before(e))
      /\ Cardinality(before(e)) <= Cardinality(Best(S, n))
  <2> HIDE DEF before
  <2> QED BY <1>1, <1>5, FS_Subset
<1>8. Cardinality(before(e)) \in Nat /\ Cardinality(Best(S, n)) \in Nat
  <2> HIDE DEF before
  <2> QED BY <1>7, FS_CardinalityType
<1> QED
  <2> HIDE DEF before
  <2> QED BY <1>6, <1>7, <1>8

\* Lists of one length that are nested but for the lost differ in a lost run.
LEMMA NestedDiffer ==
  ASSUME NEW A, NEW B, IsFiniteSet(A), IsFiniteSet(B),
         Cardinality(A) = Cardinality(B), A # B, Nested(A, B)
  PROVE  ((B \ A) \cup (A \ B)) \cap lostRuns # {}
<1>1. A \ B # {}
  <2> SUFFICES ASSUME A \in SUBSET B PROVE FALSE
    OBVIOUS
  <2> QED BY FS_Subset
<1>2. B \ A # {}
  <2> SUFFICES ASSUME B \in SUBSET A PROVE FALSE
    OBVIOUS
  <2> QED BY FS_Subset
<1> QED BY <1>1, <1>2 DEF Nested

LEMMA VerdictAltered ==
  ASSUME NEW A, NEW B, IsFiniteSet(A), IsFiniteSet(B), Verdict(A, B) = "altered"
  PROVE  A # B /\ Cardinality(A) = Cardinality(B)
<1>1. Cardinality(A) \in Nat /\ Cardinality(B) \in Nat
  BY FS_CardinalityType
<1> QED BY <1>1 DEF Verdict

LEMMA RestingType ==
  Resting \in PassRecords /\ Resting.served = {} /\ Resting.committed = {}
BY DEF Resting, PassRecords, AuditStages

LEMMA AuditBegins ==
  ASSUME AuditAssumption, AuditInit
  PROVE  AuditInv
<1>1. \A k \in Passes : /\ pass[k].served = {} /\ pass[k].committed = {}
                        /\ pass[k] \in PassRecords
  BY DEF AuditInit, Resting, PassRecords, AuditStages
<1>2. Latest = {} /\ script = {} /\ settledRuns = {} /\ manifest = <<>> /\ clock = 1
  BY DEF AuditInit, Latest
<1>3. pass \in [Passes -> PassRecords]
  BY <1>1 DEF AuditInit
<1>4. AuditTypeOK
  BY <1>2, <1>3, FS_EmptySet DEF AuditTypeOK
<1>5. ListsNested
  BY <1>1, <1>2 DEF ListsNested, NestedOrFull, Nested
<1>6. AlteredIsTrue
  BY DEF AuditInit, Unaudited, AlteredIsTrue
<1> QED BY <1>4, <1>5, <1>6 DEF AuditInv

LEMMA AuditNextKeeps ==
  ASSUME AuditAssumption, AuditInv, [AuditNext]_auditVars
  PROVE  AuditInv'
<1> USE DEF AuditInv
<1>a. Latest \in SUBSET Episodes
  BY DEF AuditTypeOK, Latest
<1>c. stored \in SUBSET Episodes /\ stored \in SUBSET settledRuns
  BY DEF stored, AuditTypeOK
<1>b. /\ Best(stored, CommitLimit) = stored \/ Cardinality(Best(stored, CommitLimit)) >= CommitLimit
      /\ Best(stored, ServeLimit) = stored \/ Cardinality(Best(stored, ServeLimit)) >= ServeLimit
      /\ Best(stored, CommitLimit) \in SUBSET stored
      /\ Best(stored, ServeLimit) \in SUBSET stored
  <2>1. IsFiniteSet(stored)
    BY <1>c, FS_Subset DEF AuditTypeOK
  <2>2. CommitLimit \in Nat /\ ServeLimit \in Nat
    BY DEF AuditAssumption
  <2> QED BY <1>c, <2>1, <2>2, BestIsWhole DEF Best
<1>1. ASSUME NEW e \in Episodes, PayEpisode(e) PROVE AuditInv'
  <2>1. AuditTypeOK'
    <3>1. IsFiniteSet(settledRuns \cup {e})
      BY FS_AddElement DEF AuditTypeOK
    <3> QED BY <1>1, <3>1 DEF PayEpisode, AuditTypeOK
  <2>2. ListsNested'
    BY <1>1 DEF PayEpisode, ListsNested, NestedOrFull, Nested, Latest
  <2>3. AlteredIsTrue'
    BY <1>1 DEF PayEpisode, AlteredIsTrue
  <2> QED BY <2>1, <2>2, <2>3
<1>2. ASSUME NEW e \in Episodes, LoseEpisode(e) PROVE AuditInv'
  <2>1. AuditTypeOK'
    BY <1>2 DEF LoseEpisode, AuditTypeOK
  <2>2. ListsNested'
    BY <1>2 DEF LoseEpisode, ListsNested, NestedOrFull, Nested, Latest
  <2>3. AlteredIsTrue'
    BY <1>2 DEF LoseEpisode, AlteredIsTrue
  <2> QED BY <2>1, <2>2, <2>3
<1>3. ASSUME ReadRuns PROVE AuditInv'
  <2>1. /\ script' \in SUBSET settledRuns
        /\ script' = stored \/ Cardinality(script') >= CommitLimit
    BY <1>3, <1>b, <1>c DEF ReadRuns
  <2>2. AuditTypeOK'
    BY <1>3, <2>1 DEF ReadRuns, AuditTypeOK
  <2>3. ListsNested'
    BY <1>3, <2>1 DEF ReadRuns, ListsNested, NestedOrFull, Nested, Latest, stored
  <2>4. AlteredIsTrue'
    BY <1>3 DEF ReadRuns, AlteredIsTrue
  <2> QED BY <2>2, <2>3, <2>4
<1>4. ASSUME Commit PROVE AuditInv'
  <2>1. manifest' \in Seq(SUBSET Episodes) /\ Latest' \in {Latest, script}
    <3>1. CASE script = Latest
      BY <1>4, <3>1 DEF Commit, AuditTypeOK, Latest
    <3>2. CASE script # Latest
      <4>1. manifest' = Append(manifest, script)
        BY <1>4, <3>2 DEF Commit
      <4>2. /\ manifest' \in Seq(SUBSET Episodes) /\ manifest' # <<>>
            /\ Len(manifest') = Len(manifest) + 1
            /\ manifest'[Len(manifest) + 1] = script
        BY <4>1 DEF AuditTypeOK
      <4> QED BY <4>2 DEF Latest
    <3> QED BY <3>1, <3>2
  <2>2. AuditTypeOK'
    BY <1>4, <2>1 DEF Commit, AuditTypeOK
  <2>3. ListsNested'
    BY <1>4, <2>1 DEF Commit, ListsNested, NestedOrFull, Nested
  <2>4. AlteredIsTrue'
    BY <1>4 DEF Commit, AlteredIsTrue
  <2> QED BY <2>2, <2>3, <2>4
<1>5. ASSUME NEW k \in Passes, FetchServed(k) PROVE AuditInv'
  <2> DEFINE list == Best(stored, ServeLimit)
             new == [Resting EXCEPT !.at = "served", !.served = list]
  <2>0. /\ list \in SUBSET Episodes /\ list \in SUBSET stored
        /\ list = stored \/ Cardinality(list) >= ServeLimit
    BY <1>b, <1>c
  <2>1. new \in PassRecords /\ new.served = list /\ new.committed = {}
    <3> HIDE DEF list
    <3> QED BY <2>0, RestingType DEF PassRecords, AuditStages
  <2>2. pass' = [pass EXCEPT ![k] = new]
    BY <1>5, Zenon DEF FetchServed, new
  <2> HIDE DEF list, new
  <2>3. AuditTypeOK'
    BY <1>5, <2>1, <2>2 DEF FetchServed, AuditTypeOK
  <2>4. ListsNested'
    <3>1. /\ pass'[k].served = list /\ pass'[k].committed = {}
          /\ \A j \in Passes : j # k => pass'[j] = pass[j]
      BY <2>1, <2>2 DEF AuditTypeOK
    <3>2. Latest' = Latest /\ stored \subseteq settledRuns
      BY <1>5 DEF FetchServed, Latest, stored
    <3>3. NestedOrFull(list, script) /\ NestedOrFull(list, Latest) /\ NestedOrFull(list, {})
      BY <2>0 DEF ListsNested, NestedOrFull, Nested, stored
    <3> QED BY <1>5, <2>0, <3>1, <3>2, <3>3 DEF FetchServed, ListsNested, NestedOrFull, Nested
  <2>5. AlteredIsTrue'
    BY <1>5 DEF FetchServed, AlteredIsTrue
  <2> QED BY <2>3, <2>4, <2>5
<1>6. ASSUME NEW k \in Passes, NEW C \in {Latest, {}}, Hear(k, C) PROVE AuditInv'
  <2>1. /\ pass'[k] \in {Resting, [pass[k] EXCEPT !.at = "read", !.committed = C]}
        /\ \A j \in Passes : j # k => pass'[j] = pass[j]
        /\ pass' \in [Passes -> PassRecords]
    <3> DEFINE new == IF pass[k].served = {} /\ C = {} THEN Resting
                      ELSE [pass[k] EXCEPT !.at = "read", !.committed = C]
    <3>1. [pass[k] EXCEPT !.at = "read", !.committed = C] \in PassRecords
      <4>1. pass[k] \in PassRecords /\ C \in SUBSET Episodes
        BY <1>a DEF AuditTypeOK
      <4> QED BY <4>1 DEF PassRecords, AuditStages
    <3>2. new \in PassRecords
      BY <3>1, RestingType
    <3>3. new \in {Resting, [pass[k] EXCEPT !.at = "read", !.committed = C]}
      OBVIOUS
    <3>4. pass' = [pass EXCEPT ![k] = new]
      BY <1>6, Zenon DEF Hear
    <3> HIDE DEF new
    <3> QED BY <3>2, <3>3, <3>4 DEF AuditTypeOK
  <2>2. AuditTypeOK'
    BY <1>6, <2>1 DEF Hear, AuditTypeOK
  <2>3. ListsNested'
    <3>1. \/ pass'[k].served = {} /\ pass'[k].committed = {}
          \/ pass'[k].served = pass[k].served /\ pass'[k].committed = C
      <4>1. CASE pass'[k] = Resting
        BY <4>1, RestingType
      <4>2. CASE pass'[k] = [pass[k] EXCEPT !.at = "read", !.committed = C]
        <5>1. pass[k] \in PassRecords
          BY DEF AuditTypeOK
        <5> QED BY <4>2, <5>1 DEF PassRecords
      <4> QED BY <2>1, <4>1, <4>2
    <3>2. Latest' = Latest
      BY <1>6 DEF Hear, Latest
    <3>3. NestedOrFull(pass[k].served, C)
      BY DEF ListsNested, NestedOrFull, Nested
    <3> QED BY <1>6, <2>1, <3>1, <3>2, <3>3 DEF Hear, ListsNested, NestedOrFull, Nested
  <2>4. AlteredIsTrue'
    BY <1>6 DEF Hear, AlteredIsTrue
  <2> QED BY <2>2, <2>3, <2>4
<1>7. ASSUME NEW k \in Passes, CompareHeld(k) \/ StampReport(k) \/ PassFails(k)
      PROVE  AuditInv'
  <2>1. /\ pass' \in [Passes -> PassRecords]
        /\ \A j \in Passes : j # k => pass'[j] = pass[j]
        /\ \/ pass'[k].served = {} /\ pass'[k].committed = {}
           \/ pass'[k].served = pass[k].served /\ pass'[k].committed = pass[k].committed
        /\ UNCHANGED <<settledRuns, lostRuns, manifest, script, held, clock, misreads>>
    <3>1. CASE CompareHeld(k)
      BY <3>1 DEF CompareHeld, AuditTypeOK, PassRecords, AuditStages, Resting
    <3>2. CASE StampReport(k)
      BY <3>2 DEF StampReport, AuditTypeOK, PassRecords, AuditStages
    <3>3. CASE PassFails(k)
      BY <3>3 DEF PassFails, AuditTypeOK, PassRecords, AuditStages, Resting
    <3> QED BY <1>7, <3>1, <3>2, <3>3
  <2>2. AuditTypeOK'
    BY <2>1 DEF AuditTypeOK
  <2>3. ListsNested'
    BY <2>1 DEF ListsNested, NestedOrFull, Nested, Latest
  <2>4. AlteredIsTrue'
    BY <2>1 DEF AlteredIsTrue
  <2> QED BY <2>2, <2>3, <2>4
<1>8. ASSUME NEW k \in Passes, OnReport(k) PROVE AuditInv'
  <2>1. /\ clock' \in Int /\ pass' \in [Passes -> PassRecords]
        /\ \A j \in Passes :
             \/ pass'[j].served = {} /\ pass'[j].committed = {}
             \/ pass'[j].served = pass[j].served /\ pass'[j].committed = pass[j].committed
        /\ UNCHANGED <<settledRuns, lostRuns, manifest, script, misreads>>
        /\ held' \in {held, [Reported(k) EXCEPT !.at = 1]}
    <3>1. CASE held.at # 0 /\ pass[k].stamp <= held.at
      <4>1. /\ pass' = [pass EXCEPT ![k] = Resting]
            /\ UNCHANGED <<settledRuns, lostRuns, manifest, script, misreads, held, clock>>
        BY <1>8, <3>1 DEF OnReport
      <4>2. pass' \in [Passes -> PassRecords] /\ clock' \in Int
        BY <4>1, RestingType DEF AuditTypeOK
      <4>3. \A j \in Passes : pass'[j] = Resting \/ pass'[j] = pass[j]
        BY <4>1 DEF AuditTypeOK
      <4> QED BY <4>1, <4>2, <4>3, RestingType
    <3>2. CASE ~ (held.at # 0 /\ pass[k].stamp <= held.at)
      <4> DEFINE past == pass[k].stamp - 1
                 moved(j) == [pass[j] EXCEPT !.stamp = IF @ > past + 1 THEN @ - past ELSE 0]
      <4>1. /\ held' = [Reported(k) EXCEPT !.at = 1] /\ clock' = clock - past
            /\ pass' = [j \in Passes |-> IF j = k THEN Resting ELSE moved(j)]
            /\ UNCHANGED <<settledRuns, lostRuns, manifest, script, misreads>>
        BY <1>8, <3>2 DEF OnReport
      <4>2. past \in Int
        BY DEF AuditTypeOK, PassRecords
      <4>3. clock' \in Int
        BY <4>1, <4>2 DEF AuditTypeOK
      <4>4. \A j \in Passes : /\ moved(j) \in PassRecords
                              /\ moved(j).served = pass[j].served
                              /\ moved(j).committed = pass[j].committed
        <5> SUFFICES ASSUME NEW j \in Passes
                     PROVE  /\ moved(j) \in PassRecords
                            /\ moved(j).served = pass[j].served
                            /\ moved(j).committed = pass[j].committed
          OBVIOUS
        <5>1. PICK r \in PassRecords : r = pass[j]
          BY DEF AuditTypeOK
        <5>2. PICK n \in Int : n = IF r.stamp > past + 1 THEN r.stamp - past ELSE 0
          BY <4>2 DEF PassRecords
        <5>3. moved(j) = [r EXCEPT !.stamp = n]
          BY <5>1, <5>2
        <5> HIDE DEF moved
        <5> QED BY <5>1, <5>3 DEF PassRecords
      <4> HIDE DEF past, moved
      <4> QED BY <4>1, <4>3, <4>4, RestingType
    <3> QED BY <3>1, <3>2
  <2>2. AuditTypeOK'
    BY <2>1 DEF AuditTypeOK
  <2>3. ListsNested'
    BY <2>1 DEF ListsNested, NestedOrFull, Nested, Latest
  <2>4. AlteredIsTrue'
    <3>1. CASE held' = held
      BY <2>1, <3>1 DEF AlteredIsTrue
    <3>2. CASE held' = [Reported(k) EXCEPT !.at = 1]
      <4> DEFINE A == pass[k].served
                 B == pass[k].committed
      <4>1. held'.verdict = Verdict(A, B) /\ held'.served = A /\ held'.committed = B
        BY <3>2 DEF Reported
      <4>2. IsFiniteSet(A) /\ IsFiniteSet(B) /\ NestedOrFull(A, B)
        <5>1. A \in SUBSET settledRuns /\ B \in SUBSET settledRuns
          BY DEF ListsNested
        <5> QED BY <5>1, FS_Subset DEF AuditTypeOK, ListsNested
      <4> HIDE DEF A, B
      <4>3. Verdict(A, B) = "altered" =>
              \/ ((B \ A) \cup (A \ B)) \cap lostRuns # {}
              \/ Cardinality(B) >= CommitLimit \/ Cardinality(A) >= ServeLimit
        BY <4>2, VerdictAltered, NestedDiffer DEF NestedOrFull
      <4> QED BY <2>1, <4>1, <4>3 DEF AlteredIsTrue
    <3> QED BY <2>1, <3>1, <3>2
  <2> QED BY <2>2, <2>3, <2>4
<1>9. ASSUME UNCHANGED auditVars \/ NextSecond PROVE AuditInv'
  <2>1. /\ UNCHANGED <<settledRuns, lostRuns, manifest, script, held, pass>>
        /\ clock' \in Int
    BY <1>9 DEF auditVars, NextSecond, AuditTypeOK
  <2>2. AuditTypeOK'
    BY <2>1 DEF AuditTypeOK
  <2>3. ListsNested'
    BY <2>1 DEF ListsNested, NestedOrFull, Nested, Latest
  <2>4. AlteredIsTrue'
    BY <2>1 DEF AlteredIsTrue
  <2> QED BY <2>2, <2>3, <2>4
<1>10. ASSUME NEW k \in Passes, ReadManifest(k) \/ MisreadManifest(k) PROVE AuditInv'
  <2>1. \E C \in {Latest, {}} : Hear(k, C)
    BY <1>10 DEF ReadManifest, MisreadManifest
  <2> QED BY <1>6, <2>1
<1> QED BY <1>1, <1>2, <1>3, <1>4, <1>5, <1>7, <1>8, <1>9, <1>10 DEF AuditNext

(* CorpusAudit.sol 37-38 and keeper.mjs: unless one of the lists it         *)
(* compared was full, the audit on Arc says "altered" only of a corpus     *)
(* that lost a run in which it differs from the manifest, for any number   *)
(* of overlapping passes, commits, failures and misread manifests.         *)
THEOREM AuditAlteredIsTrue == AuditSpec => []AlteredIsTrue
<1>1. AuditInit => AuditInv
  BY AuditFacts, AuditBegins
<1>2. AuditInv /\ [AuditNext]_auditVars => AuditInv'
  BY AuditFacts, AuditNextKeeps
<1>3. AuditInv => AlteredIsTrue
  BY DEF AuditInv
<1> QED BY <1>1, <1>2, <1>3, PTL DEF AuditSpec

-----------------------------------------------------------------------------
(* The arm. What matters of the answers that wait is the last one.         *)

ArmLines == Poses \cup {"ARM", "STOP"}

ArmAnswers == {"ARMED", "STOP"}

ArmTypeOK ==
  /\ serial \in [lines : Seq(ArmLines), back : Seq(ArmAnswers)]
  /\ follower \in [armed : BOOLEAN, requested : BOOLEAN]
  /\ servo \in [armed : BOOLEAN, target : Poses \cup {"none"}]
  /\ relay \in [up : BOOLEAN, mayArm : BOOLEAN, greeted : BOOLEAN, ending : BOOLEAN]

\* An armed follower has said so last, or said it and is believed, unless a
\* STOP is on its way.
LastAnswerCounts ==
  relay.up /\ servo.armed =>
    \/ Contains(serial.lines, "STOP")
    \/ serial.back # <<>> /\ Last(serial.back) = "ARMED"
    \/ serial.back = <<>> /\ follower.armed

ArmInv == ArmTypeOK /\ LastAnswerCounts

LEMMA AppendContains ==
  ASSUME NEW S, NEW s \in Seq(S), NEW t \in Seq(S), NEW e
  PROVE  /\ Contains(s, e) => Contains(s \o t, e)
         /\ Contains(t, e) => Contains(s \o t, e)
         /\ s \o t \in Seq(S)
<1>1. /\ Len(s \o t) = Len(s) + Len(t) /\ Len(s) \in Nat /\ Len(t) \in Nat
      /\ \A i \in 1 .. Len(s) : (s \o t)[i] = s[i]
      /\ \A i \in 1 .. Len(t) : (s \o t)[Len(s) + i] = t[i]
  OBVIOUS
<1>2. \A i \in 1 .. Len(s) : i \in 1 .. (Len(s) + Len(t))
  BY <1>1
<1>3. \A i \in 1 .. Len(t) : Len(s) + i \in 1 .. (Len(s) + Len(t))
  BY <1>1
<1>4. Contains(s, e) => Contains(s \o t, e)
  BY <1>1, <1>2, Zenon DEF Contains
<1>5. Contains(t, e) => Contains(s \o t, e)
  BY <1>1, <1>3, Zenon DEF Contains
<1> QED BY <1>4, <1>5

LEMMA TailContains ==
  ASSUME NEW S, NEW s \in Seq(S), s # <<>>, NEW e, Contains(s, e), Head(s) # e
  PROVE  Contains(Tail(s), e)
<1>1. PICK i \in 1 .. Len(s) : s[i] = e
  BY DEF Contains
<1>2. i # 1 /\ Len(s) \in Nat /\ Len(Tail(s)) = Len(s) - 1
  BY <1>1
<1>3. i - 1 \in 1 .. Len(Tail(s)) /\ Tail(s)[i - 1] = s[i]
  BY <1>2
<1> QED BY <1>1, <1>3 DEF Contains

LEMMA ArmedIsLast ==
  ASSUME NEW s \in Seq(ArmAnswers), s # <<>>, Last(s) = "ARMED"
  PROVE  Contains(s, "ARMED")
<1>1. Len(s) \in 1 .. Len(s)
  OBVIOUS
<1> QED BY <1>1 DEF Contains, Last

\* Lines are only added: LastAnswerCounts stays, and a STOP among them is enough.
LEMMA WriteKeeps ==
  ASSUME ArmInv, NEW lines \in Seq(ArmLines), Write(lines),
         follower'.armed = follower.armed \/ Contains(lines, "STOP"),
         follower' \in [armed : BOOLEAN, requested : BOOLEAN],
         relay' = relay \/ relay' = [relay EXCEPT !.greeted = TRUE]
                        \/ relay' = [relay EXCEPT !.ending = TRUE],
         servo' = servo
  PROVE  ArmInv'
<1>1. /\ serial.lines \in Seq(ArmLines) /\ serial.back \in Seq(ArmAnswers)
      /\ serial'.lines = serial.lines \o lines /\ serial'.back = serial.back
      /\ serial' = [lines |-> serial.lines \o lines, back |-> serial.back]
  BY DEF ArmInv, ArmTypeOK, Write
<1>2. /\ serial.lines \o lines \in Seq(ArmLines)
      /\ Contains(serial.lines, "STOP") \/ Contains(lines, "STOP")
           => Contains(serial'.lines, "STOP")
  BY <1>1, AppendContains
<1>3. relay' \in [up : BOOLEAN, mayArm : BOOLEAN, greeted : BOOLEAN, ending : BOOLEAN]
      /\ relay'.up = relay.up
  BY DEF ArmInv, ArmTypeOK
<1>4. ArmTypeOK'
  BY <1>1, <1>2, <1>3 DEF ArmInv, ArmTypeOK
<1>5. LastAnswerCounts'
  BY <1>1, <1>2, <1>3 DEF ArmInv, LastAnswerCounts
<1> QED BY <1>4, <1>5 DEF ArmInv

LEMMA FollowerStopKeeps ==
  ASSUME ArmInv, FollowerStop, servo' = servo,
         relay' = relay \/ relay' = [relay EXCEPT !.ending = TRUE]
  PROVE  ArmInv'
<1>1. <<"STOP">> \in Seq(ArmLines) /\ Contains(<<"STOP">>, "STOP")
  BY DEF ArmLines, Contains
<1>2. follower' \in [armed : BOOLEAN, requested : BOOLEAN] /\ Write(<<"STOP">>)
  BY DEF FollowerStop, Disbelief
<1> QED BY <1>1, <1>2, WriteKeeps

LEMMA SendFollowerKeeps ==
  ASSUME ArmInv, NEW q \in Poses, SendFollower(q), servo' = servo, relay' = relay
  PROVE  ArmInv'
<1>1. CASE FollowerStop
  BY <1>1, FollowerStopKeeps
<1>2. CASE UNCHANGED <<serial, follower>>
  BY <1>2 DEF ArmInv, ArmTypeOK, LastAnswerCounts
<1>3. ASSUME NEW arms \in BOOLEAN, NEW lines \in {<<q, "ARM">>, <<q>>}, Write(lines),
             follower' = [follower EXCEPT !.requested = @ \/ arms]
      PROVE  ArmInv'
  <2>1. lines \in Seq(ArmLines)
    <3>1. q \in ArmLines /\ "ARM" \in ArmLines
      BY DEF ArmLines
    <3>2. <<q>> \in Seq(ArmLines) /\ <<q, "ARM">> \in Seq(ArmLines)
      BY <3>1
    <3> QED BY <3>2
  <2>2. /\ follower' \in [armed : BOOLEAN, requested : BOOLEAN]
        /\ follower'.armed = follower.armed
    BY <1>3 DEF ArmInv, ArmTypeOK
  <2> QED BY <1>3, <2>1, <2>2, WriteKeeps
<1>4. (relay.mayArm /\ follower = Disbelief /\ q = "home") \in BOOLEAN
  BY DEF ArmInv, ArmTypeOK
<1> QED BY <1>1, <1>2, <1>3, <1>4 DEF SendFollower

LEMMA SameArmKeeps ==
  ASSUME ArmInv, UNCHANGED <<follower, serial, servo, relay>>
  PROVE  ArmInv'
BY DEF ArmInv, ArmTypeOK, LastAnswerCounts

LEMMA ReceiveKeeps ==
  ASSUME ArmInv, NEW p \in Pages, Receive(p)
  PROVE  ArmInv'
<1> DEFINE m == Head(wire[p])
<1>1. servo' = servo /\ relay' = relay
  BY DEF Receive
<1>2. CASE m \in Poses
  <2>1. SendFollower(m) \/ UNCHANGED <<serial, follower>>
    <3>1. m # "stop"
      BY <1>2 DEF Poses
    <3>2. IF LeaderDrives THEN UNCHANGED <<serial, follower>> ELSE SendFollower(m)
      BY <1>2, <3>1 DEF Receive
    <3> QED BY <3>2
  <2> HIDE DEF m
  <2> QED BY <1>1, <1>2, <2>1, SendFollowerKeeps, SameArmKeeps
<1>3. CASE m \notin Poses
  <2>1. FollowerStop \/ UNCHANGED <<serial, follower>>
    BY <1>3 DEF Receive
  <2> QED BY <1>1, <2>1, FollowerStopKeeps, SameArmKeeps
<1> QED BY <1>2, <1>3

LEMMA ReadLineKeeps ==
  ASSUME ArmInv, ReadLine
  PROVE  ArmInv'
<1> DEFINE s == serial.back
<1>1. /\ s \in Seq(ArmAnswers) /\ s # <<>> /\ serial.lines \in Seq(ArmLines)
      /\ serial' = [lines |-> serial.lines, back |-> Tail(s)]
      /\ servo' = servo /\ relay' = relay
  <2>1. serial \in [lines : Seq(ArmLines), back : Seq(ArmAnswers)]
    BY DEF ArmInv, ArmTypeOK
  <2>2. serial' = [serial EXCEPT !.back = Tail(@)]
    BY DEF ReadLine
  <2> QED BY <2>1, <2>2 DEF ReadLine, desk
<1> HIDE DEF s
<1>2. /\ Tail(s) \in Seq(ArmAnswers)
      /\ Tail(s) # <<>> => Last(Tail(s)) = Last(s)
      /\ Tail(s) = <<>> => Head(s) = Last(s)
  <2>1. /\ Tail(s) \in Seq(ArmAnswers) /\ Len(s) \in Nat \ {0}
        /\ Len(Tail(s)) = Len(s) - 1 /\ Head(s) = s[1]
        /\ \A i \in 1 .. (Len(s) - 1) : Tail(s)[i] = s[i + 1]
    BY <1>1
  <2>2. Tail(s) # <<>> => Len(s) - 1 \in 1 .. (Len(s) - 1)
    <3>1. PICK t \in Seq(ArmAnswers) : t = Tail(s)
      BY ONLY <2>1, Zenon
    <3>2. Len(t) \in Nat /\ (Len(t) = 0 => t = <<>>)
      BY ONLY t \in Seq(ArmAnswers)
    <3> QED BY ONLY <2>1, <3>1, <3>2
  <2>3. Tail(s) = <<>> => Len(s) = 1
    <3>1. Tail(s) = <<>> => Len(Tail(s)) = 0
      OBVIOUS
    <3> QED BY ONLY <2>1, <3>1
  <2>4. Tail(s) # <<>> => Tail(s)[Len(s) - 1] = s[Len(s)]
    <3>1. (Len(s) - 1) + 1 = Len(s)
      BY <2>1
    <3>2. Tail(s) # <<>> => Tail(s)[Len(s) - 1] = s[(Len(s) - 1) + 1]
      BY ONLY <2>1, <2>2, Zenon
    <3> QED BY <3>1, <3>2
  <2> QED BY <2>1, <2>3, <2>4 DEF Last
<1>3. /\ follower' \in [armed : BOOLEAN, requested : BOOLEAN]
      /\ Head(s) = "ARMED" => follower'.armed
  BY DEF ReadLine, ArmInv, ArmTypeOK, Disbelief, s
<1>4. ArmTypeOK'
  BY <1>1, <1>2, <1>3 DEF ArmInv, ArmTypeOK
<1>5. LastAnswerCounts'
  BY <1>1, <1>2, <1>3 DEF ArmInv, LastAnswerCounts, s
<1> QED BY <1>4, <1>5 DEF ArmInv

\* The follower reads a line, or stops by itself, and says what it is then.
LEMMA AnswerKeeps ==
  ASSUME ArmInv, NEW rest \in Seq(ArmLines), NEW a \in ArmAnswers, Answers(a, rest),
         servo' = [servo EXCEPT !.armed = (a = "ARMED")],
         relay' = relay, follower' = follower
  PROVE  ArmInv'
<1>1. serial.back \in Seq(ArmAnswers)
  BY DEF ArmInv, ArmTypeOK
<1>2. /\ Append(serial.back, a) \in Seq(ArmAnswers) /\ Append(serial.back, a) # <<>>
      /\ Last(Append(serial.back, a)) = a /\ <<>> \in Seq(ArmAnswers)
  <2>1. /\ Append(serial.back, a) \in Seq(ArmAnswers)
        /\ Len(Append(serial.back, a)) = Len(serial.back) + 1
        /\ Append(serial.back, a)[Len(serial.back) + 1] = a
        /\ Len(serial.back) \in Nat /\ <<>> \in Seq(ArmAnswers)
    BY <1>1
  <2>2. Append(serial.back, a) # <<>>
    BY <2>1
  <2> QED BY <2>1, <2>2 DEF Last
<1>3. /\ serial'.lines = rest
      /\ relay.up => serial'.back = Append(serial.back, a)
      /\ serial' \in [lines : Seq(ArmLines), back : Seq(ArmAnswers)]
  BY <1>2 DEF Answers
<1>4. servo'.armed = (a = "ARMED") /\ servo' \in [armed : BOOLEAN, target : Poses \cup {"none"}]
  BY DEF ArmInv, ArmTypeOK
<1>5. ArmTypeOK'
  BY <1>3, <1>4 DEF ArmInv, ArmTypeOK
<1>6. LastAnswerCounts'
  BY <1>2, <1>3, <1>4 DEF LastAnswerCounts
<1> QED BY <1>5, <1>6 DEF ArmInv

LEMMA TakeLineKeeps ==
  ASSUME ArmInv, TakeLine
  PROVE  ArmInv'
<1> DEFINE line == Head(serial.lines)
           rest == Tail(serial.lines)
<1>1. /\ serial.lines \in Seq(ArmLines) /\ serial.lines # <<>> /\ rest \in Seq(ArmLines)
      /\ serial.back \in Seq(ArmAnswers) /\ servo \in [armed : BOOLEAN, target : Poses \cup {"none"}]
      /\ relay' = relay /\ follower' = follower
  BY DEF TakeLine, ArmInv, ArmTypeOK, desk
<1>2. CASE /\ line \in Poses /\ servo' = [servo EXCEPT !.target = line]
           /\ serial' = [serial EXCEPT !.lines = rest]
  <2>1. /\ servo'.armed = servo.armed /\ serial'.back = serial.back
        /\ serial'.lines = rest
    BY <1>1, <1>2 DEF ArmInv, ArmTypeOK
  <2>2. Contains(serial.lines, "STOP") => Contains(rest, "STOP")
    BY <1>1, <1>2, TailContains DEF Poses
  <2>3. ArmTypeOK'
    BY <1>1, <1>2 DEF ArmInv, ArmTypeOK
  <2>4. LastAnswerCounts'
    BY <1>1, <2>1, <2>2 DEF ArmInv, LastAnswerCounts
  <2> QED BY <2>3, <2>4 DEF ArmInv
<1>3. ASSUME NEW a \in ArmAnswers, Answers(a, rest),
             servo' = [servo EXCEPT !.armed = (a = "ARMED")]
      PROVE  ArmInv'
  BY <1>1, <1>3, AnswerKeeps
<1> QED BY <1>2, <1>3 DEF TakeLine, ArmAnswers

LEMMA ArmNextKeeps ==
  ASSUME ArmInv, [ArmNext]_armVars
  PROVE  ArmInv'
<1>1. ASSUME NEW p \in Pages, Connect(p) \/ Mirror(p) \/ Rehome(p) \/ Leave(p)
      PROVE  ArmInv'
  BY <1>1, SameArmKeeps DEF Connect, Mirror, Rehome, Leave, desk
<1>2. ASSUME NEW p \in Pages, Receive(p) PROVE ArmInv'
  BY <1>2, ReceiveKeeps
<1>3. ASSUME NEW q \in Poses, LeaderLine(q) PROVE ArmInv'
  BY <1>3, SendFollowerKeeps DEF LeaderLine
<1>4. ASSUME Watch PROVE ArmInv'
  BY <1>4, FollowerStopKeeps DEF Watch, desk
<1>5. ASSUME Greet PROVE ArmInv'
  <2>1. <<"STOP">> \in Seq(ArmLines)
    BY DEF ArmLines
  <2> QED BY <1>5, <2>1, WriteKeeps DEF Greet, ArmInv, ArmTypeOK
<1>6. ASSUME ReadLine PROVE ArmInv'
  BY <1>6, ReadLineKeeps
<1>7. ASSUME Shutdown PROVE ArmInv'
  BY <1>7, FollowerStopKeeps DEF Shutdown
<1>8. ASSUME Exit PROVE ArmInv'
  <2>1. /\ serial \in [lines : Seq(ArmLines), back : Seq(ArmAnswers)]
        /\ <<>> \in Seq(ArmAnswers)
    BY DEF ArmInv, ArmTypeOK
  <2>2. serial' \in [lines : Seq(ArmLines), back : Seq(ArmAnswers)]
    BY <1>8, <2>1 DEF Exit
  <2>3. /\ relay' \in [up : BOOLEAN, mayArm : BOOLEAN, greeted : BOOLEAN, ending : BOOLEAN]
        /\ ~ relay'.up /\ UNCHANGED <<follower, servo>>
    BY <1>8 DEF Exit, ArmInv, ArmTypeOK
  <2>4. ArmTypeOK'
    BY <2>2, <2>3 DEF ArmInv, ArmTypeOK
  <2>5. LastAnswerCounts'
    BY <2>3 DEF LastAnswerCounts
  <2> QED BY <2>4, <2>5 DEF ArmInv
<1>9. ASSUME TakeLine PROVE ArmInv'
  BY <1>9, TakeLineKeeps
<1>10. ASSUME SelfStop PROVE ArmInv'
  <2>1. /\ serial.lines \in Seq(ArmLines) /\ "STOP" \in ArmAnswers
        /\ relay' = relay /\ follower' = follower /\ Answers("STOP", serial.lines)
        /\ servo' = [servo EXCEPT !.armed = ("STOP" = "ARMED")]
    BY <1>10 DEF SelfStop, desk, ArmAnswers, ArmInv, ArmTypeOK
  <2> QED BY <2>1, AnswerKeeps
<1>11. ASSUME GoesQuiet \/ UNCHANGED armVars PROVE ArmInv'
  BY <1>11, SameArmKeeps DEF GoesQuiet, armVars
<1> QED BY <1>1, <1>2, <1>3, <1>4, <1>5, <1>6, <1>7, <1>8, <1>9, <1>10, <1>11 DEF ArmNext

LEMMA ArmInvariant == ArmSpec => []ArmInv
<1>1. ArmInit => ArmInv
  <2> SUFFICES ASSUME ArmInit PROVE ArmInv
    OBVIOUS
  <2>1. <<>> \in Seq(ArmLines) /\ <<>> \in Seq(ArmAnswers)
    OBVIOUS
  <2>2. ArmTypeOK
    BY <2>1 DEF ArmInit, ArmTypeOK, Disbelief
  <2>3. LastAnswerCounts
    BY DEF ArmInit, LastAnswerCounts
  <2> QED BY <2>2, <2>3 DEF ArmInv
<1>2. ArmInv /\ [ArmNext]_armVars => ArmInv'
  BY ArmNextKeeps
<1> QED BY <1>1, <1>2, PTL DEF ArmSpec

(* arm-relay.mjs 205-217: however stops, requests and answers cross on the *)
(* serial port, the relay believes an armed follower armed, or is about to *)
(* hear it, or has told it to stop; for any pages and any lengths of the   *)
(* queues.                                                                 *)
THEOREM ArmArmedIsKnown == ArmSpec => []ArmedIsKnown
<1>1. ArmInv => ArmedIsKnown
  <2> SUFFICES ASSUME ArmInv PROVE ArmedIsKnown
    OBVIOUS
  <2>1. serial.back \in Seq(ArmAnswers)
    BY DEF ArmInv, ArmTypeOK
  <2>2. serial.back # <<>> /\ Last(serial.back) = "ARMED" => Contains(serial.back, "ARMED")
    BY <2>1, ArmedIsLast
  <2> QED BY <2>2 DEF ArmInv, LastAnswerCounts, ArmedIsKnown
<1> QED BY <1>1, ArmInvariant, PTL

\* Each ARM that waits comes right after the home pose, or is the next line
\* and the pose was taken already.
HomeFirst(lines, target) ==
  \A i \in 1 .. Len(lines) :
    lines[i] = "ARM" => IF i = 1 THEN target = "home" ELSE lines[i - 1] = "home"

\* A relay started without --arm has no ARM waiting.
ArmedByRequest ==
  /\ HomeFirst(serial.lines, servo.target)
  /\ Contains(serial.lines, "ARM") => relay.mayArm

LEMMA AppendHomeFirst ==
  ASSUME NEW s \in Seq(ArmLines), NEW target, HomeFirst(s, target), NEW q \in ArmLines,
         q = "ARM" => s # <<>> /\ s[Len(s)] = "home"
  PROVE  /\ HomeFirst(Append(s, q), target) /\ Append(s, q) \in Seq(ArmLines)
         /\ Append(s, q) # <<>> /\ Append(s, q)[Len(Append(s, q))] = q
         /\ Contains(Append(s, q), "ARM") => Contains(s, "ARM") \/ q = "ARM"
<1>0. Append(s, q) \in Seq(ArmLines)
  OBVIOUS
<1>1. PICK t \in Seq(ArmLines) : t = Append(s, q)
  BY <1>0, Zenon
<1>2. /\ Len(t) = Len(s) + 1 /\ Len(s) \in Nat /\ t[Len(s) + 1] = q
      /\ \A i \in 1 .. Len(s) : t[i] = s[i]
      /\ s # <<>> => Len(s) >= 1
  BY <1>1
<1>3. ASSUME NEW i \in 1 .. Len(t), t[i] = "ARM"
      PROVE  IF i = 1 THEN target = "home" ELSE t[i - 1] = "home"
  <2>1. CASE i \in 1 .. Len(s)
    <3>1. t[i] = s[i] /\ (i # 1 => i - 1 \in 1 .. Len(s))
      BY <1>2, <2>1
    <3> QED BY <1>2, <1>3, <2>1, <3>1 DEF HomeFirst
  <2>2. CASE i = Len(s) + 1
    <3>1. q = "ARM"
      BY <1>2, <1>3, <2>2
    <3>2. i - 1 \in 1 .. Len(s) /\ i - 1 = Len(s)
      BY <1>2, <2>2, <3>1
    <3> QED BY <1>2, <3>1, <3>2
  <2> QED BY <1>2, <2>1, <2>2
<1>4. Contains(t, "ARM") => Contains(s, "ARM") \/ q = "ARM"
  <2> SUFFICES ASSUME NEW i \in 1 .. Len(t), t[i] = "ARM"
               PROVE  Contains(s, "ARM") \/ q = "ARM"
    BY DEF Contains
  <2> QED BY <1>2 DEF Contains
<1> QED BY <1>1, <1>2, <1>3, <1>4 DEF HomeFirst

\* The next line is taken: what was second is first, and the target is what a
\* pose taken says.
LEMMA TailHomeFirst ==
  ASSUME NEW s \in Seq(ArmLines), s # <<>>, NEW target, HomeFirst(s, target),
         NEW now, Head(s) = "home" => now = "home"
  PROVE  /\ HomeFirst(Tail(s), now)
         /\ Head(s) = "ARM" => target = "home" /\ Contains(s, "ARM")
         /\ Contains(Tail(s), "ARM") => Contains(s, "ARM")
<1>0. Tail(s) \in Seq(ArmLines)
  OBVIOUS
<1>1. PICK t \in Seq(ArmLines) : t = Tail(s)
  BY <1>0, Zenon
<1>2. /\ Len(t) = Len(s) - 1 /\ Len(s) \in Nat \ {0} /\ Head(s) = s[1]
      /\ \A i \in 1 .. Len(t) : t[i] = s[i + 1] /\ i + 1 \in 1 .. Len(s)
  BY <1>1
<1>3. ASSUME NEW i \in 1 .. Len(t), t[i] = "ARM"
      PROVE  IF i = 1 THEN now = "home" ELSE t[i - 1] = "home"
  <2>1. s[i + 1] = "ARM" /\ i + 1 \in 1 .. Len(s) /\ i + 1 # 1 /\ (i + 1) - 1 = i
    BY <1>2, <1>3
  <2>2. s[i] = "home"
    BY <2>1 DEF HomeFirst
  <2>3. CASE i = 1
    BY <1>2, <2>2, <2>3
  <2>4. CASE i # 1
    <3>1. i - 1 \in 1 .. Len(t) /\ (i - 1) + 1 = i
      BY <1>2, <2>4
    <3> QED BY <1>2, <2>2, <2>4, <3>1
  <2> QED BY <2>3, <2>4
<1>4. 1 \in 1 .. Len(s) /\ (Head(s) = "ARM" => s[1] = "ARM")
  BY <1>2
<1>5. Contains(t, "ARM") => Contains(s, "ARM")
  BY <1>2, Zenon DEF Contains
<1> QED BY <1>1, <1>3, <1>4, <1>5 DEF HomeFirst, Contains

LEMMA SendKeepsHomeFirst ==
  ASSUME ArmTypeOK, ArmedByRequest, UNCHANGED <<servo, relay>>,
         \/ FollowerStop \/ UNCHANGED serial \/ Write(<<"STOP">>)
         \/ \E q \in Poses : SendFollower(q)
  PROVE  ArmedByRequest'
<1> DEFINE s == serial.lines
<1>1. /\ s \in Seq(ArmLines) /\ {"STOP", "ARM"} \subseteq ArmLines /\ Poses \subseteq ArmLines
      /\ "ARM" \notin Poses
  BY DEF ArmTypeOK, ArmLines, Poses
<1>2. CASE UNCHANGED serial
  BY <1>2 DEF ArmedByRequest
<1>3. ASSUME NEW q \in ArmLines \ {"ARM"}, Write(<<q>>) PROVE ArmedByRequest'
  <2>1. serial'.lines = Append(s, q)
    BY <1>1, <1>3 DEF Write, ArmTypeOK
  <2>2. HomeFirst(Append(s, q), servo.target) /\ (Contains(Append(s, q), "ARM") => Contains(s, "ARM"))
    BY <1>1, <1>3, AppendHomeFirst DEF ArmedByRequest
  <2> QED BY <2>1, <2>2 DEF ArmedByRequest
<1>4. ASSUME relay.mayArm, Write(<<"home", "ARM">>) PROVE ArmedByRequest'
  <2>1. "home" \in ArmLines /\ "ARM" \in ArmLines
    BY <1>1 DEF Poses
  <2>2. serial'.lines = Append(Append(s, "home"), "ARM")
    <3>1. serial'.lines = s \o <<"home", "ARM">>
      BY <1>4 DEF Write, ArmTypeOK
    <3> QED BY ONLY <1>1, <2>1, <3>1
  <2>3. /\ HomeFirst(Append(s, "home"), servo.target) /\ Append(s, "home") \in Seq(ArmLines)
        /\ Append(s, "home") # <<>> /\ Append(s, "home")[Len(Append(s, "home"))] = "home"
    BY <1>1, <2>1, AppendHomeFirst DEF ArmedByRequest
  <2>4. HomeFirst(Append(Append(s, "home"), "ARM"), servo.target)
    BY <2>1, <2>3, AppendHomeFirst
  <2> QED BY <1>4, <2>2, <2>4 DEF ArmedByRequest
<1>5. ASSUME NEW q \in Poses, SendFollower(q) PROVE ArmedByRequest'
  BY <1>1, <1>2, <1>3, <1>4, <1>5 DEF SendFollower, FollowerStop
<1> QED BY <1>1, <1>2, <1>3, <1>5 DEF FollowerStop

LEMMA TakeLineAtHome ==
  ASSUME ArmTypeOK, ArmedByRequest, TakeLine
  PROVE  /\ ArmedByRequest'
         /\ ~servo.armed /\ servo'.armed => relay.mayArm /\ servo.target = "home"
<1> DEFINE s == serial.lines
<1>1. /\ s \in Seq(ArmLines) /\ s # <<>> /\ relay' = relay
      /\ serial'.lines = Tail(s)
      /\ servo.target \in Poses \cup {"none"}
      /\ Head(s) \in Poses => servo'.target = Head(s) /\ servo'.armed = servo.armed
      /\ Head(s) \notin Poses => servo'.target = servo.target
      /\ servo'.armed => servo.armed \/ Head(s) = "ARM"
  BY DEF TakeLine, ArmTypeOK, Answers, desk, Poses
<1>2. Head(s) = "home" => servo'.target = "home"
  BY <1>1 DEF Poses
<1> HIDE DEF s
<1>3. /\ HomeFirst(Tail(s), servo'.target)
      /\ Head(s) = "ARM" => servo.target = "home" /\ Contains(s, "ARM")
      /\ Contains(Tail(s), "ARM") => Contains(s, "ARM")
  BY <1>1, <1>2, TailHomeFirst DEF ArmedByRequest, s
<1> QED BY <1>1, <1>3 DEF ArmedByRequest, s

LEMMA ArmNextAtHome ==
  ASSUME ArmTypeOK, ArmedByRequest, [ArmNext]_armVars
  PROVE  /\ ArmedByRequest'
         /\ ~servo.armed /\ servo'.armed => relay.mayArm /\ servo.target = "home"
<1>1. ASSUME NEW p \in Pages, Connect(p) \/ Mirror(p) \/ Rehome(p) \/ Leave(p)
      PROVE  UNCHANGED <<serial, servo, relay>>
  BY <1>1 DEF Connect, Mirror, Rehome, Leave, desk
<1>2. ASSUME NEW p \in Pages, Receive(p)
      PROVE  /\ UNCHANGED <<servo, relay>>
             /\ FollowerStop \/ UNCHANGED serial \/ \E q \in Poses : SendFollower(q)
  <2> DEFINE m == Head(wire[p])
  <2>1. CASE m \in Poses
    <3>1. m # "stop"
      BY <2>1 DEF Poses
    <3>2. IF LeaderDrives THEN UNCHANGED <<serial, follower>> ELSE SendFollower(m)
      BY <1>2, <2>1, <3>1 DEF Receive
    <3> HIDE DEF m
    <3> QED BY <1>2, <2>1, <3>2 DEF Receive
  <2>2. CASE m \notin Poses
    BY <1>2, <2>2 DEF Receive
  <2> QED BY <2>1, <2>2
<1>3. ASSUME NEW q \in Poses, LeaderLine(q)
      PROVE  UNCHANGED <<servo, relay>> /\ SendFollower(q)
  BY <1>3 DEF LeaderLine
<1>4. ASSUME Watch PROVE UNCHANGED <<servo, relay>> /\ FollowerStop
  BY <1>4 DEF Watch, desk
<1>5. ASSUME Greet \/ Shutdown PROVE ArmedByRequest' /\ servo' = servo
  <2>1. /\ servo' = servo /\ relay'.mayArm = relay.mayArm
        /\ Write(<<"STOP">>)
    BY <1>5 DEF Greet, Shutdown, FollowerStop, ArmTypeOK
  <2>2. /\ serial.lines \in Seq(ArmLines) /\ "STOP" \in ArmLines
        /\ serial'.lines = Append(serial.lines, "STOP")
    BY <2>1 DEF Write, ArmTypeOK, ArmLines
  <2>3. /\ HomeFirst(Append(serial.lines, "STOP"), servo.target)
        /\ Contains(Append(serial.lines, "STOP"), "ARM") => Contains(serial.lines, "ARM")
    BY <2>2, AppendHomeFirst DEF ArmedByRequest
  <2> QED BY <2>1, <2>2, <2>3 DEF ArmedByRequest
<1>6. ASSUME ReadLine \/ Exit \/ SelfStop
      PROVE  /\ serial'.lines = serial.lines /\ relay'.mayArm = relay.mayArm
             /\ servo'.target = servo.target /\ (servo'.armed => servo.armed)
  BY <1>6 DEF ReadLine, Exit, SelfStop, Answers, desk, ArmTypeOK
<1>7. ASSUME GoesQuiet \/ UNCHANGED armVars PROVE UNCHANGED <<serial, servo, relay>>
  BY <1>7 DEF GoesQuiet, armVars
<1>8. ASSUME /\ serial'.lines = serial.lines /\ relay'.mayArm = relay.mayArm
             /\ servo'.target = servo.target
      PROVE  ArmedByRequest'
  BY <1>8 DEF ArmedByRequest
<1>9. ASSUME UNCHANGED <<servo, relay>>,
             \/ FollowerStop \/ UNCHANGED serial \/ \E q \in Poses : SendFollower(q)
      PROVE  ArmedByRequest'
  BY <1>9, SendKeepsHomeFirst
<1>10. ASSUME UNCHANGED <<servo, relay>>,
              \/ FollowerStop \/ UNCHANGED serial \/ \E q \in Poses : SendFollower(q)
       PROVE  /\ ArmedByRequest'
              /\ ~servo.armed /\ servo'.armed => relay.mayArm /\ servo.target = "home"
  BY <1>9, <1>10
<1>11. ASSUME ReadLine \/ Exit \/ SelfStop
       PROVE  /\ ArmedByRequest'
              /\ ~servo.armed /\ servo'.armed => relay.mayArm /\ servo.target = "home"
  <2>1. /\ serial'.lines = serial.lines /\ relay'.mayArm = relay.mayArm
        /\ servo'.target = servo.target /\ (servo'.armed => servo.armed)
    BY <1>6, <1>11
  <2>2. ArmedByRequest'
    BY <1>8, <2>1
  <2> QED BY <2>1, <2>2, Zenon
<1>12. CASE UNCHANGED armVars
  BY <1>7, <1>10, <1>12
<1>13. CASE ArmNext
  BY <1>1, <1>2, <1>3, <1>4, <1>5, <1>7, <1>10, <1>11, <1>13, TakeLineAtHome DEF ArmNext
<1> QED BY <1>12, <1>13

(* arm-relay.mjs 18: the follower comes to be armed only at the home pose  *)
(* and only by a relay started with --arm, whatever poses, stops and       *)
(* answers cross between the request and the moment it is taken, from any  *)
(* number of pages and a leader.                                           *)
THEOREM ArmArmsAtHome == ArmSpec => ArmsAtHome
<1>1. ArmInit => ArmedByRequest
  BY DEF ArmInit, ArmedByRequest, HomeFirst, Contains
<1>2. ArmInv /\ ArmedByRequest /\ [ArmNext]_armVars =>
        /\ ArmedByRequest'
        /\ ~servo.armed /\ servo'.armed => relay.mayArm /\ servo.target = "home"
  BY ArmNextAtHome DEF ArmInv
<1> QED BY <1>1, <1>2, ArmInvariant, PTL DEF ArmSpec, ArmsAtHome

-----------------------------------------------------------------------------
(* The station, for an operator already admitted and without a headset.    *)

AnyScene == Scenes \cup {NoScene}

RunRecords == [id : Nat, scene : AnyScene, auto : BOOLEAN]

PageRecords == [phase : {"brief", "running", "measured"}, scene : AnyScene,
                drawing : BOOLEAN, auto : BOOLEAN, drove : BOOLEAN,
                practise : BOOLEAN, recovered : RunRecords]

Moving == {"verifying", "signing", "pending"}

SendRecords == [at : Moving \cup {"none", "reporting", "ended"},
                tx : {"none", "sent", "mined"}, run : RunRecords, elapsed : Nat,
                scene : AnyScene, live : BOOLEAN]

CardRecords == [phase : {"idle", "verifying", "signing", "pending", "confirmed", "error"},
                of : Nat, shares : Nat]

StationTypeOK ==
  /\ page \in PageRecords /\ run \in RunRecords /\ elapsed \in Nat /\ made \in Nat
  /\ draft \in RunRecords /\ stale \in BOOLEAN /\ owed \in Nat
  /\ card \in CardRecords /\ send \in [Sends -> SendRecords]
  /\ rig \in [headset : BOOLEAN,
              admission : {"member", "none", "asking", "answered", "done"}]

\* What is said to be paid is paid; what is owed is not.
PaidIsKnown ==
  /\ owed # 0 => owed \notin paidRuns
  /\ \A k \in Sends : send[k].tx = "mined" => send[k].run.id \in paidRuns
  /\ Done => card.of \in paidRuns

\* The run owed is the draft, the run on the page and the one it offers.
OwedIsAtHand ==
  owed # 0 =>
    /\ draft.id = owed /\ page.phase # "running"
    /\ page.phase = "measured" => run.id = owed
    /\ page.phase = "brief" /\ page.recovered # NoRun => page.recovered.id = owed

UnderWay(k) == send[k].live /\ send[k].at \in Moving

\* At most one submission of this page is under way, and it is the card's.
CardFollows ==
  /\ \A j, k \in Sends : UnderWay(j) /\ UnderWay(k) => j = k
  /\ \A k \in Sends : UnderWay(k) =>
       /\ page.phase = "measured" /\ send[k].run = run /\ card.of = run.id
       /\ card.phase = send[k].at

CardOfRun == card.phase # "idle" => page.phase = "measured" /\ card.of = run.id

StationInv ==
  /\ StationTypeOK /\ PaidIsKnown
  /\ Plain => OwedIsAtHand /\ CardFollows /\ CardOfRun

LEMMA NoRunType == NoRun \in RunRecords /\ NoRun.id = 0
BY DEF NoRun, RunRecords, AnyScene

LEMMA FreshPageType ==
  ASSUME NEW s \in Scenes, NEW kept \in RunRecords
  PROVE  /\ FreshPage(s, kept) \in PageRecords
         /\ FreshPage(s, kept).phase = "brief" /\ FreshPage(s, kept).recovered = kept
BY DEF FreshPage, PageRecords, AnyScene

LEMMA IdleCardType == IdleCard \in CardRecords /\ IdleCard.phase = "idle"
BY DEF IdleCard, CardOf, CardRecords

\* A run that is kept is the one owed from now on, unless it was paid.
LEMMA KeepOwes ==
  ASSUME StationInv, NEW r \in RunRecords, Keep(r)
  PROVE  /\ draft' \in RunRecords /\ stale' \in BOOLEAN /\ owed' \in Nat
         /\ owed' # 0 => owed' \notin paidRuns
         /\ \/ UNCHANGED <<draft, owed>>
            \/ owed' # 0 => owed' = r.id /\ draft'.id = r.id
<1>1. /\ r.id \in Nat /\ draft \in RunRecords /\ stale \in BOOLEAN /\ owed \in Nat
      /\ owed # 0 => owed \notin paidRuns
  BY DEF RunRecords, StationInv, StationTypeOK, PaidIsKnown
<1>2. CASE draft' = r /\ stale' = FALSE /\ owed' = IF r.id \in paidRuns THEN 0 ELSE r.id
  BY <1>1, <1>2
<1>3. CASE UNCHANGED <<draft, stale, owed>>
  BY <1>1, <1>3
<1> QED BY <1>2, <1>3 DEF Keep, Store

\* A draft that is cleared takes what was owed with it.
LEMMA ForgetGivesUp ==
  ASSUME StationInv, Forget \/ LoadDraft
  PROVE  /\ draft' \in RunRecords /\ stale' \in BOOLEAN /\ owed' \in Nat
         /\ owed' # 0 => owed' \notin paidRuns
         /\ Plain => UNCHANGED <<draft, owed>> \/ owed' = 0
<1>1. /\ draft \in RunRecords /\ stale \in BOOLEAN /\ owed \in Nat
      /\ owed # 0 => owed \notin paidRuns
      /\ Plain /\ owed # 0 => draft.id = owed
  BY DEF StationInv, StationTypeOK, PaidIsKnown, OwedIsAtHand
<1>2. CASE draft' = NoRun /\ stale' = FALSE /\ owed' = IF draft.id = owed THEN 0 ELSE owed
  BY <1>1, <1>2, NoRunType
<1>3. CASE UNCHANGED <<draft, stale, owed>>
  BY <1>1, <1>3
<1> QED BY <1>2, <1>3 DEF Forget, LoadDraft, Store

LEMMA StationBegins ==
  ASSUME StationInit
  PROVE  StationInv
<1>1. PICK s \in Scenes : page = FreshPage(s, NoRun)
  BY DEF StationInit
<1>2. /\ page \in PageRecords /\ page.phase = "brief" /\ page.recovered = NoRun
  BY <1>1, NoRunType, FreshPageType
<1>3. NoSend \in SendRecords /\ ~ NoSend.live /\ NoSend.tx = "none"
  BY NoRunType DEF NoSend, SendRecords, AnyScene
<1>4. StationTypeOK
  <2>1. send \in [Sends -> SendRecords]
    BY <1>3 DEF StationInit
  <2> QED BY <1>2, <2>1, NoRunType, IdleCardType DEF StationInit, StationTypeOK
<1>5. \A k \in Sends : ~ UnderWay(k) /\ send[k].tx = "none"
  BY <1>3 DEF StationInit, UnderWay
<1>6. PaidIsKnown /\ OwedIsAtHand /\ CardFollows /\ CardOfRun
  BY <1>5, IdleCardType DEF StationInit, PaidIsKnown, OwedIsAtHand, CardFollows, CardOfRun, Done
<1> QED BY <1>4, <1>6 DEF StationInv

\* A step on the page while none of its submissions is under way.
LEMMA PageMoves ==
  ASSUME StationInv, Plain, send' = send, rig' = rig,
         \A k \in Sends : ~ UnderWay(k), OwedIsAtHand', CardOfRun'
  PROVE  OwedIsAtHand' /\ CardFollows' /\ CardOfRun'
<1>1. \A k \in Sends : ~ UnderWay(k)'
  BY DEF UnderWay
<1> QED BY <1>1 DEF CardFollows

LEMMA StartKeeps ==
  ASSUME StationInv, NEW practise \in BOOLEAN, Start(practise)
  PROVE  StationInv'
<1>1. /\ page' \in PageRecords /\ page'.phase = "running"
  BY DEF Start, StationInv, StationTypeOK, PageRecords
<1>2. StationTypeOK' /\ PaidIsKnown'
  BY <1>1, NoRunType, IdleCardType
  DEF Start, StationInv, StationTypeOK, PaidIsKnown, Done
<1>3. ASSUME Plain PROVE OwedIsAtHand' /\ CardFollows' /\ CardOfRun'
  <2>1. \A k \in Sends : ~ UnderWay(k)
    BY <1>3 DEF Start, MayStart, Plain, StationInv, CardFollows, Busy, UnderWay, Moving
  <2>2. OwedIsAtHand' /\ CardOfRun'
    BY <1>1, IdleCardType DEF Start, OwedIsAtHand, CardOfRun
  <2> QED BY <1>3, <2>1, <2>2, PageMoves DEF Start
<1>4. Plain' => Plain
  BY DEF Start, Plain
<1> QED BY <1>2, <1>3, <1>4 DEF StationInv

LEMMA FinishKeeps ==
  ASSUME StationInv, Finish
  PROVE  StationInv'
<1>1. /\ page' \in PageRecords /\ page'.phase = "measured"
  BY DEF Finish, StationInv, StationTypeOK, PageRecords
<1>2. /\ run' \in RunRecords /\ made' \in Nat /\ run'.id = made'
      /\ Keep(run') \/ UNCHANGED <<draft, stale, owed>>
  BY DEF Finish, StationInv, StationTypeOK, PageRecords, RunRecords
<1>3. /\ draft' \in RunRecords /\ stale' \in BOOLEAN /\ owed' \in Nat
      /\ owed' # 0 => owed' \notin paidRuns
      /\ UNCHANGED <<draft, owed>> \/ (owed' # 0 => owed' = run'.id /\ draft'.id = run'.id)
  <2>1. PICK r \in RunRecords : r = run'
    BY <1>2
  <2>2. CASE Keep(run')
    BY <2>1, <2>2, KeepOwes DEF Keep, Store
  <2>3. CASE UNCHANGED <<draft, stale, owed>>
    BY <2>3 DEF StationInv, StationTypeOK, PaidIsKnown
  <2> QED BY <1>2, <2>2, <2>3
<1>4. StationTypeOK' /\ PaidIsKnown'
  BY <1>1, <1>2, <1>3 DEF Finish, StationInv, StationTypeOK, PaidIsKnown, Done
<1>5. ASSUME Plain PROVE OwedIsAtHand' /\ CardFollows' /\ CardOfRun'
  <2>1. \A k \in Sends : ~ UnderWay(k)
    BY <1>5 DEF Finish, StationInv, CardFollows
  <2>2. owed = 0 /\ card.phase = "idle"
    BY <1>5 DEF Finish, StationInv, OwedIsAtHand, CardOfRun
  <2>3. OwedIsAtHand' /\ CardOfRun'
    BY <1>1, <1>3, <2>2 DEF Finish, OwedIsAtHand, CardOfRun
  <2> QED BY <1>5, <2>1, <2>3, PageMoves DEF Finish
<1>6. Plain' => Plain
  BY DEF Finish, Plain
<1> QED BY <1>4, <1>5, <1>6 DEF StationInv

LEMMA PickUpKeeps ==
  ASSUME StationInv, PickUp \/ Discard
  PROVE  StationInv'
<1>1. /\ page' \in PageRecords /\ page.phase = "brief" /\ page.recovered \in RunRecords
      /\ page.recovered # NoRun
      /\ PickUp => page'.phase = "measured" /\ run' = page.recovered
      /\ Discard => page'.phase = "brief" /\ run' = run /\ page'.recovered = NoRun
  BY NoRunType DEF PickUp, Discard, StationInv, StationTypeOK, PageRecords
<1>2. CASE PickUp
  <2>1. /\ draft' \in RunRecords /\ stale' \in BOOLEAN /\ owed' \in Nat
        /\ owed' # 0 => owed' \notin paidRuns
        /\ \/ UNCHANGED <<draft, owed>>
           \/ owed' # 0 => owed' = page.recovered.id /\ draft'.id = page.recovered.id
    <3>1. CASE Keep(page.recovered)
      BY <1>1, <3>1, KeepOwes
    <3>2. CASE UNCHANGED <<draft, stale, owed>>
      BY <3>2 DEF StationInv, StationTypeOK, PaidIsKnown
    <3> QED BY <1>2, <3>1, <3>2 DEF PickUp
  <2>2. StationTypeOK' /\ PaidIsKnown'
    BY <1>1, <1>2, <2>1 DEF PickUp, StationInv, StationTypeOK, PaidIsKnown, Done
  <2>3. ASSUME Plain PROVE OwedIsAtHand' /\ CardFollows' /\ CardOfRun'
    <3>1. \A k \in Sends : ~ UnderWay(k)
      BY <1>1, <2>3 DEF StationInv, CardFollows
    <3>2. card.phase = "idle" /\ (owed # 0 => draft.id = owed /\ page.recovered.id = owed)
      BY <1>1, <2>3 DEF StationInv, CardOfRun, OwedIsAtHand
    <3>3. OwedIsAtHand' /\ CardOfRun'
      BY <1>1, <1>2, <2>1, <3>2 DEF PickUp, OwedIsAtHand, CardOfRun
    <3> QED BY <1>2, <2>3, <3>1, <3>3, PageMoves DEF PickUp
  <2>4. Plain' => Plain
    BY <1>2 DEF PickUp, Plain
  <2> QED BY <2>2, <2>3, <2>4 DEF StationInv
<1>3. CASE Discard
  <2>1. StationTypeOK' /\ PaidIsKnown'
    BY <1>1, <1>3, ForgetGivesUp
    DEF Discard, StationInv, StationTypeOK, PaidIsKnown, Done
  <2>2. ASSUME Plain PROVE OwedIsAtHand' /\ CardFollows' /\ CardOfRun'
    <3>1. \A k \in Sends : ~ UnderWay(k)
      BY <1>1, <2>2 DEF StationInv, CardFollows
    <3>2. OwedIsAtHand' /\ CardOfRun'
      BY <1>1, <1>3, <2>2, ForgetGivesUp
      DEF Discard, StationInv, OwedIsAtHand, CardOfRun
    <3> QED BY <1>3, <2>2, <3>1, <3>2, PageMoves DEF Discard
  <2>3. Plain' => Plain
    BY <1>3 DEF Discard, Plain
  <2> QED BY <2>1, <2>2, <2>3 DEF StationInv
<1> QED BY <1>2, <1>3

\* A step that leaves the page's phase, its run and its submissions.
LEMMA PageStays ==
  ASSUME StationInv, page' \in PageRecords, page'.phase = page.phase,
         UNCHANGED <<run, elapsed, card, send, paidRuns, made, rig>>,
         draft' \in RunRecords, stale' \in BOOLEAN, owed' \in Nat,
         owed' # 0 => owed' \notin paidRuns,
         Plain => OwedIsAtHand'
  PROVE  StationInv'
<1>1. StationTypeOK' /\ PaidIsKnown'
  BY DEF StationInv, StationTypeOK, PaidIsKnown, Done
<1>2. Plain' => Plain
  BY DEF Plain
<1>3. ASSUME Plain PROVE CardFollows' /\ CardOfRun'
  <2>1. CardFollows'
    BY <1>3 DEF StationInv, CardFollows, UnderWay
  <2>2. CardOfRun'
    BY <1>3 DEF StationInv, CardOfRun
  <2> QED BY <2>1, <2>2
<1> QED BY <1>1, <1>2, <1>3 DEF StationInv

LEMMA DrawSceneKeeps ==
  ASSUME StationInv, DrawScene
  PROVE  StationInv'
<1>1. page' \in PageRecords /\ page'.phase = page.phase /\ page'.recovered = page.recovered
  BY DEF DrawScene, StationInv, StationTypeOK, PageRecords, AnyScene
<1>2. /\ UNCHANGED <<draft, stale, owed>> /\ draft \in RunRecords /\ stale \in BOOLEAN
      /\ owed \in Nat /\ (owed # 0 => owed \notin paidRuns)
  BY DEF DrawScene, StationInv, StationTypeOK, PaidIsKnown
<1>3. Plain => OwedIsAtHand'
  BY <1>1, <1>2 DEF DrawScene, StationInv, OwedIsAtHand
<1> QED BY <1>1, <1>2, <1>3, PageStays DEF DrawScene

LEMMA ToggleAutoKeeps ==
  ASSUME StationInv, ToggleAuto
  PROVE  StationInv'
<1>1. page' \in PageRecords /\ page'.phase = page.phase /\ page'.recovered = page.recovered
  BY DEF ToggleAuto, StationInv, StationTypeOK, PageRecords
<1>2. CASE UNCHANGED <<draft, stale, owed>>
  <2>1. /\ draft \in RunRecords /\ stale \in BOOLEAN
        /\ owed \in Nat /\ (owed # 0 => owed \notin paidRuns)
    BY DEF StationInv, StationTypeOK, PaidIsKnown
  <2>2. Plain => OwedIsAtHand'
    BY <1>1, <1>2 DEF ToggleAuto, StationInv, OwedIsAtHand
  <2> QED BY <1>1, <1>2, <2>1, <2>2, PageStays DEF ToggleAuto
<1>3. CASE page.phase = "measured" /\ Keep(run)
  <2>1. run \in RunRecords /\ run' = run
    BY DEF ToggleAuto, StationInv, StationTypeOK
  <2>2. Plain => OwedIsAtHand'
    BY <1>1, <1>3, <2>1, KeepOwes DEF StationInv, OwedIsAtHand
  <2> QED BY <1>1, <1>3, <2>1, <2>2, KeepOwes, PageStays DEF ToggleAuto
<1> QED BY <1>2, <1>3 DEF ToggleAuto

LEMMA CatalogueKeeps ==
  ASSUME StationInv, CatalogueChanges
  PROVE  StationInv'
<1>1. run \in RunRecords /\ page \in PageRecords /\ run' = run
  BY DEF CatalogueChanges, StationInv, StationTypeOK
<1>2. CASE page.phase = "measured" /\ Keep(run) /\ UNCHANGED page
  <2>1. Plain => OwedIsAtHand'
    BY <1>1, <1>2, KeepOwes DEF StationInv, OwedIsAtHand
  <2> QED BY <1>1, <1>2, <2>1, KeepOwes, PageStays DEF CatalogueChanges
<1>3. CASE page.phase = "brief" /\ LoadDraft /\ page' = [page EXCEPT !.recovered = draft']
  <2>1. /\ page' \in PageRecords /\ page'.phase = "brief" /\ page'.recovered = draft'
    BY <1>1, <1>3, ForgetGivesUp DEF PageRecords
  <2>2. Plain => OwedIsAtHand'
    BY <1>3, <2>1, ForgetGivesUp DEF StationInv, OwedIsAtHand
  <2> QED BY <1>3, <2>1, <2>2, ForgetGivesUp, PageStays DEF CatalogueChanges
<1> QED BY <1>2, <1>3 DEF CatalogueChanges

LEMMA HourPassesKeeps ==
  ASSUME StationInv, HourPasses
  PROVE  StationInv'
<1>1. /\ page \in PageRecords /\ page' = page /\ draft' = draft /\ owed' = owed /\ stale' = TRUE
      /\ draft \in RunRecords /\ owed \in Nat /\ (owed # 0 => owed \notin paidRuns)
  BY DEF HourPasses, StationInv, StationTypeOK, PaidIsKnown
<1>2. Plain => OwedIsAtHand'
  BY <1>1 DEF HourPasses, StationInv, OwedIsAtHand
<1> QED BY <1>1, <1>2, PageStays DEF HourPasses

LEMMA SubmitKeeps ==
  ASSUME StationInv, NEW k \in Sends, Submit(k)
  PROVE  StationInv'
<1> DEFINE new == [at |-> "verifying", tx |-> "none", run |-> run, elapsed |-> elapsed,
                   scene |-> page.scene, live |-> TRUE]
<1>1. /\ new \in SendRecords /\ new.run = run /\ new.at = "verifying" /\ new.live
      /\ new.tx = "none" /\ send' = [send EXCEPT ![k] = new]
  BY DEF Submit, StationInv, StationTypeOK, SendRecords, PageRecords, Moving
<1> HIDE DEF new
<1>2. /\ card' \in CardRecords /\ card'.phase = "verifying" /\ card'.of = run.id
  BY DEF Submit, CardOf, StationInv, StationTypeOK, CardRecords, RunRecords
<1>3. /\ send'[k] = new
      /\ \A j \in Sends : j # k => send'[j] = send[j]
  BY <1>1 DEF StationInv, StationTypeOK
<1>4. StationTypeOK'
  BY <1>1, <1>2 DEF Submit, StationInv, StationTypeOK
<1>5. PaidIsKnown'
  BY <1>1, <1>2, <1>3 DEF Submit, StationInv, PaidIsKnown, Done
<1>6. ASSUME Plain PROVE OwedIsAtHand' /\ CardFollows' /\ CardOfRun'
  <2>1. \A j \in Sends : ~ UnderWay(j)
    BY <1>6 DEF Submit, StationInv, CardFollows, Busy, UnderWay, Moving
  <2>2. \A j \in Sends : UnderWay(j)' => j = k
    BY <2>1, <1>3 DEF UnderWay
  <2>3. CardFollows'
    BY <1>1, <1>2, <1>3, <2>2 DEF Submit, CardFollows
  <2>4. OwedIsAtHand' /\ CardOfRun'
    BY <1>2, <1>6 DEF Submit, StationInv, OwedIsAtHand, CardOfRun
  <2> QED BY <2>3, <2>4
<1>7. Plain' => Plain
  BY DEF Submit, Plain
<1> QED BY <1>4, <1>5, <1>6, <1>7 DEF StationInv

LEMMA LoadKeeps ==
  ASSUME StationInv, Load
  PROVE  StationInv'
<1>1. /\ draft' \in RunRecords /\ stale' \in BOOLEAN /\ owed' \in Nat
      /\ owed' # 0 => owed' \notin paidRuns
      /\ Plain /\ owed' # 0 => draft'.id = owed'
  <2>1. Forget \/ LoadDraft
    BY Zenon DEF Load
  <2>2. Plain /\ owed # 0 => draft.id = owed
    BY DEF StationInv, OwedIsAtHand
  <2> QED BY <2>1, <2>2, ForgetGivesUp
<1>2. PICK s \in Scenes : page' = FreshPage(s, draft')
  BY Zenon DEF Load
<1>3. page' \in PageRecords /\ page'.phase = "brief" /\ page'.recovered = draft'
  <2>1. PICK d \in RunRecords : d = draft'
    BY <1>1
  <2> QED BY <1>2, <2>1, FreshPageType
<1>4. PICK reloaded \in BOOLEAN :
        send' = [k \in Sends |->
          [send[k] EXCEPT !.live = FALSE,
             !.at = IF reloaded /\ @ # "none" THEN "ended" ELSE @]]
  BY Zenon DEF Load
<1>5. /\ send' \in [Sends -> SendRecords]
      /\ \A k \in Sends : /\ ~ send'[k].live
                          /\ send'[k].tx = send[k].tx /\ send'[k].run = send[k].run
  <2> DEFINE after(k) == [send[k] EXCEPT !.live = FALSE,
               !.at = IF reloaded /\ @ # "none" THEN "ended" ELSE @]
  <2>1. ASSUME NEW k \in Sends
        PROVE  /\ after(k) \in SendRecords /\ ~ after(k).live
               /\ after(k).tx = send[k].tx /\ after(k).run = send[k].run
    <3>1. PICK r \in SendRecords : r = send[k]
      BY DEF StationInv, StationTypeOK
    <3>2. PICK at \in Moving \cup {"none", "reporting", "ended"} :
            at = IF reloaded /\ r.at # "none" THEN "ended" ELSE r.at
      BY DEF SendRecords
    <3>3. after(k) = [r EXCEPT !.live = FALSE, !.at = at]
      BY <3>1, <3>2, Zenon
    <3> HIDE DEF after
    <3> QED BY <3>1, <3>3 DEF SendRecords
  <2>2. send' = [k \in Sends |-> after(k)]
    BY <1>4, Zenon
  <2> HIDE DEF after
  <2> QED BY <2>1, <2>2
<1>6. run' = NoRun /\ elapsed' = 0 /\ card' = IdleCard /\ UNCHANGED <<paidRuns, made>>
  BY Zenon DEF Load
<1>7. /\ rig' \in [headset : BOOLEAN,
                   admission : {"member", "none", "asking", "answered", "done"}]
      /\ Plain' => Plain
  <2> DEFINE next(a) == CASE a = "asking" -> "none" [] a = "answered" -> "done" [] OTHER -> a
  <2>1. rig' = [rig EXCEPT !.admission = next(@)]
    BY Zenon DEF Load
  <2>2. ASSUME NEW a \in {"member", "none", "asking", "answered", "done"}
        PROVE  /\ next(a) \in {"member", "none", "asking", "answered", "done"}
               /\ next(a) = "member" => a = "member"
    OBVIOUS
  <2> HIDE DEF next
  <2> QED BY <2>1, <2>2 DEF StationInv, StationTypeOK, Plain
<1>8. StationTypeOK'
  BY <1>1, <1>3, <1>5, <1>6, <1>7, NoRunType, IdleCardType DEF StationInv, StationTypeOK
<1>9. PaidIsKnown'
  BY <1>1, <1>5, <1>6, IdleCardType DEF StationInv, PaidIsKnown, Done
<1>10. ASSUME Plain PROVE OwedIsAtHand' /\ CardFollows' /\ CardOfRun'
  <2>1. CardFollows'
    BY <1>5 DEF CardFollows, UnderWay
  <2>2. OwedIsAtHand' /\ CardOfRun'
    BY <1>1, <1>3, <1>6, <1>10, IdleCardType DEF OwedIsAtHand, CardOfRun
  <2> QED BY <2>1, <2>2
<1> QED BY <1>7, <1>8, <1>9, <1>10 DEF StationInv

\* What an operator without admission does; none of it is for Plain.
LEMMA AdmissionKeeps ==
  ASSUME StationInv, AskAdmission \/ AdmissionAnswered \/ OnAdmitted
  PROVE  StationInv'
<1>1. /\ rig' \in [headset : BOOLEAN,
                   admission : {"member", "none", "asking", "answered", "done"}]
      /\ ~ Plain'
  BY DEF AskAdmission, AdmissionAnswered, OnAdmitted, StationInv, StationTypeOK, Plain
<1>2. /\ card' = card \/ card' = IdleCard
      /\ UNCHANGED <<page, run, elapsed, send, draft, stale, paidRuns, made, owed>>
  BY DEF AskAdmission, AdmissionAnswered, OnAdmitted
<1>3. StationTypeOK'
  BY <1>1, <1>2, IdleCardType DEF StationInv, StationTypeOK
<1>4. PaidIsKnown'
  BY <1>2, IdleCardType DEF StationInv, PaidIsKnown, Done
<1> QED BY <1>1, <1>3, <1>4 DEF StationInv

\* A submission under way goes on or ends, and the card of its page says so.
LEMMA ShowKeeps ==
  ASSUME StationInv, NEW k \in Sends, send[k].at \in Moving,
         NEW next \in SendRecords, send' = [send EXCEPT ![k] = next],
         next.run = send[k].run, next.live = send[k].live,
         NEW phase \in {"signing", "pending", "confirmed", "error"}, Show(k, phase),
         next.at \in Moving => phase = next.at,
         next.tx = "mined" \/ phase = "confirmed" => next.run.id \in paidRuns,
         UNCHANGED <<page, run, elapsed, paidRuns, made, owed, rig>>,
         draft' \in RunRecords, stale' \in BOOLEAN,
         Plain => OwedIsAtHand'
  PROVE  StationInv'
<1>1. /\ send[k] \in SendRecords /\ send'[k] = next
      /\ \A j \in Sends : j # k => send'[j] = send[j]
      /\ send' \in [Sends -> SendRecords]
  BY DEF StationInv, StationTypeOK
<1>2. /\ send[k].live => card'.phase = phase /\ card'.of = send[k].run.id
      /\ ~ send[k].live => card' = card
      /\ card' \in CardRecords
  <2>1. send[k].run.id \in Nat /\ card \in CardRecords
    BY <1>1 DEF SendRecords, RunRecords, StationInv, StationTypeOK
  <2> QED BY <2>1 DEF Show, CardOf, CardRecords
<1>3. StationTypeOK'
  BY <1>1, <1>2 DEF StationInv, StationTypeOK
<1>4. PaidIsKnown'
  BY <1>1, <1>2 DEF StationInv, PaidIsKnown, Done
<1>5. ASSUME Plain PROVE CardFollows' /\ CardOfRun'
  <2>1. CASE send[k].live
    <3>1. /\ page.phase = "measured" /\ send[k].run = run
          /\ \A j \in Sends : UnderWay(j) => j = k
      BY <1>5, <2>1 DEF StationInv, CardFollows, UnderWay
    <3>2. \A j \in Sends : UnderWay(j)' => j = k
      BY <1>1, <3>1 DEF UnderWay
    <3>3. CardFollows'
      BY <1>1, <1>2, <2>1, <3>1, <3>2 DEF CardFollows, UnderWay
    <3>4. CardOfRun'
      BY <1>2, <2>1, <3>1 DEF CardOfRun
    <3> QED BY <3>3, <3>4
  <2>2. CASE ~ send[k].live
    <3>1. \A j \in Sends : UnderWay(j)' => UnderWay(j) /\ j # k
      BY <1>1, <2>2 DEF UnderWay
    <3>2. CardFollows'
      BY <1>1, <1>2, <1>5, <2>2, <3>1 DEF StationInv, CardFollows
    <3>3. CardOfRun'
      BY <1>2, <1>5, <2>2 DEF StationInv, CardOfRun
    <3> QED BY <3>2, <3>3
  <2> QED BY <2>1, <2>2
<1>6. Plain' => Plain
  BY DEF Plain
<1> QED BY <1>3, <1>4, <1>5, <1>6 DEF StationInv

\* A step of a submission that leaves the phase of the card.
LEMMA SilentKeeps ==
  ASSUME StationInv, NEW k \in Sends,
         NEW next \in SendRecords, send' = [send EXCEPT ![k] = next],
         next.run = send[k].run, next.live = send[k].live,
         next.at = send[k].at \/ (next.at \notin Moving /\ send[k].at \notin Moving),
         card' \in CardRecords, card'.phase = card.phase, card'.of = card.of,
         paidRuns \subseteq paidRuns', next.tx = "mined" => next.run.id \in paidRuns',
         UNCHANGED <<page, run, elapsed, draft, stale, made, rig>>,
         owed' = owed \/ owed' = 0, owed' # 0 => owed' \notin paidRuns'
  PROVE  StationInv'
<1>1. /\ send'[k] = next
      /\ \A j \in Sends : j # k => send'[j] = send[j]
      /\ send' \in [Sends -> SendRecords]
  BY DEF StationInv, StationTypeOK
<1>2. StationTypeOK'
  BY <1>1 DEF StationInv, StationTypeOK
<1>3. PaidIsKnown'
  BY <1>1 DEF StationInv, PaidIsKnown, Done
<1>4. \A j \in Sends : /\ UnderWay(j)' => UnderWay(j)
                       /\ send'[j].run = send[j].run
                       /\ UnderWay(j)' => send'[j].at = send[j].at
  BY <1>1 DEF UnderWay
<1>5. ASSUME Plain PROVE OwedIsAtHand' /\ CardFollows' /\ CardOfRun'
  <2>1. OwedIsAtHand' /\ CardOfRun'
    BY <1>5 DEF StationInv, OwedIsAtHand, CardOfRun
  <2>2. CardFollows'
    BY <1>4, <1>5 DEF StationInv, CardFollows
  <2> QED BY <2>1, <2>2
<1>6. Plain' => Plain
  BY DEF Plain
<1> QED BY <1>2, <1>3, <1>5, <1>6 DEF StationInv

LEMMA SendingKeeps ==
  ASSUME StationInv, NEW k \in Sends, Verified(k) \/ SignAndSend(k) \/ Refused(k)
  PROVE  StationInv'
<1>1. /\ UNCHANGED <<page, run, elapsed, draft, stale, paidRuns, made, owed, rig>>
      /\ draft \in RunRecords /\ stale \in BOOLEAN
      /\ send[k] \in SendRecords /\ send[k].at \in Moving
      /\ send[k].tx = "mined" => send[k].run.id \in paidRuns
  BY DEF Verified, SignAndSend, Refused, Proceed, Moving, StationInv, StationTypeOK, PaidIsKnown
<1>2. Plain => OwedIsAtHand'
  BY <1>1 DEF StationInv, OwedIsAtHand
<1>3. CASE Verified(k)
  <2>1. PICK next : next = [send[k] EXCEPT !.at = "signing"]
    OBVIOUS
  <2>2. /\ next \in SendRecords /\ next.run = send[k].run /\ next.live = send[k].live
        /\ next.at = "signing" /\ next.tx = send[k].tx
        /\ send' = [send EXCEPT ![k] = next]
    BY <1>1, <1>3, <2>1 DEF Verified, Proceed, SendRecords, Moving
  <2> QED BY <1>1, <1>2, <1>3, <2>2, ShowKeeps DEF Verified
<1>4. CASE SignAndSend(k)
  <2>1. PICK next : next = [send[k] EXCEPT !.at = "pending", !.tx = "sent"]
    OBVIOUS
  <2>2. /\ next \in SendRecords /\ next.run = send[k].run /\ next.live = send[k].live
        /\ next.at = "pending" /\ next.tx = "sent"
        /\ send' = [send EXCEPT ![k] = next]
    BY <1>1, <1>4, <2>1 DEF SignAndSend, SendRecords, Moving
  <2> QED BY <1>1, <1>2, <1>4, <2>2, ShowKeeps DEF SignAndSend
<1>5. CASE Refused(k)
  <2>1. PICK next : next = [send[k] EXCEPT !.at = "ended"]
    OBVIOUS
  <2>2. /\ next \in SendRecords /\ next.run = send[k].run /\ next.live = send[k].live
        /\ next.at = "ended" /\ next.tx = send[k].tx
        /\ send' = [send EXCEPT ![k] = next]
    BY <1>1, <1>5, <2>1 DEF Refused, Proceed, SendRecords, Moving
  <2> QED BY <1>1, <1>2, <1>5, <2>2, ShowKeeps DEF Refused, Moving
<1> QED BY <1>3, <1>4, <1>5

\* The receipt of the page's own submission comes when nothing is owed: the run
\* on the page is the one that was paid.
LEMMA ConfirmedKeeps ==
  ASSUME StationInv, NEW k \in Sends, Confirmed(k)
  PROVE  StationInv'
<1>1. /\ UNCHANGED <<page, run, elapsed, paidRuns, made, owed, rig>>
      /\ draft' \in RunRecords /\ stale' \in BOOLEAN
      /\ send[k] \in SendRecords /\ send[k].at \in Moving
      /\ send[k].tx = "mined" /\ send[k].run.id \in paidRuns
  BY NoRunType DEF Confirmed, Store, Proceed, Moving, StationInv, StationTypeOK, PaidIsKnown
<1>2. ASSUME Plain PROVE OwedIsAtHand'
  <2>1. CASE send[k].live
    <3>1. page.phase = "measured" /\ send[k].run = run
      BY <1>1, <1>2, <2>1 DEF StationInv, CardFollows, UnderWay
    <3>2. owed' = 0
      BY <1>1, <1>2, <3>1 DEF StationInv, PaidIsKnown, OwedIsAtHand
    <3> QED BY <3>2 DEF OwedIsAtHand
  <2>2. CASE ~ send[k].live
    BY <1>1, <1>2, <2>2 DEF Confirmed, StationInv, OwedIsAtHand
  <2> QED BY <2>1, <2>2
<1>3. PICK next : next = [send[k] EXCEPT !.at = "reporting"]
  OBVIOUS
<1>4. /\ next \in SendRecords /\ next.run = send[k].run /\ next.live = send[k].live
      /\ next.at = "reporting" /\ next.tx = send[k].tx
      /\ send' = [send EXCEPT ![k] = next]
  BY <1>1, <1>3 DEF Confirmed, Proceed, SendRecords, Moving
<1> QED BY <1>1, <1>2, <1>4, ShowKeeps DEF Confirmed, Moving

LEMMA LateAnswersKeep ==
  ASSUME StationInv, NEW k \in Sends, Mined(k) \/ SharesAnswered(k)
  PROVE  StationInv'
<1>1. /\ UNCHANGED <<page, run, elapsed, draft, stale, made, rig>>
      /\ send[k] \in SendRecords /\ card \in CardRecords /\ send[k].run.id \in Nat
      /\ send[k].tx = "mined" => send[k].run.id \in paidRuns
      /\ owed # 0 => owed \notin paidRuns
  BY DEF Mined, SharesAnswered, Proceed, StationInv, StationTypeOK, PaidIsKnown,
         SendRecords, RunRecords
<1>2. CASE Mined(k)
  <2>1. PICK next : next = [send[k] EXCEPT !.tx = "mined"]
    OBVIOUS
  <2>2. /\ next \in SendRecords /\ next.run = send[k].run /\ next.live = send[k].live
        /\ next.at = send[k].at /\ next.tx = "mined"
        /\ send' = [send EXCEPT ![k] = next]
    BY <1>1, <1>2, <2>1 DEF Mined, SendRecords
  <2>3. /\ card' = card /\ paidRuns' = paidRuns \cup {send[k].run.id}
        /\ owed' = owed \/ owed' = 0
        /\ owed' # 0 => owed' \notin paidRuns'
    BY <1>1, <1>2 DEF Mined
  <2> QED BY <1>1, <2>2, <2>3, SilentKeeps
<1>3. CASE SharesAnswered(k)
  <2>1. PICK next : next = [send[k] EXCEPT !.at = "ended"]
    OBVIOUS
  <2>2. /\ next \in SendRecords /\ next.run = send[k].run /\ next.live = send[k].live
        /\ next.at = "ended" /\ next.tx = send[k].tx /\ send[k].at = "reporting"
        /\ send' = [send EXCEPT ![k] = next]
        /\ UNCHANGED <<paidRuns, owed>>
    BY <1>1, <1>3, <2>1 DEF SharesAnswered, Proceed, SendRecords
  <2>3. card' \in CardRecords /\ card'.phase = card.phase /\ card'.of = card.of
    BY <1>1, <1>3 DEF SharesAnswered, CardRecords
  <2> QED BY <1>1, <2>2, <2>3, SilentKeeps DEF Moving
<1> QED BY <1>2, <1>3

LEMMA StationNextKeeps ==
  ASSUME StationInv, [StationNext]_stationVars
  PROVE  StationInv'
<1>1. ASSUME UNCHANGED stationVars PROVE StationInv'
  <2>1. StationTypeOK' /\ PaidIsKnown' /\ Plain' = Plain
    BY <1>1 DEF stationVars, StationInv, StationTypeOK, PaidIsKnown, Done, Plain
  <2>2. OwedIsAtHand' = OwedIsAtHand /\ CardFollows' = CardFollows /\ CardOfRun' = CardOfRun
    BY <1>1 DEF stationVars, OwedIsAtHand, CardFollows, UnderWay, CardOfRun
  <2> QED BY <2>1, <2>2 DEF StationInv
<1> QED BY <1>1, DrawSceneKeeps, StartKeeps, FinishKeeps, ToggleAutoKeeps, PickUpKeeps,
           CatalogueKeeps, HourPassesKeeps, LoadKeeps, AdmissionKeeps, SubmitKeeps,
           SendingKeeps, ConfirmedKeeps, LateAnswersKeep
        DEF StationNext

LEMMA StationInvariant == StationSpec => []StationInv
<1>1. StationInit => StationInv
  BY StationBegins
<1>2. StationInv /\ [StationNext]_stationVars => StationInv'
  BY StationNextKeeps
<1> QED BY <1>1, <1>2, PTL DEF StationSpec

(* run-draft.ts 8-17, 30-53: a measured run that the store took stays in   *)
(* the draft until it is paid, given up, or more than an hour old when it  *)
(* is looked for, through any number of runs, submissions, late receipts   *)
(* and page loads.                                                         *)
THEOREM StationMeasuredIsKept == StationSpec => []MeasuredIsKept
<1>1. StationInv => MeasuredIsKept
  BY DEF StationInv, OwedIsAtHand, MeasuredIsKept
<1> QED BY <1>1, StationInvariant, PTL

(* page.tsx 784-806: the phase of the card is that of the run it is shown  *)
(* with, whatever earlier submissions still come through, and it says paid *)
(* of paid runs only; its line on shares may be about another run.         *)
THEOREM StationCardTellsOfItsRun == StationSpec => []CardTellsOfItsRun
<1>1. StationInv => CardTellsOfItsRun
  BY DEF StationInv, PaidIsKnown, CardOfRun, CardTellsOfItsRun
<1> QED BY <1>1, StationInvariant, PTL
=============================================================================
