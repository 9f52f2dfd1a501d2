----------------------------- MODULE CorpusAudit -----------------------------
(***************************************************************************)
(* One task's corpus, what the verifier committed of it, and the keeper's  *)
(* audits: CorpusManifest.sol, scripts/commit-manifest.mjs,                *)
(* scripts/keeper.mjs and CorpusAudit.sol. Passes of the keeper overlap:   *)
(* setInterval starts one whether or not the last has ended, and a keeper  *)
(* may run by hand beside it. A Merkle root is the set of its leaves.      *)
(***************************************************************************)
EXTENDS Naturals, Sequences, FiniteSets

CONSTANTS
  Episodes,        \* runs the task may come to pay
  Rank,            \* Rank[e]: the place of e by score, no two alike
  Losable,         \* episodes the store may come to lose
  CommitLimit,     \* rows /api/task/{id}/runs lists
  ServeLimit,      \* rows /api/corpus/episodes lists
  Passes,          \* passes of keepers that may overlap
  Steady,          \* the one a running keeper repeats; the others are run by hand
  MaxCommits,      \* bounds: versions of the manifest,
  MaxMisreads      \* and errors of the node that pass for an empty one

VARIABLES
  settledRuns,     \* settled rows of the task
  lostRuns,        \* those of them the store no longer has
  manifest,        \* CorpusManifest._history of the task
  script,          \* commit-manifest.mjs: the hashes it read, {} when not running
  held,            \* CorpusAudit.s_latest of the task
  clock,           \* seconds, from that of the report held
  pass,            \* pass[k]: what the pass has read so far
  misreads         \* errors taken for an empty manifest so far

auditVars == <<settledRuns, lostRuns, manifest, script, held, clock, pass, misreads>>

AuditAssumption ==
  /\ Rank \in [Episodes -> Nat]
  /\ \A d, e \in Episodes : Rank[d] = Rank[e] => d = e
  /\ Losable \subseteq Episodes /\ Steady \in Passes
  /\ CommitLimit \in Nat \ {0} /\ ServeLimit \in Nat \ {0} /\ MaxCommits \in Nat /\ MaxMisreads \in Nat
ASSUME AuditFacts == AuditAssumption

\* ORDER BY score DESC LIMIT n
Best(S, n) == {e \in S : Cardinality({d \in S : Rank[d] < Rank[e]}) < n}

stored == settledRuns \ lostRuns

Latest == IF manifest = <<>> THEN {} ELSE manifest[Len(manifest)]

\* Mutant: any difference is an alteration.
Verdict_AnyDifference(served, committed) ==
  CASE committed = {} -> "uncommitted"
    [] served = committed -> "matches"
    [] OTHER -> "altered"

\* The keeper's comparison of what is served with what was committed last; no
\* commitment is the empty set, which the manifest refuses.
Verdict(served, committed) ==
  CASE committed = {} -> "uncommitted"
    [] served = committed -> "matches"
    [] OTHER ->
       IF Cardinality(served) > Cardinality(committed) THEN "grown"
       ELSE IF Cardinality(served) < Cardinality(committed) THEN "short"
       ELSE "altered"

Unaudited == [verdict |-> "none", served |-> {}, committed |-> {}, at |-> 0]

Resting == [at |-> "idle", served |-> {}, committed |-> {}, stamp |-> 0]

AuditInit ==
  /\ settledRuns = {} /\ lostRuns = {} /\ manifest = <<>> /\ script = {}
  /\ held = Unaudited /\ clock = 1 /\ misreads = 0
  /\ pass = [k \in Passes |-> Resting]

PayEpisode(e) ==
  /\ e \notin settledRuns
  /\ settledRuns' = settledRuns \cup {e}
  /\ UNCHANGED <<lostRuns, manifest, script, held, clock, pass, misreads>>

LoseEpisode(e) ==
  /\ e \in Losable \cap stored
  /\ lostRuns' = lostRuns \cup {e}
  /\ UNCHANGED <<settledRuns, manifest, script, held, clock, pass, misreads>>

\* The script reads the runs it will commit; with none it stops.
ReadRuns ==
  /\ script = {} /\ stored # {} /\ Len(manifest) < MaxCommits
  /\ script' = Best(stored, CommitLimit)
  /\ UNCHANGED <<settledRuns, lostRuns, manifest, held, clock, pass, misreads>>

\* CorpusManifest.commit, which refuses the root it holds already.
Commit ==
  /\ script # {}
  /\ manifest' = IF script = Latest THEN manifest ELSE Append(manifest, script)
  /\ script' = {}
  /\ UNCHANGED <<settledRuns, lostRuns, held, clock, pass, misreads>>

FetchServed(k) ==
  /\ pass[k].at = "idle"
  /\ pass' = [pass EXCEPT ![k] = [Resting EXCEPT !.at = "served",
                                    !.served = Best(stored, ServeLimit)]]
  /\ UNCHANGED <<settledRuns, lostRuns, manifest, script, held, clock, misreads>>

\* Nothing served and nothing promised is nothing to say.
Hear(k, committed) ==
  /\ pass[k].at = "served"
  /\ pass' = [pass EXCEPT ![k] =
       IF pass[k].served = {} /\ committed = {} THEN Resting
       ELSE [pass[k] EXCEPT !.at = "read", !.committed = committed]]
  /\ UNCHANGED <<settledRuns, lostRuns, manifest, script, held, clock>>

ReadManifest(k) == Hear(k, Latest) /\ UNCHANGED misreads

\* latest() reverts when nothing is committed, so any error counts as that.
MisreadManifest(k) ==
  /\ misreads < MaxMisreads /\ Latest # {}
  /\ Hear(k, {})
  /\ misreads' = misreads + 1

Reported(k) == [verdict |-> Verdict(pass[k].served, pass[k].committed),
                served |-> pass[k].served, committed |-> pass[k].committed,
                at |-> pass[k].stamp]

\* Mutant: only the verdict is compared.
CompareHeld_VerdictOnly(k) ==
  /\ pass[k].at = "read"
  /\ pass' = [pass EXCEPT ![k] =
       IF held.at > 0 /\ held.verdict = Reported(k).verdict
       THEN Resting ELSE [pass[k] EXCEPT !.at = "differs"]]
  /\ UNCHANGED <<settledRuns, lostRuns, manifest, script, held, clock, misreads>>

\* Only what differs from the audit held is reported.
CompareHeld(k) ==
  /\ pass[k].at = "read"
  /\ pass' = [pass EXCEPT ![k] =
       IF /\ held.at > 0 /\ held.verdict = Reported(k).verdict
          /\ held.served = pass[k].served /\ held.committed = pass[k].committed
       THEN Resting ELSE [pass[k] EXCEPT !.at = "differs"]]
  /\ UNCHANGED <<settledRuns, lostRuns, manifest, script, held, clock, misreads>>

\* The report is stamped when every task has been compared.
StampReport(k) ==
  /\ pass[k].at = "differs"
  /\ pass' = [pass EXCEPT ![k].at = "stamped", ![k].stamp = clock]
  /\ UNCHANGED <<settledRuns, lostRuns, manifest, script, held, clock, misreads>>

\* CorpusAudit.onReport: a report not newer than the one held is discarded.
\* Only the order of stamps tells anything, so seconds are counted from the
\* report held, whose second is 1; a stamp that is no newer is 0.
OnReport(k) ==
  /\ pass[k].at = "stamped"
  /\ IF held.at # 0 /\ pass[k].stamp <= held.at
     THEN pass' = [pass EXCEPT ![k] = Resting] /\ UNCHANGED <<held, clock>>
     ELSE LET past == pass[k].stamp - 1
          IN /\ held' = [Reported(k) EXCEPT !.at = 1]
             /\ clock' = clock - past
             /\ pass' = [j \in Passes |->
                  IF j = k THEN Resting
                  ELSE [pass[j] EXCEPT !.stamp = IF @ > past + 1 THEN @ - past ELSE 0]]
  /\ UNCHANGED <<settledRuns, lostRuns, manifest, script, misreads>>

\* "audit failed": the node or the app refuses, and the pass is over.
PassFails(k) ==
  /\ pass[k].at # "idle"
  /\ pass' = [pass EXCEPT ![k] = Resting]
  /\ UNCHANGED <<settledRuns, lostRuns, manifest, script, held, clock, misreads>>

\* The clock goes on when the second it shows is that of the report held.
NextSecond ==
  /\ held.at = clock
  /\ clock' = clock + 1
  /\ UNCHANGED <<settledRuns, lostRuns, manifest, script, held, pass, misreads>>

AuditNext ==
  \/ \E e \in Episodes : PayEpisode(e) \/ LoseEpisode(e)
  \/ ReadRuns \/ Commit \/ NextSecond
  \/ \E k \in Passes : \/ FetchServed(k) \/ ReadManifest(k) \/ MisreadManifest(k)
                       \/ CompareHeld(k) \/ StampReport(k) \/ OnReport(k)
                       \/ PassFails(k)

AuditSpec == AuditInit /\ [][AuditNext]_auditVars

\* A pass goes on to its end: a read or a report that is tried again and again
\* succeeds; and seconds pass.
PassFairness ==
  /\ WF_auditVars(NextSecond)
  /\ SF_auditVars(ReadManifest(Steady))
  /\ SF_auditVars(CompareHeld(Steady))
  /\ SF_auditVars(StampReport(Steady))
  /\ SF_auditVars(OnReport(Steady))

\* One keeper starts a pass every interval.
AuditFairness == WF_auditVars(FetchServed(Steady)) /\ PassFairness
-----------------------------------------------------------------------------
\* However far apart a pass reads the corpus and the manifest, what it writes as
\* "altered" differs in an episode the store lost, or one of the two lists is
\* full, which the counts of the report itself tell: a corpus that only grows
\* is never called altered before it fills a list (CorpusAudit.sol 37-38).
AlteredIsTrue ==
  held.verdict = "altered" =>
    \/ ((held.committed \ held.served) \cup (held.served \ held.committed)) \cap lostRuns # {}
    \/ Cardinality(held.committed) >= CommitLimit
    \/ Cardinality(held.served) >= ServeLimit

Truth == [served |-> Best(stored, ServeLimit), committed |-> Latest]

HeldIsTrue ==
  \/ Truth.served = {} /\ Truth.committed = {}
  \/ /\ held.served = Truth.served /\ held.committed = Truth.committed
     /\ held.verdict = Verdict(Truth.served, Truth.committed)

\* Once the corpus and the manifest stand still and are read, the audit on Arc comes to say
\* what is so, and keeps saying it: a stale pass cannot have the last word,
\* since a later pass finds the difference and stamps its report later
\* (CorpusAudit.sol 89).
AuditComesRight == <>[]HeldIsTrue
=============================================================================
