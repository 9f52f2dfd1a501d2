-------------------------- MODULE SnapshotStoreProofs --------------------------
(***************************************************************************)
(* The store on MongoDB is one atomic statement at a time: the rounds of   *)
(* mongo-sql.ts implement AtomicStore, for every set of callers and        *)
(* statements and every bound on attempts and bytes.                       *)
(***************************************************************************)
EXTENDS SnapshotStore, TLAPS

Stages == Over \cup {"find", "held", "done", "adrift"}

Documents == [version : Nat, image : Images]

Calls == [at : Stages, sql : Statements \cup {NoSql}, attempt : Nat,
          current : Documents, rows : Rows, since : Nat]

StoreTypeOK == corpus \in Documents /\ calls \in [Callers -> Calls]

\* A call that holds an image knows a write; one that reads knows a statement
\* and has no rows yet.
CallsInOrder ==
  \A c \in Callers :
    /\ calls[c].at \in {"held", "adrift"} => calls[c].sql \in Writes
    /\ calls[c].at = "find" => calls[c].sql \in Statements
    /\ calls[c].at \in {"find", "held", "adrift"} => calls[c].rows = NoRows

\* The version tells the image: what a call holds is current if it would win.
HeldIsCurrent ==
  \A c \in Callers :
    calls[c].at \in {"held", "adrift"} =>
      /\ calls[c].current.version <= corpus.version
      /\ calls[c].current.version = corpus.version => calls[c].current = corpus

\* Each round lost was lost to a write of somebody else's.
RoundsLostToWrites ==
  \A c \in Callers :
    /\ calls[c].at \in {"find", "held"} =>
         corpus.version >= calls[c].since + calls[c].attempt
    /\ calls[c].at = "held" =>
         calls[c].current.version >= calls[c].since + calls[c].attempt
    /\ calls[c].at = "find" => calls[c].attempt < MAX_ATTEMPTS
    /\ calls[c].at = "held" => calls[c].attempt < MAX_ATTEMPTS

StoreInv ==
  /\ StoreTypeOK /\ CallsInOrder /\ HeldIsCurrent /\ RoundsLostToWrites
  /\ BusyMeansOthersWrote
-----------------------------------------------------------------------------
\* What the assumption on the constants gives, in the form the provers take it.
LEMMA ImagesClosed ==
  ASSUME NEW i \in Images
  PROVE  /\ Migrate(i) \in Images
         /\ \A s \in Writes : Run(s, Migrate(i)) \in Images
         /\ \A s \in Statements \ Writes : Select(s, Migrate(i)) \in Rows
         /\ \A s \in Writes : Migrate(Run(s, Migrate(i))) = Run(s, Migrate(i))
  BY StoreFacts, MigrateFacts DEF StoreAssumption, MigrateAssumption

\* A call that changes stage only, to one where nothing is held.
LEMMA GotoKeepsInv ==
  ASSUME StoreInv, NEW c \in Callers, NEW stage \in {"answered", "failed", "full"},
         Goto(c, stage), UNCHANGED corpus
  PROVE  StoreInv'
  <1>1. /\ calls' \in [Callers -> Calls]
        /\ calls'[c] = [calls[c] EXCEPT !.at = stage]
        /\ \A d \in Callers \ {c} : calls'[d] = calls[d]
    BY DEF StoreInv, StoreTypeOK, Calls, Stages, Over, Goto
  <1>2. /\ calls'[c].at = stage
        /\ \A d \in Callers : calls'[d].at \in {"find", "held", "adrift", "busy"} => d # c
    BY <1>1 DEF StoreInv, StoreTypeOK, Calls
  <1> QED
    BY <1>1, <1>2 DEF StoreInv, StoreTypeOK, CallsInOrder, HeldIsCurrent,
                      RoundsLostToWrites, BusyMeansOthersWrote

\* A write lands: what every other call holds is behind it.
LEMMA LandingKeepsInv ==
  ASSUME StoreInv, NEW c \in Callers, NEW stage \in {"done", "failed"},
         calls[c].at \in {"held", "adrift"}, Wins(c),
         corpus' = Document(calls[c].current.version + 1, NextImage(c)),
         Goto(c, stage)
  PROVE  StoreInv'
  <1>1. /\ calls' \in [Callers -> Calls]
        /\ calls'[c].at = stage
        /\ \A d \in Callers \ {c} : calls'[d] = calls[d]
        /\ \A d \in Callers : calls'[d].at \in {"find", "held", "adrift", "busy"} => d # c
    BY DEF StoreInv, StoreTypeOK, Calls, Stages, Over, Goto
  <1>2. corpus \in Documents /\ calls[c] \in Calls /\ calls[c].sql \in Writes
    BY DEF StoreInv, StoreTypeOK, CallsInOrder
  <1>3. NextImage(c) \in Images
    BY <1>2, ImagesClosed DEF NextImage, Calls, Documents
  <1>4. corpus' \in Documents /\ corpus'.version = corpus.version + 1
    BY <1>2, <1>3 DEF Wins, Document, Documents, Calls
  <1>5. \A d \in Callers \ {c} : calls[d] \in Calls
    BY DEF StoreInv, StoreTypeOK
  <1>6. CallsInOrder'
    BY <1>1 DEF StoreInv, CallsInOrder
  <1>7. HeldIsCurrent'
    BY <1>1, <1>2, <1>4, <1>5 DEF StoreInv, HeldIsCurrent, Calls, Documents
  <1>8. RoundsLostToWrites' /\ BusyMeansOthersWrote'
    BY <1>1, <1>2, <1>4, <1>5, StoreFacts
    DEF StoreInv, RoundsLostToWrites, BusyMeansOthersWrote, Calls, Documents, StoreAssumption
  <1> QED
    BY <1>1, <1>4, <1>6, <1>7, <1>8 DEF StoreInv, StoreTypeOK

LEMMA InitStoreInv == StoreInit => StoreInv
  <1> SUFFICES ASSUME StoreInit PROVE StoreInv
    OBVIOUS
  <1>1. corpus \in Documents
    BY StoreFacts DEF StoreInit, StoreAssumption, FirstDocument, Document, Documents
  <1>2. Idle \in Calls
    BY StoreFacts DEF StoreAssumption, Idle, Document, Documents, Calls, Stages, Over
  <1>3. calls \in [Callers -> Calls] /\ \A c \in Callers : calls[c].at = "idle"
    BY <1>2 DEF StoreInit, Idle
  <1> QED
    BY <1>1, <1>3 DEF StoreInv, StoreTypeOK, CallsInOrder, HeldIsCurrent,
                      RoundsLostToWrites, BusyMeansOthersWrote

LEMMA NextStoreInv == StoreInv /\ [StoreNext]_storeVars => StoreInv'
  <1> SUFFICES ASSUME StoreInv, [StoreNext]_storeVars PROVE StoreInv'
    OBVIOUS
  <1>1. CASE UNCHANGED storeVars
    BY <1>1 DEF storeVars, StoreInv, StoreTypeOK, CallsInOrder, HeldIsCurrent,
                RoundsLostToWrites, BusyMeansOthersWrote
  <1> SUFFICES ASSUME NEW c \in Callers, StoreStep(c) PROVE StoreInv'
    BY <1>1 DEF StoreNext
  <1>t. corpus \in Documents /\ calls \in [Callers -> Calls] /\ calls[c] \in Calls
    BY DEF StoreInv, StoreTypeOK
  <1>2. ASSUME NEW s \in Statements, MongoSql(c, s) PROVE StoreInv'
    <2>1. PICK asked : asked = [Idle EXCEPT !.at = "find", !.sql = s, !.since = corpus.version]
      OBVIOUS
    <2>2. /\ asked \in Calls
          /\ asked.at = "find" /\ asked.sql = s /\ asked.rows = NoRows
          /\ asked.attempt = 0 /\ asked.since = corpus.version
      BY <2>1, <1>t, StoreFacts
      DEF StoreAssumption, Idle, Document, Documents, Calls, Stages, Over
    <2>3. calls' = [calls EXCEPT ![c] = asked] /\ UNCHANGED corpus
      BY <1>2, <2>1 DEF MongoSql
    <2>4. StoreTypeOK' /\ CallsInOrder' /\ HeldIsCurrent'
      BY <1>t, <2>2, <2>3 DEF StoreInv, StoreTypeOK, CallsInOrder, HeldIsCurrent
    <2>5. RoundsLostToWrites' /\ BusyMeansOthersWrote'
      BY <1>t, <2>2, <2>3, StoreFacts
      DEF StoreInv, RoundsLostToWrites, BusyMeansOthersWrote, StoreAssumption, Documents
    <2> QED
      BY <2>4, <2>5 DEF StoreInv
  <1>3. CASE FindOne(c)
    <2>1. PICK found : found = calls'[c]
      OBVIOUS
    <2>2. found = [calls[c] EXCEPT !.current = corpus,
             !.at = IF calls[c].sql \in Writes THEN "held" ELSE "done",
             !.rows = IF calls[c].sql \in Writes THEN NoRows
                      ELSE Select(calls[c].sql, Migrate(corpus.image))]
      BY <1>3, <1>t, <2>1 DEF FindOne
    <2>3. /\ calls[c].at = "find" /\ calls[c].sql \in Statements /\ calls[c].rows = NoRows
          /\ calls[c].attempt < MAX_ATTEMPTS
          /\ corpus.version >= calls[c].since + calls[c].attempt
      BY <1>3 DEF FindOne, InStage, StoreInv, CallsInOrder, RoundsLostToWrites
    <2>4. (IF calls[c].sql \in Writes THEN NoRows
           ELSE Select(calls[c].sql, Migrate(corpus.image))) \in Rows
      BY <1>t, <2>3, ImagesClosed, StoreFacts DEF StoreAssumption, Documents
    <2>5. /\ found \in Calls
          /\ found.at \in {"held", "done"} /\ found.current = corpus
          /\ found.at = "held" => found.sql \in Writes /\ found.rows = NoRows
          /\ found.attempt = calls[c].attempt /\ found.since = calls[c].since
      BY <1>t, <2>2, <2>4 DEF Calls, Stages, Over
    <2>6. calls' = [calls EXCEPT ![c] = found] /\ UNCHANGED corpus
      BY <1>3, <1>t, <2>1 DEF FindOne
    <2>7. StoreTypeOK' /\ CallsInOrder'
      BY <1>t, <2>5, <2>6 DEF StoreInv, StoreTypeOK, CallsInOrder
    <2>8. HeldIsCurrent' /\ RoundsLostToWrites' /\ BusyMeansOthersWrote'
      BY <1>t, <2>3, <2>5, <2>6
      DEF StoreInv, HeldIsCurrent, RoundsLostToWrites, BusyMeansOthersWrote, Documents
    <2> QED
      BY <2>7, <2>8 DEF StoreInv
  <1>4. CASE TooLarge(c)
    BY <1>4, GotoKeepsInv DEF TooLarge
  <1>5. CASE ReplaceOne(c)
    BY <1>5, LandingKeepsInv DEF ReplaceOne, InStage
  <1>6. CASE LoseRound(c)
    <2> PICK stage : stage = IF calls[c].attempt + 1 < MAX_ATTEMPTS THEN "find" ELSE "busy"
      OBVIOUS
    <2>1. PICK lost : lost = [calls[c] EXCEPT !.attempt = calls[c].attempt + 1, !.at = stage]
      OBVIOUS
    <2>2. calls' = [calls EXCEPT ![c] = lost] /\ UNCHANGED corpus
      BY <1>6, <1>t, <2>1 DEF LoseRound
    <2>3. /\ calls[c].at = "held" /\ calls[c].sql \in Writes /\ calls[c].rows = NoRows
          /\ calls[c].current.version < corpus.version
          /\ calls[c].current.version >= calls[c].since + calls[c].attempt
      BY <1>6, <1>t
      DEF LoseRound, InStage, Wins, StoreInv, CallsInOrder, HeldIsCurrent,
          RoundsLostToWrites, Documents, Calls
    <2>4. /\ lost \in Calls /\ lost.at \in {"find", "busy"}
          /\ lost.attempt = calls[c].attempt + 1
          /\ lost.at = "find" => lost.attempt < MAX_ATTEMPTS
          /\ lost.at = "busy" => lost.attempt >= MAX_ATTEMPTS
          /\ lost.sql = calls[c].sql /\ lost.rows = calls[c].rows
          /\ lost.since = calls[c].since
      <3>1. /\ stage \in {"find", "busy"} /\ calls[c].attempt + 1 \in Nat
            /\ stage = "find" => calls[c].attempt + 1 < MAX_ATTEMPTS
            /\ stage = "busy" => calls[c].attempt + 1 >= MAX_ATTEMPTS
        BY <1>t, StoreFacts DEF Calls, StoreAssumption
      <3> QED
        BY <1>t, <2>1, <3>1 DEF Calls, Stages, Over
    <2>5. corpus.version >= lost.since + lost.attempt
      BY <1>t, <2>3, <2>4 DEF Calls, Documents
    <2>6. corpus.version >= lost.since + MAX_ATTEMPTS \/ lost.at = "find"
      BY <1>t, <2>4, <2>5, StoreFacts DEF Calls, Documents, StoreAssumption
    <2>7. StoreTypeOK' /\ CallsInOrder' /\ HeldIsCurrent'
      BY <1>t, <2>2, <2>3, <2>4, StoreFacts
      DEF StoreInv, StoreTypeOK, CallsInOrder, HeldIsCurrent, StoreAssumption
    <2>8. RoundsLostToWrites' /\ BusyMeansOthersWrote'
      BY <1>t, <2>2, <2>4, <2>5, <2>6
      DEF StoreInv, RoundsLostToWrites, BusyMeansOthersWrote
    <2> QED
      BY <2>7, <2>8 DEF StoreInv
  <1>7. CASE Return(c)
    BY <1>7, GotoKeepsInv DEF Return
  <1>8. CASE Disconnect(c)
    <2>1. CASE Goto(c, "failed")
      BY <1>8, <2>1, GotoKeepsInv DEF Disconnect
    <2>2. CASE InStage(c, "held") /\ Goto(c, "adrift")
      <3>1. /\ calls' \in [Callers -> Calls]
            /\ calls'[c] = [calls[c] EXCEPT !.at = "adrift"]
            /\ \A d \in Callers \ {c} : calls'[d] = calls[d]
        BY <1>t, <2>2 DEF Goto, Calls, Stages, Over
      <3>2. /\ calls[c].at = "held" /\ calls'[c].at = "adrift"
            /\ calls'[c].sql = calls[c].sql /\ calls'[c].rows = calls[c].rows
            /\ calls'[c].current = calls[c].current
        BY <1>t, <2>2, <3>1 DEF InStage, Calls
      <3>3. UNCHANGED corpus
        BY <1>8 DEF Disconnect
      <3>4. StoreTypeOK' /\ CallsInOrder'
        BY <3>1, <3>2, <3>3 DEF StoreInv, StoreTypeOK, CallsInOrder
      <3>5. HeldIsCurrent'
        <4> SUFFICES ASSUME NEW d \in Callers, calls'[d].at \in {"held", "adrift"}
                     PROVE  /\ calls'[d].current.version <= corpus.version
                            /\ calls'[d].current.version = corpus.version
                                 => calls'[d].current = corpus
          BY <3>3 DEF HeldIsCurrent
        <4>1. calls[d].at \in {"held", "adrift"} /\ calls'[d].current = calls[d].current
          BY <3>1, <3>2
        <4> QED
          BY <4>1 DEF StoreInv, HeldIsCurrent
      <3>6. RoundsLostToWrites' /\ BusyMeansOthersWrote'
        BY <3>1, <3>2, <3>3 DEF StoreInv, RoundsLostToWrites, BusyMeansOthersWrote
      <3> QED
        BY <3>4, <3>5, <3>6 DEF StoreInv
    <2> QED
      BY <1>8, <2>1, <2>2 DEF Disconnect
  <1>9. CASE ReachesDatabase(c)
    <2>1. CASE Wins(c)
      BY <1>9, <2>1, LandingKeepsInv DEF ReachesDatabase, InStage
    <2>2. CASE ~Wins(c)
      BY <1>9, <2>2, GotoKeepsInv DEF ReachesDatabase
    <2> QED
      BY <2>1, <2>2
  <1> QED
    BY <1>2, <1>3, <1>4, <1>5, <1>6, <1>7, <1>8, <1>9 DEF StoreStep

LEMMA SpecStoreInv == StoreSpec => []StoreInv
  BY InitStoreInv, NextStoreInv, PTL DEF StoreSpec

\* A call told "Corpus is busy" lost MAX_ATTEMPTS rounds, each to a write of
\* another caller that landed while it ran (mongo-sql.ts 35-60).
THEOREM SpecBusyMeansOthersWrote == StoreSpec => []BusyMeansOthersWrote
  <1>1. StoreInv => BusyMeansOthersWrote
    BY DEF StoreInv
  <1> QED
    BY <1>1, SpecStoreInv, PTL
-----------------------------------------------------------------------------
\* What a step does to the call of c, seen through the refinement mapping.
LEMMA AsksFollow ==
  ASSUME StoreInv, NEW c \in Callers, NEW made \in Calls,
         calls' = [calls EXCEPT ![c] = made]
  PROVE  asks' = [asks EXCEPT ![c] = [at |-> AtomicStage(made.at),
                                      sql |-> made.sql, rows |-> made.rows]]
  BY DEF StoreInv, StoreTypeOK, asks

LEMMA AsksMove ==
  ASSUME StoreInv, NEW c \in Callers, NEW stage \in Stages, Goto(c, stage)
  PROVE  asks' = [asks EXCEPT ![c].at = AtomicStage(stage)]
  <1>1. calls[c] \in Calls
    BY DEF StoreInv, StoreTypeOK
  <1> PICK made : made = [calls[c] EXCEPT !.at = stage]
    OBVIOUS
  <1>2. /\ made \in Calls /\ calls' = [calls EXCEPT ![c] = made]
        /\ made.at = stage /\ made.sql = calls[c].sql /\ made.rows = calls[c].rows
    BY <1>1 DEF Goto, Calls
  <1>3. asks' = [asks EXCEPT ![c] = [at |-> AtomicStage(stage),
                                     sql |-> calls[c].sql, rows |-> calls[c].rows]]
    BY <1>2, AsksFollow
  <1> QED
    BY <1>3 DEF asks

LEMMA AsksAre ==
  ASSUME NEW c \in Callers
  PROVE  /\ asks[c].at = AtomicStage(calls[c].at)
         /\ asks[c].sql = calls[c].sql /\ asks[c].rows = calls[c].rows
         /\ asks[c] = [at |-> AtomicStage(calls[c].at),
                       sql |-> calls[c].sql, rows |-> calls[c].rows]
  BY DEF asks

LEMMA InitAtomic == StoreInit => Atomic!AtomicInit
  BY DEF StoreInit, Atomic!AtomicInit, table, asks, Idle, AtomicStage

LEMMA NextAtomic ==
  StoreInv /\ [StoreNext]_storeVars => [Atomic!AtomicNext]_(Atomic!atomicVars)
  <1> SUFFICES ASSUME StoreInv, [StoreNext]_storeVars
               PROVE  Atomic!AtomicNext \/ UNCHANGED Atomic!atomicVars
    OBVIOUS
  <1>1. CASE UNCHANGED storeVars
    BY <1>1 DEF storeVars, Atomic!atomicVars, table, asks
  <1> SUFFICES ASSUME NEW c \in Callers, StoreStep(c)
               PROVE  Atomic!AtomicStep(c) \/ UNCHANGED Atomic!atomicVars
    BY <1>1 DEF StoreNext, Atomic!AtomicNext
  <1>t. corpus \in Documents /\ calls \in [Callers -> Calls] /\ calls[c] \in Calls
    BY DEF StoreInv, StoreTypeOK
  <1>u. UNCHANGED corpus => UNCHANGED table
    BY DEF table
  <1>2. ASSUME NEW s \in Statements, MongoSql(c, s) PROVE Atomic!Ask(c, s)
    <2>1. PICK asked : asked = [Idle EXCEPT !.at = "find", !.sql = s, !.since = corpus.version]
      OBVIOUS
    <2>2. asked \in Calls /\ asked.at = "find" /\ asked.sql = s /\ asked.rows = NoRows
      BY <2>1, <1>t, StoreFacts
      DEF StoreAssumption, Idle, Document, Documents, Calls, Stages, Over
    <2>3. calls' = [calls EXCEPT ![c] = asked] /\ UNCHANGED corpus
      BY <1>2, <2>1 DEF MongoSql
    <2>4. asks' = [asks EXCEPT ![c] = [at |-> "asked", sql |-> s, rows |-> NoRows]]
      BY <2>2, <2>3, AsksFollow DEF AtomicStage
    <2>5. asks[c].at \in {"idle", "answered", "refused", "failed"}
      BY <1>2, AsksAre DEF MongoSql, Over, AtomicStage
    <2> QED
      BY <1>u, <2>3, <2>4, <2>5 DEF Atomic!Ask, Atomic!Ended
  <1>3. CASE FindOne(c)
    <2>1. PICK found : found = calls'[c]
      OBVIOUS
    <2>2. found = [calls[c] EXCEPT !.current = corpus,
             !.at = IF calls[c].sql \in Writes THEN "held" ELSE "done",
             !.rows = IF calls[c].sql \in Writes THEN NoRows
                      ELSE Select(calls[c].sql, Migrate(corpus.image))]
      BY <1>3, <1>t, <2>1 DEF FindOne
    <2>3. /\ calls[c].at = "find" /\ calls[c].sql \in Statements /\ calls[c].rows = NoRows
      BY <1>3 DEF FindOne, InStage, StoreInv, CallsInOrder
    <2>4. calls' = [calls EXCEPT ![c] = found] /\ UNCHANGED corpus
      BY <1>3, <1>t, <2>1 DEF FindOne
    <2>5. asks[c].at = "asked" /\ asks[c].sql = calls[c].sql /\ asks[c].rows = NoRows
      BY <2>3, AsksAre DEF AtomicStage
    <2>6. CASE calls[c].sql \in Writes
      <3>1. found.at = "held" /\ found.sql = calls[c].sql /\ found.rows = NoRows /\ found \in Calls
        BY <1>t, <2>2, <2>6, StoreFacts DEF StoreAssumption, Calls, Stages, Over
      <3>2. asks' = [asks EXCEPT ![c] = [at |-> "asked", sql |-> calls[c].sql, rows |-> NoRows]]
        BY <2>4, <3>1, AsksFollow DEF AtomicStage
      <3>3. asks[c] = [at |-> "asked", sql |-> calls[c].sql, rows |-> NoRows]
        BY <2>3, AsksAre DEF AtomicStage
      <3>4. asks' = [asks EXCEPT ![c] = asks[c]]
        BY ONLY <3>2, <3>3, Zenon
      <3>5. asks' = asks
        BY <3>4 DEF asks
      <3> QED
        BY <1>u, <2>4, <3>5 DEF Atomic!atomicVars
    <2>7. CASE calls[c].sql \notin Writes
      <3>1. PICK rows : rows = Select(calls[c].sql, Migrate(corpus.image))
        OBVIOUS
      <3>2. rows \in Rows
        BY <1>t, <2>3, <2>7, <3>1, ImagesClosed DEF Documents
      <3>3. found.at = "done" /\ found.sql = calls[c].sql /\ found.rows = rows /\ found \in Calls
        BY <1>t, <2>2, <2>7, <3>1, <3>2 DEF Calls, Stages, Over
      <3>4. asks' = [asks EXCEPT ![c] = [at |-> "executed", sql |-> calls[c].sql, rows |-> rows]]
        BY <2>4, <3>3, AsksFollow DEF AtomicStage
      <3>5. rows = Select(calls[c].sql, table)
        BY <3>1 DEF table
      <3>6. Atomic!Effect(c, "executed")
        <4>1. table' = table
          BY <1>u, <2>4
        <4> QED
          BY ONLY <4>1, <2>5, <2>7, <3>4, <3>5 DEF Atomic!Effect
      <3> QED
        BY <2>5, <3>6 DEF Atomic!AtomicStep, Atomic!Execute, Atomic!At
    <2> QED
      BY <2>6, <2>7
  <1>4. CASE TooLarge(c)
    <2>1. asks[c].at = "asked" /\ UNCHANGED table
      BY <1>4, <1>u, AsksAre DEF TooLarge, InStage, AtomicStage
    <2>2. asks' = [asks EXCEPT ![c].at = "refused"]
      BY <1>4, AsksMove DEF TooLarge, AtomicStage, Stages, Over
    <2> QED
      BY <2>1, <2>2 DEF Atomic!AtomicStep, Atomic!Refuse, Atomic!At, Atomic!Turn
  <1>l. ASSUME NEW stage \in {"done", "failed"}, calls[c].at \in {"held", "adrift"}, Wins(c),
               corpus' = Document(calls[c].current.version + 1, NextImage(c)), Goto(c, stage)
        PROVE  asks[c].sql \in Writes /\ Atomic!Effect(c, AtomicStage(stage))
    <2>1. corpus = calls[c].current /\ calls[c].sql \in Writes /\ calls[c].rows = NoRows
      BY <1>l DEF Wins, StoreInv, CallsInOrder, HeldIsCurrent
    <2>2. table' = Run(calls[c].sql, table)
      <3>1. corpus'.image = Run(calls[c].sql, Migrate(corpus.image))
        BY <1>l, <2>1 DEF Document, NextImage
      <3>2. Migrate(Run(calls[c].sql, Migrate(corpus.image)))
              = Run(calls[c].sql, Migrate(corpus.image))
        BY <1>t, <2>1, ImagesClosed DEF Documents
      <3> QED
        BY <3>1, <3>2 DEF table
    <2>3. asks' = [asks EXCEPT ![c].at = AtomicStage(stage)]
      BY <1>l, AsksMove DEF Stages, Over
    <2>4. asks[c] = [at |-> AtomicStage(calls[c].at), sql |-> calls[c].sql, rows |-> NoRows]
      BY <2>1, AsksAre
    <2>5. [asks[c] EXCEPT !.at = AtomicStage(stage)]
            = [at |-> AtomicStage(stage), sql |-> calls[c].sql, rows |-> NoRows]
      BY <2>4
    <2>6. asks' = [asks EXCEPT ![c] = [asks[c] EXCEPT !.at = AtomicStage(stage)]]
      BY ONLY <2>3
    <2>7. asks' = [asks EXCEPT ![c] = [at |-> AtomicStage(stage), sql |-> calls[c].sql,
                                       rows |-> NoRows]]
      BY ONLY <2>5, <2>6, Zenon
    <2>8. asks[c].sql = calls[c].sql
      BY <2>4
    <2> QED
      BY <2>1, <2>2, <2>7, <2>8 DEF Atomic!Effect
  <1>5. CASE ReplaceOne(c)
    <2>1. calls[c].at = "held" /\ asks[c].at = "asked"
      BY <1>5, AsksAre DEF ReplaceOne, InStage, AtomicStage
    <2>2. Atomic!Effect(c, "executed")
      BY <1>5, <1>l, <2>1 DEF ReplaceOne, AtomicStage
    <2> QED
      BY <2>1, <2>2 DEF Atomic!AtomicStep, Atomic!Execute, Atomic!At
  <1>6. CASE LoseRound(c)
    <2> PICK stage : stage = IF calls[c].attempt + 1 < MAX_ATTEMPTS THEN "find" ELSE "busy"
      OBVIOUS
    <2>1. PICK lost : lost = [calls[c] EXCEPT !.attempt = calls[c].attempt + 1, !.at = stage]
      OBVIOUS
    <2>2. calls' = [calls EXCEPT ![c] = lost] /\ UNCHANGED corpus
      BY <1>6, <1>t, <2>1 DEF LoseRound
    <2>3. calls[c].at = "held" /\ asks[c].at = "asked"
      BY <1>6, AsksAre DEF LoseRound, InStage, AtomicStage
    <2>4. /\ lost \in Calls /\ lost.at = stage /\ stage \in {"find", "busy"}
          /\ lost.sql = calls[c].sql /\ lost.rows = calls[c].rows
      <3>1. stage \in {"find", "busy"} /\ calls[c].attempt + 1 \in Nat
        BY <1>t DEF Calls
      <3> QED
        BY <1>t, <2>1, <3>1 DEF Calls, Stages, Over
    <2>5. asks' = [asks EXCEPT ![c] = [at |-> AtomicStage(stage), sql |-> calls[c].sql,
                                       rows |-> calls[c].rows]]
      BY <2>2, <2>4, AsksFollow
    <2>6. asks' = [asks EXCEPT ![c].at = AtomicStage(stage)]
      BY <2>5 DEF asks
    <2>7. CASE stage = "find"
      <3>1. AtomicStage(calls[c].at) = AtomicStage(stage)
        BY <2>3, <2>7 DEF AtomicStage
      <3>2. asks' = [asks EXCEPT ![c] = asks[c]]
        BY <2>5, <3>1, AsksAre, Zenon
      <3>3. asks' = asks
        BY <3>2 DEF asks
      <3> QED
        BY <1>u, <2>2, <3>3 DEF Atomic!atomicVars
    <2>8. CASE stage = "busy"
      <3>1. asks' = [asks EXCEPT ![c].at = "refused"]
        BY <2>6, <2>8 DEF AtomicStage
      <3> QED
        BY <1>u, <2>2, <2>3, <3>1
        DEF Atomic!AtomicStep, Atomic!Refuse, Atomic!At, Atomic!Turn
    <2> QED
      BY <2>4, <2>7, <2>8
  <1>7. CASE Return(c)
    <2>1. asks[c].at = "executed" /\ UNCHANGED table
      BY <1>7, <1>u, AsksAre DEF Return, InStage, AtomicStage
    <2>2. asks' = [asks EXCEPT ![c].at = "answered"]
      BY <1>7, AsksMove DEF Return, AtomicStage, Stages, Over
    <2> QED
      BY <2>1, <2>2 DEF Atomic!AtomicStep, Atomic!Answer, Atomic!At, Atomic!Turn
  <1>8. CASE Disconnect(c)
    <2>1. /\ asks[c].at \in {"asked", "executed"} /\ UNCHANGED table
          /\ InStage(c, "held") => asks[c].at = "asked"
      BY <1>8, <1>u, AsksAre DEF Disconnect, InStage, AtomicStage
    <2>2. CASE Goto(c, "failed")
      <3>1. asks' = [asks EXCEPT ![c].at = "failed"]
        BY <2>2, AsksMove DEF AtomicStage, Stages, Over
      <3> QED
        BY <2>1, <3>1 DEF Atomic!AtomicStep, Atomic!Break, Atomic!At, Atomic!Turn
    <2>3. CASE InStage(c, "held") /\ Goto(c, "adrift")
      <3>1. asks' = [asks EXCEPT ![c].at = "adrift"]
        BY <2>3, AsksMove DEF AtomicStage, Stages, Over
      <3> QED
        BY <2>1, <2>3, <3>1 DEF Atomic!AtomicStep, Atomic!Break, Atomic!At, Atomic!Turn
    <2> QED
      BY <1>8, <2>2, <2>3 DEF Disconnect
  <1>9. CASE ReachesDatabase(c)
    <2>1. calls[c].at = "adrift" /\ asks[c].at = "adrift" /\ Goto(c, "failed")
      BY <1>9, AsksAre DEF ReachesDatabase, InStage, AtomicStage
    <2>2. asks' = [asks EXCEPT ![c].at = "failed"]
      BY <2>1, AsksMove DEF AtomicStage, Stages, Over
    <2>3. CASE Wins(c)
      <3>1. asks[c].sql \in Writes /\ Atomic!Effect(c, "failed")
        BY <1>9, <1>l, <2>1, <2>3 DEF ReachesDatabase, AtomicStage
      <3> QED
        BY <2>1, <3>1 DEF Atomic!AtomicStep, Atomic!Arrive, Atomic!At
    <2>4. CASE ~Wins(c)
      <3>1. UNCHANGED table
        BY <1>9, <1>u, <2>4 DEF ReachesDatabase
      <3> QED
        BY <2>1, <2>2, <3>1 DEF Atomic!AtomicStep, Atomic!Arrive, Atomic!At, Atomic!Turn
    <2> QED
      BY <2>3, <2>4
  <1> QED
    BY <1>2, <1>3, <1>4, <1>5, <1>6, <1>7, <1>8, <1>9 DEF StoreStep, Atomic!AtomicStep

\* Every behaviour of the rounds of read, change and compare-and-swap is one of
\* an atomic store: no write is lost under another caller's, none is applied
\* twice, a refused call changed nothing (mongo-sql.ts 6, 40-61).
THEOREM SpecImplementsAtomicStore == StoreSpec => ImplementsAtomicStore
  BY InitAtomic, NextAtomic, SpecStoreInv, PTL
  DEF StoreSpec, ImplementsAtomicStore, Atomic!AtomicSpec
=============================================================================
