----------------------------- MODULE SnapshotStore -----------------------------
(***************************************************************************)
(* The store on MongoDB (lib/server/mongo-sql.ts): one document holds a    *)
(* version and the image of a SQLite database. A statement reads the       *)
(* document, upgrades and changes the image in memory, and replaces the    *)
(* document if its version is still the one read; otherwise it starts      *)
(* again, MAX_ATTEMPTS times at most. Several server instances do so at    *)
(* once. A connection may break while a replacement is on its way.         *)
(***************************************************************************)
EXTENDS Naturals

CONSTANTS
  Callers,         \* calls of query and run under way at once
  Statements, Writes,
  Run(_, _),       \* Run(s, i): image i after statement s
  Select(_, _),    \* Select(s, i): the rows query s returns on image i
  Migrate(_),      \* migrateSqlite
  Size(_),         \* bytes of an image
  Images, Rows,    \* images there may be, and what a query may return of them
  EmptyImage,      \* new Database(":memory:")
  OldImage,        \* what an earlier deployment left, version 1, if HasOld
  HasOld,
  NoSql, NoRows,
  MAX_ATTEMPTS, MAX_BYTES,
  MaxVersion       \* bound: no new call once the document is this far

VARIABLES
  corpus,          \* the document: version 0 stands for no document
  calls            \* calls[c]: one call of mongoSql

storeVars == <<corpus, calls>>

StoreAssumption ==
  /\ Writes \subseteq Statements
  /\ MAX_ATTEMPTS \in Nat \ {0} /\ MAX_BYTES \in Nat /\ MaxVersion \in Nat
  /\ HasOld \in BOOLEAN
  /\ EmptyImage \in Images /\ OldImage \in Images /\ NoRows \in Rows
  /\ \A i \in Images : /\ Migrate(i) \in Images
                       /\ \A s \in Writes : Run(s, Migrate(i)) \in Images
                       /\ \A s \in Statements \ Writes : Select(s, Migrate(i)) \in Rows
ASSUME StoreFacts == StoreAssumption

\* Tables and columns are added only where they are missing, and no statement
\* removes one: an upgraded image is upgraded for good.
MigrateAssumption ==
  \A i \in Images, s \in Writes : Migrate(Run(s, Migrate(i))) = Run(s, Migrate(i))
ASSUME MigrateFacts == MigrateAssumption

Document(version, image) == [version |-> version, image |-> image]

Idle == [at |-> "idle", sql |-> NoSql, attempt |-> 0,
         current |-> Document(0, EmptyImage), rows |-> NoRows, since |-> 0]

Over == {"idle", "answered", "busy", "full", "failed"}

FirstDocument == IF HasOld THEN Document(1, OldImage) ELSE Document(0, EmptyImage)

StoreInit ==
  /\ corpus = FirstDocument
  /\ calls = [c \in Callers |-> Idle]

InStage(c, stage) == calls[c].at = stage

Goto(c, stage) == calls' = [calls EXCEPT ![c].at = stage]

\* `since` is the version at the time of the call; the code does not keep it.
MongoSql(c, s) ==
  /\ calls[c].at \in Over
  /\ corpus.version < MaxVersion
  /\ calls' = [calls EXCEPT ![c] = [Idle EXCEPT !.at = "find", !.sql = s,
                                                !.since = corpus.version]]
  /\ UNCHANGED corpus

\* findOne; a query is answered from what was read.
FindOne(c) ==
  /\ InStage(c, "find")
  /\ calls' = [calls EXCEPT ![c].current = corpus,
       ![c].at = IF calls[c].sql \in Writes THEN "held" ELSE "done",
       ![c].rows = IF calls[c].sql \in Writes THEN NoRows
                   ELSE Select(calls[c].sql, Migrate(corpus.image))]
  /\ UNCHANGED corpus

NextImage(c) == Run(calls[c].sql, Migrate(calls[c].current.image))

TooLarge(c) ==
  /\ InStage(c, "held")
  /\ Size(NextImage(c)) > MAX_BYTES
  /\ Goto(c, "full")
  /\ UNCHANGED corpus

\* Mutant: the document is replaced whatever its version.
Wins_AnyVersion(c) == corpus.version >= calls[c].current.version

\* replaceOne on the version read, or insertOne when there was no document.
Wins(c) == corpus.version = calls[c].current.version

ReplaceOne(c) ==
  /\ InStage(c, "held")
  /\ Size(NextImage(c)) <= MAX_BYTES
  /\ Wins(c)
  /\ corpus' = Document(calls[c].current.version + 1, NextImage(c))
  /\ Goto(c, "done")

\* Mutant: the last round is not tried.
LoseRound_OneFewer(c) ==
  /\ InStage(c, "held")
  /\ Size(NextImage(c)) <= MAX_BYTES
  /\ ~Wins(c)
  /\ calls' = [calls EXCEPT ![c].attempt = @ + 1,
       ![c].at = IF calls[c].attempt + 2 < MAX_ATTEMPTS THEN "find" ELSE "busy"]
  /\ UNCHANGED corpus

\* modifiedCount is 0, or the insert met a duplicate key: from the start.
LoseRound(c) ==
  /\ InStage(c, "held")
  /\ Size(NextImage(c)) <= MAX_BYTES
  /\ ~Wins(c)
  /\ calls' = [calls EXCEPT ![c].attempt = @ + 1,
       ![c].at = IF calls[c].attempt + 1 < MAX_ATTEMPTS THEN "find" ELSE "busy"]
  /\ UNCHANGED corpus

Return(c) == InStage(c, "done") /\ Goto(c, "answered") /\ UNCHANGED corpus

\* The connection breaks, or the instance is stopped. A replacement that was
\* sent may still reach the database.
Disconnect(c) ==
  /\ \/ calls[c].at \in {"find", "held", "done"} /\ Goto(c, "failed")
     \/ InStage(c, "held") /\ Size(NextImage(c)) <= MAX_BYTES /\ Goto(c, "adrift")
  /\ UNCHANGED corpus

ReachesDatabase(c) ==
  /\ InStage(c, "adrift")
  /\ corpus' = IF Wins(c) THEN Document(calls[c].current.version + 1, NextImage(c))
               ELSE corpus
  /\ Goto(c, "failed")

StoreStep(c) ==
  \/ \E s \in Statements : MongoSql(c, s)
  \/ FindOne(c) \/ TooLarge(c) \/ ReplaceOne(c) \/ LoseRound(c)
  \/ Return(c) \/ Disconnect(c) \/ ReachesDatabase(c)

StoreNext == \E c \in Callers : StoreStep(c)

StoreSpec == StoreInit /\ [][StoreNext]_storeVars
-----------------------------------------------------------------------------
\* A call told "Corpus is busy" lost every one of its rounds to a write of
\* somebody else's: at least MAX_ATTEMPTS writes landed while it ran, so the
\* store as a whole never stands still (mongo-sql.ts 35-60).
BusyMeansOthersWrote ==
  \A c \in Callers :
    calls[c].at = "busy" => corpus.version >= calls[c].since + MAX_ATTEMPTS

AtomicStage(at) ==
  CASE at \in {"find", "held"} -> "asked"
    [] at = "done" -> "executed"
    [] at \in {"busy", "full"} -> "refused"
    [] OTHER -> at

table == Migrate(corpus.image)
asks == [c \in Callers |-> [at |-> AtomicStage(calls[c].at),
                            sql |-> calls[c].sql, rows |-> calls[c].rows]]

Atomic == INSTANCE AtomicStore WITH First <- Migrate(FirstDocument.image)

\* The rounds of read, change and compare-and-swap are one atomic statement on
\* the upgraded corpus: no write of another caller is lost under it, none is
\* applied twice however often the round is repeated, a refused call changed
\* nothing, and a query sees one moment of the corpus (mongo-sql.ts 6).
ImplementsAtomicStore == Atomic!AtomicSpec
=============================================================================
