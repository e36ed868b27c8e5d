------------------------ MODULE StateDirectoryProofs ------------------------
(* What holds of the store and of its database apart holds of the two       *)
(* together.                                                               *)
EXTENDS StateDirectory, ArtifactStoreProofs

(* A behaviour of the directory is one of the store, and one of the         *)
(* database: neither does to the other what it does not do to itself.      *)
THEOREM Composition == DirectorySpec => Spec /\ Setup!Spec
<1>1. DirectoryInit => Init /\ Setup!Init
  BY DEF DirectoryInit
<1>2. [DirectoryNext]_directory => [Next]_vars
  BY DEF DirectoryNext, directory, Prepare, BeginOpened, Proceed, Next, Step,
         Ingesting
<1>3. [DirectoryNext]_directory => [Setup!Next]_(Setup!vars)
  <2>1. Prepare => Setup!Next
    BY DEF Prepare, Setup!Next, Setup!Step
  <2>2. ASSUME NEW p \in Procs, BeginOpened(p) PROVE Setup!Next
    BY <2>2 DEF BeginOpened, Setup!Next, Setup!Step
  <2>3. PowerLoss /\ Setup!Halt => Setup!Next
    BY DEF Setup!Next
  <2> QED
    BY <2>1, <2>2, <2>3
    DEF DirectoryNext, directory, setup, Setup!vars, Proceed
<1> QED
  BY <1>1, <1>2, <1>3, PTL DEF DirectorySpec, Spec, Setup!Spec

(* Committed rows have their files, in a directory that others initialize   *)
(* and open at the same time.                                              *)
THEOREM DirectoryBacked == DirectorySpec => []Backed
BY Composition, RowsAreBacked, PTL
-----------------------------------------------------------------------------
\* A directory that irez may have in hands: none yet, an empty file, one of
\* another version, or a complete one.
Known(d) ==
    \/ d = NoDatabase
    \/ d = Setup!Empty
    \/ d \in Setup!Database /\ Setup!HasSchema(d) /\ (d.version = Current => Setup!Complete(d))

\* What a transaction has seen, and what it has written if it has the lock.
Viewed(p) ==
    /\ place[p] = "migrate" => view[p] = Setup!Empty /\ holder # p
    /\ place[p] = "investigation" /\ holder # p =>
          Setup!Complete(view[p]) /\ schema = view[p]
    /\ place[p] = "investigation" /\ holder = p =>
          view[p] = Setup!Migrated(Setup!Empty) /\ schema = Setup!Empty
    /\ place[p] \in {"tables", "ready"} => schema # NoDatabase /\ Setup!Complete(schema)
    /\ place[p] = "answered" =>
          schema # NoDatabase /\ Setup!Complete(schema)
          /\ schema.investigations = {answer[p]}

\* The inductive invariant.
Sane ==
    /\ Known(schema)
    /\ holder \in Procs \cup {NoProc}
    /\ place \in [Procs -> Setup!Quiet \cup Setup!Initializing \cup {"tables"}]
    /\ view \in [Procs -> Setup!Database]
    /\ answer \in [Procs -> Ids \cup {NoId}]
    /\ \A p \in Procs : place[p] # "corrupt"
    /\ holder \in Procs => place[holder] = "investigation"
    /\ \A p \in Procs : Viewed(p)

\* What is known of one process that does not take a step, after one that
\* changes nothing of the database for it.
Untouched(p) ==
    /\ place'[p] = place[p] /\ view'[p] = view[p] /\ answer'[p] = answer[p]
    /\ holder' = p <=> holder = p

(* The constants tell the kinds of databases apart.                        *)
LEMMA Kinds ==
  ASSUME Setup!SetupConstants
  PROVE  /\ Setup!Empty \in Setup!Database /\ Setup!Empty # NoDatabase /\ ~Setup!HasSchema(Setup!Empty)
         /\ Setup!Migrated(Setup!Empty) \in Setup!Database
         /\ \A id \in Ids :
               LET d == [Setup!Migrated(Setup!Empty) EXCEPT !.investigations = {id}]
               IN  d \in Setup!Database /\ Setup!Complete(d) /\ Setup!HasSchema(d) /\ d # NoDatabase
<1> USE DEF Setup!SetupConstants
<1>1. Setup!Empty \in Setup!Database /\ ~Setup!HasSchema(Setup!Empty)
  BY DEF Setup!Empty, Setup!Database, Setup!HasSchema
<1>2. Setup!Migrated(Setup!Empty) = [version |-> Current, tables |-> Setup!Migrations,
                         investigations |-> {}]
  BY DEF Setup!Migrated, Setup!Empty
<1>3. ASSUME NEW id \in Ids
      PROVE  LET d == [Setup!Migrated(Setup!Empty) EXCEPT !.investigations = {id}]
             IN  d \in Setup!Database /\ Setup!Complete(d) /\ Setup!HasSchema(d) /\ d # NoDatabase
  <2>1. [Setup!Migrated(Setup!Empty) EXCEPT !.investigations = {id}]
        = [version |-> Current, tables |-> Setup!Migrations, investigations |-> {id}]
    <3>1. ASSUME NEW m, m = [version |-> Current, tables |-> Setup!Migrations,
                             investigations |-> {}]
          PROVE  [m EXCEPT !.investigations = {id}]
                 = [version |-> Current, tables |-> Setup!Migrations,
                    investigations |-> {id}]
      BY <3>1
    <3> QED
      BY <1>2, <3>1
  <2> DEFINE d == [version |-> Current, tables |-> Setup!Migrations,
                 investigations |-> {id}]
  <2>3. d \in Setup!Database
    BY DEF Setup!Database
  <2>4. Setup!Complete(d) /\ Setup!HasSchema(d)
    BY DEF Setup!Complete, Setup!HasSchema, Setup!Migrations
  <2> QED
    BY <2>1, <2>3, <2>4
<1> QED
  BY <1>1, <1>2, <1>3 DEF Setup!Database

(* A database without a schema is an empty file, one with the schema of     *)
(* this version is complete.                                               *)
LEMMA KnownDatabases ==
  ASSUME Setup!SetupConstants, Known(schema), schema # NoDatabase
  PROVE  /\ schema \in Setup!Database
         /\ ~Setup!HasSchema(schema) => schema = Setup!Empty
         /\ Setup!HasSchema(schema) /\ schema.version = Current => Setup!Complete(schema)
BY Kinds DEF Known

(* A process that has come far enough finds a complete database.           *)
LEMMA InitSane ==
  ASSUME Setup!SetupConstants
  PROVE  Setup!Init => Sane
<1> SUFFICES ASSUME Setup!Init PROVE Sane
  OBVIOUS
<1> USE DEF Setup!SetupConstants
<1>1. Known(schema)
  BY DEF Setup!Init, Known
<1>2. \A p \in Procs : Viewed(p)
  BY DEF Setup!Init, Viewed
<1> QED
  BY <1>1, <1>2, Kinds DEF Setup!Init, Sane, Setup!Quiet

(* No step of init or of a command that opens the database breaks that.    *)
LEMMA SaneStep ==
  ASSUME Setup!SetupConstants
  PROVE  Sane /\ [Setup!Next]_(Setup!vars) => Sane'
<1> SUFFICES ASSUME Sane, [Setup!Next]_(Setup!vars) PROVE Sane'
  OBVIOUS
<1> USE DEF Setup!Quiet, Setup!Initializing, Setup!SetupConstants
<1>1. ASSUME NEW p \in Procs, Setup!Begin(p) PROVE Sane'
  <2>1. schema' \in Setup!Database /\ schema' # NoDatabase /\ Known(schema')
        /\ (schema # NoDatabase => schema' = schema)
        /\ (schema = NoDatabase => schema' = Setup!Empty)
    BY <1>1, Kinds, KnownDatabases DEF Setup!Begin, Sane, Known
  <2>2. /\ holder' = holder /\ holder # p
        /\ place' \in [Procs -> Setup!Quiet \cup Setup!Initializing \cup {"tables"}]
        /\ view' \in [Procs -> Setup!Database]
        /\ answer' \in [Procs -> Ids \cup {NoId}]
        /\ \A q \in Procs : place'[q] # "corrupt"
        /\ \A q \in Procs \ {p} : Untouched(q)
    BY <1>1, <2>1 DEF Setup!Begin, Sane, Setup!Go, Untouched
  <2>3. Viewed(p)'
    <3>1. CASE ~Setup!HasSchema(schema')
      BY <1>1, <2>1, <2>2, <3>1, Kinds
      DEF Setup!Begin, Setup!Go, Viewed, Sane, Known
    <3>2. CASE Setup!HasSchema(schema') /\ schema'.version = Current
      <4>1. Setup!Complete(schema')
        BY <2>1, <3>2, Kinds DEF Known
      <4> QED
        BY <1>1, <2>1, <2>2, <3>2, <4>1 DEF Setup!Begin, Setup!Go, Viewed, Sane
    <3>3. CASE Setup!HasSchema(schema') /\ schema'.version # Current
      BY <1>1, <2>1, <2>2, <3>3 DEF Setup!Begin, Setup!Go, Viewed, Sane
    <3> QED
      BY <3>1, <3>2, <3>3
  <2>4. ASSUME NEW q \in Procs \ {p} PROVE Viewed(q)'
    <3>1. Viewed(q) /\ Untouched(q)
      BY <2>2 DEF Sane
    <3>2. schema = NoDatabase => place[q] \notin {"tables", "ready", "answered", "investigation"}
      BY <3>1, Kinds DEF Viewed, Sane
    <3> QED
      BY <2>1, <3>1, <3>2 DEF Viewed, Untouched
  <2>5. holder' \in Procs => place'[holder'] = "investigation"
    BY <1>1, <2>2 DEF Sane, Untouched
  <2> QED
    BY <2>1, <2>2, <2>3, <2>4, <2>5 DEF Sane
<1>2. ASSUME NEW p \in Procs, Setup!Migrate(p) PROVE Sane'
  <2>1. holder = NoProc /\ schema = Setup!Empty /\ view[p] = Setup!Empty /\ holder' = p
        /\ schema' = schema
    BY <1>2 DEF Setup!Migrate, Setup!MayWrite, Sane, Viewed
  <2>2. /\ place' \in [Procs -> Setup!Quiet \cup Setup!Initializing \cup {"tables"}]
        /\ view' \in [Procs -> Setup!Database] /\ view'[p] = Setup!Migrated(Setup!Empty)
        /\ place'[p] = "investigation"
        /\ answer' = answer
        /\ \A q \in Procs : place'[q] # "corrupt"
        /\ \A q \in Procs \ {p} : Untouched(q)
    BY <1>2, <2>1, Kinds DEF Setup!Migrate, Sane, Setup!Go, Untouched
  <2>3. ASSUME NEW q \in Procs \ {p} PROVE Viewed(q)'
    BY <2>1, <2>2 DEF Sane, Viewed, Untouched
  <2>4. Viewed(p)'
    BY <2>1, <2>2 DEF Viewed
  <2> QED
    BY <2>1, <2>2, <2>3, <2>4 DEF Sane
<1>3. ASSUME NEW p \in Procs, Setup!FindInvestigation(p) PROVE Sane'
  <2>1. holder # p /\ schema = view[p] /\ Setup!Complete(schema) /\ schema # NoDatabase
    <3>1. holder # p
      BY <1>3
      DEF Setup!FindInvestigation, Sane, Viewed, Setup!Migrated, Setup!Empty
    <3> QED
      BY <1>3, <3>1 DEF Setup!FindInvestigation, Sane, Viewed
  <2>2. schema' = schema /\ holder' = holder
    BY <1>3, <2>1 DEF Setup!FindInvestigation, Setup!CommitOf, Setup!End
  <2>3. /\ place' \in [Procs -> Setup!Quiet \cup Setup!Initializing \cup {"tables"}]
        /\ view' \in [Procs -> Setup!Database]
        /\ answer' \in [Procs -> Ids \cup {NoId}]
        /\ place'[p] = "answered"
        /\ \A q \in Procs : place'[q] # "corrupt"
        /\ \A q \in Procs \ {p} : Untouched(q)
    BY <1>3, <2>1, <2>2, Kinds
    DEF Setup!FindInvestigation, Setup!End, Sane, Setup!Go, Untouched,
        Setup!Complete
  <2>4. schema'.investigations = {answer'[p]}
    BY <1>3, <2>1, <2>2 DEF Setup!FindInvestigation, Setup!Complete, Sane
  <2>5. Viewed(p)'
    BY <2>1, <2>2, <2>3, <2>4 DEF Viewed, Setup!Complete
  <2>6. \A q \in Procs \ {p} : Viewed(q)'
    BY <2>2, <2>3 DEF Sane, Viewed, Untouched
  <2> QED
    BY <2>1, <2>2, <2>3, <2>5, <2>6 DEF Sane, Untouched
<1>4. ASSUME NEW p \in Procs, Setup!AddInvestigation(p) PROVE Sane'
  <2>1. holder = p /\ schema = Setup!Empty /\ view[p] = Setup!Migrated(Setup!Empty)
    <3>1. holder = p
      BY <1>4 DEF Setup!AddInvestigation, Sane, Viewed, Setup!Complete
    <3> QED
      BY <1>4, <3>1 DEF Setup!AddInvestigation, Sane, Viewed
  <2>2. PICK id \in Ids :
          /\ schema' = [Setup!Migrated(Setup!Empty) EXCEPT !.investigations = {id}]
          /\ answer' = [answer EXCEPT ![p] = id]
    BY <1>4, <2>1 DEF Setup!AddInvestigation
  <2>3. /\ schema' \in Setup!Database /\ Setup!Complete(schema') /\ Setup!HasSchema(schema')
        /\ schema' # NoDatabase /\ schema'.investigations = {id}
    BY <2>2, Kinds DEF Setup!Migrated, Setup!Empty
  <2>4. /\ place' \in [Procs -> Setup!Quiet \cup Setup!Initializing \cup {"tables"}]
        /\ view' \in [Procs -> Setup!Database]
        /\ answer' \in [Procs -> Ids \cup {NoId}]
        /\ place'[p] = "answered" /\ answer'[p] = id /\ holder' = NoProc
        /\ \A q \in Procs : place'[q] # "corrupt"
        /\ \A q \in Procs \ {p} : Untouched(q)
    BY <1>4, <2>1, <2>2, Kinds
    DEF Setup!AddInvestigation, Setup!End, Sane, Setup!Go, Untouched
  <2>5. ASSUME NEW q \in Procs \ {p} PROVE Viewed(q)'
    <3>1. place[q] \notin {"tables", "ready", "answered", "investigation"}
      BY <2>1, Kinds
      DEF Sane, Viewed, Setup!Complete, Setup!Empty, Setup!HasSchema
    <3> QED
      BY <2>4, <3>1 DEF Sane, Viewed, Untouched
  <2>6. Viewed(p)'
    BY <2>3, <2>4 DEF Viewed
  <2> QED
    BY <2>3, <2>4, <2>5, <2>6 DEF Sane, Known, Setup!Complete
<1>5. ASSUME NEW p \in Procs, Setup!Open(p) \/ Setup!Use(p) PROVE Sane'
  <2>1. /\ schema' = schema /\ holder' = holder /\ view' = view
        /\ holder # p
    BY <1>5 DEF Setup!Open, Setup!Connect, Setup!CountTables, Setup!Use, Sane
  <2>2. place'[p] \in {"tables", "ready"} =>
          schema # NoDatabase /\ Setup!Complete(schema)
    BY <1>5, KnownDatabases
    DEF Setup!Open, Setup!Connect, Setup!CountTables, Setup!Use, Setup!Go,
        Sane, Viewed
  <2>3. place'[p] \in {"tables", "ready", "idle"}
    BY <1>5
    DEF Setup!Open, Setup!Connect, Setup!CountTables, Setup!Use, Setup!Go,
        Sane, Viewed, Setup!Complete
  <2>4. /\ place' \in [Procs -> Setup!Quiet \cup Setup!Initializing \cup {"tables"}]
        /\ answer' \in [Procs -> Ids \cup {NoId}]
        /\ \A q \in Procs \ {p} : Untouched(q)
    BY <1>5, <2>1, <2>3
    DEF Setup!Open, Setup!Connect, Setup!CountTables, Setup!Use, Setup!Go,
        Sane, Untouched
  <2>5. Viewed(p)'
    BY <2>1, <2>2, <2>3 DEF Viewed
  <2>6. \A q \in Procs \ {p} : Viewed(q)'
    BY <2>1, <2>4 DEF Sane, Viewed, Untouched
  <2> QED
    BY <2>1, <2>3, <2>4, <2>5, <2>6 DEF Sane, Untouched
<1>6. ASSUME NEW p \in Procs, Setup!Fail(p) PROVE Sane'
  <2>1. /\ schema' = schema /\ answer' = answer
        /\ place' \in [Procs -> Setup!Quiet \cup Setup!Initializing \cup {"tables"}]
        /\ view' \in [Procs -> Setup!Database]
        /\ place'[p] = "idle"
        /\ holder' \in Procs \cup {NoProc} /\ holder' # p
        /\ (holder' \in Procs => holder' = holder)
        /\ \A q \in Procs \ {p} : Untouched(q)
    BY <1>6, Kinds DEF Setup!Fail, Setup!End, Setup!Go, Sane, Untouched
  <2>2. \A q \in Procs \ {p} : Viewed(q)'
    BY <2>1 DEF Sane, Viewed, Untouched
  <2>3. Viewed(p)'
    BY <2>1 DEF Viewed
  <2> QED
    BY <2>1, <2>2, <2>3 DEF Sane, Untouched
<1>7. CASE Setup!Halt
  BY <1>7, Kinds DEF Setup!Halt, Sane, Viewed
<1>8. CASE UNCHANGED Setup!vars
  BY <1>8 DEF Setup!vars, Sane, Viewed
<1> QED
  BY <1>1, <1>2, <1>3, <1>4, <1>5, <1>6, <1>7, <1>8
  DEF Setup!Next, Setup!Step, Setup!Initialize

(* In every reachable state, each process sees what Sane says.             *)
THEOREM AlwaysSane == Setup!Spec => []Sane
BY DirectoryConstants, InitSane, SaneStep, PTL DEF Setup!Spec

(* All inits that succeed, however they meet each other and the ingests of  *)
(* the same directory, answer with the one id that is stored.              *)
THEOREM OneInvestigationHolds == DirectorySpec => []OneInvestigation
<1>1. Sane => OneInvestigation
  BY DEF Sane, Viewed, OneInvestigation, Setup!OneInvestigation
<1> QED
  BY <1>1, Composition, AlwaysSane, PTL

(* No command takes a directory that irez has made for half made, or for a *)
(* ready one that is not.                                                  *)
THEOREM NeverHalfMadeHolds == DirectorySpec => []NeverHalfMade
<1>1. Sane => NeverHalfMade
  BY DEF Sane, Viewed, NeverHalfMade, Setup!NeverHalfMade
<1> QED
  BY <1>1, Composition, AlwaysSane, PTL
=============================================================================
