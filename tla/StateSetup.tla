----------------------------- MODULE StateSetup -----------------------------
(***************************************************************************)
(* The database file of a state directory: irez init, which creates or     *)
(* finds the schema and the investigation (Store::initialize), and the     *)
(* checks that every other command makes when it opens the file            *)
(* (Store::connect, both src/store.cpp).                                   *)
(*                                                                         *)
(* SQLite is external.  The transaction of initialize is a deferred one:   *)
(* its first read takes a snapshot, its first write the lock, which is     *)
(* denied for good once somebody else has committed after the snapshot.    *)
(* connect has no transaction: each of its statements sees the database of *)
(* its moment.                                                            *)
(***************************************************************************)
EXTENDS Naturals, FiniteSets

CONSTANTS
    Procs,
    Ids,         \* fresh ids of investigations
    Current,     \* kSchemaVersion of the installed build
    Databases,   \* what the directory may contain at first
    NoDatabase, NoVersion, NoProc, NoId

Migrations == {"kMigration1", "kMigration2"}

Database == [version : STRING \cup {NoVersion}, tables : SUBSET Migrations,
             investigations : SUBSET Ids]

Empty == [version |-> NoVersion, tables |-> {}, investigations |-> {}]

HasSchema(d) == "kMigration1" \in d.tables

\* An investigation is written together with its schema, and only one.
Complete(d) ==
    /\ d.version = Current /\ d.tables = Migrations
    /\ \E id \in Ids : d.investigations = {id}

\* What is assumed of the constants.
SetupConstants ==
    /\ NoDatabase \notin Database
    /\ NoVersion \notin STRING
    /\ Current \in STRING
    /\ NoProc \notin Procs
    /\ NoId \notin Ids
    \* A directory of this version was made by irez init.
    /\ \A d \in Databases \ {NoDatabase} :
          d \in Database /\ (d.version = Current => Complete(d))
                         /\ HasSchema(d)

VARIABLES
    schema,     \* the database as committed, its other tables aside
    holder,     \* the initialize that has the write lock
    place,      \* place[p]: the next step of p
    view,       \* view[p]: the snapshot of p's transaction and its writes
    answer      \* answer[p]: the investigation that init answered with

vars == <<schema, holder, place, view, answer>>

\* "idle" also stands for a command that has failed with exit code 5.
Quiet == {"idle", "answered", "corrupt", "ready"}
Initializing == {"migrate", "investigation"}

Init ==
    /\ schema \in Databases
    /\ holder = NoProc
    /\ place = [p \in Procs |-> "idle"]
    /\ view = [p \in Procs |-> Empty]
    /\ answer = [p \in Procs |-> NoId]

Go(p, to) == place' = [place EXCEPT ![p] = to]

\* The transaction or the connection is over.
End(p, how) ==
    /\ Go(p, how)
    /\ holder' = IF holder = p THEN NoProc ELSE holder
    /\ view' = [view EXCEPT ![p] = Empty]
-----------------------------------------------------------------------------
(* irez init.                                                              *)

\* The file is created if it is not there.  What the transaction reads first
\* is whether there is a schema, and which; it fails on another version.
Begin(p) ==
    /\ place[p] \in Quiet
    /\ schema' = IF schema = NoDatabase THEN Empty ELSE schema
    /\ \/ /\ ~HasSchema(schema')
          /\ Go(p, "migrate")
          /\ view' = [view EXCEPT ![p] = schema']
       \/ /\ HasSchema(schema') /\ schema'.version = Current
          /\ Go(p, "investigation")
          /\ view' = [view EXCEPT ![p] = schema']
       \/ /\ HasSchema(schema') /\ schema'.version # Current
          /\ Go(p, "idle")
          /\ UNCHANGED view
    /\ answer' = [answer EXCEPT ![p] = NoId]
    /\ UNCHANGED holder

\* Whoever is refused the lock fails, at once or when the busy timeout ends.
MayWrite(p) == holder = p \/ (holder = NoProc /\ schema = view[p])

Migrated(d) == [version |-> Current, tables |-> Migrations,
                investigations |-> d.investigations]

MigrateCommitted(p) ==
    /\ place[p] = "migrate"
    /\ MayWrite(p)
    /\ \E tables \in {{"kMigration1"}, Migrations} :
          schema' = [Migrated(schema) EXCEPT !.tables = tables]
    /\ view' = [view EXCEPT ![p] = schema']
    /\ Go(p, IF schema'.tables = Migrations THEN "investigation" ELSE "migrate")
    /\ UNCHANGED <<holder, answer>>

Migrate(p) ==
    /\ place[p] = "migrate"
    /\ MayWrite(p)
    /\ holder' = p
    /\ view' = [view EXCEPT ![p] = Migrated(@)]
    /\ Go(p, "investigation")
    /\ UNCHANGED <<schema, answer>>

CommitOf(p) == schema' = IF holder = p THEN view[p] ELSE schema

\* Somebody has initialized the directory before: the same id is answered.
FindInvestigation(p) ==
    /\ place[p] = "investigation"
    /\ \E id \in view[p].investigations : answer' = [answer EXCEPT ![p] = id]
    /\ CommitOf(p)
    /\ End(p, "answered")

AddInvestigationAlways(p) ==
    /\ place[p] = "investigation"
    /\ MayWrite(p)
    /\ \E id \in Ids \ view[p].investigations :
          /\ schema' = [view[p] EXCEPT !.investigations = @ \cup {id}]
          /\ answer' = [answer EXCEPT ![p] = id]
    /\ End(p, "answered")

AddInvestigation(p) ==
    /\ place[p] = "investigation"
    /\ view[p].investigations = {}
    /\ MayWrite(p)
    /\ \E id \in Ids :
          /\ schema' = [view[p] EXCEPT !.investigations = {id}]
          /\ answer' = [answer EXCEPT ![p] = id]
    /\ End(p, "answered")
-----------------------------------------------------------------------------
(* Any other command.                                                      *)

Connect(p) ==
    /\ place[p] \in Quiet
    /\ Go(p, IF schema # NoDatabase /\ HasSchema(schema)
                /\ schema.version = Current
             THEN "tables" ELSE "idle")
    /\ answer' = [answer EXCEPT ![p] = NoId]
    /\ UNCHANGED <<schema, holder, view>>

CountTables(p) ==
    /\ place[p] = "tables"
    /\ Go(p, IF schema.tables = Migrations THEN "ready" ELSE "corrupt")
    /\ UNCHANGED <<schema, holder, view, answer>>

\* The connection is used, which is not the matter of this module.
Use(p) ==
    /\ place[p] = "ready"
    /\ Go(p, "idle")
    /\ UNCHANGED <<schema, holder, view, answer>>
-----------------------------------------------------------------------------
\* An I/O error, a lock that is not given, or a kill: what the transaction
\* has written is rolled back.
Fail(p) ==
    /\ place[p] \in Initializing \cup {"tables"}
    /\ End(p, "idle")
    /\ UNCHANGED <<schema, answer>>

\* The machine stops; what was committed is durable.
Halt ==
    /\ place' = [p \in Procs |-> "idle"]
    /\ holder' = NoProc
    /\ view' = [p \in Procs |-> Empty]
    /\ answer' = [p \in Procs |-> NoId]
    /\ UNCHANGED schema

Initialize(p) ==
    \/ Begin(p) \/ Migrate(p) \/ FindInvestigation(p) \/ AddInvestigation(p)

Open(p) == Connect(p) \/ CountTables(p)

Step == \E p \in Procs : Initialize(p) \/ Open(p) \/ Use(p) \/ Fail(p)

Next == Step \/ Halt

Spec == Init /\ [][Next]_vars
-----------------------------------------------------------------------------
\* All who run irez init, one after the other or at the same time, are
\* answered with one and the same investigation, which is the one that is
\* stored; that the lock is asked for only after the schema has been read
\* (a deferred transaction, store.cpp:130) does not make two of them.
OneInvestigation ==
    \A p \in Procs : place[p] = "answered" =>
        schema.investigations = {answer[p]}

\* Nobody ever sees a directory that is half made, as long as only irez has
\* written to it: a command that starts finds the whole schema and its
\* investigation, or is told that there is none, and never "state schema is
\* incomplete or corrupt" (store.cpp:83).
NeverHalfMade ==
    \A p \in Procs : /\ place[p] # "corrupt"
                     /\ place[p] = "ready" => Complete(schema)
=============================================================================
