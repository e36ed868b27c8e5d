--------------------------- MODULE StateDirectory ---------------------------
(***************************************************************************)
(* A state directory as a whole: the commands that initialize and open its *)
(* database (StateSetup) and those that ingest into it (ArtifactStore).    *)
(* An ingest opens the database first and works only in one that is ready; *)
(* ingest and initialization exclude each other by the database's write    *)
(* lock, and the machine stops for both at once.                           *)
(***************************************************************************)
EXTENDS ArtifactStore

CONSTANTS Ids, Current, Databases, NoDatabase, NoVersion, NoId

VARIABLES schema, holder, place, view, answer

Setup == INSTANCE StateSetup

setup == <<schema, holder, place, view, answer>>
directory == <<vars, setup>>

ASSUME DirectoryConstants == Setup!SetupConstants

DirectoryInit == Init /\ Setup!Init

\* One of the steps of init, or of a command that opens the database.
Prepare ==
    /\ \E p \in Procs :
          /\ pc[p] \in Resting
          /\ Setup!Initialize(p) \/ Setup!Open(p) \/ Setup!Fail(p)
    /\ holder' # NoProc \/ schema' # schema => writer = NoProc
    /\ UNCHANGED vars

\* An ingest or a reindex on a connection that has passed its checks.
BeginOpened(p) ==
    /\ Setup!Use(p)
    /\ holder = NoProc
    /\ Ingest(p) \/ Reindex(p)

Proceed(p) ==
    /\ pc[p] \in Working
    /\ Ingesting(p)
    /\ UNCHANGED setup

DirectoryNext ==
    \/ Prepare
    \/ \E p \in Procs : BeginOpened(p) \/ Proceed(p)
    \/ PowerLoss /\ Setup!Halt
    \/ Tamper /\ UNCHANGED setup

DirectorySpec == DirectoryInit /\ [][DirectoryNext]_directory
-----------------------------------------------------------------------------
\* All who run irez init, one after the other or at the same time, are
\* answered with one and the same investigation, which is the one that is
\* stored; that the lock is asked for only after the schema has been read
\* (a deferred transaction, store.cpp:130) does not make two of them.
OneInvestigation == Setup!OneInvestigation

\* Nobody ever sees a directory that is half made, as long as only irez has
\* written to it: a command that starts finds the whole schema and its
\* investigation, or is told that there is none, and never "state schema is
\* incomplete or corrupt" (store.cpp:83).
NeverHalfMade == Setup!NeverHalfMade
=============================================================================
