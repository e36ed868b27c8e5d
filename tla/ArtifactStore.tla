--------------------------- MODULE ArtifactStore ---------------------------
(***************************************************************************)
(* The artifact store: the files under artifacts/llvm and the rows of      *)
(* table artifacts that name them (Store::ingest_file, src/store.cpp, in   *)
(* the transaction Service::ingest runs it in).                            *)
(*                                                                         *)
(* Processes are killed between any two steps, the machine loses power,    *)
(* and somebody else may alter or remove stored files.  A SHA-256 digest   *)
(* is abstracted to the content it stands for.                             *)
(*                                                                         *)
(* The database is external: its transactions are atomic, and durable once *)
(* committed (WAL with synchronous = FULL).  So is the file system: it     *)
(* keeps the data of a file that was flushed, and the names a directory    *)
(* had when it was flushed (POSIX).                                        *)
(***************************************************************************)
EXTENDS Naturals, FiniteSets

CONSTANTS
    Procs,       \* processes that ingest
    Contents,    \* contents of files, and their digests
    Suffixes,    \* ".bc", ".ll"
    Handle,      \* content -> handle: 16 hexadecimal digits of the digest
    MaxTampered, \* bound on the paths that somebody else touches
    Torn,        \* what may be left of data that was not flushed
    NoFile,
    NoProc

ASSUME StoreConstants ==
    /\ Torn \notin Contents
    /\ NoFile \notin [data : Contents \cup {Torn}, flushed : BOOLEAN]
    /\ NoProc \notin Procs

\* artifacts/llvm/<digest><suffix>, the stored_path of a row.
Path == [digest : Contents, suffix : Suffixes]

File == [data : Contents \cup {Torn}, flushed : BOOLEAN]

VARIABLES
    files,      \* the directory artifacts/llvm, as processes see it
    disk,       \* the directory as of when it was last flushed
    rows,       \* table artifacts, by stored path
    writer,     \* who has the write lock of the database
    pc,
    source,     \* what a process ingests: its digest and suffix
    temporary,  \* the temporary file of a process
    tampered,   \* paths somebody else has touched
    unsure      \* processes during whose ingest that happened

database == <<rows, writer>>
locals == <<pc, source, temporary>>
ghosts == <<tampered, unsure>>
vars == <<files, disk, database, locals, ghosts>>

\* "idle" also stands for an ingest that was killed or failed.
Resting == {"idle", "answered", "refused"}
Working == {"lookup", "write", "flush", "publish", "compare", "rename", "flush_names",
            "insert"}

\* The types, and that whoever is inside the transaction holds the lock.
TypeOK ==
    /\ files \in [Path -> File \cup {NoFile}]
    /\ disk \in [Path -> File \cup {NoFile}]
    /\ rows \subseteq Path
    /\ writer \in Procs \cup {NoProc}
    /\ pc \in [Procs -> Resting \cup Working]
    /\ source \in [Procs -> Path]
    /\ temporary \in [Procs -> File \cup {NoFile}]
    /\ tampered \subseteq Path
    /\ unsure \subseteq Procs
    /\ \A p \in Procs :
          /\ pc[p] \in Working <=> writer = p
          /\ pc[p] \in {"flush", "publish", "rename"} => temporary[p] # NoFile

\* What irez init leaves behind.
Init ==
    /\ files = [f \in Path |-> NoFile]
    /\ disk = files
    /\ rows = {}
    /\ writer = NoProc
    /\ pc = [p \in Procs |-> "idle"]
    /\ \E f \in Path : source = [p \in Procs |-> f]
    /\ temporary = [p \in Procs |-> NoFile]
    /\ tampered = {}
    /\ unsure = {}

\* The file at a path is the one its name promises.
Intact(f) == files[f] # NoFile /\ files[f].data = f.digest

\* The transaction is over, committed or rolled back.
Leave(p, outcome) ==
    /\ pc' = [pc EXCEPT ![p] = outcome]
    /\ writer' = NoProc
    /\ temporary' = [temporary EXCEPT ![p] = NoFile]
    /\ UNCHANGED source

Continue(p, place) ==
    /\ pc' = [pc EXCEPT ![p] = place]
    /\ UNCHANGED <<source, database>>
-----------------------------------------------------------------------------
\* BEGIN IMMEDIATE, and the file is read and hashed.
Begin(p, path) ==
    /\ pc[p] \in Resting
    /\ writer = NoProc
    /\ writer' = p
    /\ source' = [source EXCEPT ![p] = path]
    /\ pc' = [pc EXCEPT ![p] = "lookup"]
    /\ unsure' = unsure \ {p}
    /\ UNCHANGED <<files, disk, rows, temporary, tampered>>

Ingest(p) == \E path \in Path : Begin(p, path)

\* reindex: the file to ingest is the stored one, whatever is in it now.
Reindex(p) ==
    \E stored \in rows :
        /\ files[stored] # NoFile
        /\ files[stored].data \in Contents
        /\ Begin(p, [stored EXCEPT !.digest = files[stored].data])

\* A row with this content; the suffix does not count.
Existing(p) == {f \in rows : f.digest = source[p].digest}

\* Another content whose digest has the same first 16 digits.
Colliding(p) ==
    {f \in rows : /\ Handle[f.digest] = Handle[source[p].digest]
                  /\ f.digest # source[p].digest}

DeduplicateUnverified(p) ==
    /\ pc[p] = "lookup"
    /\ \E f \in Existing(p) : Leave(p, "answered")
    /\ UNCHANGED <<files, disk, rows, ghosts>>

\* The content has a row: its backing file is verified before it is answered.
Deduplicate(p) ==
    /\ pc[p] = "lookup"
    /\ \E f \in Existing(p) : Leave(p, IF Intact(f) THEN "answered" ELSE "refused")
    /\ UNCHANGED <<files, disk, rows, ghosts>>

Collide(p) ==
    /\ pc[p] = "lookup"
    /\ Existing(p) = {}
    /\ Colliding(p) # {}
    /\ Leave(p, "refused")
    /\ UNCHANGED <<files, disk, rows, ghosts>>

Lookup(p) ==
    /\ pc[p] = "lookup"
    /\ Existing(p) = {}
    /\ Colliding(p) = {}
    /\ Continue(p, "write")
    /\ UNCHANGED <<files, disk, temporary, ghosts>>

WriteInPlace(p) ==
    /\ pc[p] = "write"
    /\ files' = [files EXCEPT ![source[p]] =
                    IF @ = NoFile THEN [data |-> Torn, flushed |-> FALSE] ELSE @]
    /\ temporary' = [temporary EXCEPT ![p] =
                        [data |-> source[p].digest, flushed |-> FALSE]]
    /\ Continue(p, "flush")
    /\ UNCHANGED <<disk, ghosts>>

\* The bytes that were hashed go to a temporary file of a fresh name.
WriteTemporary(p) ==
    /\ pc[p] = "write"
    /\ temporary' = [temporary EXCEPT ![p] =
                        [data |-> source[p].digest, flushed |-> FALSE]]
    /\ Continue(p, "flush")
    /\ UNCHANGED <<files, disk, ghosts>>

FlushNothing(p) ==
    /\ pc[p] = "flush"
    /\ Continue(p, "publish")
    /\ UNCHANGED <<files, disk, temporary, ghosts>>

FlushTemporary(p) ==
    /\ pc[p] = "flush"
    /\ temporary' = [temporary EXCEPT ![p].flushed = TRUE]
    /\ Continue(p, "publish")
    /\ UNCHANGED <<files, disk, ghosts>>

\* Faulty: the temporary file is renamed whether there is a file or not.
LookAway(p) ==
    /\ pc[p] = "publish"
    /\ Continue(p, "rename")
    /\ UNCHANGED <<files, disk, temporary, ghosts>>

\* Is there a file at the destination?
LookForFile(p) ==
    /\ pc[p] = "publish"
    /\ Continue(p, IF files[source[p]] = NoFile THEN "rename" ELSE "compare")
    /\ UNCHANGED <<files, disk, temporary, ghosts>>

\* The temporary file is renamed, over what somebody else may have put there.
Publish(p) ==
    /\ pc[p] = "rename"
    /\ files' = [files EXCEPT ![source[p]] = temporary[p]]
    /\ Continue(p, "flush_names")
    /\ UNCHANGED <<disk, temporary, ghosts>>

\* A file that is there without a row, from an ingest that was cut short, is
\* taken over if it has the same content.
TakeOver(p) ==
    /\ pc[p] = "compare"
    /\ Intact(source[p])
    /\ Continue(p, "flush_names")
    /\ UNCHANGED <<files, disk, temporary, ghosts>>

\* Another content, or gone by now.
RefuseDifferent(p) ==
    /\ pc[p] = "compare"
    /\ ~Intact(source[p])
    /\ Leave(p, "refused")
    /\ UNCHANGED <<files, disk, rows, ghosts>>

\* The directory is flushed.
FlushNames(p) ==
    /\ pc[p] = "flush_names"
    /\ disk' = files
    /\ Continue(p, "insert")
    /\ UNCHANGED <<files, temporary, ghosts>>

\* INSERT and COMMIT.
Insert(p) ==
    /\ pc[p] = "insert"
    /\ rows' = rows \cup {source[p]}
    /\ Leave(p, "answered")
    /\ UNCHANGED <<files, disk, ghosts>>

\* A step failed (I/O error, disk full) or the process was killed: the
\* transaction is rolled back, the files stay as they are.
Fail(p) ==
    /\ pc[p] \in Working
    /\ Leave(p, "idle")
    /\ UNCHANGED <<files, disk, rows, ghosts>>

Ingesting(p) ==
    \/ Ingest(p) \/ Reindex(p)
    \/ Deduplicate(p) \/ Collide(p) \/ Lookup(p)
    \/ WriteTemporary(p) \/ FlushTemporary(p)
    \/ LookForFile(p) \/ Publish(p) \/ TakeOver(p) \/ RefuseDifferent(p)
    \/ FlushNames(p) \/ Insert(p) \/ Fail(p)
-----------------------------------------------------------------------------
Unflushed(dir) == {f \in Path : dir[f] # NoFile /\ ~dir[f].flushed}

\* The machine stops.  A name that was not flushed may have reached the disk
\* all the same; data that was not flushed may be torn.
PowerLoss ==
    /\ \E reached \in SUBSET {f \in Path : files[f] # disk[f]} :
          LET left == [f \in Path |-> IF f \in reached THEN files[f] ELSE disk[f]]
          IN  \E torn \in SUBSET Unflushed(left) :
                 files' = [f \in Path |->
                     IF f \notin Unflushed(left) THEN left[f]
                     ELSE [data |-> IF f \in torn THEN Torn ELSE left[f].data,
                           flushed |-> TRUE]]
    /\ disk' = files'
    /\ writer' = NoProc
    /\ pc' = [p \in Procs |-> "idle"]
    /\ temporary' = [p \in Procs |-> NoFile]
    /\ UNCHANGED <<rows, source, ghosts>>

\* Somebody else removes or replaces a stored file, or puts one there.
Tamper ==
    /\ \E f \in Path, file \in {NoFile} \cup [data : Contents, flushed : {TRUE}] :
          /\ Cardinality(tampered \cup {f}) <= MaxTampered
          /\ file # files[f]
          /\ files' = [files EXCEPT ![f] = file]
          /\ disk' = [disk EXCEPT ![f] = file]
          /\ tampered' = tampered \cup {f}
    /\ unsure' = Procs
    /\ UNCHANGED <<database, locals>>

Step == \E p \in Procs : Ingesting(p)

Next == Step \/ PowerLoss \/ Tamper

Spec == Init /\ [][Next]_vars
-----------------------------------------------------------------------------
(* What the store promises.                                                *)

\* A committed row has its file, with the content its digest says, whenever
\* the process died or the power failed; only somebody else can change that.
Backed == \A f \in rows \ tampered : Intact(f)

\* An ingest that is answered has seen the right bytes in the store, even if
\* the row was there before and the file had been touched since.
VerifiedAnswers ==
    \A p \in Procs \ unsure :
        pc[p] = "answered" => \E f \in Existing(p) : Intact(f)

\* What an interrupted ingest leaves behind never makes a later one of the
\* same content fail: it is refused for a touched file or a colliding handle.
RefusedForAReason ==
    \A p \in Procs :
        pc[p] = "refused" =>
            \/ \E f \in tampered : f.digest = source[p].digest
            \/ Colliding(p) # {}

\* irez never changes or removes what is in the store, not even to repair it,
\* but for a file that somebody else puts there while an ingest of the same
\* path is between its look (store.cpp:240) and its rename (248).
StoredFilesAreImmutable ==
    [][Step => \A f \in Path : files[f] # NoFile /\ files'[f] # files[f] =>
                 \E p \in unsure : pc[p] = "rename" /\ source[p] = f]_vars
=============================================================================
