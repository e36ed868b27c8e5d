------------------------ MODULE ArtifactStoreProofs ------------------------
(* Proofs about ArtifactStore, for any number of processes and contents.   *)
EXTENDS ArtifactStore, TLAPS

(* Leaving the transaction keeps the types and gives up the lock.          *)
LEMMA LeaveTypes ==
  ASSUME TypeOK, NEW p \in Procs, pc[p] \in Working,
         NEW outcome \in Resting, Leave(p, outcome)
  PROVE  /\ pc' \in [Procs -> Resting \cup Working]
         /\ writer' \in Procs \cup {NoProc}
         /\ source' \in [Procs -> Path]
         /\ temporary' \in [Procs -> File \cup {NoFile}]
         /\ \A q \in Procs :
               /\ pc'[q] \in Working <=> writer' = q
               /\ pc'[q] \in {"flush", "publish", "rename"} => temporary'[q] # NoFile
BY StoreConstants DEF TypeOK, Leave, Resting, Working

(* Going on in the transaction keeps the types and the lock.               *)
LEMMA ContinueTypes ==
  ASSUME TypeOK, NEW p \in Procs, pc[p] \in Working,
         NEW place \in Working, Continue(p, place)
  PROVE  /\ pc' \in [Procs -> Resting \cup Working]
         /\ rows' = rows
         /\ writer' \in Procs \cup {NoProc}
         /\ source' \in [Procs -> Path]
         /\ \A q \in Procs : pc'[q] \in Working <=> writer' = q
BY DEF TypeOK, Continue, database, Resting, Working

(* The transaction begins with a path of the store: nobody is in it.       *)
LEMMA BeginTypes ==
  ASSUME TypeOK, NEW p \in Procs, NEW path \in Path, Begin(p, path)
  PROVE  TypeOK'
BY StoreConstants DEF TypeOK, Begin, Resting, Working

(* Every step of an ingest, and every failure, keeps the types.            *)
LEMMA TypeStep ==
  ASSUME TypeOK, [Next]_vars
  PROVE  TypeOK'
<1>1. ASSUME NEW p \in Procs, Ingest(p)
      PROVE  TypeOK'
  BY <1>1, BeginTypes DEF Ingest
<1>2. ASSUME NEW p \in Procs, Reindex(p)
      PROVE  TypeOK'
  <2>1. PICK stored \in rows :
          /\ files[stored].data \in Contents
          /\ Begin(p, [stored EXCEPT !.digest = files[stored].data])
    BY <1>2 DEF Reindex
  <2>2. [stored EXCEPT !.digest = files[stored].data] \in Path
    BY <2>1 DEF TypeOK, Path
  <2> QED
    BY <2>1, <2>2, BeginTypes
<1>3. ASSUME NEW p \in Procs,
             Deduplicate(p) \/ Collide(p) \/ RefuseDifferent(p) \/ Fail(p)
      PROVE  TypeOK'
  <2>1. PICK outcome \in Resting : pc[p] \in Working /\ Leave(p, outcome)
    BY <1>3
    DEF Deduplicate, Collide, RefuseDifferent, Fail, Resting, Working
  <2>2. UNCHANGED <<files, disk, rows, tampered, unsure>>
    BY <1>3 DEF Deduplicate, Collide, RefuseDifferent, Fail, ghosts
  <2> QED
    BY <2>1, <2>2, LeaveTypes DEF TypeOK
<1>4. ASSUME NEW p \in Procs, Insert(p)
      PROVE  TypeOK'
  <2>1. /\ pc[p] \in Working /\ "answered" \in Resting /\ Leave(p, "answered")
        /\ rows' \subseteq Path /\ UNCHANGED <<files, disk, tampered, unsure>>
    BY <1>4 DEF Insert, Working, Resting, ghosts, TypeOK
  <2> QED
    BY <2>1, LeaveTypes DEF TypeOK
<1>5. ASSUME NEW p \in Procs,
             \/ Lookup(p) \/ WriteTemporary(p) \/ FlushTemporary(p)
             \/ LookForFile(p) \/ Publish(p) \/ TakeOver(p) \/ FlushNames(p)
      PROVE  TypeOK'
  <2>1. PICK place \in Working : pc[p] \in Working /\ Continue(p, place)
    BY <1>5
    DEF Lookup, WriteTemporary, FlushTemporary, LookForFile, Publish, TakeOver,
        FlushNames, Working
  <2>2. UNCHANGED ghosts
    BY <1>5
    DEF Lookup, WriteTemporary, FlushTemporary, LookForFile, Publish, TakeOver, FlushNames
  <2>3. temporary' \in [Procs -> File \cup {NoFile}]
    <3>1. CASE WriteTemporary(p)
      BY <3>1 DEF WriteTemporary, TypeOK, File, Path
    <3>2. CASE FlushTemporary(p)
      BY <3>2 DEF FlushTemporary, TypeOK, File
    <3> QED
      BY <1>5, <3>1, <3>2 DEF Lookup, LookForFile, Publish, TakeOver, FlushNames, TypeOK
  <2>4. /\ files' \in [Path -> File \cup {NoFile}]
        /\ disk' \in [Path -> File \cup {NoFile}]
    BY <1>5
    DEF Lookup, WriteTemporary, FlushTemporary, LookForFile, Publish, TakeOver,
        FlushNames, TypeOK
  <2>5. \A q \in Procs :
          pc'[q] \in {"flush", "publish", "rename"} => temporary'[q] # NoFile
    <3>1. NoFile \notin File
      BY StoreConstants DEF File
    <3>2. \A q \in Procs : q # p => pc'[q] = pc[q] /\ temporary'[q] = temporary[q]
      BY <1>5
      DEF Lookup, WriteTemporary, FlushTemporary, LookForFile, Publish, TakeOver,
          FlushNames, Continue, TypeOK
    <3>3. pc'[p] \in {"flush", "publish", "rename"} => temporary'[p] # NoFile
      <4>1. CASE WriteTemporary(p)
        <5>1. source[p] \in Path /\ source[p].digest \in Contents
          BY DEF TypeOK, Path
        <5>2. temporary'[p] = [data |-> source[p].digest, flushed |-> FALSE]
          BY <4>1 DEF WriteTemporary, TypeOK
        <5>3. temporary'[p] \in File
          BY <5>1, <5>2 DEF File
        <5> QED
          BY <3>1, <5>3
      <4>2. CASE FlushTemporary(p)
        <5>1. temporary[p] \in File
          BY <4>2 DEF FlushTemporary, TypeOK
        <5>2. temporary'[p] \in File
          BY <4>2, <5>1 DEF FlushTemporary, TypeOK, File
        <5> QED
          BY <3>1, <5>2
      <4> QED
        BY <1>5, <4>1, <4>2
        DEF Lookup, LookForFile, Publish, TakeOver, FlushNames, Continue, TypeOK
    <3> QED
      BY <3>2, <3>3 DEF TypeOK
  <2> QED
    BY <2>1, <2>2, <2>3, <2>4, <2>5, ContinueTypes DEF TypeOK, ghosts
<1>6. CASE PowerLoss
  <2>1. files' \in [Path -> File \cup {NoFile}]
    BY <1>6 DEF PowerLoss, TypeOK, File, Unflushed
  <2> QED
    BY <1>6, <2>1, StoreConstants
    DEF PowerLoss, TypeOK, ghosts, Resting, Working
<1>7. CASE Tamper
  <2>1. PICK f \in Path,
             file \in {NoFile} \cup [data : Contents, flushed : {TRUE}] :
          /\ files' = [files EXCEPT ![f] = file]
          /\ disk' = [disk EXCEPT ![f] = file]
          /\ tampered' = tampered \cup {f}
    BY <1>7 DEF Tamper
  <2>2. file \in File \cup {NoFile}
    BY DEF File
  <2>3. UNCHANGED <<rows, writer, pc, source, temporary>> /\ unsure' = Procs
    BY <1>7 DEF Tamper, database, locals
  <2>4. /\ files' \in [Path -> File \cup {NoFile}]
        /\ disk' \in [Path -> File \cup {NoFile}]
        /\ tampered' \subseteq Path
    BY <2>1, <2>2 DEF TypeOK
  <2> QED
    BY <2>3, <2>4 DEF TypeOK
<1>8. CASE UNCHANGED vars
  BY <1>8 DEF vars, database, locals, ghosts, TypeOK
<1> QED
  BY <1>1, <1>2, <1>3, <1>4, <1>5, <1>6, <1>7, <1>8 DEF Next, Step, Ingesting

(* Whoever is inside the transaction holds the lock, alone.                *)
THEOREM StoreTypes == Spec => []TypeOK
<1>1. Init => TypeOK
  <2> SUFFICES ASSUME Init PROVE TypeOK
    OBVIOUS
  <2>1. source \in [Procs -> Path]
    BY DEF Init
  <2>2. \A p \in Procs : pc[p] = "idle" /\ p # NoProc
    BY StoreConstants DEF Init
  <2> QED
    BY <2>1, <2>2 DEF Init, TypeOK, Resting, Working
<1>2. TypeOK /\ [Next]_vars => TypeOK'
  BY TypeStep
<1> QED
  BY <1>1, <1>2, PTL DEF Spec
-----------------------------------------------------------------------------
(* What makes the rows safe to commit: as long as nobody else touches a    *)
(* path, a file is there only complete and flushed, a row has its file in  *)
(* the directory and on disk, and so has an ingest that is about to insert *)
(* one.                                                                    *)
Complete(file, f) == file # NoFile /\ file.data = f.digest /\ file.flushed = TRUE

Ready(p) ==
    /\ pc[p] = "flush" => temporary[p].data = source[p].digest
    /\ pc[p] \in {"publish", "rename"} => Complete(temporary[p], source[p])
    /\ source[p] \notin tampered =>
          /\ pc[p] \in {"compare", "flush_names", "insert"} => files[source[p]] # NoFile
          /\ pc[p] = "insert" => disk[source[p]] # NoFile

Sound ==
    /\ \A f \in Path \ tampered :
          /\ files[f] # NoFile => Complete(files[f], f)
          /\ disk[f] # NoFile => Complete(disk[f], f)
    /\ \A f \in rows \ tampered : files[f] # NoFile /\ disk[f] # NoFile
    /\ \A p \in Procs : Ready(p)

(* A step of one process leaves the places and files of the others alone.  *)
LEMMA OthersKeep ==
  ASSUME TypeOK, NEW p \in Procs, Ingesting(p)
  PROVE  \A q \in Procs : q # p =>
            /\ pc'[q] = pc[q] /\ source'[q] = source[q]
            /\ temporary'[q] = temporary[q]
BY DEF TypeOK, Ingesting, Ingest, Reindex, Begin, Deduplicate, Collide, Lookup,
       WriteTemporary, FlushTemporary, LookForFile, Publish, TakeOver,
       RefuseDifferent, FlushNames, Insert, Fail, Leave, Continue

(* No step of an ingest changes a file that is there, but for a rename;    *)
(* none forgets a row, or takes a file off the disk.                       *)
LEMMA FilesStay ==
  ASSUME TypeOK, NEW p \in Procs, Ingesting(p)
  PROVE  /\ \A f \in Path : files[f] # NoFile =>
               \/ files'[f] = files[f]
               \/ pc[p] = "rename" /\ source[p] = f /\ files'[f] = temporary[p]
         /\ disk' = disk \/ (disk' = files /\ files' = files)
         /\ rows \subseteq rows'
         /\ tampered' = tampered
         /\ unsure' = unsure \/ (unsure' = unsure \ {p} /\ pc'[p] = "lookup")
BY DEF TypeOK, Ingesting, Ingest, Reindex, Begin, Deduplicate, Collide, Lookup,
       WriteTemporary, FlushTemporary, LookForFile, Publish, TakeOver,
       RefuseDifferent, FlushNames, Insert, Fail, Leave, Continue, ghosts,
       database

(* An untouched ingest that gets as far as its row has its file there.     *)
LEMMA SoundStep ==
  ASSUME TypeOK, Sound, [Next]_vars
  PROVE  Sound'
<1>1. ASSUME NEW p \in Procs, Ingesting(p)
      PROVE  Sound'
  <2>1. source[p] \in Path /\ source[p].digest \in Contents
    BY DEF TypeOK, Path
  <2>2. \A f \in Path \ tampered : files'[f] # NoFile => Complete(files'[f], f)
    <3>1. CASE Publish(p)
      <4>1. files' = [files EXCEPT ![source[p]] = temporary[p]]
            /\ Complete(temporary[p], source[p])
        BY <3>1 DEF Publish, Sound, Ready
      <4> QED
        BY <4>1, <2>1 DEF Sound, TypeOK
    <3>2. CASE ~Publish(p)
      <4>1. files' = files
        BY <1>1, <3>2
        DEF Ingesting, Ingest, Reindex, Begin, Deduplicate, Collide, Lookup,
            WriteTemporary, FlushTemporary, LookForFile, TakeOver,
            RefuseDifferent, FlushNames, Insert, Fail
      <4> QED
        BY <4>1 DEF Sound
    <3> QED
      BY <3>1, <3>2
  <2>3. \A f \in Path \ tampered :
          /\ disk'[f] # NoFile => Complete(disk'[f], f)
          /\ disk[f] # NoFile /\ files[f] # NoFile => disk'[f] # NoFile
    BY <1>1, FilesStay DEF Sound
  <2>0. \A f \in Path : files[f] # NoFile => files'[f] # NoFile
    <3>1. pc[p] = "rename" => temporary[p] # NoFile
      BY DEF TypeOK
    <3> QED
      BY <1>1, <3>1, FilesStay
  <2>4. \A f \in rows' \ tampered : files'[f] # NoFile /\ disk'[f] # NoFile
    <3>1. \A f \in rows \ tampered : files'[f] # NoFile /\ disk'[f] # NoFile
      BY <1>1, <2>0, <2>3, FilesStay DEF Sound, TypeOK
    <3>2. CASE Insert(p)
      <4>1. /\ rows' = rows \cup {source[p]} /\ files' = files /\ disk' = disk
            /\ pc[p] = "insert"
        BY <3>2 DEF Insert
      <4>2. source[p] \notin tampered =>
               files[source[p]] # NoFile /\ disk[source[p]] # NoFile
        BY <4>1 DEF Sound, Ready
      <4> QED
        BY <3>1, <4>1, <4>2
    <3>3. CASE ~Insert(p)
      <4>1. rows' = rows
        BY <1>1, <3>3
        DEF Ingesting, Ingest, Reindex, Begin, Deduplicate, Collide, Lookup,
            WriteTemporary, FlushTemporary, LookForFile, Publish, TakeOver,
            RefuseDifferent, FlushNames, Fail, Continue, database
      <4> QED
        BY <3>1, <4>1
    <3> QED
      BY <3>2, <3>3
  <2>5. ASSUME NEW q \in Procs, q # p
        PROVE  Ready(q)'
    <3>1. /\ pc'[q] = pc[q] /\ source'[q] = source[q]
          /\ temporary'[q] = temporary[q] /\ source[q] \in Path
          /\ tampered' = tampered
      BY <1>1, <2>5, OthersKeep, FilesStay DEF TypeOK
    <3>2. Ready(q)
      BY DEF Sound
    <3>3. source[q] \notin tampered =>
             /\ pc[q] \in {"compare", "flush_names", "insert"} => files'[source[q]] # NoFile
             /\ pc[q] = "insert" => disk'[source[q]] # NoFile
      BY <1>1, <2>0, <2>3, <3>1, <3>2, FilesStay DEF Ready
    <3> QED
      BY <3>1, <3>2, <3>3 DEF Ready, Complete
  <2>6. Ready(p)'
    <3>1. CASE WriteTemporary(p)
      <4>1. pc'[p] = "flush" /\ source' = source
            /\ temporary'[p] = [data |-> source[p].digest, flushed |-> FALSE]
        BY <3>1 DEF WriteTemporary, Continue, TypeOK
      <4> QED
        BY <4>1 DEF Ready
    <3>2. CASE FlushTemporary(p)
      <4>1. /\ pc[p] = "flush" /\ pc'[p] = "publish" /\ source' = source
            /\ temporary[p] \in File
            /\ temporary'[p] = [temporary[p] EXCEPT !.flushed = TRUE]
        BY <3>2 DEF FlushTemporary, Continue, TypeOK
      <4>2. /\ temporary'[p].data = temporary[p].data
            /\ temporary'[p].flushed = TRUE
            /\ temporary'[p] \in File
        BY <4>1 DEF File
      <4>3. temporary[p].data = source[p].digest
        BY <4>1 DEF Sound, Ready
      <4>4. temporary'[p] # NoFile
        BY <4>2, StoreConstants DEF File
      <4> QED
        BY <4>1, <4>2, <4>3, <4>4 DEF Ready, Complete
    <3>0. CASE LookForFile(p)
      <4>1. /\ pc[p] = "publish" /\ source' = source /\ files' = files
            /\ pc'[p] = IF files[source[p]] = NoFile THEN "rename" ELSE "compare"
            /\ temporary' = temporary
        BY <3>0 DEF LookForFile, Continue, TypeOK
      <4>2. Complete(temporary[p], source[p])
        BY <4>1 DEF Sound, Ready
      <4> QED
        BY <4>1, <4>2 DEF Ready, Complete
    <3>3. CASE Publish(p)
      <4>1. /\ pc[p] = "rename" /\ pc'[p] = "flush_names" /\ source' = source
            /\ files'[source[p]] = temporary[p]
        BY <3>3, <2>1 DEF Publish, Continue, TypeOK
      <4>2. Complete(temporary[p], source[p])
        BY <4>1 DEF Sound, Ready
      <4> QED
        BY <4>1, <4>2 DEF Ready, Complete
    <3>4. CASE TakeOver(p)
      BY <3>4 DEF TakeOver, Continue, TypeOK, Ready, Intact
    <3>5. CASE FlushNames(p)
      <4>1. /\ pc[p] = "flush_names" /\ pc'[p] = "insert" /\ source' = source
            /\ files' = files /\ disk' = files /\ tampered' = tampered
        BY <3>5 DEF FlushNames, Continue, TypeOK, ghosts
      <4>2. source[p] \notin tampered => files[source[p]] # NoFile
        BY <4>1 DEF Sound, Ready
      <4> QED
        BY <4>1, <4>2 DEF Ready
    <3>6. CASE Ingest(p) \/ Reindex(p)
      <4>1. pc'[p] = "lookup"
        BY <3>6 DEF Ingest, Reindex, Begin, TypeOK
      <4> QED
        BY <4>1 DEF Ready
    <3>7. CASE Lookup(p)
      <4>1. pc'[p] = "write"
        BY <3>7 DEF Lookup, Continue, TypeOK
      <4> QED
        BY <4>1 DEF Ready
    <3>8. CASE \/ Deduplicate(p) \/ Collide(p) \/ RefuseDifferent(p)
               \/ Insert(p) \/ Fail(p)
      <4>1. PICK outcome \in Resting : Leave(p, outcome)
        BY <3>8
        DEF Deduplicate, Collide, RefuseDifferent, Insert, Fail, Resting
      <4>2. pc'[p] \in Resting
        BY <4>1 DEF Leave, TypeOK
      <4> QED
        BY <4>2 DEF Ready, Resting
    <3> QED
      BY <1>1, <3>0, <3>1, <3>2, <3>3, <3>4, <3>5, <3>6, <3>7, <3>8 DEF Ingesting
  <2> QED
    BY <1>1, <2>2, <2>3, <2>4, <2>5, <2>6, FilesStay DEF Sound, Complete
<1>2. CASE PowerLoss
  <2>1. PICK reached \in SUBSET {f \in Path : files[f] # disk[f]} :
          LET left == [f \in Path |-> IF f \in reached THEN files[f] ELSE disk[f]]
          IN  \E torn \in SUBSET Unflushed(left) :
                 files' = [f \in Path |->
                     IF f \notin Unflushed(left) THEN left[f]
                     ELSE [data |-> IF f \in torn THEN Torn ELSE left[f].data,
                           flushed |-> TRUE]]
    BY <1>2 DEF PowerLoss
  <2> DEFINE left == [f \in Path |-> IF f \in reached THEN files[f] ELSE disk[f]]
  <2>2. \A f \in Path \ tampered : left[f] # NoFile => Complete(left[f], f)
    BY DEF Sound
  <2>3. \A f \in Path \ tampered : f \notin Unflushed(left)
    BY <2>2 DEF Unflushed, Complete
  <2>4. \A f \in Path \ tampered : files'[f] = left[f]
    BY <2>1, <2>3
  <2>5. /\ disk' = files' /\ rows' = rows /\ tampered' = tampered
        /\ \A p \in Procs : pc'[p] = "idle"
    BY <1>2 DEF PowerLoss, ghosts
  <2>6. \A f \in rows \ tampered : left[f] # NoFile
    BY DEF Sound, TypeOK
  <2>7. \A p \in Procs : Ready(p)'
    BY <2>5 DEF Ready
  <2> HIDE DEF left
  <2>8. \A f \in Path \ tampered : files'[f] # NoFile => Complete(files'[f], f)
    BY <2>2, <2>4
  <2>9. \A f \in rows \ tampered : files'[f] # NoFile
    BY <2>4, <2>6 DEF TypeOK
  <2> QED
    BY <2>5, <2>7, <2>8, <2>9 DEF Sound, Complete
<1>3. CASE Tamper
  <2>1. PICK f \in Path, file \in {NoFile} \cup [data : Contents, flushed : {TRUE}] :
          /\ files' = [files EXCEPT ![f] = file]
          /\ disk' = [disk EXCEPT ![f] = file]
          /\ tampered' = tampered \cup {f}
    BY <1>3 DEF Tamper
  <2>2. UNCHANGED <<rows, pc, source, temporary>>
    BY <1>3 DEF Tamper, database, locals
  <2>3. \A g \in Path \ tampered' : files'[g] = files[g] /\ disk'[g] = disk[g]
    BY <2>1 DEF TypeOK
  <2>4. \A p \in Procs : Ready(p)'
    BY <2>1, <2>2, <2>3 DEF Sound, Ready, Complete, TypeOK
  <2> QED
    BY <2>1, <2>2, <2>3, <2>4 DEF Sound, Complete, TypeOK
<1>4. CASE UNCHANGED vars
  BY <1>4 DEF vars, database, locals, ghosts, Sound, Ready, Complete
<1> QED
  BY <1>1, <1>2, <1>3, <1>4 DEF Next, Step

(* The store starts empty.                                                 *)
LEMMA SoundInit == Init => Sound
BY DEF Init, Sound, Ready

(* A committed row has its file, with the content of its digest, after any *)
(* kill and any power loss, unless somebody else touched the file.         *)
THEOREM RowsAreBacked == Spec => []Backed
<1>1. TypeOK /\ Sound /\ [Next]_vars => Sound'
  BY SoundStep
<1>2. TypeOK /\ Sound => Backed
  BY DEF TypeOK, Sound, Backed, Intact, Complete
<1> QED
  BY <1>1, <1>2, SoundInit, StoreTypes, PTL DEF Spec

(* An ingest that leaves its transaction by itself has verified the bytes: *)
(* they were compared, or just published, and nobody touched them since.   *)
Seen(p) ==
    p \notin unsure =>
        /\ pc[p] \in {"flush_names", "insert"} => Intact(source[p])
        /\ pc[p] = "answered" => \E f \in Existing(p) : Intact(f)

AllSeen == \A p \in Procs : Seen(p)

(* What a process has seen in the store stays as it is until somebody else *)
(* touches it or the machine stops.                                        *)
LEMMA SeenStep ==
  ASSUME TypeOK, Sound, AllSeen, [Next]_vars
  PROVE  AllSeen'
<1>0. \A p \in Procs : Seen(p)
  BY DEF AllSeen
<1>1. ASSUME NEW p \in Procs, Ingesting(p), NEW q \in Procs
      PROVE  Seen(q)'
  <2>1. \A f \in Path : Intact(f) => Intact(f)'
    <3>1. pc[p] = "rename" => Complete(temporary[p], source[p])
      BY DEF Sound, Ready
    <3> QED
      BY <1>1, <3>1, FilesStay DEF Intact, Complete
  <2>2. rows \subseteq rows' /\ rows \subseteq Path /\ source[q] \in Path
    BY <1>1, FilesStay DEF TypeOK
  <2>3. ASSUME q # p
        PROVE  Seen(q)'
    <3>1. /\ pc'[q] = pc[q] /\ source'[q] = source[q]
          /\ q \in unsure <=> q \in unsure'
      BY <1>1, <2>3, OthersKeep, FilesStay
    <3> QED
      BY <1>0, <2>1, <2>2, <3>1 DEF Seen, Existing
  <2>4. ASSUME q = p
        PROVE  Seen(q)'
    <3>1. CASE Publish(p)
      <4>1. /\ pc[p] = "rename" /\ pc'[p] = "flush_names" /\ source' = source
            /\ files'[source[p]] = temporary[p]
        BY <3>1, <2>2, <2>4 DEF Publish, Continue, TypeOK
      <4>2. Complete(temporary[p], source[p])
        BY <4>1 DEF Sound, Ready
      <4> QED
        BY <2>4, <4>1, <4>2 DEF Seen, Intact, Complete
    <3>2. CASE TakeOver(p)
      <4>1. pc'[p] = "flush_names" /\ source' = source /\ Intact(source[p])
        BY <3>2 DEF TakeOver, Continue, TypeOK
      <4> QED
        BY <1>0, <2>1, <2>2, <2>4, <4>1 DEF Seen
    <3>3. CASE FlushNames(p)
      <4>1. /\ pc[p] = "flush_names" /\ pc'[p] = "insert" /\ source' = source
            /\ unsure' = unsure
        BY <3>3 DEF FlushNames, Continue, TypeOK, ghosts
      <4> QED
        BY <1>0, <2>1, <2>2, <2>4, <4>1 DEF Seen
    <3>4. CASE Insert(p)
      <4>1. /\ pc[p] = "insert" /\ pc'[p] = "answered" /\ source' = source
            /\ unsure' = unsure /\ source[p] \in rows'
        BY <3>4 DEF Insert, Leave, TypeOK, ghosts
      <4> QED
        BY <1>0, <2>1, <2>2, <2>4, <4>1 DEF Seen, Existing
    <3>5. CASE Deduplicate(p)
      <4>1. PICK f \in Existing(p) :
              /\ Leave(p, IF Intact(f) THEN "answered" ELSE "refused")
              /\ UNCHANGED <<files, rows>>
        BY <3>5 DEF Deduplicate
      <4>2. source' = source
            /\ pc'[p] = IF Intact(f) THEN "answered" ELSE "refused"
        BY <4>1 DEF Leave, TypeOK
      <4>3. CASE Intact(f)
        <5>1. f \in Existing(p)' /\ Intact(f)'
          BY <4>1, <4>2, <4>3 DEF Existing, Intact
        <5> QED
          BY <2>4, <4>2, <4>3, <5>1 DEF Seen
      <4>4. CASE ~Intact(f)
        BY <2>4, <4>2, <4>4 DEF Seen
      <4> QED
        BY <4>3, <4>4
    <3>6. CASE Ingest(p) \/ Reindex(p)
      <4>1. pc'[p] = "lookup"
        BY <3>6 DEF Ingest, Reindex, Begin, TypeOK
      <4> QED
        BY <2>4, <4>1 DEF Seen
    <3>7. CASE Lookup(p) \/ WriteTemporary(p) \/ FlushTemporary(p) \/ LookForFile(p)
      <4>1. pc'[p] \in {"write", "flush", "publish", "compare", "rename"}
        BY <3>7
        DEF Lookup, WriteTemporary, FlushTemporary, LookForFile, Continue, TypeOK
      <4> QED
        BY <2>4, <4>1 DEF Seen
    <3>8. CASE Collide(p) \/ RefuseDifferent(p) \/ Fail(p)
      <4>1. pc'[p] \in {"refused", "idle"}
        BY <3>8 DEF Collide, RefuseDifferent, Fail, Leave, TypeOK
      <4> QED
        BY <2>4, <4>1 DEF Seen
    <3> QED
      BY <1>1, <3>1, <3>2, <3>3, <3>4, <3>5, <3>6, <3>7, <3>8 DEF Ingesting
  <2> QED
    BY <2>3, <2>4
<1>2. CASE PowerLoss
  <2>1. \A p \in Procs : pc'[p] = "idle"
    BY <1>2 DEF PowerLoss
  <2> QED
    BY <2>1 DEF Seen, AllSeen
<1>3. CASE Tamper
  BY <1>3 DEF Tamper, Seen, AllSeen
<1>4. CASE UNCHANGED vars
  BY <1>4 DEF vars, database, locals, ghosts, Seen, AllSeen, Intact, Existing
<1> QED
  BY <1>1, <1>2, <1>3, <1>4 DEF Next, Step, AllSeen

(* Whoever is told that the content is stored can rely on it: the bytes    *)
(* are there, in a new file or in one that was there before.               *)
THEOREM AnswersAreVerified == Spec => []VerifiedAnswers
<1>1. Init => AllSeen
  BY DEF Init, Seen, AllSeen
<1>2. TypeOK /\ Sound /\ AllSeen /\ [Next]_vars => Sound' /\ AllSeen'
  BY SoundStep, SeenStep
<1>3. AllSeen => VerifiedAnswers
  BY DEF Seen, AllSeen, VerifiedAnswers
<1> QED
  BY <1>1, <1>2, <1>3, SoundInit, StoreTypes, PTL DEF Spec

(* A refused process stays refused for its reason, and one that is refused *)
(* now has met a touched file or a colliding handle.                       *)
LEMMA RefusalStep ==
  ASSUME TypeOK, Sound, RefusedForAReason, [Next]_vars
  PROVE  RefusedForAReason'
<1>1. ASSUME NEW p \in Procs, Ingesting(p), NEW q \in Procs,
             pc'[q] = "refused"
      PROVE  \/ \E f \in tampered' : f.digest = source'[q].digest
             \/ Colliding(q)' # {}
  <2>1. CASE pc[q] = "refused" /\ source'[q] = source[q]
    BY <1>1, <2>1, FilesStay DEF RefusedForAReason, Colliding
  <2>2. CASE ~(pc[q] = "refused" /\ source'[q] = source[q])
    <3>1. q = p
      BY <1>1, <2>2, OthersKeep
    <3>2. CASE Deduplicate(p)
      <4>1. PICK f \in Existing(p) :
              /\ Leave(p, IF Intact(f) THEN "answered" ELSE "refused")
              /\ UNCHANGED <<tampered, source>>
        BY <3>2 DEF Deduplicate, Leave, ghosts
      <4>2. ~Intact(f)
        BY <1>1, <3>1, <4>1 DEF Leave, TypeOK
      <4>3. f \in rows /\ f.digest = source[p].digest /\ f \in Path
        BY DEF Existing, TypeOK
      <4>4. f \in tampered
        BY <4>2, <4>3 DEF Sound, Intact, Complete
      <4> QED
        BY <3>1, <4>1, <4>3, <4>4
    <3>3. CASE RefuseDifferent(p)
      <4>1. /\ pc[p] = "compare" /\ ~Intact(source[p])
            /\ UNCHANGED <<tampered, source>> /\ source[p] \in Path
        BY <3>3 DEF RefuseDifferent, Leave, ghosts, TypeOK
      <4>2. source[p] \in tampered
        BY <4>1 DEF Sound, Ready, Intact, Complete
      <4> QED
        BY <3>1, <4>1, <4>2
    <3>4. CASE Collide(p)
      BY <3>1, <3>4 DEF Collide, Leave, Colliding
    <3>5. CASE ~(Deduplicate(p) \/ RefuseDifferent(p) \/ Collide(p))
      <4>1. ASSUME Ingest(p) \/ Reindex(p)
            PROVE  pc'[p] # "refused"
        BY <4>1 DEF Ingest, Reindex, Begin, TypeOK
      <4>2. ASSUME \/ Lookup(p) \/ WriteTemporary(p) \/ FlushTemporary(p)
                   \/ LookForFile(p) \/ Publish(p) \/ TakeOver(p) \/ FlushNames(p)
            PROVE  pc'[p] # "refused"
        <5>1. PICK place \in Working : Continue(p, place)
          BY <4>2
          DEF Lookup, WriteTemporary, FlushTemporary, LookForFile, Publish,
              TakeOver, FlushNames, Working
        <5> QED
          BY <5>1 DEF Continue, TypeOK, Working
      <4>3. ASSUME Insert(p) \/ Fail(p)
            PROVE  pc'[p] # "refused"
        BY <4>3 DEF Insert, Fail, Leave, TypeOK
      <4>4. pc'[p] # "refused"
        BY <1>1, <3>5, <4>1, <4>2, <4>3 DEF Ingesting
      <4> QED
        BY <1>1, <3>1, <4>4
    <3> QED
      BY <3>2, <3>3, <3>4, <3>5
  <2> QED
    BY <2>1, <2>2
<1>2. CASE PowerLoss
  <2>1. \A p \in Procs : pc'[p] = "idle"
    BY <1>2 DEF PowerLoss
  <2> QED
    BY <2>1 DEF RefusedForAReason
<1>3. CASE Tamper
  <2>1. tampered \subseteq tampered' /\ UNCHANGED <<rows, pc, source>>
    BY <1>3 DEF Tamper, database, locals
  <2> QED
    BY <2>1 DEF RefusedForAReason, Colliding
<1>4. CASE UNCHANGED vars
  BY <1>4 DEF vars, database, locals, ghosts, RefusedForAReason, Colliding
<1> QED
  BY <1>1, <1>2, <1>3, <1>4 DEF Next, Step, RefusedForAReason

(* What an ingest that was cut short leaves behind - a file without a row, *)
(* a row that was there before - never makes a later one fail.             *)
THEOREM RefusalsAreExplained == Spec => []RefusedForAReason
<1>1. Init => RefusedForAReason
  BY DEF Init, RefusedForAReason
<1>2. TypeOK /\ Sound /\ RefusedForAReason /\ [Next]_vars
      => Sound' /\ RefusedForAReason'
  BY SoundStep, RefusalStep
<1> QED
  BY <1>1, <1>2, SoundInit, StoreTypes, PTL DEF Spec

(* An ingest that has found no file finds none until somebody else puts one *)
(* there: the others wait for the lock.                                    *)
Free(p) == pc[p] = "rename" /\ p \notin unsure => files[source[p]] = NoFile

LEMMA FreeStep ==
  ASSUME TypeOK, NEW q \in Procs, Free(q), [Next]_vars
  PROVE  Free(q)'
<1>1. ASSUME NEW p \in Procs, p # q, Ingesting(p)
      PROVE  Free(q)'
  <2>1. pc'[q] = pc[q] /\ source'[q] = source[q] /\ (q \in unsure' <=> q \in unsure)
    BY <1>1, OthersKeep, FilesStay
  <2>2. CASE pc[q] = "rename"
    <3>1. writer = q
      BY <2>2 DEF TypeOK, Working
    <3>2. pc[p] \notin Working
      BY <1>1, <3>1 DEF TypeOK
    <3>3. FALSE
      BY <1>1, <3>1, <3>2, StoreConstants
      DEF Ingesting, Ingest, Reindex, Begin, Deduplicate, Collide, Lookup,
          WriteTemporary, FlushTemporary, LookForFile, Publish, TakeOver,
          RefuseDifferent, FlushNames, Insert, Fail, Working
    <3> QED
      BY <3>3
  <2>3. CASE pc[q] # "rename"
    BY <2>1, <2>3 DEF Free
  <2> QED
    BY <2>2, <2>3
<1>2. ASSUME Ingesting(q)
      PROVE  Free(q)'
  <2>1. CASE LookForFile(q)
    <3>1. /\ files' = files /\ source' = source
          /\ pc'[q] = IF files[source[q]] = NoFile THEN "rename" ELSE "compare"
      BY <2>1 DEF LookForFile, Continue, TypeOK
    <3> QED
      BY <3>1 DEF Free
  <2>2. CASE ~LookForFile(q)
    <3>1. \/ \E path : Begin(q, path)
          \/ \E outcome \in Resting : Leave(q, outcome)
          \/ \E place \in Working \ {"rename"} : Continue(q, place)
      BY <1>2, <2>2
      DEF Ingesting, Ingest, Reindex, Deduplicate, Collide, Lookup,
          WriteTemporary, FlushTemporary, Publish, TakeOver, RefuseDifferent,
          FlushNames, Insert, Fail, Resting, Working
    <3>2. pc'[q] # "rename"
      BY <3>1 DEF Begin, Leave, Continue, TypeOK, Resting
    <3> QED
      BY <3>2 DEF Free
  <2> QED
    BY <2>1, <2>2
<1>3. CASE PowerLoss
  BY <1>3 DEF PowerLoss, Free
<1>4. CASE Tamper
  BY <1>4 DEF Tamper, Free
<1>5. CASE UNCHANGED vars
  BY <1>5 DEF vars, database, locals, ghosts, Free
<1> QED
  BY <1>1, <1>2, <1>3, <1>4, <1>5 DEF Next, Step

(* irez never changes a file of the store, unless the file is put there in *)
(* an ingest's own window between its look and its rename.                 *)
THEOREM FilesAreImmutable == Spec => StoredFilesAreImmutable
<1> DEFINE AllFree == \A p \in Procs : Free(p)
           Kept == Step => \A f \in Path : files[f] # NoFile /\ files'[f] # files[f] =>
                      \E p \in unsure : pc[p] = "rename" /\ source[p] = f
<1>1. Init => AllFree
  BY DEF Init, Free
<1>2. TypeOK /\ AllFree /\ [Next]_vars => AllFree'
  BY FreeStep
<1>3. TypeOK /\ AllFree /\ [Next]_vars => Kept
  BY FilesStay DEF Step, Free
<1> QED
  BY <1>1, <1>2, <1>3, StoreTypes, PTL DEF Spec, StoredFilesAreImmutable
=============================================================================
