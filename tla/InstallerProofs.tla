-------------------------- MODULE InstallerProofs --------------------------
(***************************************************************************)
(* What the installer keeps to, for any number of processes, bundles,      *)
(* versions and state directories, and for any edits beside it.            *)
(***************************************************************************)
EXTENDS Installer, TLAPS

Label == Resting \cup Working

(* A step that goes on in its process keeps the types of what all share.   *)
LEMMA GoTypes ==
  ASSUME TypeOK, NEW p \in Procs, NEW from, NEW to \in Label, Go(p, from, to)
  PROVE  /\ pc' \in [Procs -> Label]
         /\ options' \in [Procs -> Commands]
         /\ alone' \in Procs \cup {NoProc}
         /\ pc' = [pc EXCEPT ![p] = to]
         /\ pc[p] = from
BY DEF TypeOK, Go, Label

(* Options are records of their fields.                                    *)
LEMMA OptionTypes ==
  ASSUME TypeOK, NEW p \in Procs
  PROVE  /\ options[p] \in Options
         /\ options[p].host \in Hosts /\ options[p].dir \in Dirs
         /\ options[p].bundle \in Bundles
         /\ VersionFor(options[p]) \in Versions
         /\ ServerFor(options[p]) \in Server
<1>1. options[p] \in Options
  BY InstallerConstants DEF TypeOK
<1>2. /\ options[p].host \in Hosts /\ options[p].dir \in Dirs
      /\ options[p].bundle \in Bundles
  BY <1>1 DEF Options
<1> QED
  BY <1>1, <1>2, InstallerConstants DEF VersionFor, ServerFor, Server

(* What is left of the types if a step writes no manifest.                 *)
LEMMA DraftsKept ==
  ASSUME TypeOK, NEW p \in Procs, NEW from, NEW to \in Label \ Drafting,
         Go(p, from, to), draft' = draft \/ draft' = [draft EXCEPT ![p] = Absent]
  PROVE  /\ draft' \in [Procs -> Manifest \cup {Absent}]
         /\ \A q \in Procs : pc'[q] \in Drafting => draft'[q] \in Manifest
<1>1. pc' = [pc EXCEPT ![p] = to] /\ pc \in [Procs -> Label]
  BY DEF Go, TypeOK, Label
<1>2. draft' \in [Procs -> Manifest \cup {Absent}]
  BY DEF TypeOK
<1>3. ASSUME NEW q \in Procs, pc'[q] \in Drafting
      PROVE  draft'[q] \in Manifest
  <2>1. q # p /\ pc[q] \in Drafting
    BY <1>1, <1>3
  <2>2. draft'[q] = draft[q]
    BY <2>1 DEF TypeOK
  <2> QED
    BY <2>1, <2>2 DEF TypeOK
<1> QED
  BY <1>2, <1>3

(* Staging a binary.                                                       *)
LEMMA StageTypes ==
  ASSUME TypeOK, NEW p \in Procs, NEW part \in Part, NEW from,
         NEW copy \in Label \ Drafting,
         NEW next \in Label \ Drafting,
         StageBinary(p, part, from, copy, next) \/ CopyBinary(p, part, from, next)
  PROVE  TypeOK'
<1> DEFINE v == VersionFor(options[p])
<1>1. v \in Versions /\ options[p].bundle \in Bundles
  BY OptionTypes
<1>2. /\ Go(p, from, next) \/ Go(p, from, copy)
      /\ UNCHANGED <<host, manifest, draft>>
  BY DEF StageBinary, CopyBinary
<1>3. \/ binaries' = binaries
      \/ \E data \in Data : binaries' = [binaries EXCEPT ![v][part] = data]
  BY <1>1 DEF StageBinary, CopyBinary, Data
<1>4. binaries' \in [Versions -> [Part -> Data]]
  <2>1. binaries \in [Versions -> [Part -> Data]]
    BY DEF TypeOK
  <2>2. ASSUME NEW data \in Data, binaries' = [binaries EXCEPT ![v][part] = data]
        PROVE  binaries' \in [Versions -> [Part -> Data]]
    <3>1. [binaries[v] EXCEPT ![part] = data] \in [Part -> Data]
      BY <1>1, <2>1
    <3> QED
      BY <1>1, <2>1, <2>2, <3>1
  <2> QED
    BY <1>3, <2>1, <2>2
<1>5. /\ pc' \in [Procs -> Label]
      /\ options' \in [Procs -> Commands]
      /\ alone' \in Procs \cup {NoProc}
      /\ draft' \in [Procs -> Manifest \cup {Absent}]
      /\ \A q \in Procs : pc'[q] \in Drafting => draft'[q] \in Manifest
  BY <1>2, GoTypes, DraftsKept
<1> QED
  BY <1>2, <1>4, <1>5 DEF TypeOK, Label, host

(* The steps between the first copy and the manifest, and a removal's.     *)
LEMMA TypeStep ==
  ASSUME TypeOK, [Next]_vars
  PROVE  TypeOK'
<1>1. CASE UNCHANGED vars
  BY <1>1 DEF vars, host, TypeOK
<1>2. ASSUME NEW p \in Procs, Begin(p)
      PROVE  TypeOK'
  <2>1. /\ UNCHANGED <<binaries, host, manifest, draft>> /\ alone' = p
        /\ \E o \in Commands, l \in {"uninstall", "stage_cli"} :
              options' = [options EXCEPT ![p] = o] /\ pc' = [pc EXCEPT ![p] = l]
    BY <1>2 DEF Begin
  <2>2. PICK o \in Commands, l \in {"uninstall", "stage_cli"} :
              options' = [options EXCEPT ![p] = o] /\ pc' = [pc EXCEPT ![p] = l]
    BY <2>1
  <2>3. options' \in [Procs -> Commands] /\ pc' \in [Procs -> Label]
    BY <2>2 DEF TypeOK, Label, Working
  <2>4. \A q \in Procs : pc'[q] \in Drafting => draft'[q] \in Manifest
    BY <2>1, <2>2 DEF TypeOK, Drafting
  <2> QED
    BY <2>1, <2>3, <2>4 DEF TypeOK, host, Label
<1>3. ASSUME NEW p \in Procs,
             \/ StageBinary(p, "cli", "stage_cli", "copy_cli", "stage_mcp")
             \/ CopyBinary(p, "cli", "copy_cli", "stage_mcp")
             \/ StageBinary(p, "mcp", "stage_mcp", "copy_mcp", "prepare")
             \/ CopyBinary(p, "mcp", "copy_mcp", "prepare")
      PROVE  TypeOK'
  <2>1. {"copy_cli", "stage_mcp", "copy_mcp", "prepare"} \subseteq Label \ Drafting
    BY DEF Label, Working, Drafting
  <2>2. "cli" \in Part /\ "mcp" \in Part
    BY DEF Part
  <2> QED
    BY <1>3, <2>1, <2>2, StageTypes
<1>4. ASSUME NEW p \in Procs,
             NEW from, NEW to \in Label \ Drafting, Go(p, from, to),
             binaries' = binaries,
             NEW h \in Hosts,
             \/ registration' = registration
             \/ \E entry \in Server \cup {Absent, NoEntry, Foreign} :
                   registration' = [registration EXCEPT ![h] = entry],
             \/ skill' = skill
             \/ \E s \in Bundles \cup {Absent, Torn, Remnant, Foreign} :
                   skill' = [skill EXCEPT ![h] = s],
             NEW d \in Dirs,
             \/ manifest' = manifest
             \/ \E m \in Manifest \cup {Absent, Torn} :
                   manifest' = [manifest EXCEPT ![h][d] = m],
             draft' = draft \/ draft' = [draft EXCEPT ![p] = Absent]
      PROVE  TypeOK'
  <2>1. /\ pc' \in [Procs -> Label]
        /\ options' \in [Procs -> Commands]
        /\ alone' \in Procs \cup {NoProc}
    BY <1>4, GoTypes
  <2>2. /\ draft' \in [Procs -> Manifest \cup {Absent}]
        /\ \A q \in Procs : pc'[q] \in Drafting => draft'[q] \in Manifest
    BY <1>4, DraftsKept
  <2>3. registration' \in [Hosts -> Server \cup {Absent, NoEntry, Foreign}]
    BY <1>4 DEF TypeOK
  <2>4. skill' \in [Hosts -> Bundles \cup {Absent, Torn, Remnant, Foreign}]
    BY <1>4 DEF TypeOK
  <2>5. manifest' \in [Hosts -> [Dirs -> Manifest \cup {Absent, Torn}]]
    <3>1. manifest \in [Hosts -> [Dirs -> Manifest \cup {Absent, Torn}]]
      BY DEF TypeOK
    <3>2. ASSUME NEW m \in Manifest \cup {Absent, Torn},
                 manifest' = [manifest EXCEPT ![h][d] = m]
          PROVE  manifest' \in [Hosts -> [Dirs -> Manifest \cup {Absent, Torn}]]
      <4>1. [manifest[h] EXCEPT ![d] = m] \in [Dirs -> Manifest \cup {Absent, Torn}]
        BY <3>1
      <4> QED
        BY <3>1, <3>2, <4>1
    <3> QED
      BY <1>4, <3>1, <3>2
  <2> QED
    BY <1>4, <2>1, <2>2, <2>3, <2>4, <2>5 DEF TypeOK, Label
<1>5. ASSUME NEW p \in Procs,
             \/ PrepareState(p) \/ Probe(p) \/ Replace(p) \/ CodexAdd(p) \/ Add(p)
             \/ LinkSkill(p) \/ Unlink(p, "unlink_skill", "unlinking")
             \/ Unlinked(p, "unlinking", "place_skill") \/ PlaceSkill(p)
             \/ WriteManifest(p) \/ Remove(p) \/ Stop(p)
      PROVE  TypeOK'
  <2> DEFINE h == options[p].host
             d == options[p].dir
             Quiet == Label \ Drafting
  <2>1. h \in Hosts /\ d \in Dirs /\ options[p].bundle \in Bundles
        /\ ServerFor(options[p]) \in Server
    BY OptionTypes
  <2>2. {"probe", "refused", "replace", "link_skill", "add", "fingerprint_cli",
         "place_skill", "unlink_skill", "unlinking", "installed", "remove_skill",
         "unregister", "discard_skill", "discarding", "forget", "uninstalled",
         "stopped"} \subseteq Quiet
    BY DEF Label, Resting, Working, Drafting
  <2>3. \E from \in Label, to \in Quiet : Go(p, from, to)
    <3>1. \A from, to : Go(p, from, to) => from \in Label
      BY DEF Go, TypeOK, Label
    <3>2. \E from, to : Go(p, from, to) /\ to \in Quiet
      BY <1>5, <2>2
      DEF PrepareState, Probe, Replace, CodexAdd, Add, LinkSkill, Unlink,
          Unlinked, PlaceSkill, WriteManifest, Remove, Uninstall, Unregister,
          RemoveSkill, Forget, Stop
    <3> QED
      BY <3>1, <3>2
  <2>4. binaries' = binaries
    BY <1>5
    DEF PrepareState, Probe, Replace, CodexAdd, Add, LinkSkill, Unlink, Unlinked,
        PlaceSkill, WriteManifest, Remove, Uninstall, Unregister, RemoveSkill,
        Forget, Stop
  <2>5. \/ registration' = registration
        \/ \E entry \in Server \cup {Absent, NoEntry, Foreign} :
              registration' = [registration EXCEPT ![h] = entry]
    <3>1. registration[h] \in Server \cup {Absent, NoEntry, Foreign}
      BY <2>1 DEF TypeOK
    <3> QED
      BY <1>5, <2>1, <3>1
      DEF PrepareState, Probe, Replace, CodexAdd, Add, LinkSkill, Unlink,
          Unlinked, PlaceSkill, WriteManifest, Remove, Uninstall, Unregister,
          RemoveSkill, Forget, Stop, host
  <2>6. \/ skill' = skill
        \/ \E s \in Bundles \cup {Absent, Torn, Remnant, Foreign} :
              skill' = [skill EXCEPT ![h] = s]
    BY <1>5, <2>1
    DEF PrepareState, Probe, Replace, CodexAdd, Add, LinkSkill, Unlink, Unlinked,
        PlaceSkill, WriteManifest, Remove, Uninstall, Unregister, RemoveSkill,
        Forget, Stop, host
  <2>7. \/ manifest' = manifest
        \/ \E m \in Manifest \cup {Absent, Torn} :
              manifest' = [manifest EXCEPT ![h][d] = m]
    <3>1. WriteManifest(p) => draft[p] \in Manifest
      BY DEF WriteManifest, Go, TypeOK, Drafting
    <3> QED
      BY <1>5, <2>1, <3>1
      DEF PrepareState, Probe, Replace, CodexAdd, Add, LinkSkill, Unlink,
          Unlinked, PlaceSkill, WriteManifest, Remove, Uninstall, Unregister,
          RemoveSkill, Forget, Stop, host
  <2>8. draft' = draft \/ draft' = [draft EXCEPT ![p] = Absent]
    BY <1>5
    DEF PrepareState, Probe, Replace, CodexAdd, Add, LinkSkill, Unlink, Unlinked,
        PlaceSkill, WriteManifest, Remove, Uninstall, Unregister, RemoveSkill,
        Forget, Stop
  <2> HIDE DEF h, d, Quiet
  <2>9. PICK from \in Label, to \in Quiet : Go(p, from, to)
    BY <2>3
  <2> QED
    BY <1>4, <2>1, <2>4, <2>5, <2>6, <2>7, <2>8, <2>9 DEF Quiet
<1>6. ASSUME NEW p \in Procs,
             FingerprintCLI(p) \/ FingerprintServer(p) \/ CreateManifest(p)
      PROVE  TypeOK'
  <2> DEFINE o == options[p]
             bin == binaries[VersionFor(o)]
             first == [server |-> ServerFor(o), cli |-> bin["cli"], mcp |-> Absent,
                       skill |-> IF o.skill THEN o.bundle ELSE Absent]
  <2>1. o.host \in Hosts /\ o.dir \in Dirs /\ o.bundle \in Bundles
        /\ ServerFor(o) \in Server /\ VersionFor(o) \in Versions
    BY OptionTypes
  <2>2. bin["cli"] \in Data /\ bin["mcp"] \in Data /\ Absent \in Data
    BY <2>1 DEF TypeOK, Part, Data
  <2>3. \E from, to \in Label : Go(p, from, to) /\ to \in Drafting
    BY <1>6 DEF FingerprintCLI, FingerprintServer, CreateManifest, Label, Working,
                Drafting
  <2>4. /\ pc' \in [Procs -> Label]
        /\ options' \in [Procs -> Commands]
        /\ alone' \in Procs \cup {NoProc}
        /\ \E to : pc' = [pc EXCEPT ![p] = to]
    BY <2>3, GoTypes
  <2>5. \E m \in Manifest : draft' = [draft EXCEPT ![p] = m]
    <3>1. CASE FingerprintCLI(p)
      <4>1. first \in Manifest
        BY <2>1, <2>2 DEF Manifest
      <4> QED
        BY <3>1, <4>1 DEF FingerprintCLI
    <3>2. CASE FingerprintServer(p)
      <4>1. draft[p] \in Manifest
        BY <3>2 DEF FingerprintServer, Go, Drafting, TypeOK
      <4>2. [draft[p] EXCEPT !.mcp = bin["mcp"]] \in Manifest
        BY <2>2, <4>1 DEF Manifest
      <4> QED
        BY <3>2, <4>2 DEF FingerprintServer
    <3>3. CASE CreateManifest(p)
      <4>1. draft[p] \in Manifest /\ draft' = draft
        BY <3>3 DEF CreateManifest, Go, Drafting, TypeOK
      <4>2. draft = [draft EXCEPT ![p] = draft[p]]
        BY DEF TypeOK
      <4> QED
        BY <4>1, <4>2
    <3> QED
      BY <1>6, <3>1, <3>2, <3>3
  <2>6. draft' \in [Procs -> Manifest \cup {Absent}]
    BY <2>5 DEF TypeOK
  <2>7. \A q \in Procs : pc'[q] \in Drafting => draft'[q] \in Manifest
    BY <2>4, <2>5 DEF TypeOK
  <2>8. manifest' \in [Hosts -> [Dirs -> Manifest \cup {Absent, Torn}]]
    <3>1. \/ manifest' = manifest
          \/ manifest' = [manifest EXCEPT ![o.host][o.dir] = Torn]
      BY <1>6 DEF FingerprintCLI, FingerprintServer, CreateManifest
    <3>2. manifest \in [Hosts -> [Dirs -> Manifest \cup {Absent, Torn}]]
      BY DEF TypeOK
    <3>3. [manifest[o.host] EXCEPT ![o.dir] = Torn] \in [Dirs -> Manifest \cup {Absent, Torn}]
      BY <2>1, <3>2
    <3> HIDE DEF o
    <3> QED
      BY <2>1, <3>1, <3>2, <3>3
  <2>9. UNCHANGED <<binaries, host>>
    BY <1>6 DEF FingerprintCLI, FingerprintServer, CreateManifest
  <2> QED
    BY <2>4, <2>6, <2>7, <2>8, <2>9 DEF TypeOK, Label, host
<1>7. ASSUME NEW h \in Hosts, Edit(h)
      PROVE  TypeOK'
  <2>1. registration' \in [Hosts -> Server \cup {Absent, NoEntry, Foreign}]
    BY <1>7 DEF Edit, TypeOK
  <2>2. skill' \in [Hosts -> Bundles \cup {Absent, Torn, Remnant, Foreign}]
    BY <1>7 DEF Edit, TypeOK
  <2> QED
    BY <1>7, <2>1, <2>2 DEF Edit, TypeOK
<1> QED
  BY <1>1, <1>2, <1>3, <1>5, <1>6, <1>7 DEF Next, Install

(* Types, and a manifest is written only when its contents are there.      *)
THEOREM InstallerTypes == Spec => []TypeOK
<1>1. Init => TypeOK
  BY DEF Init, TypeOK, Data, Resting, Drafting
<1>2. TypeOK /\ [Next]_vars => TypeOK'
  BY TypeStep
<1> QED
  BY <1>1, <1>2, PTL DEF Spec
-----------------------------------------------------------------------------
(* Why an entry's binaries exist: a process that is about to register has  *)
(* staged both, or runs in place where both are; and no step takes a       *)
(* binary away, a copy that begins leaves a torn one.                      *)
There(v, part) == binaries[v][part] # Absent

Staged(p) ==
    LET v == VersionFor(options[p])
    IN /\ pc[p] \in {"copy_cli", "copy_mcp"} => ~options[p].inPlace
       /\ pc[p] \in {"stage_cli", "stage_mcp"} /\ options[p].inPlace =>
             There(v, "cli") /\ There(v, "mcp")
       /\ pc[p] \in {"stage_mcp", "copy_mcp", "prepare", "probe", "replace", "add"} =>
             There(v, "cli")
       /\ pc[p] \in {"prepare", "probe", "replace", "add"} => There(v, "mcp")

AllStaged == \A p \in Procs : Staged(p)

(* A binary that is there stays there.                                     *)
LEMMA BinariesStay ==
  ASSUME TypeOK, [Next]_vars
  PROVE  \A v \in Versions, part \in Part : There(v, part) => There(v, part)'
<1> SUFFICES ASSUME NEW v \in Versions, NEW part \in Part, There(v, part)
             PROVE  There(v, part)'
  OBVIOUS
<1>1. ASSUME NEW p \in Procs, NEW here \in Part, NEW from, NEW copy, NEW next,
             StageBinary(p, here, from, copy, next) \/ CopyBinary(p, here, from, next)
      PROVE  There(v, part)'
  <2>1. /\ VersionFor(options[p]) \in Versions
        /\ options[p].bundle # Absent /\ Torn # Absent
    BY OptionTypes, InstallerConstants
  <2>2. \/ binaries' = binaries
        \/ \E data : /\ data # Absent
                     /\ binaries' = [binaries EXCEPT ![VersionFor(options[p])][here] = data]
    BY <1>1, <2>1 DEF StageBinary, CopyBinary
  <2> QED
    BY <2>1, <2>2 DEF TypeOK, There
<1>2. "cli" \in Part /\ "mcp" \in Part
  BY DEF Part
<1>3. \/ binaries' = binaries
      \/ \E p \in Procs, here \in Part : \E from, copy, next :
            StageBinary(p, here, from, copy, next) \/ CopyBinary(p, here, from, next)
  BY <1>2
  DEF Next, vars, Begin, Install, PrepareState, Probe, Replace, CodexAdd, Add,
      LinkSkill, Unlink, Unlinked, PlaceSkill, FingerprintCLI, FingerprintServer,
      CreateManifest, WriteManifest, Remove, Uninstall, Unregister, RemoveSkill,
      Forget, Stop, Edit
<1> QED
  BY <1>1, <1>3 DEF There

(* The other processes keep their place and options; the one that steps    *)
(* keeps its options unless it begins.                                     *)
LEMMA OneSteps ==
  ASSUME TypeOK, NEW p \in Procs, Begin(p) \/ Install(p) \/ Remove(p) \/ Stop(p)
  PROVE  /\ \A q \in Procs \ {p} : pc'[q] = pc[q] /\ options'[q] = options[q]
         /\ ~Begin(p) => options' = options
<1>1. CASE Begin(p)
  BY <1>1 DEF Begin, TypeOK
<1>2. CASE Install(p) \/ Remove(p) \/ Stop(p)
  <2>1. \E from, to : Go(p, from, to)
    BY <1>2
    DEF Install, StageBinary, CopyBinary, PrepareState, Probe, Replace, CodexAdd,
        Add, LinkSkill, Unlink, Unlinked, PlaceSkill, FingerprintCLI,
        FingerprintServer, CreateManifest, WriteManifest, Remove, Uninstall,
        Unregister, RemoveSkill, Forget, Stop
  <2>2. options' = options /\ \E l : pc' = [pc EXCEPT ![p] = l]
    BY <2>1 DEF Go
  <2> QED
    BY <2>2 DEF TypeOK
<1> QED
  BY <1>1, <1>2

(* Staging comes before the registration.                                  *)
LEMMA StagedStep ==
  ASSUME TypeOK, AllStaged, [Next]_vars
  PROVE  AllStaged'
<1>0. \A v \in Versions, part \in Part : There(v, part) => There(v, part)'
  BY BinariesStay
<1>1. "cli" \in Part /\ "mcp" \in Part
  BY DEF Part
<1>2. ASSUME NEW q \in Procs, pc'[q] = pc[q], options'[q] = options[q]
      PROVE  Staged(q)'
  <2>1. VersionFor(options[q]) \in Versions /\ Staged(q)
    BY OptionTypes DEF AllStaged
  <2> QED
    BY <1>0, <1>1, <1>2, <2>1 DEF Staged, VersionFor
<1>3. ASSUME NEW p \in Procs, Begin(p)
      PROVE  Staged(p)'
  <2>1. PICK o \in Commands :
           /\ o.inPlace => /\ binaries[VersionFor(o)]["mcp"] = o.bundle
                           /\ binaries[VersionFor(o)]["cli"] # Absent
           /\ options' = [options EXCEPT ![p] = o]
           /\ pc' = [pc EXCEPT ![p] = IF o.cmd = "uninstall" THEN "uninstall" ELSE "stage_cli"]
    BY <1>3 DEF Begin
  <2>2. options'[p] = o /\ pc'[p] \in {"uninstall", "stage_cli"} /\ binaries' = binaries
    BY <1>3, <2>1 DEF Begin, TypeOK
  <2>3. o \in Options /\ o.bundle # Absent
    BY InstallerConstants DEF Options
  <2> QED
    BY <2>1, <2>2, <2>3 DEF Staged, There, VersionFor
<1>4. ASSUME NEW p \in Procs, Install(p) \/ Remove(p) \/ Stop(p)
      PROVE  Staged(p)'
  <2> DEFINE v == VersionFor(options[p])
  <2>1. v \in Versions /\ Staged(p) /\ options[p].bundle # Absent /\ Torn # Absent
    BY OptionTypes, InstallerConstants DEF AllStaged
  <2>2. options'[p] = options[p]
    <3>1. \E from, to : Go(p, from, to)
      BY <1>4
      DEF Install, StageBinary, CopyBinary, PrepareState, Probe, Replace,
          CodexAdd, Add, LinkSkill, Unlink, Unlinked, PlaceSkill, FingerprintCLI,
          FingerprintServer, CreateManifest, WriteManifest, Remove, Uninstall,
          Unregister, RemoveSkill, Forget, Stop
    <3> QED
      BY <3>1 DEF Go
  <2>3. There(v, "cli") => There(v, "cli")'
    BY <1>0, <1>1, <2>1, <2>2 DEF There, VersionFor
  <2>4. There(v, "mcp") => There(v, "mcp")'
    BY <1>0, <1>1, <2>1, <2>2 DEF There, VersionFor
  <2>5. CASE StageBinary(p, "cli", "stage_cli", "copy_cli", "stage_mcp")
    <3>1. \/ options[p].inPlace /\ pc[p] = "stage_cli" /\ pc'[p] = "stage_mcp"
          \/ ~options[p].inPlace /\ pc'[p] = "copy_cli"
      BY <2>5 DEF StageBinary, Go, TypeOK
    <3> QED
      BY <2>1, <2>2, <2>3, <2>4, <3>1 DEF Staged, VersionFor
  <2>6. CASE CopyBinary(p, "cli", "copy_cli", "stage_mcp")
    <3>1. pc'[p] = "stage_mcp" /\ pc[p] = "copy_cli"
      BY <2>6 DEF CopyBinary, Go, TypeOK
    <3>2. There(v, "cli")'
      BY <1>1, <2>1, <2>2, <2>6 DEF CopyBinary, There, TypeOK, VersionFor
    <3> QED
      BY <2>1, <2>2, <3>1, <3>2 DEF Staged, VersionFor
  <2>7. CASE StageBinary(p, "mcp", "stage_mcp", "copy_mcp", "prepare")
    <3>1. /\ pc[p] = "stage_mcp"
          /\ \/ options[p].inPlace /\ pc'[p] = "prepare"
             \/ ~options[p].inPlace /\ pc'[p] = "copy_mcp"
      BY <2>7 DEF StageBinary, Go, TypeOK
    <3> QED
      BY <2>1, <2>2, <2>3, <2>4, <3>1 DEF Staged, VersionFor
  <2>8. CASE CopyBinary(p, "mcp", "copy_mcp", "prepare")
    <3>1. pc'[p] = "prepare" /\ pc[p] = "copy_mcp"
      BY <2>8 DEF CopyBinary, Go, TypeOK
    <3>2. There(v, "mcp")'
      BY <1>1, <2>1, <2>2, <2>8 DEF CopyBinary, There, TypeOK, VersionFor
    <3> QED
      BY <2>1, <2>2, <2>3, <3>1, <3>2 DEF Staged, VersionFor
  <2>9. CASE PrepareState(p) \/ Probe(p) \/ Replace(p)
    <3>1. pc[p] \in {"prepare", "probe", "replace"}
      BY <2>9 DEF PrepareState, Probe, Replace, Go
    <3>2. pc'[p] \in {"probe", "refused", "replace", "link_skill", "add"}
      BY <2>9 DEF PrepareState, Probe, Replace, Go, TypeOK
    <3> QED
      BY <2>1, <2>2, <2>3, <2>4, <3>1, <3>2 DEF Staged, VersionFor
  <2>10. CASE \/ CodexAdd(p) \/ Add(p) \/ LinkSkill(p)
              \/ Unlink(p, "unlink_skill", "unlinking")
              \/ Unlinked(p, "unlinking", "place_skill") \/ PlaceSkill(p)
              \/ FingerprintCLI(p) \/ FingerprintServer(p) \/ CreateManifest(p)
              \/ WriteManifest(p) \/ Remove(p) \/ Stop(p)
    <3> DEFINE Later == {"link_skill", "fingerprint_cli", "fingerprint_mcp", "unlinking",
                         "place_skill", "refused", "unlink_skill", "create_manifest",
                         "write_manifest", "installed", "remove_skill", "unregister",
                         "discard_skill", "discarding", "forget", "uninstalled",
                         "stopped"}
    <3>1. \E from, to : Go(p, from, to) /\ to \in Later
      BY <2>10
      DEF CodexAdd, Add, LinkSkill, Unlink, Unlinked, PlaceSkill, FingerprintCLI,
          FingerprintServer, CreateManifest, WriteManifest, Remove, Uninstall,
          Unregister, RemoveSkill, Forget, Stop
    <3>2. pc'[p] \in Later
      BY <3>1 DEF Go, TypeOK
    <3> QED
      BY <3>2 DEF Staged
  <2> QED
    BY <1>4, <2>5, <2>6, <2>7, <2>8, <2>9, <2>10 DEF Install
<1>5. ASSUME NEW p \in Procs, Begin(p) \/ Install(p) \/ Remove(p) \/ Stop(p),
             NEW q \in Procs
      PROVE  Staged(q)'
  <2>1. CASE q = p
    BY <1>3, <1>4, <1>5, <2>1
  <2>2. CASE q # p
    BY <1>2, <1>5, <2>2, OneSteps
  <2> QED
    BY <2>1, <2>2
<1>6. ASSUME UNCHANGED vars \/ (\E h \in Hosts : Edit(h)), NEW q \in Procs
      PROVE  Staged(q)'
  BY <1>2, <1>6 DEF vars, Edit
<1> QED
  BY <1>5, <1>6 DEF Next, AllStaged

(* At no step of any command, killed or not, does an entry of irez name    *)
(* binaries that are not there.                                            *)
THEOREM RegisteredBinariesStay == Spec => []RegisteredBinariesExist
<1>1. Init => AllStaged /\ RegisteredBinariesExist
  <2> SUFFICES ASSUME Init PROVE AllStaged /\ RegisteredBinariesExist
    OBVIOUS
  <2>1. \A p \in Procs : pc[p] = "idle"
    BY DEF Init
  <2>2. \A h \in Hosts : registration[h] \in {Absent, NoEntry, Foreign}
    BY DEF Init
  <2>3. \A h \in Hosts : registration[h] \notin Server
    BY <2>2, InstallerConstants
  <2> QED
    BY <2>1, <2>3 DEF AllStaged, Staged, RegisteredBinariesExist
<1>2. TypeOK /\ AllStaged /\ [Next]_vars => AllStaged'
  BY StagedStep
<1>3. TypeOK /\ AllStaged /\ RegisteredBinariesExist /\ [Next]_vars
         => RegisteredBinariesExist'
  <2> SUFFICES ASSUME TypeOK, AllStaged, RegisteredBinariesExist, [Next]_vars,
                      NEW h \in Hosts, registration'[h] \in Server, NEW part \in Part
               PROVE  binaries'[registration'[h].version][part] # Absent
    BY DEF RegisteredBinariesExist, There
  <2>1. \A v \in Versions, x \in Part : There(v, x) => binaries'[v][x] # Absent
    BY BinariesStay DEF There
  <2>2. CASE registration'[h] = registration[h]
    <3>1. There(registration[h].version, part)
      BY <2>2 DEF RegisteredBinariesExist, There
    <3>2. registration[h].version \in Versions
      BY <2>2 DEF Server
    <3> QED
      BY <2>1, <2>2, <3>1, <3>2 DEF There
  <2>3. ASSUME NEW p \in Procs, CodexAdd(p) \/ Add(p),
               registration'[h] # registration[h]
        PROVE  binaries'[registration'[h].version][part] # Absent
    <3>1. registration'[h] = ServerFor(options[p])
      BY <2>3 DEF CodexAdd, Add, TypeOK
    <3>2. registration'[h].version = VersionFor(options[p])
      BY <3>1 DEF ServerFor
    <3>3. pc[p] = "add" /\ Staged(p) /\ VersionFor(options[p]) \in Versions
      BY <2>3, OptionTypes DEF CodexAdd, Add, Go, AllStaged
    <3>4. There(VersionFor(options[p]), part)
      BY <3>3 DEF Staged, Part
    <3> QED
      BY <2>1, <3>2, <3>3, <3>4 DEF There
  <2>4. \/ registration'[h] = registration[h]
        \/ registration'[h] \in {Absent, NoEntry, Foreign}
        \/ \E p \in Procs : CodexAdd(p) \/ Add(p)
    BY
    DEF TypeOK, Next, vars, host, Begin, Install, StageBinary, CopyBinary,
        PrepareState, Probe, Replace, LinkSkill, Unlink, Unlinked, PlaceSkill,
        FingerprintCLI, FingerprintServer, CreateManifest, WriteManifest, Remove,
        Uninstall, Unregister, RemoveSkill, Forget, Stop, Edit
  <2> QED
    BY <2>2, <2>3, <2>4, InstallerConstants
<1> QED
  BY <1>1, <1>2, <1>3, InstallerTypes, PTL DEF Spec

(* A skill that somebody else has put there stays while commands step, with *)
(* however many of them at work, from when no command is between its look   *)
(* at what was there and its removal of what is there: none can get there,  *)
(* for the skill is not marked, and a rename does not replace it.           *)
THEOREM ForeignSkillsStay == Spec => ForeignSkillKept
<1>1. TypeOK /\ [Next]_vars =>
         \A h \in Hosts : Settled(h) /\ pc' # pc => Settled(h)'
  <2> SUFFICES ASSUME TypeOK, [Next]_vars, NEW h \in Hosts, Settled(h), pc' # pc
               PROVE  Settled(h)'
    OBVIOUS
  <2>1. /\ skill[h] = Foreign
        /\ \A p \in Procs : ~AboutToRemove(p, h)
        /\ ~Marked(Foreign) /\ Foreign \notin {Absent, Torn, Remnant}
    BY InstallerConstants DEF Marked, Settled
  <2>2. PICK p \in Procs : Begin(p) \/ Install(p) \/ Remove(p) \/ Stop(p)
    BY DEF Next, vars, Edit
  <2>3. skill'[h] = Foreign
    <3>1. CASE \/ PlaceSkill(p)
               \/ Unlink(p, "unlink_skill", "unlinking")
               \/ Unlink(p, "discard_skill", "discarding")
               \/ Unlinked(p, "unlinking", "place_skill")
               \/ Unlinked(p, "discarding", "forget")
      <4>1. options[p].host # h
        BY <2>1, <3>1 DEF PlaceSkill, Unlink, Unlinked, Go, AboutToRemove
      <4> QED
        BY <2>1, <3>1, <4>1 DEF PlaceSkill, Unlink, Unlinked, TypeOK
    <3>2. CASE ~(\/ PlaceSkill(p)
                 \/ Unlink(p, "unlink_skill", "unlinking")
                 \/ Unlink(p, "discard_skill", "discarding")
                 \/ Unlinked(p, "unlinking", "place_skill")
                 \/ Unlinked(p, "discarding", "forget"))
      <4>1. skill' = skill
        BY <2>2, <3>2
        DEF host, Begin, Install, StageBinary, CopyBinary, PrepareState, Probe,
            Replace, CodexAdd, Add, LinkSkill, FingerprintCLI, FingerprintServer,
            CreateManifest, WriteManifest, Remove, Uninstall, Unregister,
            RemoveSkill, Forget, Stop
      <4> QED
        BY <2>1, <4>1
    <3> QED
      BY <3>1, <3>2
  <2>4. ~AboutToRemove(p, h)'
    <3>1. CASE Begin(p)
      <4>1. pc'[p] \in {"uninstall", "stage_cli"}
        BY <3>1 DEF Begin, TypeOK
      <4> QED
        BY <4>1 DEF AboutToRemove
    <3>2. CASE LinkSkill(p) \/ RemoveSkill(p)
      <4>1. \/ pc'[p] \notin {"unlink_skill", "discard_skill"}
            \/ Marked(skill[options[p].host])
        BY <3>2 DEF LinkSkill, RemoveSkill, Go, TypeOK
      <4>2. options' = options
        BY <3>2 DEF LinkSkill, RemoveSkill, Go
      <4> QED
        BY <2>1, <4>1, <4>2 DEF AboutToRemove
    <3>3. CASE ~(Begin(p) \/ LinkSkill(p) \/ RemoveSkill(p))
      <4>1. \E from, to : Go(p, from, to) /\ to \notin {"unlink_skill", "discard_skill"}
        BY <2>2, <3>3
        DEF Install, StageBinary, CopyBinary, PrepareState, Probe, Replace,
            CodexAdd, Add, Unlink, Unlinked, PlaceSkill, FingerprintCLI,
            FingerprintServer, CreateManifest, WriteManifest, Remove, Uninstall,
            Unregister, Forget, Stop
      <4>2. pc'[p] \notin {"unlink_skill", "discard_skill"}
        BY <4>1 DEF Go, TypeOK
      <4> QED
        BY <4>2 DEF AboutToRemove
    <3> QED
      BY <3>1, <3>2, <3>3
  <2>5. ASSUME NEW q \in Procs, q # p
        PROVE  ~AboutToRemove(q, h)'
    <3>1. pc'[q] = pc[q] /\ options'[q] = options[q]
      BY <2>2, <2>5, OneSteps
    <3> QED
      BY <2>1, <3>1 DEF AboutToRemove
  <2> QED
    BY <2>3, <2>4, <2>5 DEF Settled
<1> QED
  BY <1>1, InstallerTypes, PTL DEF Spec, ForeignSkillKept
-----------------------------------------------------------------------------
(* What a command that works alone knows of the entry when it is about to  *)
(* change it, if every host is OpenCode: it has compared the entry itself. *)
Cautious(p) ==
    LET o == options[p]
    IN /\ pc[p] # "replace"
       /\ pc[p] \in {"uninstall", "unregister"} => o.cmd = "uninstall"
       /\ alone = p /\ pc[p] = "add" =>
             \/ Forced(o) \/ ~Registered(o.host)
             \/ registration[o.host] = ServerFor(o)
       /\ alone = p /\ pc[p] = "unregister" =>
             /\ Owned(o.host, o.dir)
             /\ registration[o.host] = manifest[o.host][o.dir].server

AllCautious == \A p \in Procs : Cautious(p)

(* A decision about an entry holds until somebody else does something.     *)
LEMMA CautiousStep ==
  ASSUME Hosts \subseteq {"opencode"}, TypeOK, AllCautious, [Next]_vars
  PROVE  AllCautious'
<1>1. CASE UNCHANGED vars
  BY <1>1 DEF vars, host, AllCautious, Cautious, Registered, Owned
<1>2. ASSUME NEW p \in Procs, Begin(p) \/ Install(p) \/ Remove(p) \/ Stop(p),
             NEW q \in Procs, q # p
      PROVE  Cautious(q)'
  <2>1. pc'[q] = pc[q] /\ options'[q] = options[q] /\ Cautious(q)
    BY <1>2, OneSteps DEF AllCautious
  <2>2. alone' \in {p, NoProc}
    BY <1>2
    DEF Begin, Go, Install, StageBinary, CopyBinary, PrepareState, Probe, Replace,
        CodexAdd, Add, LinkSkill, Unlink, Unlinked, PlaceSkill, FingerprintCLI,
        FingerprintServer, CreateManifest, WriteManifest, Remove, Uninstall,
        Unregister, RemoveSkill, Forget, Stop
  <2> QED
    BY <1>2, <2>1, <2>2, InstallerConstants DEF Cautious
<1>3. ASSUME NEW p \in Procs, Begin(p)
      PROVE  Cautious(p)'
  <2>1. \E o \in Commands :
           /\ options' = [options EXCEPT ![p] = o]
           /\ pc' = [pc EXCEPT ![p] = IF o.cmd = "uninstall" THEN "uninstall" ELSE "stage_cli"]
    BY <1>3 DEF Begin
  <2>2. /\ pc'[p] \in {"uninstall", "stage_cli"}
        /\ pc'[p] = "uninstall" => options'[p].cmd = "uninstall"
    BY <2>1 DEF TypeOK
  <2> QED
    BY <2>2 DEF Cautious
<1>4. ASSUME NEW p \in Procs, Install(p) \/ Remove(p) \/ Stop(p)
      PROVE  Cautious(p)'
  <2>1. Cautious(p) /\ options[p].host = "opencode" /\ options[p].host \in Hosts
    BY OptionTypes DEF AllCautious
  <2>2. \E from, to : Go(p, from, to)
    BY <1>4
    DEF Install, StageBinary, CopyBinary, PrepareState, Probe, Replace, CodexAdd,
        Add, LinkSkill, Unlink, Unlinked, PlaceSkill, FingerprintCLI,
        FingerprintServer, CreateManifest, WriteManifest, Remove, Uninstall,
        Unregister, RemoveSkill, Forget, Stop
  <2>3. options' = options
    BY <2>2 DEF Go
  <2>4. CASE Probe(p)
    <3>1. /\ UNCHANGED <<registration, manifest>>
          /\ pc'[p] \in {"refused", "add"}
          /\ pc'[p] = "add" => MayRegister(options[p])
      BY <2>1, <2>4 DEF Probe, Go, host, TypeOK
    <3> QED
      BY <2>1, <2>3, <3>1 DEF Cautious, MayRegister, Registered
  <2>5. CASE Uninstall(p)
    <3>1. /\ UNCHANGED <<registration, manifest>>
          /\ pc[p] = "uninstall"
          /\ pc'[p] \in {"refused", "remove_skill", "unregister"}
          /\ pc'[p] = "unregister" =>
                /\ Owned(options[p].host, options[p].dir)
                /\ registration[options[p].host] =
                     manifest[options[p].host][options[p].dir].server
      BY <2>1, <2>5 DEF Uninstall, Go, TypeOK
    <3> QED
      BY <2>1, <2>3, <3>1 DEF Cautious, Owned
  <2>6. CASE Replace(p)
    BY <2>1, <2>6 DEF Replace, Go, Cautious
  <2>7. CASE ~(Probe(p) \/ Uninstall(p) \/ Replace(p))
    <3>1. \E from, to :
             /\ Go(p, from, to)
             /\ to \notin {"replace", "uninstall", "unregister", "add"}
      BY <1>4, <2>7 DEF Install, StageBinary, CopyBinary, PrepareState, CodexAdd,
                        Add, LinkSkill, Unlink, Unlinked, PlaceSkill,
                        FingerprintCLI, FingerprintServer, CreateManifest,
                        WriteManifest, Remove, Unregister, RemoveSkill, Forget,
                        Stop
    <3>2. pc'[p] \notin {"replace", "uninstall", "unregister", "add"}
      BY <3>1 DEF Go, TypeOK
    <3> QED
      BY <3>2 DEF Cautious
  <2> QED
    BY <2>4, <2>5, <2>6, <2>7
<1>5. ASSUME NEW h \in Hosts, Edit(h), NEW q \in Procs
      PROVE  Cautious(q)'
  <2>1. pc' = pc /\ options' = options /\ alone' = NoProc /\ Cautious(q)
    BY <1>5 DEF Edit, AllCautious
  <2> QED
    BY <2>1, InstallerConstants DEF Cautious
<1> QED
  BY <1>1, <1>2, <1>3, <1>4, <1>5 DEF Next, AllCautious

(* With OpenCode, a command that is not disturbed replaces an entry only   *)
(* when forced, and removes it only if it is the one its manifest records. *)
THEOREM OpenCodeEntriesStay ==
  ASSUME Hosts \subseteq {"opencode"}
  PROVE  Spec => EntriesKeptUnlessForced
<1> DEFINE Kept ==
      \A h \in Hosts :
        Registered(h) /\ registration'[h] # registration[h] /\ alone' # NoProc =>
          LET o == options[alone']
          IN \/ Forced(o)
             \/ /\ o.cmd = "uninstall"
                /\ Owned(h, o.dir)
                /\ registration[h] = manifest[h][o.dir].server
<1>1. Init => AllCautious
  BY DEF Init, AllCautious, Cautious
<1>2. TypeOK /\ AllCautious /\ [Next]_vars => AllCautious'
  BY CautiousStep
<1>3. TypeOK /\ AllCautious /\ [Next]_vars => Kept
  <2> SUFFICES ASSUME TypeOK, AllCautious, [Next]_vars, NEW h \in Hosts,
                      Registered(h), registration'[h] # registration[h], alone' # NoProc
               PROVE  LET o == options[alone']
                      IN \/ Forced(o)
                         \/ /\ o.cmd = "uninstall"
                            /\ Owned(h, o.dir)
                            /\ registration[h] = manifest[h][o.dir].server
    OBVIOUS
  <2>1. \E p \in Procs : \/ Replace(p) \/ CodexAdd(p) \/ Add(p)
                       \/ Uninstall(p) \/ Unregister(p)
    BY
    DEF Next, vars, host, Begin, Install, StageBinary, CopyBinary, PrepareState,
        Probe, LinkSkill, Unlink, Unlinked, PlaceSkill, FingerprintCLI,
        FingerprintServer, CreateManifest, WriteManifest, Remove, RemoveSkill,
        Forget, Stop, Edit
  <2>2. PICK p \in Procs : \/ Replace(p) \/ CodexAdd(p) \/ Add(p)
                           \/ Uninstall(p) \/ Unregister(p)
    BY <2>1
  <2>3. Cautious(p) /\ options[p].host = "opencode" /\ options[p].host \in Hosts
    BY OptionTypes DEF AllCautious
  <2>4. alone = p /\ alone' = p
    BY <2>2 DEF Replace, CodexAdd, Add, Uninstall, Unregister, Go
  <2>5. CASE Replace(p)
    BY <2>3, <2>5 DEF Replace, Go, Cautious
  <2>6. CASE CodexAdd(p) \/ Add(p)
    <3>1. pc[p] = "add"
      BY <2>6 DEF CodexAdd, Add, Go
    <3>2. h = options[p].host /\ registration'[h] = ServerFor(options[p])
      BY <2>3, <2>6 DEF CodexAdd, Add, TypeOK
    <3> QED
      BY <2>3, <2>4, <3>1, <3>2 DEF Cautious
  <2>7. CASE Uninstall(p)
    BY <2>3, <2>7 DEF Uninstall
  <2>8. CASE Unregister(p)
    <3>1. pc[p] = "unregister"
      BY <2>8 DEF Unregister, Go
    <3>2. h = options[p].host
      BY <2>3, <2>8 DEF Unregister, TypeOK
    <3> QED
      BY <2>3, <2>4, <3>1, <3>2 DEF Cautious
  <2> QED
    BY <2>2, <2>5, <2>6, <2>7, <2>8
<1> QED
  BY <1>1, <1>2, <1>3, InstallerTypes, PTL DEF Spec, EntriesKeptUnlessForced
-----------------------------------------------------------------------------
\* The steps of a process.
Acts(p) == Begin(p) \/ Install(p) \/ Remove(p) \/ Stop(p)

(* Only a process's own steps leave it alone: whatever another process or  *)
(* somebody else does, the command is not the last to have begun any more. *)
LEMMA OthersEndIt ==
  ASSUME TypeOK, [Next]_vars, NEW q \in Procs, alone' = q
  PROVE  Acts(q) \/ UNCHANGED vars
<1>1. ASSUME NEW p \in Procs, p # q, Acts(p) PROVE FALSE
  <2>1. alone' \in {p, NoProc}
    BY <1>1
    DEF Acts, Begin, Go, Install, StageBinary, CopyBinary, PrepareState, Probe,
        Replace, CodexAdd, Add, LinkSkill, Unlink, Unlinked, PlaceSkill,
        FingerprintCLI, FingerprintServer, CreateManifest, WriteManifest, Remove,
        Uninstall, Unregister, RemoveSkill, Forget, Stop
  <2> QED
    BY <1>1, <2>1, InstallerConstants
<1>2. ASSUME NEW h \in Hosts, Edit(h) PROVE FALSE
  BY <1>2, InstallerConstants DEF Edit
<1> QED
  BY <1>1, <1>2 DEF Next, Acts

(* A step that leaves a process alone found it alone.                      *)
LEMMA StillAlone ==
  ASSUME TypeOK, NEW q \in Procs, NEW from, NEW to, Go(q, from, to), alone' = q
  PROVE  /\ alone = q /\ pc[q] = from /\ pc'[q] = to /\ options' = options
BY InstallerConstants DEF Go, TypeOK

(* Where a command that installs is after each of its steps. *)
FromFingerprint == {"create_manifest", "write_manifest", "installed"}
FromSkill == {"fingerprint_cli", "fingerprint_mcp"} \cup FromFingerprint
FromAdd == {"link_skill", "unlink_skill", "unlinking", "place_skill"} \cup FromSkill
FromProbe == {"probe", "replace", "add"} \cup FromAdd
FromPrepare == {"prepare"} \cup FromProbe

\* The entry a command that installs, and is alone, has in the configuration.
Registers(p) ==
    alone = p /\ pc[p] \in FromAdd =>
        LET h == options[p].host
        IN IF h = "codex" THEN Registered(h) ELSE registration[h] = ServerFor(options[p])

(* Once a command that is alone has added its entry, the entry stays, with *)
(* Codex perhaps an entry that was there and is taken for its own.         *)
LEMMA RegistersStep ==
  ASSUME TypeOK, [Next]_vars, NEW q \in Procs, Registers(q)
  PROVE  Registers(q)'
<1> USE DEF FromAdd, FromSkill, FromFingerprint
<1> SUFFICES ASSUME alone' = q, pc'[q] \in FromAdd PROVE Registers(q)'
  BY DEF Registers
<1>1. CASE UNCHANGED vars
  BY <1>1 DEF vars, host, Registers, Registered, ServerFor, VersionFor
<1>2. options[q].host \in Hosts /\ Hosts \subseteq {"codex", "opencode"}
  BY OptionTypes, InstallerConstants
<1>3. CASE Begin(q)
  <2>1. pc'[q] \in {"uninstall", "stage_cli"}
    BY <1>3 DEF Begin, TypeOK
  <2> QED
    BY <2>1
<1>4. CASE CodexAdd(q) \/ Add(q)
  <2>1. ServerFor(options[q]) \notin {Absent, NoEntry}
    BY OptionTypes, InstallerConstants
  <2>2. options' = options /\ registration'[options[q].host] = ServerFor(options[q])
    BY <1>2, <1>4, StillAlone DEF CodexAdd, Add, TypeOK
  <2> QED
    BY <2>1, <2>2 DEF Registers, Registered, ServerFor, VersionFor
<1>5. CASE \/ LinkSkill(q) \/ Unlink(q, "unlink_skill", "unlinking")
           \/ Unlinked(q, "unlinking", "place_skill") \/ PlaceSkill(q)
           \/ FingerprintCLI(q) \/ FingerprintServer(q)
           \/ CreateManifest(q) \/ WriteManifest(q)
  <2>1. PICK from, to : Go(q, from, to) /\ from \in FromAdd
    BY <1>5
    DEF LinkSkill, Unlink, Unlinked, PlaceSkill, FingerprintCLI,
        FingerprintServer, CreateManifest, WriteManifest
  <2>2. alone = q /\ pc[q] \in FromAdd /\ options' = options
    BY <2>1, StillAlone
  <2>3. registration' = registration
    BY <1>5
    DEF LinkSkill, Unlink, Unlinked, PlaceSkill, FingerprintCLI,
        FingerprintServer, CreateManifest, WriteManifest, host
  <2> QED
    BY <2>2, <2>3 DEF Registers, Registered, ServerFor, VersionFor
<1>6. CASE Probe(q)
  <2>1. PICK to : Go(q, "probe", to) /\ (to \in FromAdd =>
            options[q].host = "codex" /\ Registered(options[q].host))
    BY <1>6 DEF Probe
  <2>2. pc'[q] = to /\ options' = options /\ registration' = registration
    BY <1>6, <2>1, StillAlone DEF Probe, host
  <2> QED
    BY <2>1, <2>2 DEF Registers, Registered
<1>7. CASE ~(\/ Begin(q) \/ Probe(q) \/ CodexAdd(q) \/ Add(q) \/ LinkSkill(q)
             \/ Unlink(q, "unlink_skill", "unlinking")
             \/ Unlinked(q, "unlinking", "place_skill") \/ PlaceSkill(q)
             \/ FingerprintCLI(q) \/ FingerprintServer(q)
             \/ CreateManifest(q) \/ WriteManifest(q)) /\ Acts(q)
  <2>1. PICK from, to : Go(q, from, to) /\ to \notin FromAdd
    BY <1>7 DEF Acts, Install, StageBinary, CopyBinary, PrepareState, Replace,
                Remove, Unlink, Unlinked, Uninstall, Unregister, RemoveSkill,
                Forget, Stop
  <2> QED
    BY <2>1, StillAlone
<1> QED
  BY <1>1, <1>3, <1>4, <1>5, <1>6, <1>7, OthersEndIt

(* With OpenCode, a command that reports success, and has not been         *)
(* disturbed, has its own entry in the host's configuration.               *)
THEOREM SuccessIsRegisteredHolds ==
  ASSUME Hosts \subseteq {"opencode"}
  PROVE  Spec => []SuccessIsRegistered
<1> DEFINE Inv == \A p \in Procs : Registers(p)
<1>1. Init => Inv
  BY DEF Init, Registers, FromAdd, FromSkill, FromFingerprint
<1>2. TypeOK /\ Inv /\ [Next]_vars => Inv'
  <2> SUFFICES ASSUME TypeOK, Inv, [Next]_vars, NEW q \in Procs
               PROVE  Registers(q)'
    OBVIOUS
  <2> QED
    BY RegistersStep
<1>3. TypeOK /\ Inv => SuccessIsRegistered
  BY OptionTypes
  DEF Registers, SuccessIsRegistered, FromAdd, FromSkill, FromFingerprint
<1> QED
  BY <1>1, <1>2, <1>3, InstallerTypes, PTL DEF Spec
-----------------------------------------------------------------------------
(* A binary in a version's directory is of that version; a manifest, also  *)
(* one being written, records a server of its state directory.             *)
VersionsKept ==
    \A v \in Versions, part \in Part :
        binaries[v][part] \in Bundles => VersionOf[binaries[v][part]] = v

Writes(p) == pc[p] \in Drafting => draft[p].server = ServerFor(options[p])

ManifestsKept ==
    \A h \in Hosts, d \in Dirs :
        manifest[h][d] \in Manifest => manifest[h][d].server.dir = d

(* A copy brings a bundle's binary only into the directory of its version. *)
LEMMA VersionsStep ==
  ASSUME TypeOK, VersionsKept, [Next]_vars
  PROVE  VersionsKept'
<1>1. ASSUME NEW p \in Procs, NEW part \in Part, NEW from, NEW copy, NEW next,
             StageBinary(p, part, from, copy, next) \/ CopyBinary(p, part, from, next)
      PROVE  VersionsKept'
  <2> DEFINE v == VersionFor(options[p])
  <2>1. v \in Versions /\ options[p].bundle \in Bundles /\ VersionOf[options[p].bundle] = v
    BY OptionTypes DEF VersionFor
  <2>2. Torn \notin Bundles
    BY InstallerConstants
  <2>3. \/ binaries' = binaries
        \/ \E data \in {options[p].bundle, Torn} :
              binaries' = [binaries EXCEPT ![v][part] = data]
    BY <1>1 DEF StageBinary, CopyBinary
  <2> HIDE DEF v
  <2> QED
    BY <2>1, <2>2, <2>3 DEF VersionsKept, TypeOK
<1>2. "cli" \in Part /\ "mcp" \in Part
  BY DEF Part
<1>3. \/ binaries' = binaries
      \/ \E p \in Procs, here \in Part : \E from, copy, next :
            StageBinary(p, here, from, copy, next) \/ CopyBinary(p, here, from, next)
  BY <1>2
  DEF Next, vars, Begin, Install, PrepareState, Probe, Replace, CodexAdd, Add,
      LinkSkill, Unlink, Unlinked, PlaceSkill, FingerprintCLI, FingerprintServer,
      CreateManifest, WriteManifest, Remove, Uninstall, Unregister, RemoveSkill,
      Forget, Stop, Edit
<1> QED
  BY <1>1, <1>3 DEF VersionsKept

(* The manifest a process is about to write is the one of its options.     *)
LEMMA WritesStep ==
  ASSUME TypeOK, [Next]_vars, NEW q \in Procs, Writes(q)
  PROVE  Writes(q)'
<1>1. CASE UNCHANGED vars
  BY <1>1 DEF vars, Writes, ServerFor, VersionFor
<1>2. ASSUME NEW p \in Procs, Acts(p), p # q
      PROVE  Writes(q)'
  <2>1. pc'[q] = pc[q] /\ options'[q] = options[q]
    BY <1>2, OneSteps DEF Acts
  <2>2. draft' = draft \/ \E x : draft' = [draft EXCEPT ![p] = x]
    BY <1>2
    DEF Acts, Begin, Install, StageBinary, CopyBinary, PrepareState, Probe,
        Replace, CodexAdd, Add, LinkSkill, Unlink, Unlinked, PlaceSkill,
        FingerprintCLI, FingerprintServer, CreateManifest, WriteManifest, Remove,
        Uninstall, Unregister, RemoveSkill, Forget, Stop
  <2>3. draft'[q] = draft[q]
    BY <1>2, <2>2 DEF TypeOK
  <2> QED
    BY <2>1, <2>3 DEF Writes, ServerFor, VersionFor
<1>3. CASE FingerprintCLI(q) \/ FingerprintServer(q) \/ CreateManifest(q)
  <2>1. options' = options
    BY <1>3 DEF FingerprintCLI, FingerprintServer, CreateManifest, Go
  <2>2. draft'[q].server = ServerFor(options[q])
    <3>1. CASE FingerprintCLI(q)
      BY <3>1 DEF FingerprintCLI, TypeOK
    <3>2. CASE FingerprintServer(q)
      <4>1. draft[q] \in Manifest /\ draft[q].server = ServerFor(options[q])
        BY <3>2 DEF FingerprintServer, Go, Drafting, TypeOK, Writes
      <4>2. \E x : draft'[q] = [draft[q] EXCEPT !.mcp = x]
        BY <3>2 DEF FingerprintServer, TypeOK
      <4> QED
        BY <4>1, <4>2 DEF Manifest
    <3>3. CASE CreateManifest(q)
      BY <3>3 DEF CreateManifest, Go, Drafting, Writes
    <3> QED
      BY <1>3, <3>1, <3>2, <3>3
  <2> QED
    BY <2>1, <2>2 DEF Writes, ServerFor, VersionFor
<1>4. CASE /\ Acts(q)
           /\ ~(FingerprintCLI(q) \/ FingerprintServer(q) \/ CreateManifest(q))
  <2>1. CASE Begin(q)
    BY <2>1 DEF Begin, Writes, Drafting, TypeOK
  <2>2. CASE ~Begin(q)
    <3>1. \E from, to : Go(q, from, to) /\ to \notin Drafting
      BY <1>4, <2>2
      DEF Acts, Install, StageBinary, CopyBinary, PrepareState, Probe, Replace,
          CodexAdd, Add, LinkSkill, Unlink, Unlinked, PlaceSkill, WriteManifest,
          Remove, Uninstall, Unregister, RemoveSkill, Forget, Stop, Drafting
    <3> QED
      BY <3>1 DEF Go, Writes, TypeOK
  <2> QED
    BY <2>1, <2>2
<1>5. ASSUME NEW h \in Hosts, Edit(h) PROVE Writes(q)'
  BY <1>5 DEF Edit, Writes, ServerFor, VersionFor
<1> QED
  BY <1>1, <1>2, <1>3, <1>4, <1>5 DEF Next, Acts

(* A manifest is torn, removed, or the one its process has prepared.       *)
LEMMA ManifestsStep ==
  ASSUME TypeOK, ManifestsKept, \A p \in Procs : Writes(p), [Next]_vars
  PROVE  ManifestsKept'
<1> SUFFICES ASSUME NEW h \in Hosts, NEW d \in Dirs, manifest'[h][d] \in Manifest
             PROVE  manifest'[h][d].server.dir = d
  BY DEF ManifestsKept
<1>1. CASE manifest'[h][d] = manifest[h][d]
  BY <1>1 DEF ManifestsKept
<1>2. ASSUME NEW p \in Procs, WriteManifest(p), manifest'[h][d] # manifest[h][d]
      PROVE  manifest'[h][d].server.dir = d
  <2>1. options[p].host = h /\ options[p].dir = d /\ manifest'[h][d] = draft[p]
    BY <1>2, OptionTypes DEF WriteManifest, TypeOK
  <2>2. draft[p].server = ServerFor(options[p])
    BY <1>2 DEF WriteManifest, Go, Writes, Drafting
  <2> QED
    BY <2>1, <2>2 DEF ServerFor
<1>3. \/ manifest'[h][d] = manifest[h][d]
      \/ \E p \in Procs : WriteManifest(p)
      \/ manifest'[h][d] \in {Torn, Absent}
  <2>1. \/ manifest' = manifest
        \/ \E p \in Procs : WriteManifest(p)
        \/ \E p \in Procs, x \in {Torn, Absent} :
              manifest' = [manifest EXCEPT ![options[p].host][options[p].dir] = x]
    BY
    DEF Next, vars, Begin, Install, StageBinary, CopyBinary, PrepareState, Probe,
        Replace, CodexAdd, Add, LinkSkill, Unlink, Unlinked, PlaceSkill,
        FingerprintCLI, FingerprintServer, CreateManifest, Remove, Uninstall,
        Unregister, RemoveSkill, Forget, Stop, Edit
  <2>2. ASSUME NEW p \in Procs, NEW x \in {Torn, Absent},
               manifest' = [manifest EXCEPT ![options[p].host][options[p].dir] = x]
        PROVE  manifest'[h][d] = manifest[h][d] \/ manifest'[h][d] = x
    BY <2>2, OptionTypes DEF TypeOK
  <2> QED
    BY <2>1, <2>2
<1> QED
  BY <1>1, <1>2, <1>3, InstallerConstants

(* With OpenCode, a doctor that passes, run in place, vouches for what the *)
(* host will start: the very version it was run from, on the very state    *)
(* directory, with any number of commands at work.                         *)
THEOREM DoctorVouchesHolds ==
  ASSUME Hosts \subseteq {"opencode"}
  PROVE  Spec => []DoctorVouches
<1> DEFINE Inv == VersionsKept /\ ManifestsKept /\ \A p \in Procs : Writes(p)
<1>1. Init => Inv
  <2>1. Absent \notin Bundles /\ Absent \notin Manifest
    BY InstallerConstants
  <2> QED
    BY <2>1 DEF Init, VersionsKept, ManifestsKept, Writes, Drafting
<1>2. TypeOK /\ Inv /\ [Next]_vars => Inv'
  <2> SUFFICES ASSUME TypeOK, Inv, [Next]_vars
               PROVE  Inv'
    OBVIOUS
  <2>1. VersionsKept' /\ ManifestsKept'
    BY VersionsStep, ManifestsStep
  <2>2. \A p \in Procs : Writes(p)'
    BY WritesStep
  <2> QED
    BY <2>1, <2>2
<1>3. TypeOK /\ Inv => DoctorVouches
  <2> SUFFICES ASSUME TypeOK, Inv, NEW v \in Versions, NEW h \in Hosts, NEW d \in Dirs,
                      DoctorPasses(InPlace(v), h, d)
               PROVE  registration[h] = [version |-> v, dir |-> d]
    BY DEF DoctorVouches
  <2> DEFINE m == manifest[h][d]
  <2>1. h = "opencode"
    OBVIOUS
  <2>2. /\ m \in Manifest /\ registration[h] = m.server
        /\ binaries[v]["cli"] \in Bundles /\ m.server.version = VersionOf[binaries[v]["cli"]]
    BY <2>1 DEF DoctorPasses, InPlace, Owned
  <2>3. m.server \in Server
    BY <2>2 DEF Manifest
  <2>4. m.server.version = v /\ m.server.dir = d
    BY <2>2 DEF VersionsKept, ManifestsKept, Part
  <2> QED
    BY <2>2, <2>3, <2>4 DEF Server
<1> QED
  BY <1>1, <1>2, <1>3, InstallerTypes, PTL DEF Spec
-----------------------------------------------------------------------------
\* The manifest of a command's installation.
Recorded(p) ==
    LET o == options[p]
        bin == binaries[VersionFor(o)]
    IN [server |-> ServerFor(o), cli |-> bin["cli"], mcp |-> bin["mcp"],
        skill |-> IF o.skill THEN o.bundle ELSE Absent]

FromStageMcp == {"stage_mcp", "copy_mcp"} \cup FromPrepare
FromStage == {"stage_cli", "copy_cli"} \cup FromStageMcp

\* The binaries of a command that installs and is alone.
Bundled(p) ==
    alone = p =>
        LET o == options[p]
            bin == binaries[VersionFor(o)]
        IN /\ o.inPlace /\ pc[p] \in FromStage => bin["mcp"] = o.bundle
           /\ ~o.inPlace /\ pc[p] \in FromStageMcp => bin["cli"] = o.bundle
           /\ pc[p] \in FromPrepare => bin["mcp"] = o.bundle
           /\ pc[p] \in FromProbe => bin["cli"] \in Bundles

\* The skill of a command that installs and is alone.
Placed(p) ==
    alone = p /\ options[p].skill /\ pc[p] \in FromSkill =>
        skill[options[p].host] = options[p].bundle

\* What it writes down, and has written.
Records(p) ==
    alone = p =>
        /\ pc[p] = "fingerprint_mcp" => draft[p] = [Recorded(p) EXCEPT !.mcp = Absent]
        /\ pc[p] \in {"create_manifest", "write_manifest"} => draft[p] = Recorded(p)
        /\ pc[p] = "installed" => manifest[options[p].host][options[p].dir] = Recorded(p)

\* No two processes copy the same binary of a version at a time.
NoRivalCopies ==
    \A p, q \in Procs :
        p # q /\ pc[p] \in {"copy_cli", "copy_mcp"} /\ pc[q] = pc[p] =>
            VersionFor(options[p]) # VersionFor(options[q])

(* The fields of a command line.                                           *)
LEMMA CommandTypes ==
  ASSUME TypeOK, NEW p \in Procs
  PROVE  /\ VersionFor(options[p]) \in Versions /\ options[p].bundle \in Bundles
         /\ VersionOf[options[p].bundle] = VersionFor(options[p])
         /\ options[p].host \in Hosts /\ options[p].dir \in Dirs
         /\ options[p].inPlace \in BOOLEAN /\ options[p].skill \in BOOLEAN
         /\ options[p].force \in BOOLEAN
BY OptionTypes, InstallerConstants DEF VersionFor, TypeOK, Options

(* A step of a command that stays alone leaves its command line alone.     *)
LEMMA AloneWorks ==
  ASSUME TypeOK, NEW q \in Procs, alone' = q, Acts(q), ~Begin(q)
  PROVE  /\ alone = q /\ options' = options
         /\ \E from, to : Go(q, from, to)
<1>1. PICK from, to : Go(q, from, to)
  BY
  DEF Acts, Install, StageBinary, CopyBinary, PrepareState, Probe, Replace,
      CodexAdd, Add, LinkSkill, Unlink, Unlinked, PlaceSkill, FingerprintCLI,
      FingerprintServer, CreateManifest, WriteManifest, Remove, Uninstall,
      Unregister, RemoveSkill, Forget, Stop
<1> QED
  BY <1>1, StillAlone

(* A command that is alone finds its binaries as it has staged them.       *)
LEMMA BundledStep ==
  ASSUME TypeOK, NoRivalCopies, [Next]_vars, NEW q \in Procs, Bundled(q)
  PROVE  Bundled(q)'
<1> DEFINE v == VersionFor(options[q])
           b == options[q].bundle
           local == options[q].inPlace
<1> USE DEF FromStage, FromStageMcp, FromPrepare, FromProbe, FromAdd, FromSkill, FromFingerprint
<1> SUFFICES ASSUME alone' = q PROVE Bundled(q)'
  BY DEF Bundled, VersionFor
<1>1. CASE UNCHANGED vars
  BY <1>1 DEF vars, Bundled, VersionFor
<1>2. CASE Begin(q)
  <2>1. PICK o \in Commands :
           /\ o.inPlace => /\ binaries[VersionFor(o)]["mcp"] = o.bundle
                           /\ binaries[VersionFor(o)]["cli"] # Absent
           /\ options' = [options EXCEPT ![q] = o]
           /\ pc' = [pc EXCEPT ![q] = IF o.cmd = "uninstall" THEN "uninstall" ELSE "stage_cli"]
    BY <1>2 DEF Begin
  <2>2. options'[q] = o /\ pc'[q] \in {"uninstall", "stage_cli"} /\ binaries' = binaries
    BY <1>2, <2>1 DEF Begin, TypeOK
  <2> QED
    BY <2>1, <2>2 DEF Bundled, VersionFor
<1>3. CASE Acts(q) /\ ~Begin(q)
  <2>1. alone = q /\ options' = options
    BY <1>3, AloneWorks
  <2>2. v \in Versions /\ b \in Bundles /\ local \in BOOLEAN /\ Torn \notin Bundles
    BY CommandTypes, InstallerConstants
  <2>3. /\ local /\ pc[q] \in FromStage => binaries[v]["mcp"] = b
        /\ ~local /\ pc[q] \in FromStageMcp => binaries[v]["cli"] = b
        /\ pc[q] \in FromPrepare => binaries[v]["mcp"] = b
        /\ pc[q] \in FromProbe => binaries[v]["cli"] \in Bundles
    BY <2>1 DEF Bundled
  <2> SUFFICES /\ local /\ pc'[q] \in FromStage => binaries'[v]["mcp"] = b
               /\ ~local /\ pc'[q] \in FromStageMcp => binaries'[v]["cli"] = b
               /\ pc'[q] \in FromPrepare => binaries'[v]["mcp"] = b
               /\ pc'[q] \in FromProbe => binaries'[v]["cli"] \in Bundles
    BY <2>1 DEF Bundled, VersionFor
  <2> DEFINE Dest == v
  <2>4. CASE StageBinary(q, "cli", "stage_cli", "copy_cli", "stage_mcp")
    <3>1. CASE local
      BY <2>2, <2>3, <2>4, <3>1, StillAlone DEF StageBinary
    <3>2. CASE ~local
      <4>1. pc'[q] = "copy_cli"
        BY <2>4, <3>2, StillAlone DEF StageBinary
      <4> QED
        BY <3>2, <4>1
    <3> QED
      BY <3>1, <3>2
  <2>5. CASE CopyBinary(q, "cli", "copy_cli", "stage_mcp")
    <3>1. pc[q] = "copy_cli" /\ pc'[q] = "stage_mcp"
      BY <2>5, StillAlone DEF CopyBinary
    <3>2. binaries' = [binaries EXCEPT ![v]["cli"] = b]
      <4>1. PICK data \in {b, Torn} :
               /\ data = Torn => \E p \in Procs :
                    p # q /\ pc[p] = "copy_cli" /\ VersionFor(options[p]) = v
               /\ binaries' = [binaries EXCEPT ![v]["cli"] = data]
        BY <2>5 DEF CopyBinary
      <4>2. data = b
        BY <3>1, <4>1 DEF NoRivalCopies
      <4> QED
        BY <4>1, <4>2
    <3>3. binaries'[v]["cli"] = b /\ binaries'[v]["mcp"] = binaries[v]["mcp"]
      BY <2>2, <3>2 DEF TypeOK, Part
    <3> QED
      BY <2>3, <3>1, <3>3
  <2>6. CASE StageBinary(q, "mcp", "stage_mcp", "copy_mcp", "prepare")
    <3>1. CASE local
      BY <2>2, <2>3, <2>6, <3>1, StillAlone DEF StageBinary
    <3>2. CASE ~local
      <4>1. pc[q] = "stage_mcp" /\ pc'[q] = "copy_mcp"
        BY <2>6, <3>2, StillAlone DEF StageBinary
      <4>2. binaries' = [binaries EXCEPT ![v]["mcp"] = Torn]
        BY <2>6, <3>2 DEF StageBinary
      <4>3. binaries'[v]["cli"] = binaries[v]["cli"]
        BY <2>2, <4>2 DEF TypeOK, Part
      <4> QED
        BY <2>3, <3>2, <4>1, <4>3
    <3> QED
      BY <3>1, <3>2
  <2>7. CASE CopyBinary(q, "mcp", "copy_mcp", "prepare")
    <3>1. pc[q] = "copy_mcp" /\ pc'[q] = "prepare"
      BY <2>7, StillAlone DEF CopyBinary
    <3>2. binaries' = [binaries EXCEPT ![v]["mcp"] = b]
      <4>1. PICK data \in {b, Torn} :
               /\ data = Torn => \E p \in Procs :
                    p # q /\ pc[p] = "copy_mcp" /\ VersionFor(options[p]) = v
               /\ binaries' = [binaries EXCEPT ![v]["mcp"] = data]
        BY <2>7 DEF CopyBinary
      <4>2. data = b
        BY <3>1, <4>1 DEF NoRivalCopies
      <4> QED
        BY <4>1, <4>2
    <3>3. binaries'[v]["mcp"] = b /\ binaries'[v]["cli"] = binaries[v]["cli"]
      BY <2>2, <3>2 DEF TypeOK, Part
    <3> QED
      BY <2>3, <3>1, <3>3
  <2>8. CASE PrepareState(q)
    <3>1. pc[q] = "prepare" /\ pc'[q] = "probe" /\ binaries' = binaries
      BY <2>8, StillAlone DEF PrepareState
    <3>2. binaries[v]["cli"] \in Bundles
      BY <2>8 DEF PrepareState
    <3> QED
      BY <2>3, <3>1, <3>2
  <2>9. CASE \/ Probe(q) \/ Replace(q) \/ CodexAdd(q) \/ Add(q) \/ LinkSkill(q)
             \/ Unlink(q, "unlink_skill", "unlinking")
             \/ Unlinked(q, "unlinking", "place_skill") \/ PlaceSkill(q)
             \/ FingerprintCLI(q) \/ FingerprintServer(q)
             \/ CreateManifest(q) \/ WriteManifest(q)
    <3>1. binaries' = binaries
      BY <2>9
      DEF Probe, Replace, CodexAdd, Add, LinkSkill, PlaceSkill, Unlink, Unlinked,
          FingerprintCLI, FingerprintServer, CreateManifest, WriteManifest
    <3>2. PICK from, to : Go(q, from, to) /\ from \in FromProbe
      BY <2>9
      DEF Probe, Replace, CodexAdd, Add, LinkSkill, PlaceSkill, Unlink, Unlinked,
          FingerprintCLI, FingerprintServer, CreateManifest, WriteManifest
    <3>3. pc[q] \in FromProbe
      BY <3>2, StillAlone
    <3> QED
      BY <2>3, <3>1, <3>3
  <2>10. CASE Remove(q) \/ Stop(q)
    <3>1. PICK from, to : Go(q, from, to) /\ to \notin FromStage
      BY <2>10
      DEF Remove, Uninstall, Unregister, RemoveSkill, Unlink, Unlinked, Forget, Stop
    <3> QED
      BY <3>1, StillAlone
  <2> QED
    BY <1>3, <2>4, <2>5, <2>6, <2>7, <2>8, <2>9, <2>10 DEF Acts, Install
<1> QED
  BY <1>1, <1>2, <1>3, OthersEndIt

(* A command that is alone finds the skill as it has placed it.            *)
LEMMA PlacedStep ==
  ASSUME TypeOK, [Next]_vars, NEW q \in Procs, Placed(q)
  PROVE  Placed(q)'
<1> USE DEF FromSkill, FromFingerprint
<1> SUFFICES ASSUME alone' = q, pc'[q] \in FromSkill, options'[q].skill
             PROVE  skill'[options'[q].host] = options'[q].bundle
  BY DEF Placed
<1>1. CASE UNCHANGED vars
  BY <1>1 DEF vars, host, Placed
<1>2. CASE Begin(q)
  <2>1. pc'[q] \in {"uninstall", "stage_cli"}
    BY <1>2 DEF Begin, TypeOK
  <2> QED
    BY <2>1
<1>3. CASE Acts(q) /\ ~Begin(q)
  <2>1. alone = q /\ options' = options
    BY <1>3, AloneWorks
  <2>2. CASE PlaceSkill(q)
    BY <2>1, <2>2, CommandTypes DEF PlaceSkill, TypeOK
  <2>3. CASE \/ FingerprintCLI(q) \/ FingerprintServer(q)
             \/ CreateManifest(q) \/ WriteManifest(q)
    <3>1. pc[q] \in FromSkill
      BY <2>3, StillAlone
      DEF FingerprintCLI, FingerprintServer, CreateManifest, WriteManifest
    <3>2. skill' = skill
      BY <2>3 DEF FingerprintCLI, FingerprintServer, CreateManifest, WriteManifest, host
    <3> QED
      BY <2>1, <3>1, <3>2 DEF Placed
  <2>4. CASE LinkSkill(q)
    <3>1. pc'[q] # "fingerprint_cli" \/ ~options[q].skill
      BY <2>4, StillAlone DEF LinkSkill
    <3>2. PICK to \in {"fingerprint_cli", "place_skill", "refused", "unlink_skill"} :
             Go(q, "link_skill", to)
      BY <2>4 DEF LinkSkill
    <3>3. pc'[q] = to
      BY <3>2, StillAlone
    <3> QED
      BY <2>1, <3>1, <3>3
  <2>5. CASE ~(\/ PlaceSkill(q) \/ LinkSkill(q)
               \/ FingerprintCLI(q) \/ FingerprintServer(q)
               \/ CreateManifest(q) \/ WriteManifest(q))
    <3>1. PICK from, to : Go(q, from, to) /\ to \notin FromSkill
      BY <1>3, <2>5
      DEF Acts, Install, StageBinary, CopyBinary, PrepareState, Probe, Replace,
          CodexAdd, Add, Unlink, Unlinked, Remove, Uninstall, Unregister,
          RemoveSkill, Forget, Stop
    <3> QED
      BY <3>1, StillAlone
  <2> QED
    BY <2>2, <2>3, <2>4, <2>5
<1> QED
  BY <1>1, <1>2, <1>3, OthersEndIt

(* A command that is alone has written down what it has staged.            *)
LEMMA RecordsStep ==
  ASSUME TypeOK, [Next]_vars, NEW q \in Procs, Records(q)
  PROVE  Records(q)'
<1> SUFFICES ASSUME alone' = q PROVE Records(q)'
  BY DEF Records
<1>1. CASE UNCHANGED vars
  BY <1>1 DEF vars, host, Records, Recorded, ServerFor, VersionFor
<1>2. CASE Begin(q)
  <2>1. pc'[q] \in {"uninstall", "stage_cli"}
    BY <1>2 DEF Begin, TypeOK
  <2> QED
    BY <2>1 DEF Records
<1>3. CASE FingerprintCLI(q) \/ FingerprintServer(q) \/ CreateManifest(q)
  <2>1. alone = q /\ options' = options /\ binaries' = binaries
    BY <1>3, StillAlone DEF FingerprintCLI, FingerprintServer, CreateManifest
  <2>2. Recorded(q)' = Recorded(q)
    BY <2>1 DEF Recorded, ServerFor, VersionFor
  <2>3. CASE FingerprintCLI(q)
    <3>1. pc'[q] = "fingerprint_mcp"
      BY <2>3, StillAlone DEF FingerprintCLI
    <3>2. draft'[q] = [Recorded(q) EXCEPT !.mcp = Absent]
      BY <2>3 DEF FingerprintCLI, Recorded, TypeOK
    <3> QED
      BY <2>2, <3>1, <3>2 DEF Records
  <2>4. CASE FingerprintServer(q)
    <3>1. pc[q] = "fingerprint_mcp" /\ pc'[q] = "create_manifest"
      BY <2>4, StillAlone DEF FingerprintServer
    <3>2. draft[q] = [Recorded(q) EXCEPT !.mcp = Absent]
      BY <2>1, <3>1 DEF Records
    <3>3. draft'[q] = [draft[q] EXCEPT !.mcp = binaries[VersionFor(options[q])]["mcp"]]
      BY <2>4 DEF FingerprintServer, TypeOK
    <3>4. draft'[q] = Recorded(q)
      BY <3>2, <3>3 DEF Recorded
    <3> QED
      BY <2>2, <3>1, <3>4 DEF Records
  <2>5. CASE CreateManifest(q)
    <3>1. pc[q] = "create_manifest" /\ pc'[q] = "write_manifest" /\ draft' = draft
      BY <2>5, StillAlone DEF CreateManifest
    <3> QED
      BY <2>1, <2>2, <3>1 DEF Records
  <2> QED
    BY <1>3, <2>3, <2>4, <2>5
<1>4. CASE WriteManifest(q)
  <2>1. /\ alone = q /\ options' = options /\ pc[q] = "write_manifest"
        /\ pc'[q] = "installed" /\ binaries' = binaries
    BY <1>4, StillAlone DEF WriteManifest
  <2>2. manifest'[options[q].host][options[q].dir] = draft[q]
    BY <1>4, CommandTypes DEF WriteManifest, TypeOK
  <2>3. Recorded(q)' = Recorded(q)
    BY <2>1 DEF Recorded, ServerFor, VersionFor
  <2> QED
    BY <2>1, <2>2, <2>3 DEF Records
<1>5. CASE /\ Acts(q) /\ ~Begin(q)
           /\ ~(\/ FingerprintCLI(q) \/ FingerprintServer(q)
                \/ CreateManifest(q) \/ WriteManifest(q))
  <2>1. PICK from, to : /\ Go(q, from, to)
                        /\ to \notin Drafting \cup {"installed"}
    BY <1>5
    DEF Acts, Install, StageBinary, CopyBinary, PrepareState, Probe, Replace,
        CodexAdd, Add, LinkSkill, PlaceSkill, Unlink, Unlinked, Remove, Uninstall,
        Unregister, RemoveSkill, Forget, Stop, Drafting
  <2> QED
    BY <2>1, StillAlone DEF Records, Drafting
<1> QED
  BY <1>1, <1>2, <1>3, <1>4, <1>5, OthersEndIt

(* An installation that reports success and has not been disturbed is one  *)
(* that doctor passes, with either host, unless two copies of a binary run *)
(* into one file at a time.                                                *)
THEOREM SuccessIsHealthyHolds ==
  Spec /\ []NoRivalCopies => []SuccessIsHealthy
<1> DEFINE Of(p) == Registers(p) /\ Bundled(p) /\ Placed(p) /\ Records(p)
           Inv == VersionsKept /\ \A p \in Procs : Of(p)
<1>1. Init => Inv
  <2>1. Absent \notin Bundles /\ NoProc \notin Procs
    BY InstallerConstants
  <2> QED
    BY <2>1 DEF Init, VersionsKept, Registers, Bundled, Placed, Records
<1>2. TypeOK /\ NoRivalCopies /\ Inv /\ [Next]_vars => Inv'
  <2> SUFFICES ASSUME TypeOK, NoRivalCopies, Inv, [Next]_vars
               PROVE  Inv'
    OBVIOUS
  <2>1. VersionsKept'
    BY VersionsStep
  <2>2. ASSUME NEW q \in Procs
        PROVE  Registers(q)' /\ Bundled(q)' /\ Placed(q)' /\ Records(q)'
    <3>1. Registers(q) /\ Bundled(q) /\ Placed(q) /\ Records(q)
      OBVIOUS
    <3> QED
      BY <3>1, RegistersStep, BundledStep, PlacedStep, RecordsStep
  <2> QED
    BY <2>1, <2>2
<1>3. TypeOK /\ Inv => SuccessIsHealthy
  <2> SUFFICES ASSUME TypeOK, Inv, NEW p \in Procs, alone = p, pc[p] = "installed"
               PROVE  LET o == options[p]
                      IN /\ DoctorPasses(InPlace(VersionFor(o)), o.host, o.dir)
                         /\ ~o.inPlace => DoctorPasses(FromBundle(o.bundle), o.host, o.dir)
    BY DEF SuccessIsHealthy
  <2> DEFINE o == options[p]
             v == VersionFor(o)
             m == manifest[o.host][o.dir]
             bin == binaries[v]
  <2>0. Of(p)
    OBVIOUS
  <2>1. /\ v \in Versions /\ o.bundle \in Bundles /\ VersionOf[o.bundle] = v
        /\ o.host \in Hosts /\ o.dir \in Dirs
        /\ o.inPlace \in BOOLEAN /\ o.skill \in BOOLEAN
    BY CommandTypes
  <2>2. /\ bin["mcp"] = o.bundle /\ bin["cli"] \in Bundles
        /\ ~o.inPlace => bin["cli"] = o.bundle
    BY <2>0, <2>1
    DEF Bundled, FromStage, FromStageMcp, FromPrepare, FromProbe, FromAdd,
        FromSkill, FromFingerprint
  <2>3. VersionOf[bin["cli"]] = v
    BY <2>1, <2>2 DEF VersionsKept, Part
  <2>4. m = Recorded(p)
    BY <2>0 DEF Records
  <2>5. /\ m.server = ServerFor(o) /\ m.cli = bin["cli"] /\ m.mcp = bin["mcp"]
        /\ m.skill = IF o.skill THEN o.bundle ELSE Absent
    BY <2>4 DEF Recorded
  <2>6. m \in Manifest
    BY <2>1, <2>2, <2>4 DEF Recorded, Manifest, ServerFor, Server, Data
  <2>7. IF o.host = "codex" THEN Registered(o.host) ELSE registration[o.host] = m.server
    BY <2>0, <2>5 DEF Registers, FromAdd, FromSkill, FromFingerprint
  <2>8. m.skill # Absent => Marked(skill[o.host]) /\ m.skill = o.bundle
    BY <2>0, <2>1, <2>5 DEF Placed, FromSkill, FromFingerprint, Marked
  <2>9. m.server.version = v
    BY <2>5 DEF ServerFor
  <2>10. Owned(o.host, o.dir)
    BY <2>6 DEF Owned
  <2>11. ASSUME NEW run, run["cli"] = bin["cli"], run["mcp"] = o.bundle
         PROVE  DoctorPasses(run, o.host, o.dir)
    BY <2>1, <2>2, <2>3, <2>5, <2>7, <2>8, <2>9, <2>10, <2>11 DEF DoctorPasses
  <2>12. DoctorPasses(InPlace(v), o.host, o.dir)
    BY <2>2, <2>11 DEF InPlace
  <2>13. ~o.inPlace => DoctorPasses(FromBundle(o.bundle), o.host, o.dir)
    BY <2>2, <2>11 DEF FromBundle, Part
  <2> QED
    BY <2>12, <2>13
<1> QED
  BY <1>1, <1>2, <1>3, InstallerTypes, PTL DEF Spec

(* So it does wherever one command runs at a time.                         *)
THEOREM OneCommandAtATime ==
  ASSUME \A p, q \in Procs : p = q
  PROVE  Spec => []SuccessIsHealthy
<1>1. NoRivalCopies
  BY DEF NoRivalCopies
<1> QED
  BY <1>1, SuccessIsHealthyHolds, PTL
=============================================================================
