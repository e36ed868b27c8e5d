----------------------------- MODULE Installer -----------------------------
(***************************************************************************)
(* irez-mcp install, update, uninstall and doctor (src/mcp/src/install.rs): *)
(* the binaries of the versioned directories, the host's registration, the *)
(* skill directory and the ownership manifest, each replaced on its own by *)
(* commands that fail, are killed, or meet each other and the user's edits. *)
(*                                                                         *)
(* A bundle is one build of the CLI, the server and the skill within it;   *)
(* its binaries are abstracted to the bundle they come from, and so are    *)
(* their fingerprints.  Hosts, and the codex command, are external.        *)
(***************************************************************************)
CONSTANTS
    Procs,      \* processes that run commands
    Hosts,      \* a subset of {"codex", "opencode"}
    Dirs,       \* state directories, --state-dir
    Bundles,
    Versions,   \* the versions bundles say they have
    VersionOf,  \* bundle -> version: two builds may have the same
    Commands,   \* the command lines, some of Options
    Absent,     \* no such file, directory or configuration
    Torn,       \* a file half written; a skill half removed, still marked
    Remnant,    \* a skill half removed in which there is no ownership marker
    Foreign,    \* what somebody else has put there
    NoEntry,    \* a configuration with servers, none of them irez
    NoProc

Data == Bundles \cup {Absent, Torn}
Part == {"cli", "mcp"}

\* server_config: the paths of a version's binaries and the state directory.
Server == [version : Versions, dir : Dirs]

\* install-<host>.json: the server, the fingerprints, the skill if any.
Manifest == [server : Server, cli : Data, mcp : Data, skill : Bundles \cup {Absent}]

\* What is run: in place from the versioned directory, or from a bundle.
Options ==
    {o \in [cmd : {"install", "update", "uninstall"}, host : Hosts, dir : Dirs,
            bundle : Bundles, force : BOOLEAN, skill : BOOLEAN, inPlace : BOOLEAN] :
        /\ o.cmd # "install" => ~o.force
        /\ o.cmd = "uninstall" => ~o.skill /\ ~o.inPlace}

ASSUME InstallerConstants ==
    /\ Hosts \subseteq {"codex", "opencode"}
    /\ VersionOf \in [Bundles -> Versions]
    /\ Commands \subseteq Options
    /\ Bundles \cap {Absent, Torn, Remnant, Foreign} = {}
    /\ Server \cap {Absent, NoEntry, Foreign} = {}
    /\ Manifest \cap {Absent, Torn} = {}
    /\ Torn # Absent
    /\ Remnant \notin {Absent, Torn}
    /\ Foreign \notin {Absent, Torn, Remnant}
    /\ NoEntry \notin {Absent, Foreign}
    /\ NoProc \notin Procs

VARIABLES
    binaries,      \* versions/<version>/bin
    registration,  \* the host's entry for irez
    skill,         \* the host's skills/irez-investigation
    manifest,      \* the ownership manifest, by host and state directory
    pc,
    options,
    draft,         \* the manifest a process is writing
    alone          \* the last to begin, if nothing else has happened since

host == <<registration, skill>>
vars == <<binaries, host, manifest, pc, options, draft, alone>>

Resting == {"idle", "installed", "uninstalled", "refused", "stopped"}
Working == {"stage_cli", "copy_cli", "stage_mcp", "copy_mcp", "prepare", "probe",
            "replace", "add", "link_skill", "unlink_skill", "unlinking", "place_skill",
            "fingerprint_cli", "fingerprint_mcp", "create_manifest", "write_manifest",
            "uninstall", "unregister", "remove_skill", "discard_skill", "discarding",
            "forget"}

\* Where a process has contents for the manifest.
Drafting == {"fingerprint_mcp", "create_manifest", "write_manifest"}

\* The types; what is written is a manifest.
TypeOK ==
    /\ binaries \in [Versions -> [Part -> Data]]
    /\ registration \in [Hosts -> Server \cup {Absent, NoEntry, Foreign}]
    /\ skill \in [Hosts -> Bundles \cup {Absent, Torn, Remnant, Foreign}]
    /\ manifest \in [Hosts -> [Dirs -> Manifest \cup {Absent, Torn}]]
    /\ pc \in [Procs -> Resting \cup Working]
    /\ options \in [Procs -> Commands]
    /\ draft \in [Procs -> Manifest \cup {Absent}]
    /\ \A p \in Procs : pc[p] \in Drafting => draft[p] \in Manifest
    /\ alone \in Procs \cup {NoProc}

\* Nothing of irez is there yet; the host may have an entry and a skill.
Init ==
    /\ binaries = [v \in Versions |-> [part \in Part |-> Absent]]
    /\ registration \in [Hosts -> {Absent, NoEntry, Foreign}]
    /\ skill \in [Hosts -> {Absent, Foreign}]
    /\ manifest = [h \in Hosts |-> [d \in Dirs |-> Absent]]
    /\ pc = [p \in Procs |-> "idle"]
    /\ \E o \in Commands : options = [p \in Procs |-> o]
    /\ draft = [p \in Procs |-> Absent]
    /\ alone = NoProc

----------------------------------------------------------------------------
VersionFor(o) == VersionOf[o.bundle]
ServerFor(o) == [version |-> VersionFor(o), dir |-> o.dir]

\* update installs with force set, whatever the command line says.
Forced(o) == o.force \/ o.cmd = "update"

Owned(h, d) == manifest[h][d] \in Manifest

Registered(h) == registration[h] \notin {Absent, NoEntry}

\* The command owns the skill directory if the marker is in it.
Marked(s) == s \in Bundles \cup {Torn}

Go(p, from, to) ==
    /\ pc[p] = from
    /\ pc' = [pc EXCEPT ![p] = to]
    /\ alone' = IF alone = p THEN p ELSE NoProc
    /\ UNCHANGED options

----------------------------------------------------------------------------
\* A command line.  A command is run in place if its server can run.
Begin(p) ==
    /\ pc[p] \in Resting
    /\ \E o \in Commands :
          /\ o.inPlace => /\ binaries[VersionFor(o)]["mcp"] = o.bundle
                          /\ binaries[VersionFor(o)]["cli"] # Absent
          /\ options' = [options EXCEPT ![p] = o]
          /\ pc' = [pc EXCEPT ![p] = IF o.cmd = "uninstall" THEN "uninstall" ELSE "stage_cli"]
    /\ alone' = p
    /\ UNCHANGED <<binaries, host, manifest, draft>>

\* Faulty: a binary that is there is not copied again.
StageBinaryIfMissing(p, part, from, copy, next) ==
    LET o == options[p]
    IN /\ IF o.inPlace \/ binaries[VersionFor(o)][part] # Absent
          THEN Go(p, from, next) /\ UNCHANGED binaries
          ELSE /\ Go(p, from, copy)
               /\ binaries' = [binaries EXCEPT ![VersionFor(o)][part] = Torn]
       /\ UNCHANGED <<host, manifest, draft>>

\* Faulty: the server is not copied, only the CLI is.
StageBinaryOfCLI(p, part, from, copy, next) ==
    /\ Go(p, from, IF part = "mcp" THEN next ELSE copy)
    /\ UNCHANGED <<binaries, host, manifest, draft>>

\* copy_unless_same: a copy truncates its destination before it writes it.
StageBinary(p, part, from, copy, next) ==
    LET o == options[p]
    IN /\ IF o.inPlace
          THEN Go(p, from, next) /\ UNCHANGED binaries
          ELSE /\ Go(p, from, copy)
               /\ binaries' = [binaries EXCEPT ![VersionFor(o)][part] = Torn]
       /\ UNCHANGED <<host, manifest, draft>>

\* Two copies into one file at a time leave one of them, or a mixture.
CopyBinary(p, part, from, next) ==
    LET o == options[p]
        Rival(q) == /\ q # p
                    /\ pc[q] = from
                    /\ VersionFor(options[q]) = VersionFor(o)
    IN /\ Go(p, from, next)
       /\ \E data \in {o.bundle, Torn} :
             /\ data = Torn => \E q \in Procs : Rival(q)
             /\ binaries' = [binaries EXCEPT ![VersionFor(o)][part] = data]
       /\ UNCHANGED <<host, manifest, draft>>

\* The staged CLI is run: irez backup of an update, and irez init.
PrepareState(p) ==
    /\ binaries[VersionFor(options[p])]["cli"] \in Bundles
    /\ Go(p, "prepare", "probe")
    /\ UNCHANGED <<binaries, host, manifest, draft>>

----------------------------------------------------------------------------
\* Without force, an entry is left alone that is not ours or not the same.
\* With codex it is the manifest that is compared, not the entry.
MayRegister(o) ==
    \/ Forced(o)
    \/ ~Registered(o.host)
    \/ /\ Owned(o.host, o.dir)
       /\ ServerFor(o) = IF o.host = "codex" THEN manifest[o.host][o.dir].server
                                             ELSE registration[o.host]

\* codex mcp get, or the configuration file as it is read.
Probe(p) ==
    LET o == options[p]
    IN /\ Go(p, "probe", IF ~MayRegister(o) THEN "refused"
                         ELSE IF o.host = "codex" /\ Registered(o.host)
                              THEN IF Forced(o) THEN "replace" ELSE "link_skill"
                              ELSE "add")
       /\ UNCHANGED <<binaries, host, manifest, draft>>

\* codex mcp remove, before the entry is added again.
Replace(p) ==
    /\ Go(p, "replace", "add")
    /\ registration' = [registration EXCEPT ![options[p].host] = NoEntry]
    /\ UNCHANGED <<binaries, skill, manifest, draft>>

\* Faulty: an entry that is there is kept.
AddUnlessRegistered(p) ==
    LET o == options[p]
    IN /\ o.host = "opencode"
       /\ Go(p, "add", "link_skill")
       /\ registration' = [registration EXCEPT ![o.host] =
             IF Registered(o.host) THEN @ ELSE ServerFor(o)]
       /\ UNCHANGED <<binaries, skill, manifest, draft>>

\* codex mcp add.
CodexAdd(p) ==
    LET o == options[p]
    IN /\ o.host = "codex"
       /\ Go(p, "add", "link_skill")
       /\ registration' = [registration EXCEPT ![o.host] = ServerFor(o)]
       /\ UNCHANGED <<binaries, skill, manifest, draft>>

\* With opencode, write_json_config: a new file is renamed over the old one.
Add(p) ==
    LET o == options[p]
    IN /\ o.host = "opencode"
       /\ Go(p, "add", "link_skill")
       /\ registration' = [registration EXCEPT ![o.host] = ServerFor(o)]
       /\ UNCHANGED <<binaries, skill, manifest, draft>>

\* link_skill, unless --no-skill: what is there is looked at, and refused if it
\* is not marked (or gone between the two looks, which Stop stands for, too).
LinkSkill(p) ==
    LET s == skill[options[p].host]
    IN /\ Go(p, "link_skill", IF ~options[p].skill THEN "fingerprint_cli"
                              ELSE IF s = Absent THEN "place_skill"
                              ELSE IF Marked(s) THEN "unlink_skill"
                              ELSE "refused")
       /\ UNCHANGED <<binaries, host, manifest, draft>>

\* remove_dir_all opens the directory that is there by now, whoever made it,
\* and removes its files in any order, a marker among them.
Unlink(p, from, next) ==
    LET h == options[p].host
    IN /\ skill[h] # Absent
       /\ Go(p, from, next)
       /\ \E rest \in IF Marked(skill[h]) THEN {Torn, Remnant} ELSE {Remnant} :
             skill' = [skill EXCEPT ![h] = rest]
       /\ UNCHANGED <<binaries, registration, manifest, draft>>

\* The rest is removed, and the directory: one that is new is not empty.
Unlinked(p, from, next) ==
    /\ skill[options[p].host] \in {Absent, Torn, Remnant}
    /\ Go(p, from, next)
    /\ skill' = [skill EXCEPT ![options[p].host] = Absent]
    /\ UNCHANGED <<binaries, registration, manifest, draft>>

\* Faulty: the files are written into the directory that is there by now.
PlaceSkillOver(p) ==
    LET o == options[p]
    IN /\ Go(p, "place_skill", "fingerprint_cli")
       /\ skill' = [skill EXCEPT ![o.host] = o.bundle]
       /\ UNCHANGED <<binaries, registration, manifest, draft>>

\* The staged directory is renamed; that fails if there is one by now that is
\* not empty.
PlaceSkill(p) ==
    LET o == options[p]
    IN /\ skill[o.host] = Absent
       /\ Go(p, "place_skill", "fingerprint_cli")
       /\ skill' = [skill EXCEPT ![o.host] = o.bundle]
       /\ UNCHANGED <<binaries, registration, manifest, draft>>

\* The contents of the manifest: the staged binaries are read again, one after
\* the other; what is recorded of the skill is what was meant to be placed.
FingerprintCLI(p) ==
    LET o == options[p]
    IN /\ Go(p, "fingerprint_cli", "fingerprint_mcp")
       /\ draft' = [draft EXCEPT ![p] =
             [server |-> ServerFor(o), cli |-> binaries[VersionFor(o)]["cli"],
              mcp |-> Absent, skill |-> IF o.skill THEN o.bundle ELSE Absent]]
       /\ UNCHANGED <<binaries, host, manifest>>

FingerprintServer(p) ==
    /\ Go(p, "fingerprint_mcp", "create_manifest")
    /\ draft' = [draft EXCEPT ![p].mcp = binaries[VersionFor(options[p])]["mcp"]]
    /\ UNCHANGED <<binaries, host, manifest>>

\* fs::write truncates the manifest before it writes it.
CreateManifest(p) ==
    /\ Go(p, "create_manifest", "write_manifest")
    /\ manifest' = [manifest EXCEPT ![options[p].host][options[p].dir] = Torn]
    /\ UNCHANGED <<binaries, host, draft>>

\* The last step of an installation.
WriteManifest(p) ==
    /\ Go(p, "write_manifest", "installed")
    /\ manifest' = [manifest EXCEPT ![options[p].host][options[p].dir] = draft[p]]
    /\ draft' = [draft EXCEPT ![p] = Absent]
    /\ UNCHANGED <<binaries, host>>

----------------------------------------------------------------------------
\* Faulty: the entry is not compared with the one in the manifest.
UninstallAny(p) ==
    LET h == options[p].host
        owned == Owned(h, options[p].dir)
    IN /\ Go(p, "uninstall", IF ~owned THEN "refused"
                             ELSE IF Registered(h) THEN "unregister" ELSE "remove_skill")
       /\ UNCHANGED <<binaries, host, manifest, draft>>

\* uninstall asks for the manifest; with opencode, also whether the entry is
\* the one it recorded.  A failure of codex mcp remove is ignored.
Uninstall(p) ==
    LET h == options[p].host
        d == options[p].dir
    IN /\ \/ /\ ~Owned(h, d)
             /\ Go(p, "uninstall", "refused") /\ UNCHANGED registration
          \/ /\ Owned(h, d) /\ h = "codex"
             /\ Go(p, "uninstall", "remove_skill")
             /\ \E entry \in {NoEntry, registration[h]} :
                   registration' = [registration EXCEPT ![h] = entry]
          \/ /\ Owned(h, d) /\ h = "opencode" /\ registration[h] = Absent
             /\ Go(p, "uninstall", "remove_skill") /\ UNCHANGED registration
          \/ /\ Owned(h, d) /\ h = "opencode" /\ registration[h] # Absent
             /\ Go(p, "uninstall", IF registration[h] = manifest[h][d].server
                                   THEN "unregister" ELSE "refused")
             /\ UNCHANGED registration
       /\ UNCHANGED <<binaries, skill, manifest, draft>>

\* The configuration without the entry is written, as it was when read.
Unregister(p) ==
    /\ Go(p, "unregister", "remove_skill")
    /\ registration' = [registration EXCEPT ![options[p].host] = NoEntry]
    /\ UNCHANGED <<binaries, skill, manifest, draft>>

\* remove_skill keeps what is not marked when it looks.
RemoveSkill(p) ==
    /\ Go(p, "remove_skill", IF Marked(skill[options[p].host]) THEN "discard_skill"
                             ELSE "forget")
    /\ UNCHANGED <<binaries, host, manifest, draft>>

\* The manifest is removed last.
Forget(p) ==
    /\ Go(p, "forget", "uninstalled")
    /\ manifest' = [manifest EXCEPT ![options[p].host][options[p].dir] = Absent]
    /\ UNCHANGED <<binaries, host, draft>>

----------------------------------------------------------------------------
\* A command is killed, or what it calls fails: what it did stays.
Stop(p) ==
    /\ pc[p] \in Working
    /\ Go(p, pc[p], "stopped")
    /\ draft' = [draft EXCEPT ![p] = Absent]
    /\ UNCHANGED <<binaries, host, manifest>>

\* Somebody else edits the host's configuration, or takes away what is in the
\* place of the skill and perhaps puts a skill there that is not of irez.
Edit(h) ==
    /\ \/ /\ \E entry \in {Absent, NoEntry, Foreign} :
                registration' = [registration EXCEPT ![h] = entry]
          /\ UNCHANGED skill
       \/ /\ \E s \in {Absent, Foreign} : skill' = [skill EXCEPT ![h] = s]
          /\ UNCHANGED registration
    /\ alone' = NoProc
    /\ UNCHANGED <<binaries, manifest, pc, options, draft>>

Install(p) ==
    \/ StageBinary(p, "cli", "stage_cli", "copy_cli", "stage_mcp")
    \/ CopyBinary(p, "cli", "copy_cli", "stage_mcp")
    \/ StageBinary(p, "mcp", "stage_mcp", "copy_mcp", "prepare")
    \/ CopyBinary(p, "mcp", "copy_mcp", "prepare")
    \/ PrepareState(p) \/ Probe(p) \/ Replace(p) \/ CodexAdd(p) \/ Add(p)
    \/ LinkSkill(p) \/ Unlink(p, "unlink_skill", "unlinking")
    \/ Unlinked(p, "unlinking", "place_skill") \/ PlaceSkill(p)
    \/ FingerprintCLI(p) \/ FingerprintServer(p) \/ CreateManifest(p) \/ WriteManifest(p)

Remove(p) ==
    \/ Uninstall(p) \/ Unregister(p)
    \/ RemoveSkill(p) \/ Unlink(p, "discard_skill", "discarding")
    \/ Unlinked(p, "discarding", "forget") \/ Forget(p)

Next ==
    \/ \E p \in Procs : Begin(p) \/ Install(p) \/ Remove(p) \/ Stop(p)
    \/ \E h \in Hosts : Edit(h)

Spec == Init /\ [][Next]_vars
----------------------------------------------------------------------------
\* Faulty: with either host, any entry will do.
DoctorPassesAny(run, h, d) ==
    LET m == manifest[h][d]
    IN /\ run["cli"] \in Bundles /\ run["mcp"] \in Bundles
       /\ Owned(h, d)
       /\ m.server.version = VersionOf[run["cli"]]
       /\ m.cli = run["cli"] /\ m.mcp = run["mcp"]
       /\ Registered(h)
       /\ m.skill # Absent => Marked(skill[h]) /\ m.skill = run["mcp"]

\* irez-mcp doctor run with these binaries: a half removed skill may pass.
DoctorPasses(run, h, d) ==
    LET m == manifest[h][d]
    IN /\ run["cli"] \in Bundles /\ run["mcp"] \in Bundles
       /\ Owned(h, d)
       /\ m.server.version = VersionOf[run["cli"]]
       /\ m.cli = run["cli"] /\ m.mcp = run["mcp"]
       /\ IF h = "codex" THEN Registered(h) ELSE registration[h] = m.server
       /\ m.skill # Absent => Marked(skill[h]) /\ m.skill = run["mcp"]

\* The binaries doctor is run with: the bundle's, or those of a version.
FromBundle(b) == [part \in Part |-> b]
InPlace(v) == binaries[v]

\* An entry of irez names binaries that are there, at whatever step a command
\* was killed (stage_bundle comes before the registration; versions stay).
RegisteredBinariesExist ==
    \A h \in Hosts : registration[h] \in Server =>
        \A part \in Part : binaries[registration[h].version][part] # Absent

\* When a command has installed and nothing else has happened, doctor passes,
\* run in place and from the bundle, whatever earlier commands left behind.
SuccessIsHealthy ==
    \A p \in Procs : alone = p /\ pc[p] = "installed" =>
        LET o == options[p]
        IN /\ DoctorPasses(InPlace(VersionFor(o)), o.host, o.dir)
           /\ ~o.inPlace => DoctorPasses(FromBundle(o.bundle), o.host, o.dir)

\* When a command has installed and nothing else has happened, the host has
\* its entry (install.rs says "is already registered by this installer").
SuccessIsRegistered ==
    \A p \in Procs : alone = p /\ pc[p] = "installed" =>
        registration[options[p].host] = ServerFor(options[p])

\* If doctor, run in place, finds nothing wrong, the host runs just what
\* doctor was run with (check, install.rs, "host_registration: ok").
DoctorVouches ==
    \A v \in Versions, h \in Hosts, d \in Dirs :
        DoctorPasses(InPlace(v), h, d) => registration[h] = [version |-> v, dir |-> d]

\* p has seen a marked skill and is about to remove what is there.
AboutToRemove(p, h) ==
    pc[p] \in {"unlink_skill", "discard_skill"} /\ options[p].host = h

\* "unowned content is never replaced" (README.md:244), as far as it is true: a
\* skill of somebody else that is there while no command is between its look
\* and its removal outlives whatever commands are at work or begin later, with
\* or without --force.  Between the two it is not safe.
Settled(h) == skill[h] = Foreign /\ \A p \in Procs : ~AboutToRemove(p, h)

ForeignSkillKept ==
    [][\A h \in Hosts : Settled(h) /\ pc' # pc => Settled(h)']_vars

\* A command that works alone changes an entry only with force, or if it
\* uninstalls the entry its manifest records.
EntriesKeptUnlessForced ==
    [][\A h \in Hosts :
         Registered(h) /\ registration'[h] # registration[h] /\ alone' # NoProc =>
             LET o == options[alone']
             IN \/ Forced(o)
                \/ /\ o.cmd = "uninstall"
                   /\ Owned(h, o.dir)
                   /\ registration[h] = manifest[h][o.dir].server]_vars
=============================================================================
