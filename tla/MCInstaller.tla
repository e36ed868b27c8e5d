---------------------------- MODULE MCInstaller ----------------------------
(* Instances of Installer for TLC.                                         *)
EXTENDS Installer, TLC

CONSTANTS b1, b2, v1, v2, d1, d2

\* A bundle and the one of the next version.
MCVersionOf == [b \in Bundles |-> IF b = b2 THEN v2 ELSE v1]

\* A second state directory, installed into by the plain command.
MCCommands ==
    {o \in Options : o.dir = d2 => o.bundle = b1 /\ ~o.skill /\ ~o.inPlace}

\* For two commands at a time: one of each kind.
MCRivals ==
    {o \in Options : ~o.inPlace /\ ~o.force /\ (o.cmd # "uninstall" => o.skill)}

Symmetry == Permutations(Procs)
=============================================================================
