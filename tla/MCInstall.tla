----------------------------- MODULE MCInstall -----------------------------
(***************************************************************************)
(* InputHooks and Installer in one run of TLC: a behaviour is one of       *)
(* either, and the other stays as it began.                                *)
(***************************************************************************)
EXTENDS MCInputHooks, Installer

CONSTANTS h1, h2

VARIABLE part

InstallInit == part \in {"hooks", "installer"} /\ Init /\ InstallerInit

InstallNext ==
    \/ part = "hooks" /\ Next /\ UNCHANGED <<part, installerVars>>
    \/ part = "installer" /\ InstallerNext /\ UNCHANGED <<part, vars>>

InstallSpec == InstallInit /\ [][InstallNext]_<<part, vars, installerVars>>

HomesToo == Permutations({d1, d2}) \cup Permutations({h1, h2})

=============================================================================
