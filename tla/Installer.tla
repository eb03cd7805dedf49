----------------------------- MODULE Installer -----------------------------
(***************************************************************************)
(* install.py: what its runs leave behind when any of them may be killed   *)
(* or fail at any step.  Files are represented by how complete they are,   *)
(* SteamVR's list of drivers by the homes whose copy it names.  What every *)
(* run only overwrites is left out: bridge.exe, the build directory, the   *)
(* Wine prefix and the launcher.                                           *)
(***************************************************************************)
EXTENDS Naturals, Sequences

CONSTANTS
    Homes,    \* --home
    Others,   \* drivers of other programs in SteamVR's list
    NoHome

ASSUME InstallerAssumption == Homes \cap Others = {} /\ NoHome \notin Homes

UserPaths == <<"rebocap", "rebocap-config", "rebocap.desktop">>

VARIABLES
    app,               \* of each home: none, part (unpacking was cut off) or whole
    driver,            \* none, bare (no manifest), named (no library), or as app
    external_drivers,  \* in openvrpaths.vrpath
    user_paths,        \* the home that each points to
    job,               \* the run: [kind, home, register]
    pc,
    found, paths        \* its loops: drivers to remove, paths to write or remove

files    == <<app, driver>>
steamvr  == <<external_drivers, user_paths>>
loops    == <<found, paths>>
installerVars == <<files, steamvr, job, pc, loops>>

NoJob == [kind |-> "none", home |-> NoHome, register |-> FALSE]

InstallerInit ==
    /\ app = [h \in Homes |-> "none"] /\ driver = [h \in Homes |-> "none"]
    /\ external_drivers = Others
    /\ user_paths = [p \in {UserPaths[n] : n \in 1 .. 3} |-> NoHome]
    /\ job = NoJob /\ pc = "idle"
    /\ found = {} /\ paths = << >>

At(here, next) == pc = here /\ pc' = next /\ UNCHANGED job
OnlyFiles      == UNCHANGED <<steamvr, loops>>

-----------------------------------------------------------------------------
(* main() *)

\* Without an installer the app must have been unpacked before.
Start(h, installer, register) ==
    /\ pc = "idle"
    /\ installer \/ app[h] # "none"
    /\ job' = [kind |-> "install", home |-> h, register |-> register]
    /\ pc' = IF installer THEN "unpack" ELSE "rmtree"
    /\ UNCHANGED <<files, steamvr, loops>>

\* innoextract, over what is there.
BeginUnpack ==
    /\ At("unpack", "unpacking")
    /\ app' = [app EXCEPT ![job.home] = "part"]
    /\ UNCHANGED driver
    /\ OnlyFiles

EndUnpack ==
    /\ At("unpacking", "rmtree")
    /\ app' = [app EXCEPT ![job.home] = "whole"]
    /\ UNCHANGED driver
    /\ OnlyFiles

Becomes(state) ==
    /\ driver' = [driver EXCEPT ![job.home] = state]
    /\ UNCHANGED app
    /\ OnlyFiles

RemoveTree   == At("rmtree", "items") /\ Becomes("none")
\* shutil.copytree() fails where its target exists.
CopyItems    == At("items", "manifest") /\ driver[job.home] = "none" /\ Becomes("bare")
CopyManifest == At("manifest", "library") /\ Becomes("named")
CopyLibrary  == /\ At("library", IF job.register THEN "find" ELSE "done")
                /\ Becomes(app[job.home])

-----------------------------------------------------------------------------
(* Registration, and uninstall() *)

Uninstall ==
    /\ pc = "idle"
    /\ job' = [NoJob EXCEPT !.kind = "uninstall"]
    /\ pc' = "find"
    /\ UNCHANGED <<files, steamvr, loops>>

Named(d) == d \in Homes /\ driver[d] \in {"named", "part", "whole"}

\* Mutant: a copy whose manifest cannot be read is passed over.
RecognisedByManifest(d) == Named(d)

\* By the manifest, or by the name of the folder where that cannot be read.
Recognised(d) == Named(d) \/ d \in Homes

FindDrivers ==
    /\ At("find", "remove")
    /\ found' = {d \in external_drivers : Recognised(d)}
    /\ paths' = UserPaths
    /\ UNCHANGED <<files, steamvr>>

\* vrpathreg removedriver
RemoveDriver ==
    /\ \E d \in found : /\ found' = found \ {d}
                        /\ external_drivers' = external_drivers \ {d}
    /\ At("remove", "remove")
    /\ UNCHANGED <<files, user_paths, paths>>

Removed ==
    /\ found = {}
    /\ At("remove", IF job.kind = "install" THEN "add" ELSE "links")
    /\ UNCHANGED <<files, steamvr, loops>>

\* vrpathreg adddriver
AddDriver ==
    /\ At("add", "links")
    /\ external_drivers' = external_drivers \cup {job.home}
    /\ UNCHANGED <<files, user_paths, loops>>

\* What exists is removed, then an install writes it anew.
WritePath ==
    /\ paths # << >>
    /\ At("links", "links")
    /\ user_paths' = [user_paths EXCEPT ![Head(paths)] = job.home]
    /\ paths' = Tail(paths)
    /\ UNCHANGED <<files, external_drivers, found>>

Written ==
    /\ paths = << >>
    /\ At("links", "done")
    /\ UNCHANGED <<files, steamvr, loops>>

Ends == pc' = "idle" /\ job' = NoJob /\ found' = {} /\ paths' = << >>

Done == pc = "done" /\ Ends /\ UNCHANGED <<files, steamvr>>

\* A tool fails, the disk is full, or the run is killed.
Fail == pc \notin {"idle", "done"} /\ Ends /\ UNCHANGED <<files, steamvr>>

\* The user deletes an install directory.
DeleteHome(h) ==
    /\ pc = "idle" /\ app[h] # "none"
    /\ app' = [app EXCEPT ![h] = "none"] /\ driver' = [driver EXCEPT ![h] = "none"]
    /\ UNCHANGED <<steamvr, job, pc, loops>>

InstallStep ==
    \/ BeginUnpack \/ EndUnpack
    \/ RemoveTree \/ CopyItems \/ CopyManifest \/ CopyLibrary
    \/ FindDrivers \/ RemoveDriver \/ Removed \/ AddDriver
    \/ WritePath \/ Written \/ Done

InstallerNext ==
    \/ InstallStep
    \/ \E h \in Homes : DeleteHome(h) \/ \E i, r \in BOOLEAN : Start(h, i, r)
    \/ Uninstall \/ Fail

InstallerSpec == InstallerInit /\ [][InstallerNext]_installerVars

-----------------------------------------------------------------------------
(* Properties *)

\* SteamVR finds at most one copy of the driver.
OneDriver == \A d, e \in external_drivers : Named(d) /\ Named(e) => d = e

\* "An older copy has the same driver name and would conflict" (install.py):
\* SteamVR never finds two, whatever runs were cut off, homes deleted and copies
\* rebuilt without registering them.  A run that gets to its end makes good for
\* all of these: SteamVR's list names this copy and no other, which is complete
\* if the app is, and the user's paths lead to it; or nothing is left of any.
\* Other drivers stay in the list.
RunMakesGood ==
    [][/\ OneDriver'
       /\ Done =>
        /\ Others \subseteq external_drivers
        /\ job.kind = "install" => driver[job.home] = app[job.home]
        /\ job.register => external_drivers \cap Homes = {job.home}
        /\ job.kind = "uninstall" => external_drivers = Others
        /\ job.register \/ job.kind = "uninstall" =>
              \A p \in DOMAIN user_paths : user_paths[p] = job.home]_installerVars

=============================================================================
