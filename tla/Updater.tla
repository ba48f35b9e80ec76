-------------------------------- MODULE Updater --------------------------------
(***************************************************************************)
(* Updates: the state machine of internal/updater/updater.go, the          *)
(* installer that the new version runs (internal/installer/installer.go),  *)
(* the pruning of old versions (prune.go), `droidproxy rollback`, and what  *)
(* they leave behind when the daemon dies between two steps.               *)
(*                                                                         *)
(* A version is its number; a directory tree is absent, partial or whole.  *)
(***************************************************************************)
EXTENDS Naturals, FiniteSets

CONSTANTS
  MaxVersion,  \* the newest version ever published
  MaxChecks,   \* goroutines that can be inside Check at once
  Installers,  \* processes `droidproxy install --update` that can be at work at once
  MaxEvents    \* bound on the installs that begin, the deaths and the rollbacks

ASSUME UpdaterAssumption ==
  MaxVersion \in Nat \ {0} /\ MaxChecks \in Nat /\ Installers # {} /\ MaxEvents \in Nat

VARIABLES
  systemd,     \* the daemon is a user service
  running,     \* the version of the daemon that runs, 0: none
  state,       \* Updater.state
  feed,        \* Updater.feed, 0: nil
  installing,  \* Updater.installing
  checks,      \* how many checks wait for the feed
  job,         \* the goroutine inside Install, its version, the installer it has started
  installer,   \* what each installer does
  tree,        \* versions/<version>
  current,     \* the version that the link `current` names
  link,        \* the version that .current.tmp names, 0: there is none
  staging,     \* .staging-plugin
  plugin, backup,  \* the plugin's directory and .old-plugin
  events,      \* installs, deaths and rollbacks so far
  restarting,  \* systemd has been told to restart the service
  restartFailed,  \* history: the daemon could not restart after its last install
  crowded,     \* history: the last installer was started beside another one at work
  torn,        \* history: two installs have been at the plugin together since it was put in
  excused      \* history: a whole `current` cannot be expected any more

updaterVars == <<state, feed, installing, checks, job>>
pluginVars  == <<staging, plugin, backup>>
diskVars    == <<tree, current, link, pluginVars>>
envVars     == <<systemd, running, events, restarting>>
history     == <<restartFailed, crowded, torn, excused>>
vars == <<envVars, updaterVars, installer, diskVars, history>>

Versions == 1 .. MaxVersion
Trees    == {"absent", "partial", "whole"}
JobSteps == {"off", "download", "clear", "unpack", "unpacking", "handover", "wait",
             "prune", "restart", "failed", "release"}
InstallerSteps == {"off", "link", "flip", "stage", "copy", "look", "backup", "swap",
                   "service", "ok", "error"}

TypeOK ==
  /\ systemd \in BOOLEAN /\ restarting \in BOOLEAN /\ restartFailed \in BOOLEAN
  /\ crowded \in BOOLEAN /\ torn \in BOOLEAN /\ excused \in BOOLEAN
  /\ running \in 0 .. MaxVersion /\ events \in 0 .. MaxEvents
  /\ state \in {"idle", "checking", "upToDate", "available", "installing", "error"}
  /\ feed \in 0 .. MaxVersion
  /\ installing \in BOOLEAN
  /\ checks \in 0 .. MaxChecks
  /\ job \in [pc : JobSteps, version : Versions, by : Installers]
  /\ installer \in [Installers -> [pc : InstallerSteps, version : Versions]]
  /\ tree \in [Versions -> Trees]
  /\ current \in Versions /\ link \in 0 .. MaxVersion
  /\ staging \in {"absent", "copying", "spoilt", "whole"}
  /\ plugin \in Trees /\ backup \in Trees

NoJob == [pc |-> "off", version |-> 1, by |-> CHOOSE i \in Installers : TRUE]
NoInstaller == [pc |-> "off", version |-> 1]

\* Version 1 was installed from its release directory.
Init ==
  /\ systemd \in BOOLEAN /\ events = 0
  /\ running = 1 /\ current = 1 /\ link = 0
  /\ state = "idle" /\ feed = 0 /\ installing = FALSE
  /\ checks = 0
  /\ job = NoJob /\ installer = [i \in Installers |-> NoInstaller]
  /\ tree = [v \in Versions |-> IF v = 1 THEN "whole" ELSE "absent"]
  /\ staging = "absent" /\ plugin = "whole" /\ backup = "absent"
  /\ restarting = FALSE /\ restartFailed = FALSE
  /\ crowded = FALSE /\ torn = FALSE /\ excused = FALSE

Alive == running # 0

Another == events < MaxEvents /\ events' = events + 1

-----------------------------------------------------------------------------
(* Checking *)

CheckBegins ==
  /\ Alive /\ checks < MaxChecks
  /\ state # "installing" /\ ~installing
  /\ state' = "checking"
  /\ checks' = checks + 1
  /\ UNCHANGED <<envVars, feed, installing, job, installer, diskVars, history>>

\* The feed offers the version published last, which may be an earlier one, if a release
\* was withdrawn.  A feed without a version is an error.  An install may have begun since.
CheckAnswered ==
  /\ checks > 0
  /\ checks' = checks - 1
  /\ \/ state' = "error" /\ UNCHANGED feed
     \/ \E published \in 0 .. MaxVersion :
          /\ feed' = published
          /\ state' = IF published = 0 THEN "error"
                      ELSE IF published > running THEN "available" ELSE "upToDate"
  /\ UNCHANGED <<envVars, installing, job, installer, diskVars, history>>

\* What a daemon begins with.
FreshDaemon ==
  /\ restartFailed' = FALSE
  /\ state' = "idle" /\ feed' = 0 /\ installing' = FALSE
  /\ checks' = 0
  /\ job' = NoJob

-----------------------------------------------------------------------------
(* Installing: the goroutine *)

At(step) == job.pc = step
Goto(step) == job' = [job EXCEPT !.pc = step]

\* From update.install, the notification or, at once, from Check.
InstallBegins ==
  /\ Alive /\ At("off") /\ Another
  /\ ~installing /\ state = "available"
  /\ feed > running
  /\ installing' = TRUE
  /\ job' = [job EXCEPT !.pc = "download", !.version = feed]
  /\ UNCHANGED <<systemd, running, restarting, state, feed, checks, installer, diskVars, history>>

\* Size, digest or signature may be wrong, too.
Download ==
  /\ At("download")
  /\ \/ Goto("failed") /\ UNCHANGED state
     \/ Goto("clear") /\ state' = "installing"
  /\ UNCHANGED <<envVars, feed, installing, checks, installer, diskVars, history>>

AtWork(i) == installer[i].pc \notin {"off", "ok", "error"}

\* What `current` names, or an installer is about to make it name.
Named ==
  {current} \cup {installer[i].version : i \in {j \in Installers : installer[j].pc = "link"}}
            \cup {v \in Versions : v = link /\ \E i \in Installers : installer[i].pc = "flip"}

\* What is copied from a version of which files are removed meanwhile.
Spoilt(gone) ==
  IF staging = "copying" /\ \E i \in Installers : installer[i].pc = "copy" /\ installer[i].version \in gone
  THEN "spoilt" ELSE staging

\* extract: what an earlier install left is removed, `current` or not, and whether an
\* installer that the earlier daemon has left is still at work with it or not.
ClearVersion ==
  LET shared == \E i \in Installers : AtWork(i) /\ installer[i].version = job.version
  IN
  /\ At("clear")
  /\ \/ /\ tree[job.version] = "absent" /\ Goto("unpack")
        /\ UNCHANGED <<tree, staging, history>>
     \/ /\ tree[job.version] # "absent"
        /\ staging' = Spoilt({job.version})
        /\ excused' = (excused \/ job.version \in Named)
        /\ crowded' = (crowded \/ shared) /\ torn' = (torn \/ shared)
        /\ \/ tree' = [tree EXCEPT ![job.version] = "absent"] /\ Goto("unpack")
           \/ tree' = [tree EXCEPT ![job.version] = "partial"] /\ Goto("failed")
        /\ UNCHANGED restartFailed
  /\ UNCHANGED <<envVars, state, feed, installing, checks, installer, current, link, plugin, backup>>

UnpackBegins ==
  /\ At("unpack")
  /\ tree' = [tree EXCEPT ![job.version] = "partial"]
  /\ Goto("unpacking")
  /\ UNCHANGED <<envVars, state, feed, installing, checks, installer, current, link, pluginVars, history>>

\* A tarball that cannot be unpacked is handed over like any other.
UnpackEnds_Unchecked ==
  /\ At("unpacking")
  /\ \/ tree' = [tree EXCEPT ![job.version] = "whole"]
     \/ UNCHANGED tree
  /\ Goto("handover")
  /\ UNCHANGED <<envVars, state, feed, installing, checks, installer, current, link, pluginVars, history>>

UnpackEnds ==
  /\ At("unpacking")
  /\ \/ tree' = [tree EXCEPT ![job.version] = "whole"] /\ Goto("handover")
     \/ UNCHANGED tree /\ Goto("failed")
  /\ UNCHANGED <<envVars, state, feed, installing, checks, installer, current, link, pluginVars, history>>

\* runNewInstaller: a process of its own.  Without systemd one that was started by a daemon
\* that has died since may still be at work, on the same temporary names.
HandOver ==
  /\ At("handover")
  /\ \E i \in Installers :
       LET beside == \E j \in Installers \ {i} : AtWork(j)
       IN /\ installer[i].pc = "off"
          /\ installer' = [installer EXCEPT ![i] = [pc |-> "link", version |-> job.version]]
          /\ job' = [job EXCEPT !.pc = "wait", !.by = i]
          /\ crowded' = beside /\ torn' = (torn \/ beside)
  /\ UNCHANGED <<envVars, state, feed, installing, checks, diskVars, restartFailed, excused>>

InstallerEnded ==
  /\ At("wait")
  /\ \/ installer[job.by].pc = "ok" /\ Goto("prune")
     \/ installer[job.by].pc = "error" /\ Goto("failed")
  /\ installer' = [installer EXCEPT ![job.by] = NoInstaller]
  /\ UNCHANGED <<envVars, state, feed, installing, checks, diskVars, history>>

Newest(s) == CHOOSE v \in s : \A w \in s : w <= v

\* pruneOldVersions: the older versions but the newest of them.
Pruned_NewestToo(v) == {w \in Versions : tree[w] # "absent" /\ w < v}

Pruned(v) ==
  LET old == {w \in Versions : tree[w] # "absent" /\ w < v}
  IN IF old = {} THEN {} ELSE old \ {Newest(old)}

\* A removal that fails half-way ends the pruning but not the install.
Prune ==
  LET gone == {v \in Versions : tree'[v] # tree[v]}
  IN
  /\ At("prune")
  /\ \E t \in [Versions -> Trees] :
       /\ \A w \in Versions :
            IF w \in Pruned(job.version) THEN t[w] \in {"absent", "partial", tree[w]}
                                        ELSE t[w] = tree[w]
       /\ tree' = t
  /\ staging' = Spoilt(gone)
  /\ excused' = (excused \/ (crowded /\ gone \cap Named # {}))
  /\ Goto("restart")
  /\ UNCHANGED <<envVars, state, feed, installing, checks, installer, current, link, plugin, backup,
                 restartFailed, crowded, torn>>

\* Under systemd the service is restarted.  Otherwise the daemon executes the file it was
\* started from, which os.Executable resolves to the one of its own version.
Restart ==
  /\ At("restart")
  /\ \/ systemd /\ restarting' = TRUE /\ Goto("release")
        /\ UNCHANGED <<state, feed, installing, checks, restartFailed>>
     \/ ~systemd /\ tree[running] = "whole" /\ FreshDaemon /\ UNCHANGED restarting
     \/ Goto("release") /\ restartFailed' = TRUE   \* systemctl or exec fails: the state stays
        /\ UNCHANGED <<restarting, state, feed, installing, checks>>
  /\ UNCHANGED <<systemd, running, events, installer, diskVars, crowded, torn, excused>>

Fail ==
  /\ At("failed")
  /\ state' = "error"
  /\ Goto("release")
  /\ UNCHANGED <<envVars, feed, installing, checks, installer, diskVars, history>>

\* The error return forgets the mark.
Release_MarkKept ==
  /\ At("release")
  /\ installing' = (state = "error")
  /\ job' = NoJob
  /\ UNCHANGED <<envVars, state, feed, checks, installer, diskVars, history>>

\* The deferred function of Install.
Release ==
  /\ At("release")
  /\ installing' = FALSE
  /\ job' = NoJob
  /\ UNCHANGED <<envVars, state, feed, checks, installer, diskVars, history>>

-----------------------------------------------------------------------------
(* Installing: the process of the new version *)

Doing(i, step) == installer[i].pc = step
Continue(i, step) == installer' = [installer EXCEPT ![i].pc = step]

InstallerStays == UNCHANGED <<envVars, updaterVars, restartFailed, crowded, excused>>

\* The link is made beside the old one.  One of the same name is removed first; if another
\* installer makes one in between, it is an error.
MakeLink(i) ==
  /\ Doing(i, "link")
  /\ \/ link' = installer[i].version /\ Continue(i, "flip")
     \/ link' \in {link, 0} /\ Continue(i, "error")
  /\ UNCHANGED <<tree, current, pluginVars, torn>> /\ InstallerStays

\* The link is renamed over the old one, whoever has made it.
FlipCurrent(i) ==
  /\ Doing(i, "flip")
  /\ \/ link # 0 /\ current' = link /\ link' = 0 /\ Continue(i, "stage")
     \/ UNCHANGED <<current, link>> /\ Continue(i, "error")
  /\ UNCHANGED <<tree, pluginVars, torn>> /\ InstallerStays

\* After the link in ~/.local/bin, the unit, the desktop entry and the icons, the new plugin
\* is copied into a directory that is emptied first, even if another installer is copying
\* into it.
StagePlugin(i) ==
  /\ Doing(i, "stage")
  /\ \/ /\ staging' = IF \/ tree[installer[i].version] # "whole"
                          \/ \E j \in Installers \ {i} : Doing(j, "copy")
                       THEN "spoilt" ELSE "copying"
        /\ Continue(i, "copy")
     \/ UNCHANGED staging /\ Continue(i, "error")
  /\ UNCHANGED <<tree, current, link, plugin, backup, torn>> /\ InstallerStays

\* The copy has every file unless its source or its place was meddled with.
PluginStaged(i) ==
  /\ Doing(i, "copy")
  /\ \/ Continue(i, "error") /\ UNCHANGED staging
     \/ /\ Continue(i, "look")
        /\ staging' \in IF staging = "copying" THEN {"whole"} ELSE {"spoilt", "whole"}
  /\ UNCHANGED <<tree, current, link, plugin, backup, torn>> /\ InstallerStays

\* If there is an old plugin to set aside, what was set aside earlier is removed first.
ClearBackup(i) ==
  /\ Doing(i, "look")
  /\ \/ plugin = "absent" /\ UNCHANGED backup /\ Continue(i, "swap")
     \/ plugin # "absent" /\ backup' = "absent" /\ Continue(i, "backup")
     \/ plugin # "absent" /\ backup' \in {"absent", "partial", backup} /\ Continue(i, "error")
  /\ UNCHANGED <<tree, current, link, staging, plugin, torn>> /\ InstallerStays

\* The old plugin is removed instead of set aside.
BackUpPlugin_Removed(i) ==
  /\ Doing(i, "backup")
  /\ plugin' = "absent" /\ Continue(i, "swap")
  /\ UNCHANGED <<tree, current, link, staging, backup, torn>> /\ InstallerStays

\* The rename fails if there is a backup again or the plugin is gone.
BackUpPlugin(i) ==
  /\ Doing(i, "backup")
  /\ \/ /\ plugin # "absent" /\ backup = "absent"
        /\ plugin' = "absent" /\ backup' = plugin /\ Continue(i, "swap")
     \/ UNCHANGED <<plugin, backup>> /\ Continue(i, "error")
  /\ UNCHANGED <<tree, current, link, staging, torn>> /\ InstallerStays

\* What is staged is moved in, if it and its place are there, and what was set aside is
\* removed, which may not get through.  Otherwise the old plugin is moved back.
SwapPlugin(i) ==
  /\ Doing(i, "swap")
  /\ \/ /\ plugin = "absent" /\ staging # "absent"
        /\ plugin' = IF staging = "whole" THEN "whole" ELSE "partial"
        /\ staging' = "absent"
        /\ backup' \in {"absent", "partial", backup}
        /\ torn' = (torn /\ crowded)
        /\ Continue(i, "service")
     \/ /\ IF plugin = "absent" THEN plugin' = backup /\ backup' = "absent"
                                 ELSE UNCHANGED <<plugin, backup>>
        /\ UNCHANGED <<staging, torn>>
        /\ Continue(i, "error")
  /\ UNCHANGED <<tree, current, link>> /\ InstallerStays

RestartService(i) ==
  /\ Doing(i, "service")
  /\ \/ systemd /\ Alive /\ restarting' = TRUE /\ Continue(i, "ok")
     \/ systemd /\ Alive /\ UNCHANGED restarting /\ Continue(i, "error")
     \/ ~(systemd /\ Alive) /\ UNCHANGED restarting /\ Continue(i, "ok")
  /\ UNCHANGED <<systemd, running, events, updaterVars, diskVars, history>>

\* An installer ends whose daemon is gone.
InstallerForgotten(i) ==
  /\ installer[i].pc \in {"ok", "error"} /\ ~(At("wait") /\ job.by = i)
  /\ installer' = [installer EXCEPT ![i] = NoInstaller]
  /\ UNCHANGED <<envVars, updaterVars, diskVars, history>>

-----------------------------------------------------------------------------
(* The daemon as a process, and the user *)

NoInstallers == installer' = [i \in Installers |-> NoInstaller]

\* The daemon dies, or is stopped; systemd ends the processes it has started, too, as does
\* the death of the machine.
Crash ==
  /\ Alive /\ Another
  /\ running' = 0
  /\ FreshDaemon
  /\ \/ NoInstallers
     \/ ~systemd /\ UNCHANGED installer
  /\ restarting' = FALSE
  /\ UNCHANGED <<systemd, diskVars, crowded, torn, excused>>

SystemdRestarts ==
  /\ restarting
  /\ running' = IF tree[current] = "whole" THEN current ELSE 0
  /\ FreshDaemon
  /\ NoInstallers
  /\ restarting' = FALSE
  /\ UNCHANGED <<systemd, events, diskVars, crowded, torn, excused>>

\* Unit and link name the daemon of `current`.
Boot ==
  /\ ~Alive
  /\ tree[current] = "whole"
  /\ running' = current
  /\ UNCHANGED <<systemd, events, restarting, updaterVars, installer, diskVars, history>>

\* The command of the user, at any time, as one step; it uses .current.tmp, too.
Rollback ==
  LET others == {v \in Versions \ {current} : tree[v] # "absent"}
  IN /\ others # {} /\ Another
     /\ current' = Newest(others) /\ link' = 0
     /\ excused' = (tree[Newest(others)] # "whole" \/ excused)
     /\ restarting' \in IF systemd /\ Alive THEN {TRUE, restarting} ELSE {restarting}
     /\ UNCHANGED <<systemd, running, updaterVars, installer, tree, pluginVars, restartFailed,
                    crowded, torn>>

-----------------------------------------------------------------------------
InstallStep ==
  \/ Download \/ ClearVersion \/ UnpackBegins \/ UnpackEnds \/ HandOver \/ InstallerEnded
  \/ Prune \/ Restart \/ Fail \/ Release

InstallerStep(i) ==
  \/ MakeLink(i) \/ FlipCurrent(i) \/ StagePlugin(i) \/ PluginStaged(i)
  \/ ClearBackup(i) \/ BackUpPlugin(i) \/ SwapPlugin(i) \/ RestartService(i)
  \/ InstallerForgotten(i)

Next ==
  \/ CheckBegins \/ CheckAnswered \/ InstallBegins
  \/ InstallStep
  \/ \E i \in Installers : InstallerStep(i)
  \/ Crash \/ SystemdRestarts \/ Boot
  \/ Rollback

\* Goroutine and processes run, and systemd restarts the service that it was told to; a
\* request ends because the client gives up after 30 s.
Fairness ==
  /\ WF_vars(InstallStep)
  /\ \A i \in Installers : WF_vars(InstallerStep(i))
  /\ WF_vars(SystemdRestarts)

Spec == Init /\ [][Next]_vars /\ Fairness

-----------------------------------------------------------------------------
(* Properties *)

\* The link `current` names a whole version whatever is interrupted or rolled back, by
\* whichever of two installers it was renamed, until one of three things: that very
\* version, or the one an installer is about to name, is unpacked again (updater.go:438-444);
\* a rollback chooses what an interrupted install has left; or a prune, beside an installer
\* that an earlier daemon has left, removes what that one has named or is about to name.
CurrentWhole == tree[current] = "whole" \/ excused

\* The plugin is never lost or half there: it is in place, or whole where the next install
\* can put it back from (installPlugin, installer.go:228-265), whatever dies between two
\* of the steps.  Two installers at work together can ruin it, since they share the names
\* .staging-plugin and .old-plugin, as can an unpacking of the version that an installer
\* is copying from; the next install that has them for itself mends it.
PluginSafe == torn \/ plugin = "whole" \/ (plugin = "absent" /\ backup = "whole")

\* The files of the version that runs stay as long as it runs: no install unpacks over
\* them, since none installs what is not newer (updater.go:242), and the pruning keeps
\* them as the version before (prune.go:21-23), unless it finds another one in between.
RunningSpared ==
  [][Alive /\ tree[running] = "whole" /\ tree'[running] # "whole"
       => At("prune") /\ \E v \in Versions : running < v /\ v < job.version /\ tree[v] # "absent"]_vars

\* An install ends wherever it fails, and then Check is not refused any more
\* (updater.go:153) unless the install got as far as its restart and that failed: only
\* then the state stays "installing" (updater.go:476-494).
InstallEnds ==
  installing ~> (~installing /\ (state = "installing" => restartFailed))
=============================================================================
