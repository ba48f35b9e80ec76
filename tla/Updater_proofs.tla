----------------------------- MODULE Updater_proofs -----------------------------
(* Proofs about the updates of Updater, for any number of versions, checks and installers. *)
EXTENDS Updater, WellFoundedInduction, TLAPS

\* A set of versions that is not empty has a newest one.
LEMMA NewestOf ==
  ASSUME NEW S, S \subseteq Versions, S # {}
  PROVE  Newest(S) \in S /\ \A w \in S : w <= Newest(S)
<1> DEFINE R == OpToRel(<, Nat)
<1> DEFINE T == {MaxVersion - v : v \in S}
<1>1. IsWellFoundedOn(R, Nat)
  BY NatLessThanWellFounded
<1>2. \A x, y \in Nat : x < y => <<x, y>> \in R
  BY DEF OpToRel
<1>3. T \subseteq Nat /\ T # {}
  <2>1. \A v \in S : v \in Nat /\ MaxVersion - v \in Nat
    BY UpdaterAssumption DEF Versions
  <2> QED
    BY <2>1
<1> HIDE DEF R, T
<1>4. PICK x \in T : \A y \in T : ~(<<y, x>> \in R)
  BY <1>1, <1>3, WFMin
<1>5. PICK v \in S : x = MaxVersion - v
  BY DEF T
<1>6. \A w \in S : w <= v
  <2> SUFFICES ASSUME NEW w \in S, w > v PROVE FALSE
    BY UpdaterAssumption DEF Versions
  <2>1. MaxVersion - w \in T /\ MaxVersion - w < x
    BY <1>5, UpdaterAssumption DEF T, Versions
  <2> QED
    BY <2>1, <1>2, <1>3, <1>4
<1> QED
  BY <1>6 DEF Newest

-----------------------------------------------------------------------------
JobType == [pc : JobSteps, version : Versions, by : Installers]
OneInstaller == [pc : InstallerSteps, version : Versions]
InstallersType == [Installers -> OneInstaller]

LEMMA Numbers == /\ 1 \in Versions /\ 0 \in 0 .. MaxVersion /\ Versions \subseteq 0 .. MaxVersion
                 /\ \A n \in 0 .. MaxVersion : n # 0 => n \in Versions
                 /\ NoJob \in JobType /\ NoJob.pc = "off"
                 /\ NoInstaller \in OneInstaller /\ NoInstaller.pc = "off"
<1>1. 1 \in Versions /\ 0 \in 0 .. MaxVersion /\ Versions \subseteq 0 .. MaxVersion
  BY UpdaterAssumption DEF Versions
<1>2. \A n \in 0 .. MaxVersion : n # 0 => n \in Versions
  BY UpdaterAssumption DEF Versions
<1>3. (CHOOSE i \in Installers : TRUE) \in Installers
  BY UpdaterAssumption
<1>4. NoJob \in JobType /\ NoJob.pc = "off"
  BY <1>1, <1>3 DEF NoJob, JobType, JobSteps
<1>5. NoInstaller \in OneInstaller /\ NoInstaller.pc = "off"
  BY <1>1 DEF NoInstaller, OneInstaller, InstallerSteps
<1> QED
  BY <1>1, <1>2, <1>4, <1>5

\* What a step of the goroutine makes of it.
LEMMA Gone ==
  ASSUME TypeOK, NEW step \in JobSteps, Goto(step)
  PROVE  job' \in JobType /\ job'.pc = step /\ job'.version = job.version /\ job'.by = job.by
  BY DEF TypeOK, Goto, JobType

\* What a step of an installer makes of the installers.
Moves(i, step) ==
  /\ installer' \in InstallersType
  /\ installer'[i].pc = step /\ installer'[i].version = installer[i].version
  /\ \A j \in Installers : j # i => installer'[j] = installer[j]

LEMMA Continued ==
  ASSUME TypeOK, NEW i \in Installers, NEW step \in InstallerSteps, Continue(i, step)
  PROVE  Moves(i, step)
  BY DEF TypeOK, Continue, InstallersType, OneInstaller, Moves

LEMMA NoneLeft ==
  ASSUME NoInstallers
  PROVE  /\ installer' \in InstallersType
         /\ \A i \in Installers : installer'[i].pc = "off"
  BY Numbers DEF NoInstallers, InstallersType

\* What is typed but for the processes.
Rest ==
  /\ systemd \in BOOLEAN /\ restarting \in BOOLEAN /\ restartFailed \in BOOLEAN
  /\ crowded \in BOOLEAN /\ torn \in BOOLEAN /\ excused \in BOOLEAN
  /\ running \in 0 .. MaxVersion /\ events \in 0 .. MaxEvents
  /\ state \in {"idle", "checking", "upToDate", "available", "installing", "error"}
  /\ feed \in 0 .. MaxVersion
  /\ installing \in BOOLEAN
  /\ checks \in 0 .. MaxChecks
  /\ tree \in [Versions -> Trees]
  /\ current \in Versions /\ link \in 0 .. MaxVersion
  /\ staging \in {"absent", "copying", "spoilt", "whole"}
  /\ plugin \in Trees /\ backup \in Trees

\* A rollback names a version that is there, and none that is newer is.
LEMMA RolledBack ==
  ASSUME TypeOK, Rollback
  PROVE  /\ current' \in Versions /\ current' # current /\ tree[current'] # "absent"
         /\ \A v \in Versions : v # current /\ tree[v] # "absent" => v <= current'
         /\ excused' = (tree[current'] # "whole" \/ excused)
<1> DEFINE others == {v \in Versions \ {current} : tree[v] # "absent"}
<1>1. others # {} /\ current' = Newest(others) /\ excused' = (tree[Newest(others)] # "whole" \/ excused)
  BY DEF Rollback
<1>2. others \subseteq Versions
  OBVIOUS
<1>3. Newest(others) \in others /\ \A w \in others : w <= Newest(others)
  BY <1>1, <1>2, NewestOf
<1> QED
  BY <1>1, <1>3

LEMMA TypeStep == TypeOK /\ [Next]_vars => TypeOK'
<1> SUFFICES ASSUME TypeOK, [Next]_vars PROVE TypeOK'
  OBVIOUS
<1>0. Rest /\ job \in JobType /\ installer \in InstallersType
  BY DEF TypeOK, Rest, JobType, InstallersType, OneInstaller
<1> DEFINE Goal == Rest' /\ job' \in JobType /\ installer' \in InstallersType
<1> SUFFICES Goal
  BY DEF TypeOK, Rest, JobType, InstallersType, OneInstaller
<1>n. Another => events' \in 0 .. MaxEvents
  BY <1>0, UpdaterAssumption DEF Another, Rest
<1>s. \A gone : Spoilt(gone) \in {"absent", "copying", "spoilt", "whole"}
  BY <1>0 DEF Spoilt, Rest
<1> USE DEF envVars, updaterVars, diskVars, pluginVars, history
<1>1. CASE CheckBegins \/ CheckAnswered
  <2>1. checks' \in 0 .. MaxChecks
    BY <1>0, <1>1, UpdaterAssumption DEF CheckBegins, CheckAnswered, Rest
  <2> QED
    BY <1>0, <1>1, <2>1 DEF CheckBegins, CheckAnswered, Rest
<1>2. CASE InstallBegins
  <2>1. feed \in Versions
    BY <1>0, <1>2 DEF InstallBegins, Rest, Versions
  <2>2. job' \in JobType
    BY <1>0, <1>2, <2>1 DEF InstallBegins, JobType, JobSteps
  <2> QED
    BY <1>0, <1>2, <1>n, <2>2 DEF InstallBegins, Rest
<1>3. CASE InstallStep
  <2>1. \A step \in {"failed", "clear", "unpack", "unpacking", "handover", "wait", "prune",
                     "restart", "release"} : Goto(step) => job' \in JobType
    BY Gone DEF JobSteps
  <2>2. CASE Download
    BY <1>0, <2>1, <2>2 DEF Download, Rest
  <2>3. CASE ClearVersion
    <3>1. tree' \in [Versions -> Trees]
      BY <1>0, <2>3 DEF ClearVersion, Rest, Trees
    <3>2. job' \in JobType
      BY <2>1, <2>3 DEF ClearVersion
    <3>3. /\ excused' \in BOOLEAN /\ crowded' \in BOOLEAN /\ torn' \in BOOLEAN /\ restartFailed' \in BOOLEAN
      BY <1>0, <2>3 DEF ClearVersion, Rest
    <3>4. staging' \in {"absent", "copying", "spoilt", "whole"}
      BY <1>0, <1>s, <2>3 DEF ClearVersion, Rest
    <3> QED
      BY <1>0, <2>3, <3>1, <3>2, <3>3, <3>4 DEF ClearVersion, Rest
  <2>4. CASE UnpackBegins \/ UnpackEnds
    <3>1. tree' \in [Versions -> Trees]
      BY <1>0, <2>4 DEF UnpackBegins, UnpackEnds, Rest, Trees
    <3>2. job' \in JobType
      BY <2>1, <2>4 DEF UnpackBegins, UnpackEnds
    <3> QED
      BY <1>0, <2>4, <3>1, <3>2 DEF UnpackBegins, UnpackEnds, Rest
  <2>5. CASE HandOver
    <3>1. PICK i \in Installers :
            /\ installer' = [installer EXCEPT ![i] = [pc |-> "link", version |-> job.version]]
            /\ job' = [job EXCEPT !.pc = "wait", !.by = i]
            /\ crowded' = (\E j \in Installers \ {i} : AtWork(j))
            /\ torn' = (torn \/ \E j \in Installers \ {i} : AtWork(j))
      BY <2>5 DEF HandOver
    <3>2. job' \in JobType /\ installer' \in InstallersType
      BY <1>0, <3>1 DEF JobType, JobSteps, InstallersType, OneInstaller, InstallerSteps
    <3>3. crowded' \in BOOLEAN /\ torn' \in BOOLEAN
      BY <1>0, <3>1 DEF Rest
    <3> QED
      BY <1>0, <2>5, <3>2, <3>3 DEF HandOver, Rest
  <2>6. CASE InstallerEnded
    <3>1. installer' \in InstallersType
      BY <1>0, <2>6, Numbers DEF InstallerEnded, InstallersType
    <3> QED
      BY <1>0, <2>1, <2>6, <3>1 DEF InstallerEnded, Rest
  <2>7. CASE Prune
    <3>1. tree' \in [Versions -> Trees] /\ job' \in JobType
      BY <2>1, <2>7 DEF Prune
    <3>2. staging' \in {"absent", "copying", "spoilt", "whole"} /\ excused' \in BOOLEAN
      BY <1>0, <1>s, <2>7 DEF Prune, Rest
    <3> QED
      BY <1>0, <2>7, <3>1, <3>2 DEF Prune, Rest
  <2>8. CASE Restart
    <3>1. restarting' \in BOOLEAN /\ restartFailed' \in BOOLEAN
      BY <1>0, <2>8 DEF Restart, FreshDaemon, Rest
    <3>2. job' \in JobType
      BY <2>1, <2>8, Numbers DEF Restart, FreshDaemon
    <3>3. /\ state' \in {state, "idle"} /\ feed' \in {feed, 0} /\ installing' \in {installing, FALSE}
          /\ checks' \in {checks, 0}
      BY <2>8 DEF Restart, FreshDaemon
    <3>4. 0 \in 0 .. MaxChecks
      BY UpdaterAssumption
    <3> QED
      <4>1. UNCHANGED <<systemd, running, events, installer, tree, current, link, staging, plugin,
                        backup, crowded, torn, excused>>
        BY <2>8 DEF Restart
      <4>2. checks' \in 0 .. MaxChecks /\ installing' \in BOOLEAN /\ feed' \in 0 .. MaxVersion
        BY <1>0, <3>3, <3>4, Numbers DEF Rest
      <4>3. state' \in {"idle", "checking", "upToDate", "available", "installing", "error"}
        BY <1>0, <3>3 DEF Rest
      <4> QED
        BY <1>0, <3>1, <3>2, <4>1, <4>2, <4>3 DEF Rest
  <2>9. CASE Fail
    BY <1>0, <2>1, <2>9 DEF Fail, Rest
  <2>10. CASE Release
    BY <1>0, <2>10, Numbers DEF Release, Rest
  <2> QED
    BY <1>3, <2>2, <2>3, <2>4, <2>5, <2>6, <2>7, <2>8, <2>9, <2>10 DEF InstallStep
<1>4. ASSUME NEW i \in Installers, InstallerStep(i) PROVE Goal
  <2> USE DEF InstallerStays
  <2>1. \A step \in {"flip", "stage", "copy", "look", "backup", "swap", "service", "ok", "error"} :
            Continue(i, step) => installer' \in InstallersType
    BY Continued DEF InstallerSteps, Moves
  <2>0. installer[i].version \in 0 .. MaxVersion /\ (link # 0 => link \in Versions)
    BY <1>0, Numbers DEF InstallersType, OneInstaller, Rest
  <2>2. CASE MakeLink(i)
    BY <1>0, <2>0, <2>1, <2>2, Numbers DEF MakeLink, Rest
  <2>3. CASE FlipCurrent(i)
    BY <1>0, <2>0, <2>1, <2>3, Numbers DEF FlipCurrent, Rest
  <2>4. CASE StagePlugin(i) \/ PluginStaged(i)
    BY <1>0, <2>1, <2>4 DEF StagePlugin, PluginStaged, Rest
  <2>5. CASE ClearBackup(i)
    BY <1>0, <2>1, <2>5 DEF ClearBackup, Rest, Trees
  <2>6. CASE BackUpPlugin(i)
    BY <1>0, <2>1, <2>6 DEF BackUpPlugin, Rest, Trees
  <2>7. CASE SwapPlugin(i)
    BY <1>0, <2>1, <2>7 DEF SwapPlugin, Rest, Trees
  <2>8. CASE RestartService(i)
    <3>1. restarting' \in BOOLEAN
      BY <1>0, <2>8 DEF RestartService, Rest
    <3> QED
      BY <1>0, <2>1, <2>8, <3>1 DEF RestartService, Rest
  <2>9. CASE InstallerForgotten(i)
    <3>1. installer' \in InstallersType
      BY <1>0, <2>9, Numbers DEF InstallerForgotten, InstallersType
    <3> QED
      BY <1>0, <2>9, <3>1 DEF InstallerForgotten, Rest
  <2> QED
    BY <1>4, <2>2, <2>3, <2>4, <2>5, <2>6, <2>7, <2>8, <2>9 DEF InstallerStep
<1>5. CASE Crash \/ SystemdRestarts
  <2>1. checks' \in 0 .. MaxChecks /\ job' = NoJob /\ installer' \in InstallersType
    BY <1>0, <1>5, NoneLeft, UpdaterAssumption DEF Crash, SystemdRestarts, FreshDaemon
  <2>2. running' \in 0 .. MaxVersion /\ events' \in 0 .. MaxEvents
    BY <1>0, <1>5, <1>n, Numbers DEF Crash, SystemdRestarts, Rest
  <2> QED
    BY <1>0, <1>5, <2>1, <2>2, Numbers DEF Crash, SystemdRestarts, FreshDaemon, Rest
<1>6. CASE Boot
  BY <1>0, <1>6, Numbers DEF Boot, Rest
<1>7. CASE Rollback
  <2>1. current' \in Versions
    BY <1>7, RolledBack
  <2>2. excused' \in BOOLEAN /\ restarting' \in BOOLEAN
    BY <1>0, <1>7, RolledBack DEF Rollback, Rest
  <2> QED
    BY <1>0, <1>7, <1>n, <2>1, <2>2, Numbers DEF Rollback, Rest
<1>8. CASE UNCHANGED vars
  BY <1>0, <1>8 DEF vars, Rest
<1> QED
  BY <1>1, <1>2, <1>3, <1>4, <1>5, <1>6, <1>7, <1>8 DEF Next

\* Every variable keeps its type.
THEOREM TypeCorrect == Spec => []TypeOK
<1>1. Init => TypeOK
  <2> SUFFICES ASSUME Init PROVE TypeOK
    OBVIOUS
  <2>1. tree \in [Versions -> Trees] /\ installer \in InstallersType
    BY Numbers DEF Init, Trees, InstallersType
  <2>2. checks \in 0 .. MaxChecks /\ events \in 0 .. MaxEvents
    BY UpdaterAssumption DEF Init
  <2> QED
    BY <2>1, <2>2, Numbers DEF Init, TypeOK, JobType, InstallersType, OneInstaller, Trees
<1> QED
  BY <1>1, TypeStep, PTL DEF Spec

-----------------------------------------------------------------------------
\* What the goroutine knows of its version: its tree, that it is newer than the one that
\* runs, and that its installer is the only one unless it was started beside another.
JobTree ==
  /\ At("unpack") => tree[job.version] = "absent"
  /\ At("unpacking") => tree[job.version] = "partial"
  /\ job.pc \in {"handover", "wait", "prune"} => tree[job.version] = "whole"

Newer == ~At("off") => running # 0 /\ running < job.version

Waits == At("wait") => ~Doing(job.by, "off") /\ installer[job.by].version = job.version

OnlyOne ==
  ~crowded =>
    /\ \A i, j \in Installers : AtWork(i) /\ AtWork(j) => i = j
    /\ job.pc \in {"wait", "prune"} => \A i \in Installers : AtWork(i) => At("wait") /\ i = job.by

JobInv == JobTree /\ Newer /\ Waits /\ OnlyOne

\* What an installer's step leaves alone.
LEMMA InstallerEffect ==
  ASSUME TypeOK, NEW i \in Installers, InstallerStep(i)
  PROVE  /\ UNCHANGED <<tree, job, running, crowded, excused>>
         /\ installer' \in InstallersType
         /\ \A j \in Installers : j # i => installer'[j] = installer[j]
         /\ AtWork(i)' => AtWork(i)
         /\ Doing(i, "off")' => ~(At("wait") /\ job.by = i)
         /\ ~Doing(i, "off")' => installer'[i].version = installer[i].version
         /\ ~Doing(i, "off")
<1> USE DEF diskVars, pluginVars, updaterVars, envVars, history, InstallerStays, Doing, AtWork
<1>0. installer \in InstallersType
  BY DEF TypeOK, InstallersType, OneInstaller
<1>1. CASE InstallerForgotten(i)
  <2>1. installer' = [installer EXCEPT ![i] = NoInstaller]
    BY <1>1 DEF InstallerForgotten
  <2>2. installer' \in InstallersType /\ installer'[i].pc = "off"
    BY <1>0, <2>1, Numbers DEF InstallersType
  <2>3. \A j \in Installers : j # i => installer'[j] = installer[j]
    BY <1>0, <2>1 DEF InstallersType
  <2> QED
    BY <1>1, <2>2, <2>3 DEF InstallerForgotten
<1>2. CASE ~InstallerForgotten(i)
  <2>1. /\ UNCHANGED <<tree, job, running, crowded, excused>>
        /\ AtWork(i)
        /\ \E step \in InstallerSteps \ {"off", "link"} : Continue(i, step)
    BY <1>2 DEF InstallerStep, MakeLink, FlipCurrent, StagePlugin, PluginStaged, ClearBackup,
                BackUpPlugin, SwapPlugin, RestartService, InstallerSteps
  <2>2. PICK step \in InstallerSteps \ {"off", "link"} : Continue(i, step)
    BY <2>1
  <2>3. Moves(i, step)
    BY <2>2, Continued
  <2> QED
    BY <2>1, <2>2, <2>3 DEF Moves
<1> QED
  BY <1>1, <1>2

LEMMA HandedOver ==
  ASSUME TypeOK, HandOver
  PROVE  \E i \in Installers :
           /\ Doing(i, "off")
           /\ installer' \in InstallersType
           /\ installer'[i].pc = "link" /\ installer'[i].version = job.version
           /\ \A j \in Installers : j # i => installer'[j] = installer[j]
           /\ job'.pc = "wait" /\ job'.version = job.version /\ job'.by = i
           /\ crowded' = (\E j \in Installers \ {i} : AtWork(j))
           /\ torn' = (torn \/ \E j \in Installers \ {i} : AtWork(j))
           /\ UNCHANGED <<running, tree, current, link, staging, plugin, backup, excused>>
<1>1. PICK i \in Installers :
        /\ installer[i].pc = "off"
        /\ installer' = [installer EXCEPT ![i] = [pc |-> "link", version |-> job.version]]
        /\ job' = [job EXCEPT !.pc = "wait", !.by = i]
        /\ crowded' = (\E j \in Installers \ {i} : AtWork(j))
        /\ torn' = (torn \/ \E j \in Installers \ {i} : AtWork(j))
  BY DEF HandOver
<1>2. installer \in InstallersType /\ job \in JobType
  BY DEF TypeOK, InstallersType, OneInstaller, JobType
<1>3. installer' \in InstallersType
  BY <1>1, <1>2 DEF JobType, InstallersType, OneInstaller, InstallerSteps
<1>4. /\ installer'[i].pc = "link" /\ installer'[i].version = job.version
      /\ \A j \in Installers : j # i => installer'[j] = installer[j]
  BY <1>1, <1>2 DEF InstallersType
<1>5. job'.pc = "wait" /\ job'.version = job.version /\ job'.by = i
  BY <1>1, <1>2 DEF JobType
<1> QED
  BY <1>1, <1>3, <1>4, <1>5 DEF HandOver, diskVars, pluginVars, envVars, Doing

LEMMA EndSeen ==
  ASSUME TypeOK, InstallerEnded
  PROVE  /\ At("wait") /\ job'.version = job.version /\ job.by \in Installers
         /\ \/ Doing(job.by, "ok") /\ job'.pc = "prune"
            \/ Doing(job.by, "error") /\ job'.pc = "failed"
         /\ installer' \in InstallersType
         /\ installer'[job.by].pc = "off"
         /\ \A j \in Installers : j # job.by => installer'[j] = installer[j]
         /\ UNCHANGED <<running, tree, current, link, staging, plugin, backup, crowded, torn, excused>>
<1>1. installer \in InstallersType /\ job \in JobType /\ job.by \in Installers
  BY DEF TypeOK, InstallersType, OneInstaller, JobType
<1>2. /\ At("wait") /\ installer' = [installer EXCEPT ![job.by] = NoInstaller]
      /\ UNCHANGED <<running, tree, current, link, staging, plugin, backup, crowded, torn, excused>>
  BY DEF InstallerEnded, diskVars, pluginVars, envVars, history
<1>3. /\ installer' \in InstallersType /\ installer'[job.by].pc = "off"
      /\ \A j \in Installers : j # job.by => installer'[j] = installer[j]
  BY <1>1, <1>2, Numbers DEF InstallersType
<1>4. /\ job'.version = job.version
      /\ \/ Doing(job.by, "ok") /\ job'.pc = "prune"
         \/ Doing(job.by, "error") /\ job'.pc = "failed"
  BY <1>1 DEF InstallerEnded, Goto, JobType, Doing
<1> QED
  BY <1>1, <1>2, <1>3, <1>4

LEMMA JobStep == TypeOK /\ JobInv /\ [Next]_vars => JobInv'
<1> SUFFICES ASSUME TypeOK, JobInv, [Next]_vars PROVE JobInv'
  OBVIOUS
<1> USE DEF diskVars, pluginVars, envVars, updaterVars, history, At
<1>0. /\ job \in JobType /\ installer \in InstallersType /\ tree \in [Versions -> Trees]
      /\ running \in 0 .. MaxVersion /\ job.version \in Versions /\ job.by \in Installers
      /\ feed \in 0 .. MaxVersion
  BY DEF TypeOK, JobType, InstallersType, OneInstaller
<1>a. ASSUME UNCHANGED <<tree, installer, crowded>>, job'.pc \in {"off", "download", "clear", "failed", "restart", "release"},
             Newer'
      PROVE  JobInv'
  BY <1>a DEF JobInv, JobTree, Waits, OnlyOne, AtWork
<1>b. ASSUME UNCHANGED <<tree, installer, crowded, job, running>> PROVE JobInv'
  BY <1>b DEF JobInv, JobTree, Newer, Waits, OnlyOne, AtWork, Doing
<1>1. CASE CheckBegins \/ CheckAnswered
  BY <1>1, <1>b DEF CheckBegins, CheckAnswered
<1>2. CASE InstallBegins
  <2>1. job'.pc = "download" /\ job'.version = feed /\ feed > running /\ running # 0 /\ running' = running
    BY <1>0, <1>2 DEF InstallBegins, JobType, Alive
  <2>2. Newer'
    BY <1>0, <2>1 DEF Newer
  <2> QED
    BY <1>2, <1>a, <2>1, <2>2 DEF InstallBegins
<1>3. CASE Download \/ Fail
  <2>1. job'.pc \in {"failed", "clear", "release"} /\ job'.version = job.version /\ running' = running /\ ~At("off")
    BY <1>0, <1>3 DEF Download, Fail, Goto, JobType
  <2> QED
    BY <1>3, <1>a, <2>1 DEF Download, Fail, JobInv, Newer
<1>4. CASE Restart \/ Release
  <2>1. /\ \/ job'.pc = "off"
           \/ job'.pc = "release" /\ job'.version = job.version
        /\ running' = running /\ ~At("off") /\ UNCHANGED <<tree, installer, crowded>>
    BY <1>0, <1>4, Numbers DEF Restart, Release, FreshDaemon, Goto, JobType
  <2> QED
    BY <1>a, <2>1 DEF JobInv, Newer
<1>5. CASE ClearVersion
  <2>1. /\ job.pc = "clear" /\ job'.pc \in {"unpack", "failed"} /\ job'.version = job.version
        /\ UNCHANGED <<installer, running>>
        /\ crowded => crowded'
        /\ job'.pc = "unpack" => tree'[job.version] = "absent"
    <3>0. job.pc = "clear" /\ UNCHANGED <<installer, running>>
      BY <1>5 DEF ClearVersion
    <3> DEFINE shared == \E i \in Installers : AtWork(i) /\ installer[i].version = job.version
    <3>4. crowded' = crowded \/ crowded' = (crowded \/ shared)
      BY <1>5 DEF ClearVersion
    <3> HIDE DEF shared
    <3>5. crowded => crowded'
      <4>1. CASE crowded' = crowded
        BY <4>1
      <4>2. CASE crowded' = (crowded \/ shared)
        BY <4>2
      <4> QED
        BY <3>4, <4>1, <4>2
    <3>1. job.pc = "clear" /\ UNCHANGED <<installer, running>> /\ (crowded => crowded')
      BY <3>0, <3>5
    <3>2. \/ Goto("unpack") /\ tree'[job.version] = "absent"
          \/ Goto("failed")
      BY <1>0, <1>5 DEF ClearVersion
    <3>3. \A step \in {"unpack", "failed"} :
             Goto(step) => job'.pc = step /\ job'.version = job.version
      BY <1>0 DEF Goto, JobType
    <3> QED
      BY <3>1, <3>2, <3>3
  <2> QED
    BY <2>1 DEF JobInv, JobTree, Newer, Waits, OnlyOne, AtWork
<1>6. CASE UnpackBegins
  <2>1. /\ job.pc = "unpack" /\ job'.pc = "unpacking" /\ job'.version = job.version
        /\ UNCHANGED <<installer, running, crowded>>
        /\ tree'[job.version] = "partial"
    BY <1>0, <1>6 DEF UnpackBegins, Goto, JobType
  <2> QED
    BY <2>1 DEF JobInv, JobTree, Newer, Waits, OnlyOne, AtWork
<1>7. CASE UnpackEnds
  <2>1. /\ job.pc = "unpacking" /\ job'.version = job.version
        /\ UNCHANGED <<installer, running, crowded>>
        /\ \/ tree'[job.version] = "whole" /\ job'.pc = "handover"
           \/ job'.pc = "failed"
    BY <1>0, <1>7 DEF UnpackEnds, Goto, JobType
  <2> QED
    BY <2>1 DEF JobInv, JobTree, Newer, Waits, OnlyOne, AtWork
<1>8. CASE HandOver
  <2>1. PICK i \in Installers :
           /\ Doing(i, "off")
           /\ installer' \in InstallersType
           /\ installer'[i].pc = "link" /\ installer'[i].version = job.version
           /\ \A j \in Installers : j # i => installer'[j] = installer[j]
           /\ job'.pc = "wait" /\ job'.version = job.version /\ job'.by = i
           /\ crowded' = (\E j \in Installers \ {i} : AtWork(j))
           /\ UNCHANGED <<running, tree>>
    BY <1>8, HandedOver
  <2>2. job.pc = "handover"
    BY <1>8 DEF HandOver
  <2>3. JobTree' /\ Newer' /\ Waits'
    BY <2>1, <2>2 DEF JobInv, JobTree, Newer, Waits, Doing
  <2>4. ~crowded' => \A j \in Installers : AtWork(j)' => j = i
    BY <2>1 DEF AtWork
  <2> QED
    BY <2>1, <2>3, <2>4 DEF JobInv, OnlyOne
<1>9. CASE InstallerEnded
  <2>1. /\ job.pc = "wait" /\ job'.version = job.version
        /\ job'.pc \in {"prune", "failed"}
        /\ installer'[job.by].pc = "off"
        /\ \A j \in Installers : j # job.by => installer'[j] = installer[j]
        /\ UNCHANGED <<running, tree, crowded>>
    BY <1>9, EndSeen
  <2>2. \A j \in Installers : AtWork(j)' => AtWork(j) /\ j # job.by
    BY <2>1 DEF AtWork
  <2>3. JobTree' /\ Newer' /\ Waits'
    BY <2>1 DEF JobInv, JobTree, Newer, Waits
  <2> QED
    BY <2>1, <2>2, <2>3 DEF JobInv, OnlyOne
<1>10. CASE Prune
  <2>1. /\ job.pc = "prune" /\ job'.pc = "restart" /\ job'.version = job.version
        /\ UNCHANGED <<installer, running, crowded>>
    BY <1>0, <1>10 DEF Prune, Goto, JobType
  <2> QED
    BY <2>1 DEF JobInv, JobTree, Newer, Waits, OnlyOne, AtWork
<1>11. ASSUME NEW i \in Installers, InstallerStep(i) PROVE JobInv'
  <2>1. /\ UNCHANGED <<tree, job, running, crowded>>
        /\ \A j \in Installers : j # i => installer'[j] = installer[j]
        /\ AtWork(i)' => AtWork(i)
        /\ Doing(i, "off")' => ~(At("wait") /\ job.by = i)
        /\ ~Doing(i, "off")' => installer'[i].version = installer[i].version
    BY <1>11, InstallerEffect
  <2>2. \A j \in Installers : AtWork(j)' => AtWork(j)
    BY <2>1 DEF AtWork
  <2>3. JobTree' /\ Newer'
    BY <2>1 DEF JobInv, JobTree, Newer
  <2>4. Waits'
    BY <1>0, <2>1 DEF JobInv, Waits, Doing
  <2>5. OnlyOne'
    BY <2>1, <2>2 DEF JobInv, OnlyOne
  <2> QED
    BY <2>3, <2>4, <2>5 DEF JobInv
<1>12. CASE Crash \/ SystemdRestarts
  <2>1. job'.pc = "off" /\ UNCHANGED <<tree, crowded>>
    BY <1>12, Numbers DEF Crash, SystemdRestarts, FreshDaemon
  <2>2. \A i \in Installers : AtWork(i)' => AtWork(i)
    BY <1>12, NoneLeft DEF Crash, SystemdRestarts, AtWork
  <2> QED
    BY <2>1, <2>2 DEF JobInv, JobTree, Newer, Waits, OnlyOne
<1>13. CASE Boot
  <2>1. At("off")
    BY <1>13 DEF Boot, Alive, JobInv, Newer
  <2>2. Newer'
    BY <1>13, <2>1 DEF Boot, Newer
  <2> QED
    BY <1>13, <1>a, <2>1, <2>2 DEF Boot
<1>14. CASE Rollback \/ UNCHANGED vars
  BY <1>14, <1>b DEF Rollback, vars
<1> QED
  BY <1>1, <1>2, <1>3, <1>4, <1>5, <1>6, <1>7, <1>8, <1>9, <1>10, <1>11, <1>12, <1>13, <1>14
     DEF Next, InstallStep

LEMMA JobAlways == Spec => []JobInv
<1>1. Init => JobInv
  <2> SUFFICES ASSUME Init PROVE JobInv
    OBVIOUS
  <2>1. job.pc = "off" /\ \A i \in Installers : ~AtWork(i)
    BY Numbers DEF Init, AtWork
  <2> QED
    BY <2>1 DEF JobInv, JobTree, Newer, Waits, OnlyOne, At
<1> QED
  BY <1>1, JobStep, TypeCorrect, PTL DEF Spec

-----------------------------------------------------------------------------
\* An installer that has the plugin's names for itself finds its version whole, what it
\* has staged whole, and what it has set aside gone from its place.
Ready(i) ==
  /\ AtWork(i) => tree[installer[i].version] = "whole"
  /\ Doing(i, "copy") => staging = "copying"
  /\ Doing(i, "look") \/ Doing(i, "backup") \/ Doing(i, "swap") => staging = "whole"
  /\ Doing(i, "backup") => plugin # "absent" /\ backup = "absent"
  /\ Doing(i, "swap") => plugin = "absent"

PluginInv ==
  /\ crowded => torn
  /\ ~crowded => \A i \in Installers : Ready(i)
  /\ PluginSafe

\* What extract meddles with when it removes what is there.
Shared == \E i \in Installers : AtWork(i) /\ installer[i].version = job.version

LEMMA Cleared ==
  ASSUME TypeOK, ClearVersion
  PROVE  /\ UNCHANGED <<installer, running, current, link, plugin, backup>>
         /\ At("clear") /\ job'.pc \in {"unpack", "failed"}
         /\ \A v \in Versions : v # job.version => tree'[v] = tree[v]
         /\ \/ UNCHANGED <<tree, staging, crowded, torn, excused>>
            \/ /\ staging' = Spoilt({job.version})
               /\ excused' = (excused \/ job.version \in Named)
               /\ crowded' = (crowded \/ Shared) /\ torn' = (torn \/ Shared)
<1> USE DEF history, envVars
<1>1. job.pc = "clear" /\ UNCHANGED <<installer, running, current, link, plugin, backup>>
  BY DEF ClearVersion, At
<1>2. \/ UNCHANGED <<tree, staging, crowded, torn, excused>>
      \/ /\ staging' = Spoilt({job.version})
         /\ excused' = (excused \/ job.version \in Named)
         /\ crowded' = (crowded \/ Shared) /\ torn' = (torn \/ Shared)
  BY DEF ClearVersion, Shared
<1>3. Goto("unpack") \/ Goto("failed")
  BY DEF ClearVersion
<1>4. job'.pc \in {"unpack", "failed"}
  BY <1>3 DEF Goto, TypeOK
<1>5. tree \in [Versions -> Trees] /\ \A v \in Versions : v # job.version => tree'[v] = tree[v]
  BY DEF ClearVersion, TypeOK
<1> QED
  BY <1>1, <1>2, <1>4, <1>5 DEF At

\* The steps of one installer.
LEMMA InstallerKeepsPlugin ==
  ASSUME TypeOK, JobInv, PluginInv, NEW i \in Installers, InstallerStep(i)
  PROVE  PluginInv'
<1> USE DEF diskVars, pluginVars, updaterVars, envVars, history, InstallerStays
<1>0. /\ UNCHANGED <<tree, job, crowded>>
      /\ \A j \in Installers : j # i => installer'[j] = installer[j]
      /\ AtWork(i)' => AtWork(i)
      /\ ~Doing(i, "off")' => installer'[i].version = installer[i].version
  BY InstallerEffect
<1>1. \A step \in InstallerSteps : Continue(i, step) => installer'[i].pc = step
  BY Continued DEF Moves
<1>2. crowded => torn
  BY DEF PluginInv
<1>3. CASE crowded
  <2>1. torn'
    <3>1. CASE SwapPlugin(i)
      <4>1. torn' = torn \/ torn' = (torn /\ crowded)
        BY <3>1 DEF SwapPlugin
      <4> QED
        BY <1>2, <1>3, <4>1
    <3>2. CASE ~SwapPlugin(i)
      <4>1. torn' = torn
        BY <3>2 DEF InstallerStep, MakeLink, FlipCurrent, StagePlugin, PluginStaged, ClearBackup,
                    BackUpPlugin, RestartService, InstallerForgotten
      <4> QED
        BY <1>2, <1>3, <4>1
    <3> QED
      BY <3>1, <3>2
  <2> QED
    BY <1>0, <1>3, <2>1 DEF PluginInv, PluginSafe
<1>4. CASE ~crowded
  <2>1. Ready(i) /\ \A j \in Installers : AtWork(i) /\ AtWork(j) => i = j
    BY <1>4 DEF PluginInv, JobInv, OnlyOne
  <2>2. ASSUME AtWork(i), Ready(i)', PluginSafe' PROVE PluginInv'
    <3>1. ASSUME NEW j \in Installers, j # i PROVE Ready(j)'
      <4>1. ~AtWork(j) /\ installer'[j] = installer[j]
        BY <1>0, <2>1, <2>2, <3>1
      <4> QED
        BY <4>1 DEF Ready, AtWork, Doing
    <3> QED
      BY <1>0, <1>4, <2>2, <3>1 DEF PluginInv
  <2>3. ASSUME AtWork(i), UNCHANGED <<staging, plugin, backup, torn>>,
               installer'[i].pc \notin {"copy", "look", "backup", "swap"}
        PROVE  PluginInv'
    <3>1. Ready(i)'
      BY <1>0, <2>1, <2>3 DEF Ready, AtWork, Doing
    <3> QED
      BY <2>2, <2>3, <3>1 DEF PluginInv, PluginSafe
  <2>4. CASE MakeLink(i) \/ FlipCurrent(i)
    <3>1. AtWork(i) /\ installer'[i].pc \in {"flip", "stage", "error"}
      BY <1>1, <2>4 DEF MakeLink, FlipCurrent, AtWork, Doing, InstallerSteps
    <3> QED
      BY <2>3, <2>4, <3>1 DEF MakeLink, FlipCurrent
  <2>5. CASE RestartService(i)
    <3>1. AtWork(i) /\ installer'[i].pc \in {"ok", "error"}
      BY <1>1, <2>5 DEF RestartService, AtWork, Doing, InstallerSteps
    <3> QED
      BY <2>3, <2>5, <3>1 DEF RestartService
  <2>6. CASE StagePlugin(i)
    <3>1. AtWork(i) /\ UNCHANGED <<plugin, backup, torn>>
      BY <2>6 DEF StagePlugin, AtWork, Doing
    <3>2. tree[installer[i].version] = "whole" /\ ~\E j \in Installers \ {i} : Doing(j, "copy")
      BY <2>1, <3>1 DEF Ready, AtWork, Doing
    <3>3. \/ staging' = "copying" /\ installer'[i].pc = "copy"
          \/ installer'[i].pc = "error"
      BY <1>1, <2>6, <3>2 DEF StagePlugin, InstallerSteps
    <3>4. Ready(i)'
      BY <1>0, <3>2, <3>3 DEF Ready, AtWork, Doing
    <3> QED
      BY <2>2, <3>1, <3>4 DEF PluginInv, PluginSafe
  <2>7. CASE PluginStaged(i)
    <3>1. AtWork(i) /\ UNCHANGED <<plugin, backup, torn>> /\ staging = "copying"
      BY <2>1, <2>7 DEF PluginStaged, AtWork, Doing, Ready
    <3>2. \/ staging' = "whole" /\ installer'[i].pc = "look"
          \/ installer'[i].pc = "error"
      BY <1>1, <2>7, <3>1 DEF PluginStaged, InstallerSteps
    <3>4. Ready(i)'
      BY <1>0, <2>1, <3>1, <3>2 DEF Ready, AtWork, Doing
    <3> QED
      BY <2>2, <3>1, <3>4 DEF PluginInv, PluginSafe
  <2>8. CASE ClearBackup(i)
    <3>1. AtWork(i) /\ UNCHANGED <<staging, plugin, torn>> /\ staging = "whole"
      BY <2>1, <2>8 DEF ClearBackup, AtWork, Doing, Ready
    <3>2. \/ plugin = "absent" /\ backup' = backup /\ installer'[i].pc = "swap"
          \/ plugin # "absent" /\ backup' = "absent" /\ installer'[i].pc = "backup"
          \/ plugin # "absent" /\ installer'[i].pc = "error"
      BY <1>1, <2>8 DEF ClearBackup, InstallerSteps
    <3>4. Ready(i)'
      BY <1>0, <2>1, <3>1, <3>2 DEF Ready, AtWork, Doing
    <3> QED
      BY <2>2, <3>1, <3>2, <3>4 DEF PluginInv, PluginSafe
  <2>9. CASE BackUpPlugin(i)
    <3>1. AtWork(i) /\ UNCHANGED <<staging, torn>> /\ staging = "whole" /\ plugin # "absent" /\ backup = "absent"
      BY <2>1, <2>9 DEF BackUpPlugin, AtWork, Doing, Ready
    <3>2. \/ plugin' = "absent" /\ backup' = plugin /\ installer'[i].pc = "swap"
          \/ UNCHANGED <<plugin, backup>> /\ installer'[i].pc = "error"
      BY <1>1, <2>9 DEF BackUpPlugin, InstallerSteps
    <3>4. Ready(i)'
      BY <1>0, <2>1, <3>1, <3>2 DEF Ready, AtWork, Doing
    <3> QED
      BY <2>2, <3>1, <3>2, <3>4 DEF PluginInv, PluginSafe
  <2>10. CASE SwapPlugin(i)
    <3>1. AtWork(i) /\ staging = "whole" /\ plugin = "absent"
      BY <2>1, <2>10 DEF SwapPlugin, AtWork, Doing, Ready
    <3>2. \/ plugin' = "whole" /\ installer'[i].pc = "service"
          \/ plugin' = backup /\ torn' = torn /\ installer'[i].pc = "error"
      BY <1>1, <2>10, <3>1 DEF SwapPlugin, InstallerSteps
    <3>4. Ready(i)'
      BY <1>0, <2>1, <3>1, <3>2 DEF Ready, AtWork, Doing
    <3> QED
      BY <2>2, <3>1, <3>2, <3>4 DEF PluginInv, PluginSafe
  <2>11. CASE InstallerForgotten(i)
    <3>1. UNCHANGED <<tree, staging, plugin, backup, torn, crowded>> /\ ~AtWork(i)' /\ ~AtWork(i)
      BY <1>0, <2>11 DEF InstallerForgotten, AtWork
    <3>2. ASSUME NEW j \in Installers PROVE Ready(j)'
      <4>1. CASE j = i
        BY <3>1, <4>1 DEF Ready, AtWork, Doing
      <4>2. CASE j # i
        BY <1>0, <1>4, <3>1, <4>2 DEF PluginInv, Ready, AtWork, Doing
      <4> QED
        BY <4>1, <4>2
    <3> QED
      BY <1>4, <3>1, <3>2 DEF PluginInv, PluginSafe
  <2> QED
    BY <2>4, <2>5, <2>6, <2>7, <2>8, <2>9, <2>10, <2>11 DEF InstallerStep
<1> QED
  BY <1>3, <1>4

\* The plugin is in place or whole where it was set aside, at every moment of every
\* install (installPlugin), until two are at work together; the next one alone mends it.
THEOREM PluginKept == Spec => []PluginSafe
<1>1. Init => PluginInv
  BY Numbers DEF Init, PluginInv, PluginSafe, Ready, Doing, AtWork
<1>2. TypeOK /\ JobInv /\ PluginInv /\ [Next]_vars => PluginInv'
  <2> SUFFICES ASSUME TypeOK, JobInv, PluginInv, [Next]_vars PROVE PluginInv'
    OBVIOUS
  <2> USE DEF diskVars, pluginVars, envVars, updaterVars, history
  <2>0. /\ job \in JobType /\ job.version \in Versions /\ tree \in [Versions -> Trees]
        /\ installer \in InstallersType
    BY DEF TypeOK, JobType, InstallersType, OneInstaller
  <2>1. ASSUME UNCHANGED <<pluginVars, installer, tree, crowded, torn>> PROVE PluginInv'
    BY <2>1 DEF PluginInv, PluginSafe, Ready, AtWork, Doing
  <2>2. CASE CheckBegins \/ CheckAnswered \/ InstallBegins
    BY <2>1, <2>2 DEF CheckBegins, CheckAnswered, InstallBegins
  <2>3. CASE Download \/ Fail \/ Restart \/ Release
    BY <2>1, <2>3 DEF Download, Fail, Restart, Release
  <2>4. CASE ClearVersion
    <3>1. /\ UNCHANGED <<installer, plugin, backup>>
          /\ \A v \in Versions : v # job.version => tree'[v] = tree[v]
          /\ \/ UNCHANGED <<tree, staging, crowded, torn>>
             \/ /\ staging' = Spoilt({job.version})
                /\ crowded' = (crowded \/ Shared) /\ torn' = (torn \/ Shared)
      BY <2>4, Cleared
    <3>2. CASE UNCHANGED <<tree, staging, crowded, torn>>
      BY <2>1, <3>1, <3>2
    <3>3. CASE /\ staging' = Spoilt({job.version})
               /\ crowded' = (crowded \/ Shared) /\ torn' = (torn \/ Shared)
      <4>1. (crowded' => torn') /\ PluginSafe'
        BY <3>1, <3>3 DEF PluginInv, PluginSafe
      <4>2. ASSUME ~crowded', NEW i \in Installers PROVE Ready(i)'
        <5>1. ~crowded /\ ~Shared
          BY <3>3, <4>2
        <5>2. AtWork(i) => installer[i].version # job.version
          BY <5>1 DEF Shared
        <5>3. staging' = staging
          BY <3>3, <5>1 DEF Spoilt, Shared, AtWork
        <5>4. Ready(i) /\ installer[i].version \in Versions
          BY <2>0, <5>1 DEF PluginInv, InstallersType, OneInstaller
        <5> QED
          BY <3>1, <5>2, <5>3, <5>4 DEF Ready, AtWork, Doing
      <4> QED
        BY <4>1, <4>2 DEF PluginInv
    <3> QED
      BY <3>1, <3>2, <3>3
  <2>5. CASE UnpackBegins \/ UnpackEnds
    <3>1. /\ UNCHANGED <<installer, staging, plugin, backup, crowded, torn>>
          /\ tree[job.version] # "whole"
          /\ \A v \in Versions : v # job.version => tree'[v] = tree[v]
      BY <2>0, <2>5 DEF UnpackBegins, UnpackEnds, JobInv, JobTree, At
    <3>2. ASSUME ~crowded, NEW i \in Installers PROVE Ready(i)'
      <4>1. Ready(i) /\ installer[i].version \in Versions
        BY <2>0, <3>2 DEF PluginInv, InstallersType, OneInstaller
      <4> QED
        BY <3>1, <4>1 DEF Ready, AtWork, Doing
    <3> QED
      BY <3>1, <3>2 DEF PluginInv, PluginSafe
  <2>6. CASE HandOver
    <3>1. PICK i \in Installers :
           /\ installer'[i].pc = "link" /\ installer'[i].version = job.version
           /\ \A j \in Installers : j # i => installer'[j] = installer[j]
           /\ crowded' = (\E j \in Installers \ {i} : AtWork(j))
           /\ torn' = (torn \/ \E j \in Installers \ {i} : AtWork(j))
           /\ UNCHANGED <<tree, staging, plugin, backup>>
      BY <2>6, HandedOver
    <3>2. tree[job.version] = "whole"
      BY <2>6 DEF HandOver, JobInv, JobTree, At
    <3>3. (crowded' => torn') /\ PluginSafe'
      BY <3>1 DEF PluginInv, PluginSafe
    <3>4. ASSUME ~crowded', NEW j \in Installers PROVE Ready(j)'
      <4>1. CASE j = i
        BY <3>1, <3>2, <4>1 DEF Ready, Doing
      <4>2. CASE j # i
        <5>1. ~AtWork(j) /\ installer'[j] = installer[j]
          BY <3>1, <3>4, <4>2
        <5> QED
          BY <5>1 DEF Ready, AtWork, Doing
      <4> QED
        BY <4>1, <4>2
    <3> QED
      BY <3>3, <3>4 DEF PluginInv
  <2>7. CASE InstallerEnded
    <3>1. /\ installer'[job.by].pc = "off" /\ job.by \in Installers
          /\ \A j \in Installers : j # job.by => installer'[j] = installer[j]
          /\ UNCHANGED <<tree, staging, plugin, backup, crowded, torn>>
      BY <2>7, EndSeen
    <3>2. ASSUME ~crowded, NEW j \in Installers PROVE Ready(j)'
      BY <3>1, <3>2 DEF PluginInv, Ready, AtWork, Doing
    <3> QED
      BY <3>1, <3>2 DEF PluginInv, PluginSafe
  <2>8. CASE Prune
    <3>1. UNCHANGED <<installer, plugin, backup, crowded, torn>>
      BY <2>8 DEF Prune
    <3>2. ASSUME ~crowded, NEW j \in Installers PROVE Ready(j)'
      <4>1. ~AtWork(j)
        BY <2>8, <3>2 DEF Prune, JobInv, OnlyOne, At
      <4> QED
        BY <3>1, <4>1 DEF Ready, AtWork, Doing
    <3> QED
      BY <3>1, <3>2 DEF PluginInv, PluginSafe
  <2>9. ASSUME NEW i \in Installers, InstallerStep(i) PROVE PluginInv'
    BY <2>9, InstallerKeepsPlugin
  <2>10. CASE Crash \/ SystemdRestarts
    <3>1. UNCHANGED <<tree, staging, plugin, backup, crowded, torn>>
      BY <2>10 DEF Crash, SystemdRestarts
    <3>2. UNCHANGED installer \/ \A i \in Installers : installer'[i].pc = "off"
      BY <2>10, NoneLeft DEF Crash, SystemdRestarts
    <3> QED
      BY <3>1, <3>2 DEF PluginInv, PluginSafe, Ready, AtWork, Doing
  <2>11. CASE Boot \/ Rollback \/ UNCHANGED vars
    BY <2>1, <2>11 DEF Boot, Rollback, vars
  <2> QED
    BY <2>2, <2>3, <2>4, <2>5, <2>6, <2>7, <2>8, <2>9, <2>10, <2>11 DEF Next, InstallStep
<1>3. PluginInv => PluginSafe
  BY DEF PluginInv
<1> QED
  BY <1>1, <1>2, <1>3, TypeCorrect, JobAlways, PTL DEF Spec

-----------------------------------------------------------------------------
\* Why `current` stays whole.  What it names, or an installer is about to make it name, is
\* whole; and what a prune removes is not what it names, unless two installers were at
\* work together, because a rollback after the flip can only go to the newest of the
\* older versions.
Spared == current \notin Pruned(job.version)

Whole ==
  /\ \A v \in Named : tree[v] = "whole"
  /\ ~crowded =>
       /\ \A i \in Installers : Doing(i, "flip") => link \in {0, installer[i].version}
       /\ At("wait") /\ installer[job.by].pc \notin {"off", "link", "flip", "error"} => Spared
       /\ At("prune") => Spared

CurrentInv == excused \/ Whole

\* A prune leaves alone what is not older, and the newest of what is.
LEMMA NotPruned ==
  ASSUME TypeOK, NEW v \in Versions, NEW w \in Versions,
         w >= v \/ \A x \in Versions : x < v /\ tree[x] # "absent" => x <= w
  PROVE  w \notin Pruned(v)
<1> DEFINE old == {x \in Versions : tree[x] # "absent" /\ x < v}
<1>1. CASE w \notin old
  BY <1>1 DEF Pruned
<1>2. CASE w \in old
  <2>1. Newest(old) \in old /\ w <= Newest(old)
    BY <1>2, NewestOf
  <2>2. Newest(old) <= w
    BY <1>2, <2>1 DEF Versions
  <2>3. Newest(old) = w
    BY <2>1, <2>2 DEF Versions
  <2> QED
    BY <2>3 DEF Pruned
<1> QED
  BY <1>1, <1>2

\* A rollback after the flip.
LEMMA RollbackSpares ==
  ASSUME TypeOK, Rollback, NEW v \in Versions, tree[v] = "whole"
  PROVE  current' \notin Pruned(v)
<1>1. /\ current' \in Versions /\ current' # current
      /\ \A x \in Versions : x # current /\ tree[x] # "absent" => x <= current'
  BY RolledBack
<1>2. CASE v = current
  <2>1. \A x \in Versions : x < v /\ tree[x] # "absent" => x <= current'
    BY <1>1, <1>2 DEF Versions
  <2> QED
    BY <1>1, <2>1, NotPruned
<1>3. CASE v # current
  <2>1. current' >= v
    BY <1>1, <1>3 DEF Versions
  <2> QED
    BY <1>1, <2>1, NotPruned
<1> QED
  BY <1>2, <1>3

\* What is named is a version.
LEMMA NamedVersions == TypeOK => Named \subseteq Versions
  BY DEF TypeOK, Named

\* The steps of the install, but for the prune.
LEMMA InstallKeepsWhole ==
  ASSUME TypeOK, JobInv, Whole, InstallStep, ~excused', ~Prune
  PROVE  Whole'
<1> USE DEF diskVars, pluginVars, envVars, updaterVars, history, At
<1>0. /\ job \in JobType /\ installer \in InstallersType /\ tree \in [Versions -> Trees]
      /\ current \in Versions /\ job.version \in Versions /\ job.by \in Installers
  BY DEF TypeOK, JobType, InstallersType, OneInstaller
<1>n. Named \subseteq Versions
  BY NamedVersions
<1>a. ASSUME UNCHANGED <<installer, current, link>>,
             \A v \in Named : tree'[v] = tree[v],
             job'.pc \notin {"wait", "prune"},
             crowded => crowded'
      PROVE  Whole'
  <2>1. Named' = Named
    BY <1>a DEF Named
  <2> QED
    BY <1>a, <2>1 DEF Whole, Doing
<1>1. CASE Download \/ Fail
  <2>1. job'.pc \in {"failed", "clear", "release"}
    BY <1>0, <1>1 DEF Download, Fail, Goto, JobType
  <2> QED
    BY <1>1, <1>a, <2>1 DEF Download, Fail
<1>2. CASE Restart \/ Release
  <2>1. job'.pc \in {"release", "off"} /\ UNCHANGED <<installer, tree, current, link, crowded>>
    BY <1>0, <1>2, Numbers DEF Restart, Release, FreshDaemon, Goto, JobType
  <2> QED
    BY <1>a, <2>1
<1>3. CASE ClearVersion
  <2>1. /\ UNCHANGED <<installer, current, link>> /\ job'.pc \in {"unpack", "failed"}
        /\ \A v \in Versions : v # job.version => tree'[v] = tree[v]
        /\ \/ UNCHANGED <<tree, crowded, excused>>
           \/ /\ excused' = (excused \/ job.version \in Named)
              /\ crowded' = (crowded \/ Shared)
    BY <1>3, Cleared
  <2>2. CASE UNCHANGED <<tree, crowded, excused>>
    BY <1>a, <2>1, <2>2
  <2>3. CASE excused' = (excused \/ job.version \in Named) /\ crowded' = (crowded \/ Shared)
    <3>1. job.version \notin Named
      BY <2>3
    <3>2. \A v \in Named : tree'[v] = tree[v]
      BY <1>n, <2>1, <3>1
    <3>3. crowded => crowded'
      BY <2>3
    <3> QED
      BY <1>a, <2>1, <3>2, <3>3
  <2> QED
    BY <2>1, <2>2, <2>3
<1>4. CASE UnpackBegins \/ UnpackEnds
  <2>1. /\ tree[job.version] # "whole"
        /\ UNCHANGED <<installer, current, link, crowded>>
        /\ \A v \in Versions : v # job.version => tree'[v] = tree[v]
    BY <1>0, <1>4 DEF UnpackBegins, UnpackEnds, JobInv, JobTree
  <2>2. job'.pc \in {"unpacking", "handover", "failed"}
    BY <1>0, <1>4 DEF UnpackBegins, UnpackEnds, Goto, JobType
  <2>3. \A v \in Named : tree'[v] = tree[v]
    BY <1>n, <2>1 DEF Whole
  <2> QED
    BY <1>a, <2>1, <2>2, <2>3
<1>5. CASE HandOver
  <2>1. PICK i \in Installers :
           /\ Doing(i, "off")
           /\ installer'[i].pc = "link" /\ installer'[i].version = job.version
           /\ \A j \in Installers : j # i => installer'[j] = installer[j]
           /\ job'.pc = "wait" /\ job'.version = job.version /\ job'.by = i
           /\ crowded' = (\E j \in Installers \ {i} : AtWork(j))
           /\ UNCHANGED <<tree, current, link>>
    BY <1>5, HandedOver
  <2>2. tree[job.version] = "whole"
    BY <1>5 DEF HandOver, JobInv, JobTree
  <2>3. \A v \in Named' : v \in Named \/ v = job.version
    BY <2>1 DEF Named, Doing
  <2>4. \A v \in Named' : tree'[v] = "whole"
    BY <2>1, <2>2, <2>3 DEF Whole
  <2>5. ASSUME ~crowded', NEW j \in Installers, Doing(j, "flip")' PROVE FALSE
    <3>1. j # i /\ AtWork(j)
      BY <2>1, <2>5 DEF Doing, AtWork
    <3> QED
      BY <2>1, <2>5, <3>1
  <2> QED
    BY <2>1, <2>4, <2>5 DEF Whole
<1>6. CASE InstallerEnded
  <2>1. /\ job.pc = "wait" /\ job'.version = job.version /\ job.by \in Installers
        /\ \/ Doing(job.by, "ok") /\ job'.pc = "prune"
           \/ job'.pc = "failed"
        /\ installer'[job.by].pc = "off"
        /\ \A j \in Installers : j # job.by => installer'[j] = installer[j]
        /\ UNCHANGED <<tree, current, link, crowded>>
    BY <1>6, EndSeen
  <2>2. \A v \in Named' : v \in Named
    BY <2>1 DEF Named
  <2>3. \A j \in Installers : Doing(j, "flip")' => installer'[j] = installer[j] /\ Doing(j, "flip")
    BY <2>1 DEF Doing
  <2>4. Pruned(job.version)' = Pruned(job.version)
    BY <2>1 DEF Pruned
  <2>5. ~crowded /\ job'.pc = "prune" => Spared
    BY <2>1 DEF Whole, Doing
  <2>6. Spared => Spared'
    BY <2>1 DEF Spared, Pruned
  <2> QED
    BY <2>1, <2>2, <2>3, <2>5, <2>6 DEF Whole
<1> QED
  BY <1>1, <1>2, <1>3, <1>4, <1>5, <1>6 DEF InstallStep

\* The steps of one installer.
LEMMA InstallerKeepsWhole ==
  ASSUME TypeOK, JobInv, Whole, NEW i \in Installers, InstallerStep(i)
  PROVE  Whole'
<1> USE DEF diskVars, pluginVars, updaterVars, envVars, history, InstallerStays, At
<1>0. /\ UNCHANGED <<tree, job, crowded>>
      /\ \A j \in Installers : j # i => installer'[j] = installer[j]
      /\ ~Doing(i, "off")' => installer'[i].version = installer[i].version
      /\ installer[i].version \in Versions /\ link \in 0 .. MaxVersion /\ job.by \in Installers
      /\ current \in Versions /\ job.version \in Versions
  BY InstallerEffect DEF TypeOK
<1>1. \A step \in InstallerSteps : Continue(i, step) => installer'[i].pc = step
  BY Continued DEF Moves
<1>2. ASSUME ~crowded PROVE \A j \in Installers : AtWork(i) /\ AtWork(j) => i = j
  BY <1>2 DEF JobInv, OnlyOne
<1>3. ASSUME ~crowded, At("wait"), AtWork(i) PROVE i = job.by /\ installer[i].version = job.version
  BY <1>3 DEF JobInv, OnlyOne, Waits
<1>4. ASSUME ~crowded, At("prune") PROVE ~AtWork(i)
  BY <1>4 DEF JobInv, OnlyOne
<1>5. CASE MakeLink(i)
  <2>1. /\ Doing(i, "link") /\ AtWork(i) /\ current' = current
        /\ \/ link' = installer[i].version /\ installer'[i].pc = "flip"
           \/ link' \in {link, 0} /\ installer'[i].pc = "error"
    BY <1>1, <1>5 DEF MakeLink, Doing, AtWork, InstallerSteps
  <2>2. \A v \in Named' : v \in Named
    <3>1. CASE link' = installer[i].version /\ installer'[i].pc = "flip"
      BY <1>0, <2>1, <3>1 DEF Named, Doing
    <3>2. CASE link' \in {link, 0} /\ installer'[i].pc = "error"
      BY <1>0, <2>1, <3>2 DEF Named, Doing, Versions
    <3> QED
      BY <2>1, <3>1, <3>2
  <2>3. ASSUME ~crowded, NEW j \in Installers, Doing(j, "flip")'
        PROVE  link' \in {0, installer'[j].version}
    <3>1. j = i
      BY <1>0, <1>2, <2>1, <2>3 DEF AtWork, Doing
    <3> QED
      BY <1>0, <2>1, <2>3, <3>1 DEF Doing
  <2>4. ~crowded => ~At("prune") /\ (At("wait") => installer'[job.by].pc \in {"flip", "error"})
    BY <1>3, <1>4, <2>1
  <2> QED
    BY <1>0, <2>2, <2>3, <2>4 DEF Whole
<1>6. CASE FlipCurrent(i)
  <2>1. /\ Doing(i, "flip") /\ AtWork(i)
        /\ \/ link # 0 /\ current' = link /\ link' = 0 /\ installer'[i].pc = "stage"
           \/ UNCHANGED <<current, link>> /\ installer'[i].pc = "error"
    BY <1>1, <1>6 DEF FlipCurrent, Doing, AtWork, InstallerSteps
  <2>2. \A v \in Named' : v \in Named
    <3>1. CASE link # 0 /\ current' = link /\ link' = 0 /\ installer'[i].pc = "stage"
      <4>1. link \in Named
        BY <1>0, <2>1, <3>1, Numbers DEF Named, Doing
      <4> QED
        BY <1>0, <3>1, <4>1 DEF Named, Doing, Versions
    <3>2. CASE UNCHANGED <<current, link>> /\ installer'[i].pc = "error"
      BY <1>0, <2>1, <3>2 DEF Named, Doing
    <3> QED
      BY <2>1, <3>1, <3>2
  <2>3. ASSUME ~crowded, NEW j \in Installers, Doing(j, "flip")' PROVE FALSE
    BY <1>0, <1>2, <2>1, <2>3 DEF AtWork, Doing
  <2>4. ASSUME ~crowded, At("wait"), installer'[job.by].pc # "error" PROVE Spared'
    <3>1. i = job.by /\ installer[i].version = job.version
      BY <1>3, <2>1, <2>4
    <3>2. current' = job.version
      BY <2>1, <2>4, <3>1 DEF Whole
    <3>3. \A v \in Versions : v \notin Pruned(v)'
      BY DEF Pruned, Versions
    <3> QED
      BY <1>0, <3>2, <3>3 DEF Spared
  <2> QED
    BY <1>0, <1>4, <2>1, <2>2, <2>3, <2>4 DEF Whole
<1>7. CASE ~MakeLink(i) /\ ~FlipCurrent(i)
  <2>1. /\ UNCHANGED <<current, link>>
        /\ installer[i].pc \notin {"off", "link", "flip"}
        /\ installer'[i].pc \notin {"link", "flip"}
        /\ installer[i].pc = "error" => installer'[i].pc = "off"
    <3>1. CASE InstallerForgotten(i)
      <4>1. installer'[i].pc = "off"
        BY <3>1, Numbers DEF InstallerForgotten, TypeOK
      <4> QED
        BY <3>1, <4>1 DEF InstallerForgotten
    <3>2. CASE ~InstallerForgotten(i)
      BY <1>1, <1>7, <3>2 DEF InstallerStep, StagePlugin, PluginStaged, ClearBackup, BackUpPlugin,
                              SwapPlugin, RestartService, Doing, InstallerSteps
    <3> QED
      BY <3>1, <3>2
  <2>2. \A v \in Named' : v \in Named
    BY <1>0, <2>1 DEF Named
  <2>3. \A j \in Installers : Doing(j, "flip")' => Doing(j, "flip") /\ installer'[j] = installer[j]
    BY <1>0, <2>1 DEF Doing
  <2>4. At("wait") /\ installer'[job.by].pc \notin {"off", "link", "flip", "error"}
          => installer[job.by].pc \notin {"off", "link", "flip", "error"}
    BY <1>0, <2>1
  <2>5. Spared => Spared'
    BY <1>0, <2>1 DEF Spared, Pruned
  <2> QED
    BY <1>0, <2>1, <2>2, <2>3, <2>4, <2>5 DEF Whole
<1> QED
  BY <1>5, <1>6, <1>7

\* The version `current` names stays whole through installs, crashes, prunes and
\* rollbacks, and through installers that an earlier daemon has left, until the very version
\* is unpacked again, a rollback chooses what an interrupted install has left, or a prune
\* meets such an installer (extract, flipCurrent, pruneOldVersions, Rollback).
THEOREM CurrentStaysWhole == Spec => []CurrentWhole
<1>1. Init => CurrentInv
  <2> SUFFICES ASSUME Init PROVE Whole
    BY DEF CurrentInv
  <2>1. \A i \in Installers : installer[i].pc = "off"
    BY Numbers DEF Init
  <2>2. \A v \in Named : v = 1
    BY <2>1 DEF Named, Init
  <2>3. tree[1] = "whole" /\ At("off")
    BY Numbers DEF Init, At
  <2> QED
    BY <2>1, <2>2, <2>3 DEF Whole, Doing, At
<1>2. TypeOK /\ JobInv /\ CurrentInv /\ [Next]_vars => CurrentInv'
  <2> SUFFICES ASSUME TypeOK, JobInv, CurrentInv, [Next]_vars PROVE CurrentInv'
    OBVIOUS
  <2> USE DEF diskVars, pluginVars, envVars, updaterVars, history
  <2>0. /\ job \in JobType /\ installer \in InstallersType /\ tree \in [Versions -> Trees]
        /\ current \in Versions /\ excused \in BOOLEAN /\ job.version \in Versions
    BY DEF TypeOK, JobType, InstallersType, OneInstaller
  <2>1. ASSUME excused' PROVE CurrentInv'
    BY <2>1 DEF CurrentInv
  <2>2. excused => excused'
    <3>1. CASE ClearVersion
      <4>1. excused' = excused \/ excused' = (excused \/ job.version \in Named)
        BY <3>1, Cleared
      <4> QED
        BY <4>1
    <3>2. CASE Rollback
      BY <3>2, RolledBack
    <3>3. CASE Prune
      <4> DEFINE hit == {v \in Versions : tree'[v] # tree[v]} \cap Named # {}
      <4>1. excused' = (excused \/ (crowded /\ hit))
        BY <3>3 DEF Prune
      <4> HIDE DEF hit
      <4> QED
        BY <4>1
    <3>4. CASE InstallStep /\ ~ClearVersion /\ ~Prune
      BY <3>4 DEF InstallStep, Download, UnpackBegins, UnpackEnds, HandOver,
                  InstallerEnded, Restart, Fail, Release
    <3>5. ASSUME NEW i \in Installers, InstallerStep(i) PROVE excused => excused'
      BY <3>5, InstallerEffect
    <3>6. CASE InstallBegins \/ Crash \/ SystemdRestarts \/ Boot \/ UNCHANGED vars
      BY <3>6 DEF InstallBegins, Crash, SystemdRestarts, Boot, vars
    <3>7. CASE CheckBegins \/ CheckAnswered
      BY <3>7 DEF CheckBegins, CheckAnswered
    <3> QED
      BY <3>1, <3>2, <3>3, <3>4, <3>5, <3>6, <3>7 DEF Next
  <2> SUFFICES ASSUME Whole, ~excused' PROVE Whole'
    BY <2>1, <2>2 DEF CurrentInv
  <2>3. ASSUME UNCHANGED <<tree, current, link, crowded>>,
               UNCHANGED job \/ job'.pc \in {"off", "download"},
               UNCHANGED installer \/ /\ job'.pc = "off"
                                      /\ \A i \in Installers : installer'[i].pc = "off"
        PROVE  Whole'
    <3>1. \A v \in Named' : v \in Named
      BY <2>3 DEF Named
    <3>2. Pruned(job.version)' = Pruned(job.version) \/ job'.pc \in {"off", "download"}
      BY <2>3 DEF Pruned
    <3> QED
      BY <2>3, <3>1, <3>2 DEF Whole, At, Doing, Spared
  <2>4. CASE CheckBegins \/ CheckAnswered
    BY <2>3, <2>4 DEF CheckBegins, CheckAnswered
  <2>5. CASE InstallBegins
    <3>1. job'.pc = "download"
      BY <2>0, <2>5 DEF InstallBegins, JobType
    <3> QED
      BY <2>3, <2>5, <3>1 DEF InstallBegins
  <2>6. CASE Crash \/ SystemdRestarts
    <3>1. job'.pc = "off" /\ (UNCHANGED installer \/ \A i \in Installers : installer'[i].pc = "off")
      BY <2>6, NoneLeft, Numbers DEF Crash, SystemdRestarts, FreshDaemon
    <3> QED
      BY <2>3, <2>6, <3>1 DEF Crash, SystemdRestarts
  <2>7. CASE Boot \/ UNCHANGED vars
    BY <2>3, <2>7 DEF Boot, vars
  <2>8. CASE InstallStep /\ ~Prune
    BY <2>8, InstallKeepsWhole
  <2>9. CASE Prune
    <3> DEFINE gone == {v \in Versions : tree'[v] # tree[v]}
    <3>1. /\ UNCHANGED <<installer, current, link, crowded>>
          /\ At("prune") /\ gone \subseteq Pruned(job.version)
          /\ excused' = (excused \/ (crowded /\ gone \cap Named # {}))
      BY <2>0, <2>9 DEF Prune
    <3>2. job'.pc = "restart"
      BY <2>0, <2>9 DEF Prune, Goto, JobType
    <3> HIDE DEF gone
    <3>3. Named \cap gone = {}
      <4>1. CASE crowded
        BY <3>1, <4>1
      <4>2. CASE ~crowded
        <5>1. \A i \in Installers : installer[i].pc \notin {"link", "flip"}
          BY <3>1, <4>2 DEF JobInv, OnlyOne, At, AtWork
        <5>2. \A v \in Named : v = current
          BY <5>1 DEF Named
        <5> QED
          BY <3>1, <4>2, <5>2 DEF Whole, Spared
      <4> QED
        BY <4>1, <4>2
    <3>4. \A v \in Named : tree'[v] = tree[v]
      BY <3>3, NamedVersions DEF gone
    <3>5. Named' = Named
      BY <3>1 DEF Named
    <3> QED
      BY <3>1, <3>2, <3>4, <3>5 DEF Whole, At, Doing
  <2>10. ASSUME NEW i \in Installers, InstallerStep(i) PROVE Whole'
    BY <2>10, InstallerKeepsWhole
  <2>11. CASE Rollback
    <3>1. UNCHANGED <<tree, job, installer, crowded>> /\ link' = 0 /\ current' \in Versions
      BY <2>11, RolledBack DEF Rollback
    <3>2. tree[current'] = "whole"
      BY <2>11, RolledBack
    <3>3. \A v \in Named' : v = current' \/ v \in Named
      BY <3>1 DEF Named, Versions
    <3>4. job.pc \in {"wait", "prune"} => tree[job.version] = "whole"
      BY DEF JobInv, JobTree
    <3>5. job.pc \in {"wait", "prune"} => current' \notin Pruned(job.version)
      BY <2>0, <2>11, <3>4, RollbackSpares
    <3>6. Pruned(job.version)' = Pruned(job.version)
      BY <3>1 DEF Pruned
    <3> QED
      BY <3>1, <3>2, <3>3, <3>5, <3>6 DEF Whole, At, Doing, Spared
  <2> QED
    BY <2>4, <2>5, <2>6, <2>7, <2>8, <2>9, <2>10, <2>11 DEF Next
<1>3. CurrentInv => CurrentWhole
  BY DEF CurrentInv, Whole, CurrentWhole, Named
<1> QED
  BY <1>1, <1>2, <1>3, TypeCorrect, JobAlways, PTL DEF Spec

-----------------------------------------------------------------------------
\* The files of the running version stay, unless a prune finds another version between it
\* and the installed one: an install is newer than what runs (Install), so it clears and
\* unpacks other files, and the prune keeps the newest of the older versions.
THEOREM RunningVersionSpared == Spec => RunningSpared
<1> DEFINE between == \E v \in Versions : running < v /\ v < job.version /\ tree[v] # "absent"
<1>1. TypeOK /\ JobInv /\ [Next]_vars
        => (Alive /\ tree[running] = "whole" /\ tree'[running] # "whole" => At("prune") /\ between)
  <2> SUFFICES ASSUME TypeOK, JobInv, [Next]_vars, Alive, tree[running] = "whole", tree'[running] # "whole"
               PROVE  At("prune") /\ between
    OBVIOUS
  <2> USE DEF diskVars, pluginVars, envVars, updaterVars, history
  <2>0. /\ job \in JobType /\ tree \in [Versions -> Trees] /\ job.version \in Versions
        /\ running \in Versions
    BY Numbers DEF TypeOK, JobType, Alive
  <2>1. tree' # tree
    OBVIOUS
  <2>2. At("off") \/ running # job.version
    BY <2>0 DEF JobInv, Newer, Versions
  <2>3. CASE ClearVersion \/ UnpackBegins \/ UnpackEnds
    <3>1. \A v \in Versions : v # job.version => tree'[v] = tree[v]
      BY <2>0, <2>3 DEF ClearVersion, UnpackBegins, UnpackEnds
    <3>2. ~At("off")
      BY <2>3 DEF ClearVersion, UnpackBegins, UnpackEnds, At
    <3> QED
      BY <2>0, <2>2, <3>1, <3>2
  <2>4. CASE Prune
    <3> DEFINE old == {w \in Versions : tree[w] # "absent" /\ w < job.version}
    <3>1. At("prune") /\ running \in Pruned(job.version)
      BY <2>0, <2>4 DEF Prune
    <3>2. running \in old /\ running # Newest(old)
      BY <3>1 DEF Pruned
    <3>3. Newest(old) \in old /\ running <= Newest(old)
      BY <3>2, NewestOf
    <3>4. running < Newest(old)
      BY <3>2, <3>3 DEF Versions
    <3> QED
      BY <3>1, <3>3, <3>4
  <2>5. CASE Download \/ HandOver \/ InstallerEnded \/ Restart \/ Fail \/ Release
    BY <2>1, <2>5 DEF Download, HandOver, InstallerEnded, Restart, Fail, Release
  <2>6. ASSUME NEW i \in Installers, InstallerStep(i) PROVE FALSE
    BY <2>1, <2>6, InstallerEffect
  <2>7. CASE CheckBegins \/ CheckAnswered \/ InstallBegins
    BY <2>1, <2>7 DEF CheckBegins, CheckAnswered, InstallBegins
  <2>8. CASE Crash \/ SystemdRestarts \/ Boot \/ Rollback \/ UNCHANGED vars
    BY <2>1, <2>8 DEF Crash, SystemdRestarts, Boot, Rollback, vars
  <2> QED
    BY <2>3, <2>4, <2>5, <2>6, <2>7, <2>8 DEF Next, InstallStep
<1> QED
  BY <1>1, TypeCorrect, JobAlways, PTL DEF Spec, RunningSpared
=============================================================================
