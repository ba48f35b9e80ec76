------------------------------- MODULE Settings -------------------------------
(***************************************************************************)
(* The settings calls of the control API and what follows from them: the   *)
(* preference store (prefs/prefs.go), the merged configuration the backend *)
(* hot-reloads (backend/config.go, Manager.GenerateConfig), the models     *)
(* written into Factory's settings.json (catalog/factory.go) and the cached *)
(* answer whether they are installed (daemon/state.go).                    *)
(*                                                                         *)
(* Every control request runs on a goroutine of its own, so calls overlap. *)
(* The store locks each Get and each Set, and nothing locks a call: a      *)
(* provider toggle reads the whole provider map, changes it and sets it    *)
(* back; a configuration is rendered from one preference after another and *)
(* goes to the live file through one temporary file all callers share; the *)
(* cached check is computed outside the lock.                              *)
(*                                                                         *)
(* Abstracted: two providers stand for seven (one excluded by the list of  *)
(* exclusions, one by its compatibility block), the bind address is the    *)
(* default or another one, and it stands for the other settings that are   *)
(* set and then rendered (allowRemote, secretKey, verboseLogging,          *)
(* sequentialAccountFailover); a file's content is the set of renderings   *)
(* whose bytes are in it.                                                  *)
(***************************************************************************)
EXTENDS Naturals, FiniteSets

CONSTANTS
    Callers,      \* goroutines that serve control requests and events
    MaxEvents     \* bound: calls, crashes, and writes of others to Factory's settings

ASSUME SettingsAssumption ==
    /\ IsFiniteSet(Callers) /\ Callers # {}
    /\ MaxEvents \in Nat

VARIABLES
    values,       \* Store.values: the preferences in memory
    disk,         \* settings.json of the store
    key,          \* whether an enabled Meta account has a usable API key
    live,         \* the file merged-config.yaml names
    tmp,          \* the file merged-config.yaml.tmp names, or NoFile
    content,      \* file -> the renderings whose bytes it holds
    factory,      \* Factory's settings.json: the user's part, ours, readable
    backups,      \* versions of the user's part that are in a backup
    dirty,        \* Daemon.factoryDirty
    installed,    \* Daemon.factoryInstalled
    calls,        \* caller -> the call it executes
    issued,       \* events so far, the bound of the model
    edits,        \* the version of the user's part somebody else wrote last
    crossed,      \* history: callers whose generation another one overlapped
    behind,       \* history: the live file may have been left behind
    unsure,       \* history: the cached check may have been left behind
    unguarded     \* history: the user's last version was replaced unsaved

store == <<values, disk, key>>
files == <<live, tmp, content, crossed, behind>>
models == <<factory, backups, edits, unguarded>>
cache == <<dirty, installed, unsure>>
vars == <<store, files, models, cache, calls, issued>>

-----------------------------------------------------------------------------
Providers == {"claude", "meta"}

Preferences ==
    [enabled : [Providers -> BOOLEAN], beta : BOOLEAN, lan : BOOLEAN, contributor : BOOLEAN]

\* The address is honored only when the beta flag is on.
BindAddress(p) == p.beta /\ p.lan

\* The options a configuration is rendered from.
Options == [excluded : BOOLEAN, meta : BOOLEAN, lan : BOOLEAN]

RenderConfig(p, usable) ==
    [excluded |-> ~p.enabled["claude"], meta |-> p.enabled["meta"] /\ usable, lan |-> BindAddress(p)]

\* The models DroidProxy exposes: Muse needs a usable key, and the contributor
\* mode picks exactly one of its two variants.
Definitions(p, usable) ==
    {"opus"} \cup (IF usable THEN {IF p.contributor THEN "muse-contributor" ELSE "muse"} ELSE {})

ProviderOf(model) == IF model = "opus" THEN "claude" ELSE "meta"

SettingsModels(p, usable) == {m \in Definitions(p, usable) : p.enabled[ProviderOf(m)]}

\* Exactly the wanted models, and at least one: what is not readable has none.
CheckFactoryModelsInstalled ==
    LET wanted == SettingsModels(values, key)
    IN  /\ factory.readable
        /\ wanted # {}
        /\ factory.ours = wanted

Files == 0 .. Cardinality(Callers) + 1
NoFile == Cardinality(Callers) + 2

Kinds == {"provider", "beta", "bind", "contributor", "apply", "state", "start", "accounts"}

Idle == [pc |-> "idle", kind |-> "state", provider |-> "claude", on |-> FALSE,
         map |-> [p \in Providers |-> TRUE],
         options |-> [excluded |-> FALSE, meta |-> FALSE, lan |-> FALSE],
         file |-> NoFile, overtaken |-> FALSE, found |-> FALSE, own |-> 0, ours |-> {}, saved |-> 0]

Init ==
    /\ values = [enabled |-> [p \in Providers |-> TRUE], beta |-> FALSE, lan |-> FALSE,
                 contributor |-> FALSE]
    /\ disk = values
    /\ key = TRUE
    /\ live = 0
    /\ tmp = NoFile
    /\ content = [f \in Files |-> IF f = 0 THEN {RenderConfig(values, key)} ELSE {}]
    /\ factory = [own |-> 0, ours |-> {}, readable |-> TRUE]
    /\ backups = {}
    /\ dirty = TRUE /\ installed = FALSE
    /\ calls = [t \in Callers |-> Idle]
    /\ issued = 0 /\ edits = 0
    /\ crossed = {} /\ behind = FALSE /\ unsure = FALSE /\ unguarded = FALSE

Goto(t, pc) == calls' = [calls EXCEPT ![t].pc = pc]
Finish(t) == calls' = [calls EXCEPT ![t] = Idle]

-----------------------------------------------------------------------------
(* A request or an event is dispatched (Call, the event handlers). A call    *)
(* begins with the first thing it reads or changes.                          *)

Happens ==
    /\ issued < MaxEvents
    /\ issued' = issued + 1

Issue(t) == calls[t].pc = "idle" /\ Happens

\* prefs.SetProviderEnabled reads the provider map: a Get of its own.
BeginToggle(t) ==
    /\ Issue(t)
    /\ \E provider \in Providers, on \in BOOLEAN :
          calls' = [calls EXCEPT ![t] = [Idle EXCEPT !.pc = "set", !.kind = "provider",
                                           !.provider = provider, !.on = on, !.map = values.enabled]]
    /\ UNCHANGED <<store, files, models, cache>>

BeginSetting(t) ==
    /\ Issue(t)
    /\ \E kind \in {"beta", "bind", "contributor"}, on \in BOOLEAN :
          calls' = [calls EXCEPT ![t] = [Idle EXCEPT !.pc = "set", !.kind = kind, !.on = on]]
    /\ UNCHANGED <<store, files, models, cache>>

\* onMetaAccountsChanged: the store of Meta accounts has just gained or lost
\* its last usable key.
MetaAccountsChanged(t) ==
    /\ Issue(t)
    /\ key' = ~key
    /\ calls' = [calls EXCEPT ![t] = [Idle EXCEPT !.pc = "render", !.kind = "accounts"]]
    /\ UNCHANGED <<values, disk, files, models, cache>>

\* server.start, which generates a configuration for the backend it launches.
BeginStart(t) ==
    /\ Issue(t)
    /\ calls' = [calls EXCEPT ![t] = [Idle EXCEPT !.pc = "render", !.kind = "start"]]
    /\ UNCHANGED <<store, files, models, cache>>

-----------------------------------------------------------------------------
(* The preference store.                                                    *)

\* What the call's Set stores.
Stored_OneOnly(c) ==
    CASE c.kind = "provider" ->
            [values EXCEPT !.enabled = [p \in Providers |-> IF p = c.provider THEN c.on ELSE TRUE]]
      [] c.kind = "beta" -> [values EXCEPT !.beta = c.on]
      [] c.kind = "bind" -> [values EXCEPT !.lan = c.on]
      [] OTHER -> [values EXCEPT !.contributor = c.on]
Stored(c) ==
    CASE c.kind = "provider" -> [values EXCEPT !.enabled = [c.map EXCEPT ![c.provider] = c.on]]
      [] c.kind = "beta" -> [values EXCEPT !.beta = c.on]
      [] c.kind = "bind" -> [values EXCEPT !.lan = c.on]
      [] OTHER -> [values EXCEPT !.contributor = c.on]

Generating(t) == calls[t].pc \in {"rest", "write", "rename"}

\* Nobody will regenerate the file for this change: every generation under way
\* may have read the old value.
LeavesFileBehind ==
    /\ behind' = TRUE
    /\ crossed' = crossed \cup {u \in Callers : Generating(u)}
    /\ UNCHANGED <<live, tmp, content>>

\* The call goes on with its next step; the toggles that have read the map
\* and not yet set it are marked, a history of the model.
Proceed(t, pc) ==
    calls' = [u \in Callers |->
        IF u = t THEN [calls[u] EXCEPT !.pc = pc, !.map = Idle.map, !.overtaken = FALSE]
        ELSE [calls[u] EXCEPT !.overtaken =
                 @ \/ (calls[u].pc = "set" /\ calls[u].kind = "provider" /\ calls[t].kind = "provider")]]

\* Store.Set: memory and file under the store's lock. The beta flag decides
\* the address too, yet only the model list is invalidated.
Set_NotRendered(t) ==
    /\ calls[t].pc = "set"
    /\ values' = Stored(calls[t])
    /\ disk' = values'
    /\ Proceed(t, IF calls[t].kind = "provider" THEN "render" ELSE "invalidate")
    /\ IF calls[t].kind = "beta" THEN LeavesFileBehind ELSE UNCHANGED files
    /\ UNCHANGED <<key, models, cache, issued>>
Set_NotInvalidated(t) ==
    /\ calls[t].pc = "set"
    /\ values' = Stored(calls[t])
    /\ disk' = values'
    /\ IF calls[t].kind = "contributor" THEN Finish(t)
       ELSE Proceed(t, IF calls[t].kind = "beta" THEN "invalidate" ELSE "render")
    /\ IF calls[t].kind = "beta" THEN LeavesFileBehind ELSE UNCHANGED files
    /\ UNCHANGED <<key, models, cache, issued>>
Set(t) ==
    /\ calls[t].pc = "set"
    /\ values' = Stored(calls[t])
    /\ disk' = values'
    /\ Proceed(t, IF calls[t].kind \in {"provider", "bind"} THEN "render" ELSE "invalidate")
    /\ IF calls[t].kind = "beta" THEN LeavesFileBehind ELSE UNCHANGED files
    /\ UNCHANGED <<key, models, cache, issued>>

\* The file cannot be written: memory keeps the new value. A provider toggle
\* logs the error and goes on; the other calls return it at once, and with it
\* skip the configuration or the invalidation.
SetFails(t) ==
    /\ calls[t].pc = "set"
    /\ values' = Stored(calls[t])
    /\ IF calls[t].kind = "provider"
       THEN Proceed(t, "render") /\ UNCHANGED <<files, cache>>
       ELSE /\ Finish(t)
            /\ unsure' = TRUE
            /\ LeavesFileBehind
            /\ UNCHANGED <<dirty, installed>>
    /\ UNCHANGED <<disk, key, models, issued>>

-----------------------------------------------------------------------------
(* Manager.GenerateConfig.                                                  *)

AfterConfig(t) ==
    calls' = [calls EXCEPT ![t] =
        IF @.kind \in {"provider", "accounts"}
        THEN [@ EXCEPT !.pc = "invalidate", !.file = NoFile, !.options = Idle.options]
        ELSE Idle]

\* The exclusions are read first, the rest afterwards.
ReadExclusions(t) ==
    /\ calls[t].pc = "render"
    /\ calls' = [calls EXCEPT ![t].options.excluded = ~values.enabled["claude"], ![t].pc = "rest"]
    /\ LET others == {u \in Callers \ {t} : Generating(u)}
       IN  crossed' = IF others = {} THEN crossed ELSE crossed \cup others \cup {t}
    /\ UNCHANGED <<store, live, tmp, content, behind, models, cache, issued>>

Unused == Files \ ({live, tmp} \cup {calls[u].file : u \in Callers})

\* os.WriteFile opens the temporary file, truncating what it finds there.
ReadRestAndOpen(t) ==
    /\ calls[t].pc = "rest"
    /\ LET file == IF tmp = NoFile THEN CHOOSE f \in Unused : TRUE ELSE tmp
       IN  /\ calls' = [calls EXCEPT ![t].options = [@ EXCEPT !.meta = values.enabled["meta"] /\ key,
                                                              !.lan = BindAddress(values)],
                                     ![t].file = file, ![t].pc = "write"]
           /\ tmp' = file
           /\ content' = [content EXCEPT ![file] = {}]
    /\ UNCHANGED <<store, live, crossed, behind, models, cache, issued>>

\* A second writer of one file overwrites the first, or leaves its tail.
WriteTmp(t) ==
    /\ calls[t].pc = "write"
    /\ LET file == calls[t].file
       IN  \E left \in {{}, content[file]} :
              content' = [content EXCEPT ![file] = left \cup {calls[t].options}]
    /\ Goto(t, "rename")
    /\ UNCHANGED <<store, live, tmp, crossed, behind, models, cache, issued>>

\* The name may have been renamed away by another caller: then this call fails
\* and leaves the live file as it is.
RenameTmp(t) ==
    /\ calls[t].pc = "rename"
    /\ IF tmp = NoFile
       THEN UNCHANGED <<live, tmp, content>>
       ELSE /\ live' = tmp
            /\ tmp' = NoFile
            /\ content' = [content EXCEPT ![live] = {}]
    /\ behind' = (t \in crossed)
    /\ crossed' = crossed \ {t}
    /\ AfterConfig(t)
    /\ UNCHANGED <<store, models, cache, issued>>

\* The template cannot be read or the file not be written.
GenerationFails(t) ==
    /\ calls[t].pc = "write"
    /\ behind' = TRUE
    /\ crossed' = crossed \ {t}
    /\ AfterConfig(t)
    /\ UNCHANGED <<store, live, tmp, content, models, cache, issued>>

-----------------------------------------------------------------------------
(* The models in Factory's settings.json and the cached check.              *)

\* The file is read, every entry of ours is dropped, and the models of the
\* enabled providers are added. An unreadable file counts as empty.
Load(t) ==
    /\ Issue(t)
    /\ calls' = [calls EXCEPT ![t] =
          [Idle EXCEPT !.pc = "backup", !.kind = "apply",
                       !.own = IF factory.readable THEN factory.own ELSE 0,
                       !.ours = SettingsModels(values, key)]]
    /\ UNCHANGED <<store, files, models, cache>>

\* The copy is exclusive and named by the second: it may fail, and the merge
\* goes on without it.
BackUp_Readable(t) ==
    /\ calls[t].pc = "backup"
    /\ \E copied \in BOOLEAN :
          /\ backups' = IF copied /\ factory.readable THEN backups \cup {factory.own} ELSE backups
          /\ calls' = [calls EXCEPT ![t].found = copied, ![t].saved = edits, ![t].pc = "replace"]
    /\ UNCHANGED <<store, files, factory, edits, unguarded, cache, issued>>
BackUp(t) ==
    /\ calls[t].pc = "backup"
    /\ \E copied \in BOOLEAN :
          /\ backups' = IF copied THEN backups \cup {factory.own} ELSE backups
          /\ calls' = [calls EXCEPT ![t].found = copied, ![t].saved = edits, ![t].pc = "replace"]
    /\ UNCHANGED <<store, files, factory, edits, unguarded, cache, issued>>

Replace(t) ==
    /\ calls[t].pc = "replace"
    /\ LET c == calls[t]
       IN  /\ factory' = [own |-> c.own, ours |-> c.ours, readable |-> TRUE]
           /\ unguarded' = (unguarded \/ ~c.found \/ c.saved # edits)
           /\ calls' = [calls EXCEPT ![t] = [Idle EXCEPT !.pc = "invalidate", !.kind = "apply"]]
    /\ UNCHANGED <<store, files, backups, edits, cache, issued>>

ReplaceFails(t) ==
    /\ calls[t].pc = "replace"
    /\ calls' = [calls EXCEPT ![t] = [Idle EXCEPT !.pc = "invalidate", !.kind = "apply"]]
    /\ UNCHANGED <<store, files, models, cache, issued>>

\* Callers that have computed an answer and not yet stored it.
Checking == {u \in Callers : calls[u].pc = "keep"}

Invalidate(t) ==
    /\ calls[t].pc = "invalidate"
    /\ dirty' = TRUE
    /\ unsure' = (Checking # {})
    /\ Finish(t)
    /\ UNCHANGED <<store, files, models, installed, issued>>

\* A snapshot with a dirty cache computes the answer outside the lock.
Check(t) ==
    /\ Issue(t)
    /\ dirty
    /\ calls' = [calls EXCEPT ![t] = [Idle EXCEPT !.pc = "keep", !.found = CheckFactoryModelsInstalled]]
    /\ UNCHANGED <<store, files, models, cache>>

Keep(t) ==
    /\ calls[t].pc = "keep"
    /\ installed' = calls[t].found
    /\ dirty' = FALSE
    /\ Finish(t)
    /\ UNCHANGED <<store, files, models, unsure, issued>>

-----------------------------------------------------------------------------
(* The rest of the world.                                                   *)

\* The user or Factory itself writes settings.json, perhaps in a form the
\* decoder does not take.
Edit ==
    /\ Happens
    /\ edits' = edits + 1
    /\ \E readable \in BOOLEAN :
          factory' = [factory EXCEPT !.own = edits', !.readable = readable]
    /\ unsure' = TRUE
    /\ unguarded' = FALSE
    /\ UNCHANGED <<store, files, backups, dirty, installed, calls>>

\* The daemon dies and a new one starts: memory is what the store's file
\* holds, the cache is dirty, and the automatic start generates a
\* configuration.
Crash ==
    /\ Happens
    /\ values' = disk
    /\ dirty' = TRUE /\ installed' = FALSE /\ unsure' = FALSE
    /\ crossed' = {} /\ behind' = TRUE
    /\ \E t \in Callers :
          calls' = [u \in Callers |->
                      IF u = t THEN [Idle EXCEPT !.pc = "render", !.kind = "start"] ELSE Idle]
    /\ UNCHANGED <<disk, key, live, tmp, content, models>>

Step(t) ==
    \/ BeginToggle(t) \/ BeginSetting(t) \/ MetaAccountsChanged(t) \/ BeginStart(t)
    \/ Set(t) \/ SetFails(t)
    \/ ReadExclusions(t) \/ ReadRestAndOpen(t) \/ WriteTmp(t) \/ RenameTmp(t) \/ GenerationFails(t)
    \/ Load(t) \/ BackUp(t) \/ Replace(t) \/ ReplaceFails(t)
    \/ Invalidate(t) \/ Check(t) \/ Keep(t)

Next == (\E t \in Callers : Step(t)) \/ Edit \/ Crash

Spec == Init /\ [][Next]_vars

-----------------------------------------------------------------------------
(* Properties.                                                              *)

Steps == {"idle", "set", "render", "rest", "write", "rename", "invalidate", "backup", "replace",
          "keep"}
Models == {"opus", "muse", "muse-contributor"}

CallType ==
    [pc : Steps, kind : Kinds, provider : Providers, on : BOOLEAN, map : [Providers -> BOOLEAN],
     options : Options, file : Files \cup {NoFile}, overtaken : BOOLEAN, found : BOOLEAN,
     own : Nat, ours : SUBSET Models, saved : Nat]

TypeOK ==
    /\ values \in Preferences /\ disk \in Preferences /\ key \in BOOLEAN
    /\ live \in Files /\ tmp \in Files \cup {NoFile}
    /\ content \in [Files -> SUBSET Options]
    /\ factory \in [own : Nat, ours : SUBSET Models, readable : BOOLEAN]
    /\ backups \subseteq Nat
    /\ dirty \in BOOLEAN /\ installed \in BOOLEAN
    /\ calls \in [Callers -> CallType]
    /\ issued \in Nat /\ edits \in Nat
    /\ crossed \subseteq Callers
    /\ behind \in BOOLEAN /\ unsure \in BOOLEAN /\ unguarded \in BOOLEAN

Quiet == \A t \in Callers : calls[t].pc = "idle"

\* The backend, which reloads its configuration whenever the file changes,
\* never reads an empty or a half-written one, and once every call has returned
\* the file shows the preferences in force (backend.go:147-193,
\* calls.go:650-690). Exempt are generations that overlap, a failed write, a
\* call that returned early, and the beta flag, which decides the address and
\* generates nothing; the next generation that runs alone repairs all of them.
BackendSeesPreferences ==
    /\ behind \/ crossed # {} \/ \E options \in Options : content[live] = {options}
    /\ Quiet /\ ~behind => content[live] = {RenderConfig(values, key)}

\* A toggle of one provider changes no other provider's switch, however the
\* calls interleave, unless another toggle set the map between this one's read
\* of it and its write (prefs.go:246-250).
OthersKept ==
    [][\A p \in Providers :
          values'.enabled[p] # values.enabled[p] =>
             \/ issued' # issued     \* a crash: memory is the file again
             \/ \E t \in Callers : /\ calls[t].pc = "set" /\ calls[t].kind = "provider"
                                   /\ calls[t].provider = p \/ calls[t].overtaken]_vars

\* The cached answer "models installed" is what a fresh check would answer once
\* every call has returned: each change of what it depends on is followed by an
\* invalidation (state.go:217-235). It is left behind by an invalidation that
\* arrives while a check is computed, by a call that returned early and by
\* somebody else's edit; and by the expiry of a Meta key, which calls nobody and
\* is not in the model.
CacheFresh == Quiet /\ ~dirty /\ ~unsure => installed = CheckFactoryModelsInstalled

\* What the user wrote last into settings.json is in the file or in a backup
\* of it, whatever edits race the merge and however unreadable the file was,
\* unless the backup was not made or the edit came after it (factory.go:157-243).
UserWorkKept == factory.own = edits \/ edits \in backups \/ unguarded
=============================================================================
