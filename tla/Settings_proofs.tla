---------------------------- MODULE Settings_proofs ----------------------------
(* Proofs about the settings calls of Settings, for any number of callers and events. *)
EXTENDS Settings, FiniteSetTheorems, TLAPS

\* What the preferences, the options and the files can be.
LEMMA Values ==
  /\ NoFile \notin Files /\ Idle \in CallType /\ Idle.pc = "idle"
  /\ 0 \in Files
  /\ \A p \in Preferences, usable \in BOOLEAN :
        RenderConfig(p, usable) \in Options /\ SettingsModels(p, usable) \subseteq Models
  /\ CheckFactoryModelsInstalled \in BOOLEAN
<1>1. Cardinality(Callers) \in Nat
  BY SettingsAssumption, FS_CardinalityType
<1>2. NoFile \notin Files /\ 0 \in Files
  BY <1>1 DEF NoFile, Files
<1>3. Idle \in CallType /\ Idle.pc = "idle"
  BY DEF Idle, CallType, Steps, Kinds, Providers, Options, Models
<1>4. ASSUME NEW p \in Preferences, NEW usable \in BOOLEAN
      PROVE  RenderConfig(p, usable) \in Options /\ SettingsModels(p, usable) \subseteq Models
  <2>1. p.enabled \in [Providers -> BOOLEAN] /\ p.beta \in BOOLEAN /\ p.lan \in BOOLEAN
    BY DEF Preferences
  <2>2. RenderConfig(p, usable) \in Options
    BY <2>1 DEF RenderConfig, Options, BindAddress, Providers
  <2>3. SettingsModels(p, usable) \subseteq Models
    BY DEF SettingsModels, Definitions, Models
  <2> QED
    BY <2>2, <2>3
<1>5. CheckFactoryModelsInstalled \in BOOLEAN
  BY DEF CheckFactoryModelsInstalled
<1> QED
  BY <1>2, <1>3, <1>4, <1>5

\* The temporary file can always be created: the callers, the live name and the new
\* file are fewer than the files.
LEMMA FileLeft ==
  ASSUME TypeOK, tmp = NoFile
  PROVE  Unused # {}
<1> DEFINE held == {calls[u].file : u \in Callers}
           n == Cardinality(Callers)
<1>1. n \in Nat /\ IsFiniteSet(Callers)
  BY SettingsAssumption, FS_CardinalityType
<1>2. IsFiniteSet(held) /\ Cardinality(held) <= n
  <2> DEFINE f == [u \in Callers |-> calls[u].file]
  <2>1. f \in Surjection(Callers, held)
    BY DEF Surjection
  <2> HIDE DEF f
  <2> QED
    BY <1>1, <2>1, FS_Surjection DEF n
<1> HIDE DEF held, n
<1>3. IsFiniteSet(held \cup {live}) /\ Cardinality(held \cup {live}) <= n + 1
  <2>1. Cardinality(held) \in Nat
    BY <1>2, FS_CardinalityType
  <2>2. /\ IsFiniteSet(held \cup {live})
        /\ Cardinality(held \cup {live}) =
              IF live \in held THEN Cardinality(held) ELSE Cardinality(held) + 1
    BY <1>2, FS_AddElement
  <2>3. CASE live \in held
    BY <1>1, <1>2, <2>1, <2>2, <2>3
  <2>4. CASE live \notin held
    BY <1>1, <1>2, <2>1, <2>2, <2>4
  <2> QED
    BY <2>3, <2>4
<1>4. IsFiniteSet(Files) /\ Cardinality(Files) = n + 2
  BY <1>1, FS_Interval DEF Files, n
<1> SUFFICES ASSUME Unused = {} PROVE FALSE
  OBVIOUS
<1>5. Files \subseteq held \cup {live}
  BY Values DEF Unused, held
<1>6. Cardinality(Files) <= Cardinality(held \cup {live})
  BY <1>3, <1>5, FS_Subset
<1>7. Cardinality(held \cup {live}) \in Nat
  BY <1>3, FS_CardinalityType
<1> QED
  BY <1>1, <1>3, <1>4, <1>6, <1>7

-----------------------------------------------------------------------------
\* A step changes the record of one call.
LEMMA CallSet ==
  ASSUME TypeOK, NEW t \in Callers, NEW new \in CallType, calls' = [calls EXCEPT ![t] = new]
  PROVE  /\ calls' \in [Callers -> CallType] /\ calls'[t] = new
         /\ \A u \in Callers : u # t => calls'[u] = calls[u]
  BY DEF TypeOK

\* What a call stores is a set of preferences that differs from those in force only
\* where the call says so.
LEMMA StoredIs ==
  ASSUME TypeOK, NEW t \in Callers
  PROVE  /\ Stored(calls[t]) \in Preferences
         /\ calls[t].kind # "provider" => Stored(calls[t]).enabled = values.enabled
         /\ calls[t].kind = "provider" =>
               /\ \A p \in Providers : p # calls[t].provider =>
                     Stored(calls[t]).enabled[p] = calls[t].map[p]
               /\ Stored(calls[t]).contributor = values.contributor
         /\ calls[t].kind \in {"beta", "bind"} => Stored(calls[t]).contributor = values.contributor
<1>1. calls[t] \in CallType /\ values \in Preferences
  BY DEF TypeOK
<1> DEFINE c == calls[t]
<1>2. CASE c.kind = "provider"
  <2>1. Stored(c) = [values EXCEPT !.enabled = [c.map EXCEPT ![c.provider] = c.on]]
    BY <1>2 DEF Stored
  <2>2. [c.map EXCEPT ![c.provider] = c.on] \in [Providers -> BOOLEAN]
    BY <1>1 DEF CallType
  <2> QED
    BY <1>1, <1>2, <2>1, <2>2 DEF Preferences, CallType
<1>3. CASE c.kind = "beta"
  BY <1>1, <1>3 DEF Stored, Preferences, CallType
<1>4. CASE c.kind = "bind"
  BY <1>1, <1>4 DEF Stored, Preferences, CallType
<1>5. CASE c.kind \notin {"provider", "beta", "bind"}
  BY <1>1, <1>5 DEF Stored, Preferences, CallType
<1> QED
  BY <1>2, <1>3, <1>4, <1>5

\* A Set moves its call on and marks the toggles that it overtakes.
LEMMA Proceeded ==
  ASSUME TypeOK, NEW t \in Callers, NEW pc \in Steps, Proceed(t, pc)
  PROVE  /\ calls' \in [Callers -> CallType]
         /\ calls'[t].pc = pc /\ calls'[t].kind = calls[t].kind
         /\ \A u \in Callers :
               /\ calls'[u].found = calls[u].found /\ calls'[u].saved = calls[u].saved
               /\ calls'[u].options = calls[u].options /\ calls'[u].file = calls[u].file
               /\ u # t => /\ calls'[u].pc = calls[u].pc /\ calls'[u].kind = calls[u].kind
                           /\ calls'[u].map = calls[u].map
                           /\ ~calls'[u].overtaken =>
                                 /\ ~calls[u].overtaken
                                 /\ ~(/\ calls[u].pc = "set" /\ calls[u].kind = "provider"
                                      /\ calls[t].kind = "provider")
<1> DEFINE late(u) == calls[u].overtaken \/ (/\ calls[u].pc = "set" /\ calls[u].kind = "provider"
                                             /\ calls[t].kind = "provider")
<1>1. \A u \in Callers : calls[u] \in CallType /\ late(u) \in BOOLEAN
  BY DEF TypeOK
<1>2. calls' = [u \in Callers |->
          IF u = t THEN [calls[u] EXCEPT !.pc = pc, !.map = Idle.map, !.overtaken = FALSE]
          ELSE [calls[u] EXCEPT !.overtaken = late(u)]]
  BY DEF Proceed
<1>3. \A u \in Callers : ~late(u) => /\ ~calls[u].overtaken
                                     /\ ~(/\ calls[u].pc = "set" /\ calls[u].kind = "provider"
                                          /\ calls[t].kind = "provider")
  OBVIOUS
<1> HIDE DEF late
<1>4. Idle.map \in [Providers -> BOOLEAN]
  BY DEF Idle
<1>5. /\ calls'[t] \in CallType
      /\ calls'[t].pc = pc /\ calls'[t].kind = calls[t].kind
      /\ calls'[t].found = calls[t].found /\ calls'[t].saved = calls[t].saved
      /\ calls'[t].options = calls[t].options /\ calls'[t].file = calls[t].file
  BY <1>1, <1>2, <1>4 DEF CallType
<1>6. ASSUME NEW u \in Callers, u # t
      PROVE  /\ calls'[u] \in CallType
             /\ calls'[u].found = calls[u].found /\ calls'[u].saved = calls[u].saved
             /\ calls'[u].options = calls[u].options /\ calls'[u].file = calls[u].file
             /\ calls'[u].pc = calls[u].pc /\ calls'[u].kind = calls[u].kind
             /\ calls'[u].map = calls[u].map /\ calls'[u].overtaken = late(u)
  BY <1>1, <1>2, <1>6 DEF CallType
<1>7. calls' \in [Callers -> CallType]
  BY <1>2, <1>5, <1>6
<1> QED
  BY <1>3, <1>5, <1>6, <1>7

\* What AfterConfig makes of a call.
LEMMA Configured ==
  ASSUME TypeOK, NEW t \in Callers, AfterConfig(t)
  PROVE  /\ calls' \in [Callers -> CallType]
         /\ \A u \in Callers : u # t => calls'[u] = calls[u]
         /\ calls[t].kind \in {"provider", "accounts"} => calls'[t].pc = "invalidate"
         /\ calls[t].kind \notin {"provider", "accounts"} => calls'[t].pc = "idle"
<1> DEFINE new == IF calls[t].kind \in {"provider", "accounts"}
                  THEN [calls[t] EXCEPT !.pc = "invalidate", !.file = NoFile, !.options = Idle.options]
                  ELSE Idle
<1>1. calls[t] \in CallType /\ Idle.options \in Options
  BY DEF TypeOK, Idle, Options
<1>2. calls' = [calls EXCEPT ![t] = new]
  BY DEF AfterConfig
<1>3. /\ new \in CallType
      /\ calls[t].kind \in {"provider", "accounts"} => new.pc = "invalidate"
      /\ calls[t].kind \notin {"provider", "accounts"} => new.pc = "idle"
  BY <1>1, Values DEF CallType, Steps
<1> HIDE DEF new
<1> QED
  BY <1>2, <1>3, CallSet

-----------------------------------------------------------------------------
\* The steps, by what they make of the call.
Only(t) == /\ calls' \in [Callers -> CallType]
           /\ \A u \in Callers : u # t => calls'[u] = calls[u]

\* A toggle of a provider begins.
LEMMA ToggleBegins ==
  ASSUME TypeOK, NEW t \in Callers, BeginToggle(t)
  PROVE  /\ Only(t)
         /\ calls'[t].pc = "set"
         /\ calls'[t].kind = "provider"
         /\ calls'[t].saved = 0
         /\ calls'[t].map = values.enabled
<1>0. Idle \in CallType /\ Idle.saved = 0 /\ Idle.pc = "idle" /\ calls[t] \in CallType
  BY Values DEF Idle, TypeOK
<1>1. PICK provider \in Providers, on \in BOOLEAN :
         calls' = [calls EXCEPT ![t] = [Idle EXCEPT !.pc = "set", !.kind = "provider",
                                          !.provider = provider, !.on = on, !.map = values.enabled]]
  BY BeginToggle(t) DEF BeginToggle
<1>m. values.enabled \in [Providers -> BOOLEAN]
  BY DEF TypeOK, Preferences
<1> DEFINE new == [Idle EXCEPT !.pc = "set", !.kind = "provider", !.provider = provider, !.on = on,
                              !.map = values.enabled]
<1>2. new \in CallType /\ new.pc = "set" /\ new.kind = "provider" /\ new.saved = 0 /\ new.map = values.enabled
  BY <1>0, <1>m DEF CallType, Steps, Kinds
<1> HIDE DEF new
<1>3. calls' = [calls EXCEPT ![t] = new]
  BY <1>1, BeginToggle(t) DEF new, BeginToggle, Goto, Finish
<1> QED
  BY <1>2, <1>3, CallSet DEF Only

\* A change of a setting begins.
LEMMA SettingBegins ==
  ASSUME TypeOK, NEW t \in Callers, BeginSetting(t)
  PROVE  /\ Only(t)
         /\ calls'[t].pc = "set"
         /\ calls'[t].kind # "provider"
         /\ calls'[t].saved = 0
<1>0. Idle \in CallType /\ Idle.saved = 0 /\ Idle.pc = "idle" /\ calls[t] \in CallType
  BY Values DEF Idle, TypeOK
<1>1. PICK kind \in {"beta", "bind", "contributor"}, on \in BOOLEAN :
         calls' = [calls EXCEPT ![t] = [Idle EXCEPT !.pc = "set", !.kind = kind, !.on = on]]
  BY BeginSetting(t) DEF BeginSetting
<1> DEFINE new == [Idle EXCEPT !.pc = "set", !.kind = kind, !.on = on]
<1>2. new \in CallType /\ new.pc = "set" /\ new.kind # "provider" /\ new.saved = 0
  BY <1>0 DEF CallType, Steps, Kinds
<1> HIDE DEF new
<1>3. calls' = [calls EXCEPT ![t] = new]
  BY <1>1, BeginSetting(t) DEF new, BeginSetting, Goto, Finish
<1> QED
  BY <1>2, <1>3, CallSet DEF Only

\* The store of Meta accounts has gained or lost its last usable key.
LEMMA AccountsBegin ==
  ASSUME TypeOK, NEW t \in Callers, MetaAccountsChanged(t)
  PROVE  /\ Only(t)
         /\ calls'[t].pc = "render"
         /\ calls'[t].kind = "accounts"
         /\ calls'[t].saved = 0
<1>0. Idle \in CallType /\ Idle.saved = 0 /\ Idle.pc = "idle" /\ calls[t] \in CallType
  BY Values DEF Idle, TypeOK
<1> DEFINE new == [Idle EXCEPT !.pc = "render", !.kind = "accounts"]
<1>2. new \in CallType /\ new.pc = "render" /\ new.kind = "accounts" /\ new.saved = 0
  BY <1>0 DEF CallType, Steps, Kinds
<1> HIDE DEF new
<1>3. calls' = [calls EXCEPT ![t] = new]
  BY MetaAccountsChanged(t) DEF new, MetaAccountsChanged, Goto, Finish
<1> QED
  BY <1>2, <1>3, CallSet DEF Only

\* A start of the backend begins.
LEMMA StartBegins ==
  ASSUME TypeOK, NEW t \in Callers, BeginStart(t)
  PROVE  /\ Only(t)
         /\ calls'[t].pc = "render"
         /\ calls'[t].saved = 0
<1>0. Idle \in CallType /\ Idle.saved = 0 /\ Idle.pc = "idle" /\ calls[t] \in CallType
  BY Values DEF Idle, TypeOK
<1> DEFINE new == [Idle EXCEPT !.pc = "render", !.kind = "start"]
<1>2. new \in CallType /\ new.pc = "render" /\ new.saved = 0
  BY <1>0 DEF CallType, Steps, Kinds
<1> HIDE DEF new
<1>3. calls' = [calls EXCEPT ![t] = new]
  BY BeginStart(t) DEF new, BeginStart, Goto, Finish
<1> QED
  BY <1>2, <1>3, CallSet DEF Only

\* A change of Factory's models begins with a read of their file.
LEMMA LoadBegins ==
  ASSUME TypeOK, NEW t \in Callers, Load(t)
  PROVE  /\ Only(t)
         /\ calls'[t].pc = "backup"
         /\ calls'[t].saved = 0
<1>0. Idle \in CallType /\ Idle.saved = 0 /\ Idle.pc = "idle" /\ calls[t] \in CallType
  BY Values DEF Idle, TypeOK
<1>m. /\ SettingsModels(values, key) \subseteq Models
      /\ (IF factory.readable THEN factory.own ELSE 0) \in Nat
  BY Values DEF TypeOK
<1> DEFINE new == [Idle EXCEPT !.pc = "backup", !.kind = "apply",
                              !.own = IF factory.readable THEN factory.own ELSE 0,
                              !.ours = SettingsModels(values, key)]
<1>2. new \in CallType /\ new.pc = "backup" /\ new.saved = 0
  BY <1>0, <1>m DEF CallType, Steps, Kinds
<1> HIDE DEF new
<1>3. calls' = [calls EXCEPT ![t] = new]
  BY Load(t) DEF new, Load, Goto, Finish
<1> QED
  BY <1>2, <1>3, CallSet DEF Only

\* A snapshot computes the check anew.
LEMMA CheckBegins ==
  ASSUME TypeOK, NEW t \in Callers, Check(t)
  PROVE  /\ Only(t)
         /\ calls'[t].pc = "keep"
         /\ calls'[t].saved = 0
         /\ calls'[t].found = CheckFactoryModelsInstalled
<1>0. Idle \in CallType /\ Idle.saved = 0 /\ Idle.pc = "idle" /\ calls[t] \in CallType
  BY Values DEF Idle, TypeOK
<1>m. CheckFactoryModelsInstalled \in BOOLEAN
  BY Values
<1> DEFINE new == [Idle EXCEPT !.pc = "keep", !.found = CheckFactoryModelsInstalled]
<1>2. new \in CallType /\ new.pc = "keep" /\ new.saved = 0 /\ new.found = CheckFactoryModelsInstalled
  BY <1>0, <1>m DEF CallType, Steps, Kinds
<1> HIDE DEF new
<1>3. calls' = [calls EXCEPT ![t] = new]
  BY Check(t) DEF new, Check, Goto, Finish
<1> QED
  BY <1>2, <1>3, CallSet DEF Only

\* A generation reads the exclusions.
LEMMA ExclusionsRead ==
  ASSUME TypeOK, NEW t \in Callers, ReadExclusions(t)
  PROVE  /\ Only(t)
         /\ calls'[t].pc = "rest"
         /\ calls'[t].kind = calls[t].kind
         /\ calls'[t].saved = calls[t].saved
         /\ calls'[t].options.excluded = ~values.enabled["claude"]
<1>0. Idle \in CallType /\ Idle.saved = 0 /\ Idle.pc = "idle" /\ calls[t] \in CallType
  BY Values DEF Idle, TypeOK
<1>m. values.enabled["claude"] \in BOOLEAN
  BY DEF TypeOK, Preferences, Providers
<1> DEFINE options == [calls[t].options EXCEPT !.excluded = ~values.enabled["claude"]]
<1>o. options \in Options /\ options.excluded = ~values.enabled["claude"]
  BY <1>0, <1>m DEF CallType, Options
<1> HIDE DEF options
<1> DEFINE new == [calls[t] EXCEPT !.options = options, !.pc = "rest"]
<1>2. new \in CallType /\ new.pc = "rest" /\ new.kind = calls[t].kind /\ new.saved = calls[t].saved
      /\ new.options = options
  BY <1>0, <1>o DEF CallType, Steps, Kinds
<1> HIDE DEF new
<1>3. calls' = [calls EXCEPT ![t] = new]
  BY <1>0, ReadExclusions(t) DEF new, options, CallType, ReadExclusions, Goto, Finish
<1> QED
  BY <1>2, <1>3, <1>o, CallSet DEF Only

\* A generation reads the other options and opens the temporary file.
LEMMA RestRead ==
  ASSUME TypeOK, NEW t \in Callers, ReadRestAndOpen(t)
  PROVE  /\ Only(t)
         /\ calls'[t].pc = "write"
         /\ calls'[t].kind = calls[t].kind
         /\ calls'[t].saved = calls[t].saved
         /\ calls'[t].file \in Files
         /\ tmp' = calls'[t].file
         /\ content' = [content EXCEPT ![calls'[t].file] = {}]
         /\ tmp # live => calls'[t].file # live
         /\ calls'[t].options = [excluded |-> calls[t].options.excluded,
                                 meta |-> values.enabled["meta"] /\ key, lan |-> BindAddress(values)]
<1>0. Idle \in CallType /\ Idle.saved = 0 /\ Idle.pc = "idle" /\ calls[t] \in CallType
  BY Values DEF Idle, TypeOK
<1>m. (values.enabled["meta"] /\ key) \in BOOLEAN /\ BindAddress(values) \in BOOLEAN
  BY DEF TypeOK, Preferences, Providers, BindAddress
<1> DEFINE meta == values.enabled["meta"] /\ key
           lan == BindAddress(values)
           options == [calls[t].options EXCEPT !.meta = meta, !.lan = lan]
           file == IF tmp = NoFile THEN CHOOSE f \in Unused : TRUE ELSE tmp
<1>f. file \in Files /\ (tmp # live => file # live)
  BY FileLeft DEF TypeOK, Unused
<1>p. /\ calls' = [calls EXCEPT ![t] = [calls[t] EXCEPT !.options = options, !.file = file, !.pc = "write"]]
      /\ tmp' = file /\ content' = [content EXCEPT ![file] = {}]
  BY ZenonT(40), <1>0, ReadRestAndOpen(t) DEF ReadRestAndOpen, CallType
<1>q. meta \in BOOLEAN /\ lan \in BOOLEAN
  BY <1>m
<1> HIDE DEF meta, lan, file
<1>o. /\ options \in Options
      /\ options.excluded = calls[t].options.excluded /\ options.meta = meta /\ options.lan = lan
  BY <1>0, <1>q DEF CallType, Options
<1> HIDE DEF options
<1>r. options = [excluded |-> calls[t].options.excluded, meta |-> meta, lan |-> lan]
  BY <1>o DEF Options
<1> DEFINE new == [calls[t] EXCEPT !.options = options, !.file = file, !.pc = "write"]
<1>2. new \in CallType /\ new.pc = "write" /\ new.kind = calls[t].kind /\ new.saved = calls[t].saved /\ new.file \in Files /\ tmp' = new.file /\ content' = [content EXCEPT ![new.file] = {}]
      /\ (tmp # live => new.file # live) /\ new.options = options
  BY <1>0, <1>o, <1>f, <1>p DEF CallType, Steps, Kinds
<1> HIDE DEF new
<1>3. calls' = [calls EXCEPT ![t] = new]
  BY <1>p DEF new
<1>4. options = [excluded |-> calls[t].options.excluded,
                 meta |-> values.enabled["meta"] /\ key, lan |-> BindAddress(values)]
  BY <1>r DEF meta, lan
<1>5. calls'[t] = new /\ Only(t)
  BY <1>2, <1>3, CallSet DEF Only
<1> QED
  BY <1>2, <1>4, <1>5

\* A generation writes the temporary file.
LEMMA TmpWritten ==
  ASSUME TypeOK, NEW t \in Callers, WriteTmp(t)
  PROVE  /\ Only(t)
         /\ calls'[t].pc = "rename"
         /\ calls'[t].kind = calls[t].kind
         /\ calls'[t].saved = calls[t].saved
         /\ calls'[t].options = calls[t].options /\ calls'[t].file = calls[t].file
<1>0. Idle \in CallType /\ Idle.saved = 0 /\ Idle.pc = "idle" /\ calls[t] \in CallType
  BY Values DEF Idle, TypeOK
<1> DEFINE new == [calls[t] EXCEPT !.pc = "rename"]
<1>2. new \in CallType /\ new.pc = "rename" /\ new.kind = calls[t].kind /\ new.saved = calls[t].saved
      /\ new.options = calls[t].options /\ new.file = calls[t].file
  BY <1>0 DEF CallType, Steps, Kinds
<1> HIDE DEF new
<1>3. calls' = [calls EXCEPT ![t] = new]
  BY WriteTmp(t) DEF new, WriteTmp, Goto, Finish
<1> QED
  BY <1>2, <1>3, CallSet DEF Only

\* The write of Factory's file begins with a copy of the old one.
LEMMA BackedUp ==
  ASSUME TypeOK, NEW t \in Callers, BackUp(t)
  PROVE  /\ Only(t)
         /\ calls'[t].pc = "replace"
         /\ calls'[t].saved = edits
         /\ calls'[t].found => backups' = backups \cup {factory.own}
         /\ ~calls'[t].found => backups' = backups
<1>0. Idle \in CallType /\ Idle.saved = 0 /\ Idle.pc = "idle" /\ calls[t] \in CallType
  BY Values DEF Idle, TypeOK
<1>1. PICK copied \in BOOLEAN :
          /\ copied => backups' = backups \cup {factory.own}
          /\ ~copied => backups' = backups
          /\ calls' = [calls EXCEPT ![t] = [calls[t] EXCEPT !.found = copied, !.saved = edits, !.pc = "replace"]]
  BY ZenonT(40), <1>0, BackUp(t) DEF BackUp, CallType
<1>m. edits \in Nat
  BY DEF TypeOK
<1> DEFINE new == [calls[t] EXCEPT !.found = copied, !.saved = edits, !.pc = "replace"]
<1>2. new \in CallType /\ new.pc = "replace" /\ new.saved = edits /\ (new.found => backups' = backups \cup {factory.own}) /\ (~new.found => backups' = backups)
  BY <1>0, <1>1, <1>m DEF CallType, Steps, Kinds
<1> HIDE DEF new
<1>3. calls' = [calls EXCEPT ![t] = new]
  BY <1>1, BackUp(t) DEF new, BackUp, Goto, Finish
<1> QED
  BY <1>2, <1>3, CallSet DEF Only

\* It replaces the file, or fails to.
LEMMA Replaced ==
  ASSUME TypeOK, NEW t \in Callers, Replace(t) \/ ReplaceFails(t)
  PROVE  /\ Only(t)
         /\ calls'[t].pc = "invalidate"
         /\ calls'[t].saved = 0
<1>0. Idle \in CallType /\ Idle.saved = 0 /\ Idle.pc = "idle" /\ calls[t] \in CallType
  BY Values DEF Idle, TypeOK
<1> DEFINE new == [Idle EXCEPT !.pc = "invalidate", !.kind = "apply"]
<1>2. new \in CallType /\ new.pc = "invalidate" /\ new.saved = 0
  BY <1>0 DEF CallType, Steps, Kinds
<1> HIDE DEF new
<1>3. calls' = [calls EXCEPT ![t] = new]
  BY Replace(t) \/ ReplaceFails(t) DEF new, Replace, ReplaceFails, Goto, Finish
<1> QED
  BY <1>2, <1>3, CallSet DEF Only

\* A call ends.
LEMMA Finished ==
  ASSUME TypeOK, NEW t \in Callers, Finish(t)
  PROVE  /\ Only(t)
         /\ calls'[t].pc = "idle"
         /\ calls'[t].saved = 0
<1>0. Idle \in CallType /\ Idle.saved = 0 /\ Idle.pc = "idle" /\ calls[t] \in CallType
  BY Values DEF Idle, TypeOK
<1> DEFINE new == Idle
<1>2. new \in CallType /\ new.pc = "idle" /\ new.saved = 0
  BY <1>0 DEF CallType, Steps, Kinds
<1> HIDE DEF new
<1>3. calls' = [calls EXCEPT ![t] = new]
  BY Finish(t) DEF new, Finish
<1> QED
  BY <1>2, <1>3, CallSet DEF Only

-----------------------------------------------------------------------------
\* The type invariant is inductive.
LEMMA TypeStep == TypeOK /\ [Next]_vars => TypeOK'
<1> SUFFICES ASSUME TypeOK, [Next]_vars PROVE TypeOK'
  OBVIOUS
<1> USE DEF Only, store, files, models, cache, Issue, Happens
<1>0. /\ issued + 1 \in Nat /\ edits + 1 \in Nat
      /\ \A t \in Callers : Stored(calls[t]) \in Preferences /\ calls[t] \in CallType
  BY StoredIs DEF TypeOK
<1>1. ASSUME NEW t \in Callers, BeginToggle(t) PROVE TypeOK'
  BY <1>0, <1>1, ToggleBegins DEF BeginToggle, TypeOK
<1>2. ASSUME NEW t \in Callers, BeginSetting(t) PROVE TypeOK'
  BY <1>0, <1>2, SettingBegins DEF BeginSetting, TypeOK
<1>3. ASSUME NEW t \in Callers, MetaAccountsChanged(t) PROVE TypeOK'
  <2>1. key' \in BOOLEAN
    BY <1>3 DEF MetaAccountsChanged
  <2> QED
    BY <1>0, <1>3, <2>1, AccountsBegin DEF MetaAccountsChanged, TypeOK
<1>4. ASSUME NEW t \in Callers, BeginStart(t) PROVE TypeOK'
  BY <1>0, <1>4, StartBegins DEF BeginStart, TypeOK
<1>5. ASSUME NEW t \in Callers, Load(t) PROVE TypeOK'
  BY <1>0, <1>5, LoadBegins DEF Load, TypeOK
<1>6. ASSUME NEW t \in Callers, Check(t) PROVE TypeOK'
  BY <1>0, <1>6, CheckBegins DEF Check, TypeOK
<1>7. ASSUME NEW t \in Callers, Set(t) PROVE TypeOK'
  <2>1. calls' \in [Callers -> CallType]
    BY <1>7, Proceeded DEF Set, Steps
  <2>2. crossed' \subseteq Callers /\ behind' \in BOOLEAN /\ UNCHANGED <<live, tmp, content>>
    BY <1>7 DEF Set, LeavesFileBehind, TypeOK
  <2> QED
    BY <1>0, <1>7, <2>1, <2>2 DEF Set, TypeOK
<1>8. ASSUME NEW t \in Callers, SetFails(t) PROVE TypeOK'
  <2>1. calls' \in [Callers -> CallType]
    BY <1>8, Proceeded, Finished DEF SetFails, Steps
  <2>2. /\ crossed' \subseteq Callers /\ behind' \in BOOLEAN /\ UNCHANGED <<live, tmp, content>>
        /\ unsure' \in BOOLEAN /\ UNCHANGED <<dirty, installed>>
    BY <1>8 DEF SetFails, LeavesFileBehind, TypeOK
  <2> QED
    BY <1>0, <1>8, <2>1, <2>2 DEF SetFails, TypeOK
<1>9. ASSUME NEW t \in Callers, ReadExclusions(t) PROVE TypeOK'
  <2>1. crossed' \subseteq Callers
    BY <1>9 DEF ReadExclusions, TypeOK
  <2> QED
    BY <1>9, <2>1, ExclusionsRead DEF ReadExclusions, TypeOK
<1>10. ASSUME NEW t \in Callers, ReadRestAndOpen(t) PROVE TypeOK'
  BY ZenonT(40), <1>10, RestRead DEF ReadRestAndOpen, TypeOK
<1>11. ASSUME NEW t \in Callers, WriteTmp(t) PROVE TypeOK'
  <2>1. content' \in [Files -> SUBSET Options]
    <3>1. PICK left \in {{}, content[calls[t].file]} :
             content' = [content EXCEPT ![calls[t].file] = left \cup {calls[t].options}]
      BY <1>11 DEF WriteTmp
    <3>2. CASE calls[t].file \in Files
      BY <1>0, <3>1, <3>2 DEF TypeOK, CallType
    <3>3. CASE calls[t].file \notin Files
      BY <3>1, <3>3 DEF TypeOK
    <3> QED
      BY <3>2, <3>3
  <2> QED
    BY <1>11, <2>1, TmpWritten DEF WriteTmp, TypeOK
<1>12. ASSUME NEW t \in Callers, RenameTmp(t) \/ GenerationFails(t) PROVE TypeOK'
  <2>1. calls' \in [Callers -> CallType]
    BY <1>12, Configured DEF RenameTmp, GenerationFails
  <2>2. behind' \in BOOLEAN /\ crossed' \subseteq Callers
    <3>1. CASE RenameTmp(t)
      <4>1. behind' \in BOOLEAN
        BY <3>1 DEF RenameTmp
      <4> QED
        BY <3>1, <4>1 DEF RenameTmp, TypeOK
    <3>2. CASE GenerationFails(t)
      BY <3>2 DEF GenerationFails, TypeOK
    <3> QED
      BY <1>12, <3>1, <3>2
  <2>3. /\ live' \in Files /\ tmp' \in Files \cup {NoFile} /\ content' \in [Files -> SUBSET Options]
        /\ UNCHANGED <<store, models, cache, issued>>
    BY <1>12 DEF RenameTmp, GenerationFails, TypeOK
  <2> QED
    BY <2>1, <2>2, <2>3 DEF TypeOK
<1>13. ASSUME NEW t \in Callers, BackUp(t) PROVE TypeOK'
  <2>1. backups' \subseteq Nat
    BY <1>13 DEF BackUp, TypeOK
  <2> QED
    BY <1>13, <2>1, BackedUp DEF BackUp, TypeOK
<1>14. ASSUME NEW t \in Callers, Replace(t) \/ ReplaceFails(t) PROVE TypeOK'
  <2>1. factory' \in [own : Nat, ours : SUBSET Models, readable : BOOLEAN]
    <3>1. CASE Replace(t)
      <4>1. calls[t].own \in Nat /\ calls[t].ours \in SUBSET Models
        BY <1>0 DEF CallType
      <4> QED
        BY <3>1, <4>1 DEF Replace
    <3>2. CASE ReplaceFails(t)
      BY <3>2 DEF ReplaceFails, TypeOK
    <3> QED
      BY <1>14, <3>1, <3>2
  <2>2. unguarded' \in BOOLEAN
    <3>1. CASE Replace(t)
      BY <3>1 DEF Replace
    <3>2. CASE ReplaceFails(t)
      BY <3>2 DEF ReplaceFails, TypeOK
    <3> QED
      BY <1>14, <3>1, <3>2
  <2>3. UNCHANGED <<store, files, backups, edits, cache, issued>>
    BY <1>14 DEF Replace, ReplaceFails
  <2> QED
    BY <1>14, <2>1, <2>2, <2>3, Replaced DEF TypeOK
<1>15. ASSUME NEW t \in Callers, Invalidate(t) PROVE TypeOK'
  <2>1. unsure' \in BOOLEAN /\ dirty' \in BOOLEAN
    BY <1>15 DEF Invalidate
  <2> QED
    BY <1>15, <2>1, Finished DEF Invalidate, TypeOK
<1>16. ASSUME NEW t \in Callers, Keep(t) PROVE TypeOK'
  BY <1>0, <1>16, Finished DEF Keep, TypeOK, CallType
<1>17. CASE Edit
  <2>1. factory' \in [own : Nat, ours : SUBSET Models, readable : BOOLEAN]
    BY <1>0, <1>17 DEF Edit, TypeOK
  <2> QED
    BY <1>0, <1>17, <2>1 DEF Edit, TypeOK
<1>18. CASE Crash
  <2>1. calls' \in [Callers -> CallType]
    <3>1. [Idle EXCEPT !.pc = "render", !.kind = "start"] \in CallType
      BY Values DEF CallType, Steps, Kinds
    <3> QED
      BY <1>18, <3>1, Values DEF Crash
  <2> QED
    BY <1>0, <1>18, <2>1 DEF Crash, TypeOK
<1>19. CASE UNCHANGED vars
  BY <1>19 DEF vars, TypeOK
<1> QED
  BY <1>1, <1>2, <1>3, <1>4, <1>5, <1>6, <1>7, <1>8, <1>9, <1>10, <1>11, <1>12, <1>13, <1>14, <1>15,
     <1>16, <1>17, <1>18, <1>19 DEF Next, Step

\* Every variable keeps its type; the callers never run out of files.
THEOREM TypeCorrect == Spec => []TypeOK
<1>1. Init => TypeOK
  <2> SUFFICES ASSUME Init PROVE TypeOK
    OBVIOUS
  <2>1. values \in Preferences /\ disk \in Preferences /\ key \in BOOLEAN
    BY DEF Init, Preferences
  <2>2. content \in [Files -> SUBSET Options]
    BY <2>1, Values DEF Init
  <2>3. calls \in [Callers -> CallType]
    BY Values DEF Init
  <2> QED
    BY <2>1, <2>2, <2>3, Values DEF Init, TypeOK
<1> QED
  BY <1>1, TypeStep, PTL DEF Spec

-----------------------------------------------------------------------------
\* A toggle that nobody has overtaken holds the switches in force.
TogglesInv == \A t \in Callers :
    calls[t].pc = "set" /\ calls[t].kind = "provider" /\ ~calls[t].overtaken =>
        calls[t].map = values.enabled

\* The merge that has copied the version written last has it in a backup.
BackupsInv ==
    /\ UserWorkKept
    /\ \A t \in Callers : /\ calls[t].saved <= edits
                          /\ calls[t].pc = "replace" /\ calls[t].found /\ calls[t].saved = edits =>
                                edits \in backups \/ unguarded

\* A call that has changed what the cached answer depends on will invalidate it.
Pending(t) == \/ calls[t].pc = "invalidate"
              \/ calls[t].kind \in {"provider", "accounts"}
                    /\ calls[t].pc \in {"render", "rest", "write", "rename"}

Answers == /\ ~dirty => installed = CheckFactoryModelsInstalled
           /\ \A t \in Callers : calls[t].pc = "keep" => calls[t].found = CheckFactoryModelsInstalled

CacheInv == unsure \/ (\E t \in Callers : Pending(t)) \/ Answers

\* The answer depends on the switches, the contributor mode, the key and the file.
LEMMA SameAnswer ==
  ASSUME values'.enabled = values.enabled, values'.contributor = values.contributor,
         UNCHANGED <<key, factory>>
  PROVE  CheckFactoryModelsInstalled' = CheckFactoryModelsInstalled
<1>1. SettingsModels(values, key)' = SettingsModels(values, key)
  BY DEF SettingsModels, Definitions
<1> QED
  BY <1>1 DEF CheckFactoryModelsInstalled

\* What nearly every step leaves alone, and what it makes of its call.
Ordinary(t) ==
    /\ Only(t) /\ UNCHANGED <<values, models, cache>>
    /\ calls'[t].pc \in {"set", "rest", "write", "rename", "render", "invalidate", "idle", "backup"}
    /\ calls'[t].saved \in {0, calls[t].saved}

\* The steps of a call that are about something else.
LEMMA OrdinarySteps ==
  ASSUME TypeOK, NEW t \in Callers
  PROVE  /\ BeginToggle(t) => Ordinary(t) /\ key' = key /\ ~Pending(t) /\ calls'[t].map = values.enabled
         /\ BeginSetting(t) => Ordinary(t) /\ key' = key /\ ~Pending(t) /\ calls'[t].kind # "provider"
         /\ MetaAccountsChanged(t) => Ordinary(t) /\ Pending(t)' /\ calls'[t].pc = "render"
         /\ BeginStart(t) \/ Load(t) => Ordinary(t) /\ key' = key /\ ~Pending(t) /\ calls'[t].pc # "set"
         /\ ReadExclusions(t) \/ ReadRestAndOpen(t) \/ WriteTmp(t) \/ RenameTmp(t) \/ GenerationFails(t) =>
               Ordinary(t) /\ key' = key /\ (Pending(t) => Pending(t)') /\ calls'[t].pc # "set"
<1> USE DEF Ordinary, store, cache, models
<1>1. ASSUME BeginToggle(t)
      PROVE  Ordinary(t) /\ key' = key /\ ~Pending(t) /\ calls'[t].map = values.enabled
  BY <1>1, ToggleBegins DEF BeginToggle, Issue, Pending
<1>2. ASSUME BeginSetting(t)
      PROVE  Ordinary(t) /\ key' = key /\ ~Pending(t) /\ calls'[t].kind # "provider"
  BY <1>2, SettingBegins DEF BeginSetting, Issue, Pending
<1>3. ASSUME MetaAccountsChanged(t) PROVE Ordinary(t) /\ Pending(t)' /\ calls'[t].pc = "render"
  BY <1>3, AccountsBegin DEF MetaAccountsChanged, Pending
<1>4. ASSUME BeginStart(t) PROVE Ordinary(t) /\ key' = key /\ ~Pending(t) /\ calls'[t].pc # "set"
  BY <1>4, StartBegins DEF BeginStart, Issue, Pending
<1>5. ASSUME Load(t) PROVE Ordinary(t) /\ key' = key /\ ~Pending(t) /\ calls'[t].pc # "set"
  BY <1>5, LoadBegins DEF Load, Issue, Pending
<1>6. ASSUME ReadExclusions(t)
      PROVE  Ordinary(t) /\ key' = key /\ (Pending(t) => Pending(t)') /\ calls'[t].pc # "set"
  BY <1>6, ExclusionsRead DEF ReadExclusions, Pending
<1>7. ASSUME ReadRestAndOpen(t)
      PROVE  Ordinary(t) /\ key' = key /\ (Pending(t) => Pending(t)') /\ calls'[t].pc # "set"
  BY <1>7, RestRead DEF ReadRestAndOpen, Pending
<1>8. ASSUME WriteTmp(t)
      PROVE  Ordinary(t) /\ key' = key /\ (Pending(t) => Pending(t)') /\ calls'[t].pc # "set"
  BY <1>8, TmpWritten DEF WriteTmp, Pending
<1>9. ASSUME RenameTmp(t) \/ GenerationFails(t)
      PROVE  Ordinary(t) /\ key' = key /\ (Pending(t) => Pending(t)') /\ calls'[t].pc # "set"
  <2>1. /\ AfterConfig(t) /\ UNCHANGED <<store, models, cache>>
        /\ calls[t].pc \in {"rename", "write"}
    BY <1>9 DEF RenameTmp, GenerationFails
  <2>2. calls'[t].saved \in {0, calls[t].saved}
    BY <2>1, Values DEF AfterConfig, TypeOK, CallType, Idle
  <2> QED
    BY <2>1, <2>2, Configured DEF Pending, Only
<1> QED
  BY <1>1, <1>2, <1>3, <1>4, <1>5, <1>6, <1>7, <1>8, <1>9

\* TogglesInv is inductive, and what a toggle may change of the map.
LEMMA TogglesStep ==
  ASSUME TypeOK, TogglesInv, [Next]_vars
  PROVE  /\ TogglesInv'
         /\ \A p \in Providers : values'.enabled[p] # values.enabled[p] =>
               \/ issued' # issued
               \/ \E t \in Callers : /\ calls[t].pc = "set" /\ calls[t].kind = "provider"
                                     /\ calls[t].provider = p \/ calls[t].overtaken
<1> DEFINE Kept == \A p \in Providers : values'.enabled[p] # values.enabled[p] =>
               \/ issued' # issued
               \/ \E t \in Callers : /\ calls[t].pc = "set" /\ calls[t].kind = "provider"
                                     /\ calls[t].provider = p \/ calls[t].overtaken
<1> SUFFICES TogglesInv' /\ Kept
  OBVIOUS
<1>0. values \in Preferences /\ values' \in Preferences
  BY TypeStep DEF TypeOK
<1>1. ASSUME UNCHANGED values PROVE Kept
  BY <1>1
<1>2. ASSUME NEW t \in Callers, Only(t), UNCHANGED values,
             calls'[t].pc = "set" /\ calls'[t].kind = "provider" => calls'[t].map = values.enabled
      PROVE  TogglesInv' /\ Kept
  BY <1>1, <1>2 DEF TogglesInv, Only
<1>3. ASSUME NEW t \in Callers,
             \/ BeginToggle(t) \/ BeginSetting(t) \/ MetaAccountsChanged(t) \/ BeginStart(t) \/ Load(t)
             \/ ReadExclusions(t) \/ ReadRestAndOpen(t) \/ WriteTmp(t) \/ RenameTmp(t) \/ GenerationFails(t)
      PROVE  TogglesInv' /\ Kept
  <2>1. /\ Only(t) /\ UNCHANGED values
        /\ calls'[t].pc = "set" /\ calls'[t].kind = "provider" => calls'[t].map = values.enabled
    BY <1>3, OrdinarySteps DEF Ordinary
  <2> QED
    BY <2>1, <1>2
<1>4. ASSUME NEW t \in Callers, Set(t) \/ SetFails(t) PROVE TogglesInv' /\ Kept
  <2>1. values' = Stored(calls[t]) /\ calls[t].pc = "set"
    BY <1>4 DEF Set, SetFails
  <2>2. CASE calls[t].kind = "provider"
    <3>1. PICK pc \in Steps \ {"set"} : Proceed(t, pc)
      BY <1>4, <2>2 DEF Set, SetFails, Steps
    <3>2. TogglesInv'
      BY <2>2, <3>1, Proceeded DEF TogglesInv, Steps
    <3>3. ASSUME NEW p \in Providers, p # calls[t].provider, ~calls[t].overtaken
          PROVE  values'.enabled[p] = values.enabled[p]
      <4>1. values'.enabled[p] = calls[t].map[p]
        BY <2>1, <2>2, <3>3, StoredIs
      <4>2. calls[t].map = values.enabled
        BY <2>1, <2>2, <3>3 DEF TogglesInv
      <4> QED
        BY <4>1, <4>2
    <3> QED
      BY <2>1, <2>2, <3>2, <3>3
  <2>3. CASE calls[t].kind # "provider"
    <3>1. values'.enabled = values.enabled
      BY <2>1, <2>3, StoredIs
    <3>2. CASE \E pc \in Steps \ {"set"} : Proceed(t, pc)
      <4>1. PICK pc \in Steps \ {"set"} : Proceed(t, pc)
        BY <3>2
      <4> QED
        BY <3>1, <4>1, Proceeded DEF TogglesInv, Steps
    <3>3. CASE Finish(t)
      BY <3>1, <3>3, Finished DEF TogglesInv, Only
    <3> QED
      BY <1>4, <2>3, <3>2, <3>3 DEF Set, SetFails, Steps
  <2> QED
    BY <2>2, <2>3
<1>5. ASSUME NEW t \in Callers,
             Check(t) \/ BackUp(t) \/ Replace(t) \/ ReplaceFails(t) \/ Invalidate(t) \/ Keep(t)
      PROVE  TogglesInv' /\ Kept
  <2>1. UNCHANGED values
    BY <1>5 DEF Check, BackUp, Replace, ReplaceFails, Invalidate, Keep, store
  <2>2. Only(t) /\ calls'[t].pc # "set"
    BY <1>5, CheckBegins, BackedUp, Replaced, Finished DEF Invalidate, Keep
  <2> QED
    BY <2>1, <2>2, <1>2
<1>6. CASE Edit \/ UNCHANGED vars
  BY <1>1, <1>6 DEF Edit, vars, store, TogglesInv
<1>7. CASE Crash
  <2>1. issued' # issued
    BY <1>7 DEF Crash, Happens, TypeOK
  <2>2. \A u \in Callers : calls'[u].pc # "set"
    BY <1>7, Values DEF Crash, CallType
  <2> QED
    BY <2>1, <2>2 DEF TogglesInv
<1> QED
  BY <1>3, <1>4, <1>5, <1>6, <1>7 DEF Next, Step

\* TogglesInv holds in every run.
LEMMA TogglesHold == Spec => []TogglesInv
<1>1. Init => TogglesInv
  BY Values DEF Init, TogglesInv
<1>2. TypeOK /\ TogglesInv /\ [Next]_vars => TogglesInv'
  BY TogglesStep
<1> QED
  BY <1>1, <1>2, TypeCorrect, PTL DEF Spec

\* A toggle of one provider changes no other provider's switch, however many calls
\* interleave, unless another toggle got between its read and its write
\* (prefs.go:246-250).
THEOREM OthersAreKept == Spec => OthersKept
<1>1. TypeOK /\ TogglesInv /\ [Next]_vars =>
        [\A p \in Providers :
          values'.enabled[p] # values.enabled[p] =>
             \/ issued' # issued
             \/ \E t \in Callers : /\ calls[t].pc = "set" /\ calls[t].kind = "provider"
                                   /\ calls[t].provider = p \/ calls[t].overtaken]_vars
  BY TogglesStep
<1> QED
  BY <1>1, TypeCorrect, TogglesHold, PTL DEF Spec, OthersKept

-----------------------------------------------------------------------------
\* CacheInv is inductive.
LEMMA CacheStep == TypeOK /\ CacheInv /\ [Next]_vars => CacheInv'
<1> SUFFICES ASSUME TypeOK, CacheInv, [Next]_vars PROVE CacheInv'
  OBVIOUS
<1>1. ASSUME NEW t \in Callers, Pending(t)' PROVE CacheInv'
  BY <1>1 DEF CacheInv
<1>2. ASSUME NEW t \in Callers, Ordinary(t), key' = key, Pending(t) => Pending(t)'
      PROVE  CacheInv'
  <2>1. \A u \in Callers : Pending(u) => Pending(u)'
    BY <1>2 DEF Ordinary, Only, Pending
  <2>2. CheckFactoryModelsInstalled' = CheckFactoryModelsInstalled
    BY <1>2, SameAnswer DEF Ordinary, models
  <2>3. UNCHANGED <<dirty, installed, unsure>>
    BY <1>2 DEF Ordinary, cache
  <2>4. Answers => Answers'
    BY <1>2, <2>2, <2>3 DEF Answers, Ordinary, Only
  <2> QED
    BY <2>1, <2>3, <2>4 DEF CacheInv
<1>3. ASSUME NEW t \in Callers,
             \/ BeginToggle(t) \/ BeginSetting(t) \/ MetaAccountsChanged(t) \/ BeginStart(t) \/ Load(t)
             \/ ReadExclusions(t) \/ ReadRestAndOpen(t) \/ WriteTmp(t) \/ RenameTmp(t) \/ GenerationFails(t)
      PROVE  CacheInv'
  BY <1>1, <1>2, <1>3, OrdinarySteps
<1>4. ASSUME NEW t \in Callers, Check(t) PROVE CacheInv'
  <2>1. /\ Only(t) /\ calls'[t].found = CheckFactoryModelsInstalled
        /\ UNCHANGED <<values, key, factory, dirty, installed, unsure>> /\ calls[t].pc = "idle" /\ dirty
    BY <1>4, CheckBegins DEF Check, Issue, store, models, cache
  <2>2. CheckFactoryModelsInstalled' = CheckFactoryModelsInstalled
    BY <2>1, SameAnswer
  <2>3. \A u \in Callers : Pending(u) => Pending(u)'
    BY <2>1 DEF Only, Pending
  <2>4. Answers => Answers'
    BY <2>1, <2>2 DEF Answers, Only
  <2> QED
    BY <2>1, <2>3, <2>4 DEF CacheInv
<1>5. ASSUME NEW t \in Callers, NEW pc \in Steps, Proceed(t, pc),
             (calls[t].kind = "provider" /\ pc = "render") \/ pc = "invalidate"
      PROVE  CacheInv'
  <2>1. Pending(t)'
    BY <1>5, Proceeded DEF Pending
  <2> QED
    BY <2>1, <1>1
<1>6. ASSUME NEW t \in Callers, Set(t) PROVE CacheInv'
  <2>1. CASE calls[t].kind # "bind"
    BY <1>5, <1>6, <2>1 DEF Set, Steps
  <2>2. CASE calls[t].kind = "bind"
    <3>1. /\ Proceed(t, "render") /\ values' = Stored(calls[t]) /\ calls[t].pc = "set"
          /\ UNCHANGED <<key, factory, dirty, installed, unsure>>
      BY <1>6, <2>2 DEF Set, models, cache
    <3>2. CheckFactoryModelsInstalled' = CheckFactoryModelsInstalled
      BY <2>2, <3>1, StoredIs, SameAnswer
    <3>3. /\ calls'[t].pc = "render"
          /\ \A u \in Callers : /\ calls'[u].found = calls[u].found
                                /\ u # t => calls'[u].pc = calls[u].pc /\ calls'[u].kind = calls[u].kind
      BY <3>1, Proceeded DEF Steps
    <3>4. \A u \in Callers : Pending(u) => Pending(u)'
      BY <3>1, <3>3 DEF Pending
    <3>5. Answers => Answers'
      BY <3>1, <3>2, <3>3 DEF Answers
    <3> QED
      BY <3>1, <3>4, <3>5 DEF CacheInv
  <2> QED
    BY <2>1, <2>2
<1>7. ASSUME NEW t \in Callers, SetFails(t) PROVE CacheInv'
  <2>1. CASE calls[t].kind = "provider"
    BY <1>5, <1>7, <2>1 DEF SetFails, Steps
  <2>2. CASE calls[t].kind # "provider"
    BY <1>7, <2>2 DEF SetFails, CacheInv
  <2> QED
    BY <2>1, <2>2
<1>8. ASSUME NEW t \in Callers, BackUp(t) PROVE CacheInv'
  <2>1. /\ Only(t) /\ calls'[t].pc = "replace" /\ calls[t].pc = "backup"
        /\ UNCHANGED <<values, key, factory, dirty, installed, unsure>>
    BY <1>8, BackedUp DEF BackUp, store, cache
  <2>2. CheckFactoryModelsInstalled' = CheckFactoryModelsInstalled
    BY <2>1, SameAnswer
  <2>3. \A u \in Callers : Pending(u) => Pending(u)'
    BY <2>1 DEF Only, Pending
  <2>4. Answers => Answers'
    BY <2>1, <2>2 DEF Answers, Only
  <2> QED
    BY <2>1, <2>3, <2>4 DEF CacheInv
<1>9. ASSUME NEW t \in Callers, Replace(t) \/ ReplaceFails(t) PROVE CacheInv'
  <2>1. Pending(t)'
    BY <1>9, Replaced DEF Pending
  <2> QED
    BY <2>1, <1>1
<1>10. ASSUME NEW t \in Callers, Invalidate(t) PROVE CacheInv'
  <2>1. Only(t) /\ calls'[t].pc = "idle" /\ dirty' = TRUE
    BY <1>10, Finished DEF Invalidate
  <2>2. CASE Checking # {}
    BY <1>10, <2>2 DEF Invalidate, CacheInv
  <2>3. CASE Checking = {}
    <3>1. \A u \in Callers : calls'[u].pc # "keep"
      BY <2>1, <2>3 DEF Checking, Only
    <3> QED
      BY <2>1, <3>1 DEF CacheInv, Answers
  <2> QED
    BY <2>2, <2>3
<1>11. ASSUME NEW t \in Callers, Keep(t) PROVE CacheInv'
  <2>1. /\ Only(t) /\ calls'[t].pc = "idle" /\ calls[t].pc = "keep"
        /\ UNCHANGED <<values, key, factory, unsure>> /\ installed' = calls[t].found
    BY <1>11, Finished DEF Keep, store, models
  <2>2. CheckFactoryModelsInstalled' = CheckFactoryModelsInstalled
    BY <2>1, SameAnswer
  <2>3. \A u \in Callers : Pending(u) => Pending(u)'
    BY <2>1 DEF Only, Pending
  <2>4. Answers => Answers'
    BY <2>1, <2>2 DEF Answers, Only
  <2> QED
    BY <2>1, <2>3, <2>4 DEF CacheInv
<1>12. CASE Edit
  BY <1>12 DEF Edit, CacheInv
<1>13. CASE Crash
  <2>1. dirty' = TRUE /\ \A u \in Callers : calls'[u].pc # "keep"
    BY <1>13, Values DEF Crash, CallType
  <2> QED
    BY <2>1 DEF CacheInv, Answers
<1>14. CASE UNCHANGED vars
  BY <1>14, SameAnswer DEF vars, store, models, cache, CacheInv, Answers, Pending
<1> QED
  BY <1>3, <1>4, <1>6, <1>7, <1>8, <1>9, <1>10, <1>11, <1>12, <1>13, <1>14 DEF Next, Step

\* The cached answer is what a fresh check would answer once every call has returned
\* (state.go:217-235).
THEOREM CacheIsFresh == Spec => []CacheFresh
<1>1. Init => CacheInv
  BY Values DEF Init, CacheInv, Answers
<1>2. TypeOK /\ CacheInv => CacheFresh
  BY DEF CacheInv, CacheFresh, Answers, Quiet, Pending
<1> QED
  BY <1>1, <1>2, CacheStep, TypeCorrect, PTL DEF Spec

-----------------------------------------------------------------------------
\* BackupsInv is inductive.
LEMMA BackupsStep == TypeOK /\ BackupsInv /\ [Next]_vars => BackupsInv'
<1> SUFFICES ASSUME TypeOK, BackupsInv, [Next]_vars PROVE BackupsInv'
  OBVIOUS
<1>0. edits \in Nat /\ 0 <= edits
  BY DEF TypeOK
<1>1. ASSUME NEW t \in Callers, Only(t), UNCHANGED models,
             calls'[t].pc # "replace", calls'[t].saved \in {0, calls[t].saved}
      PROVE  BackupsInv'
  <2>1. UNCHANGED <<factory, backups, edits, unguarded>>
    BY <1>1 DEF models
  <2>2. UserWorkKept'
    BY <2>1 DEF BackupsInv, UserWorkKept
  <2>3. ASSUME NEW u \in Callers
        PROVE  /\ calls'[u].saved <= edits
               /\ calls'[u].pc = "replace" /\ calls'[u].found /\ calls'[u].saved = edits =>
                     edits \in backups \/ unguarded
    BY <1>0, <1>1 DEF BackupsInv, Only
  <2> QED
    BY <2>1, <2>2, <2>3 DEF BackupsInv
<1>2. ASSUME NEW t \in Callers,
             \/ BeginToggle(t) \/ BeginSetting(t) \/ MetaAccountsChanged(t) \/ BeginStart(t) \/ Load(t)
             \/ ReadExclusions(t) \/ ReadRestAndOpen(t) \/ WriteTmp(t) \/ RenameTmp(t) \/ GenerationFails(t)
      PROVE  BackupsInv'
  <2>1. Ordinary(t)
    BY <1>2, OrdinarySteps
  <2> QED
    BY <1>1, <2>1 DEF Ordinary
<1>3. ASSUME NEW t \in Callers, Check(t) \/ Invalidate(t) \/ Keep(t) PROVE BackupsInv'
  <2>1. /\ Only(t) /\ UNCHANGED models
        /\ calls'[t].pc # "replace" /\ calls'[t].saved = 0
    BY <1>3, CheckBegins, Finished DEF Check, Invalidate, Keep
  <2> QED
    BY <1>1, <2>1
<1>4. ASSUME NEW t \in Callers, Set(t) \/ SetFails(t) PROVE BackupsInv'
  <2>1. UNCHANGED models
    BY <1>4 DEF Set, SetFails
  <2>2. CASE Finish(t)
    <3>1. Only(t) /\ calls'[t].pc # "replace" /\ calls'[t].saved = 0
      BY <2>2, Finished
    <3> QED
      BY <1>1, <2>1, <3>1
  <2>3. CASE \E pc \in {"render", "invalidate"} : Proceed(t, pc)
    <3>1. PICK pc \in {"render", "invalidate"} : Proceed(t, pc)
      BY <2>3
    <3>2. /\ calls'[t].pc # "replace"
          /\ \A u \in Callers : /\ calls'[u].found = calls[u].found /\ calls'[u].saved = calls[u].saved
                                /\ u # t => calls'[u].pc = calls[u].pc
      BY <3>1, Proceeded DEF Steps
    <3>3. UNCHANGED <<factory, backups, edits, unguarded>>
      BY <2>1 DEF models
    <3> QED
      BY <3>2, <3>3 DEF BackupsInv, UserWorkKept
  <2> QED
    BY <1>4, <2>2, <2>3 DEF Set, SetFails
<1>5. ASSUME NEW t \in Callers, BackUp(t) PROVE BackupsInv'
  <2>1. UNCHANGED <<factory, edits, unguarded>>
    BY <1>5 DEF BackUp
  <2>2. /\ Only(t) /\ calls'[t].saved = edits /\ calls'[t].pc = "replace"
        /\ calls'[t].found => backups' = backups \cup {factory.own}
        /\ ~calls'[t].found => backups' = backups
    BY <1>5, BackedUp
  <2>3. backups \subseteq backups' /\ (calls'[t].found => factory.own \in backups')
    BY <2>2
  <2>4. UserWorkKept'
    BY <2>1, <2>3 DEF BackupsInv, UserWorkKept
  <2>5. calls'[t].found => edits \in backups' \/ unguarded
    BY <2>1, <2>3 DEF BackupsInv, UserWorkKept
  <2> QED
    BY <1>0, <2>1, <2>2, <2>3, <2>4, <2>5 DEF BackupsInv, Only
<1>6. ASSUME NEW t \in Callers, ReplaceFails(t) PROVE BackupsInv'
  <2>1. Only(t) /\ calls'[t].pc # "replace" /\ calls'[t].saved = 0 /\ UNCHANGED models
    BY <1>6, Replaced DEF ReplaceFails
  <2> QED
    BY <1>1, <2>1
<1>7. ASSUME NEW t \in Callers, Replace(t) PROVE BackupsInv'
  <2>1. /\ Only(t) /\ calls'[t].pc # "replace" /\ calls'[t].saved = 0
        /\ UNCHANGED <<backups, edits>> /\ calls[t].pc = "replace"
    BY <1>7, Replaced DEF Replace
  <2>2. /\ unguarded => unguarded'
        /\ ~calls[t].found \/ calls[t].saved # edits => unguarded'
    BY <1>7 DEF Replace
  <2>3. edits \in backups \/ unguarded'
    BY <2>1, <2>2 DEF BackupsInv
  <2> QED
    BY <1>0, <2>1, <2>2, <2>3 DEF BackupsInv, UserWorkKept, Only
<1>8. CASE Edit
  <2>1. edits' = edits + 1 /\ factory'.own = edits' /\ UNCHANGED calls
    BY <1>8 DEF Edit, TypeOK
  <2>2. ASSUME NEW t \in Callers PROVE calls[t].saved <= edits' /\ calls[t].saved # edits'
    <3>1. calls[t].saved \in Nat /\ calls[t].saved <= edits
      BY DEF TypeOK, CallType, BackupsInv
    <3> QED
      BY <1>0, <2>1, <3>1
  <2> QED
    BY <2>1, <2>2 DEF BackupsInv, UserWorkKept
<1>9. CASE Crash
  <2>1. /\ UNCHANGED <<factory, backups, edits, unguarded>>
        /\ \A u \in Callers : calls'[u].pc # "replace" /\ calls'[u].saved = 0
    <3>1. Idle \in CallType /\ Idle.saved = 0 /\ Idle.pc = "idle"
      BY Values DEF Idle
    <3> QED
      BY <1>9, <3>1 DEF Crash, CallType, models
  <2> QED
    BY <1>0, <2>1 DEF BackupsInv, UserWorkKept
<1>10. CASE UNCHANGED vars
  BY <1>10 DEF vars, models, BackupsInv, UserWorkKept
<1> QED
  BY <1>2, <1>3, <1>4, <1>5, <1>6, <1>7, <1>8, <1>9, <1>10 DEF Next, Step

\* What the user wrote last is in settings.json or in a backup of it, unless the backup
\* was not made or the edit came after it (factory.go:157-243).
THEOREM UserWorkIsKept == Spec => []UserWorkKept
<1>1. Init => BackupsInv
  BY DEF Init, BackupsInv, UserWorkKept, Idle
<1>2. BackupsInv => UserWorkKept
  BY DEF BackupsInv
<1> QED
  BY <1>1, <1>2, BackupsStep, TypeCorrect, PTL DEF Spec

-----------------------------------------------------------------------------
\* What a configuration rendered now would show, whether a call is about to render one,
\* and whether the options a call has read so far are those in force.
Wanted == RenderConfig(values, key)
WillRender == \E u \in Callers : calls[u].pc = "render"
Current(c) == c.options.excluded = Wanted.excluded /\ (c.pc # "rest" => c.options = Wanted)

\* The temporary file is the one the call has opened, and nobody else has written it.
Prepared(t) ==
    calls[t].pc # "rest" =>
        /\ calls[t].file = tmp /\ tmp \in Files
        /\ content[tmp] = IF calls[t].pc = "write" THEN {} ELSE {calls[t].options}

\* A generation that no other has overlapped is the only one, owns the temporary file
\* and renders the preferences in force, unless a call that has changed them is going
\* to render them after it. The live file is whole and shows those preferences, with
\* the exceptions BackendSeesPreferences makes, and while somebody still generates.
Single(t) ==
    /\ \A u \in Callers : Generating(u) => u = t
    /\ Prepared(t)
    /\ WillRender \/ Current(calls[t])

Whole == \E options \in Options : content[live] = {options}
Shown == WillRender \/ (\E u \in Callers : Generating(u)) \/ content[live] = {Wanted}

FilesInv ==
    /\ live # tmp
    /\ crossed \subseteq {u \in Callers : Generating(u)}
    /\ \A t \in Callers : Generating(t) /\ t \notin crossed => Single(t)
    /\ behind \/ crossed # {} \/ (Whole /\ Shown)

\* What a configuration is rendered from.
LEMMA WantedIs ==
  ASSUME TypeOK
  PROVE  /\ Wanted \in Options /\ Wanted.excluded = ~values.enabled["claude"]
         /\ Wanted = [excluded |-> ~values.enabled["claude"],
                      meta |-> values.enabled["meta"] /\ key, lan |-> BindAddress(values)]
<1>1. Wanted = [excluded |-> ~values.enabled["claude"],
                meta |-> values.enabled["meta"] /\ key, lan |-> BindAddress(values)]
  BY DEF Wanted, RenderConfig
<1>2. Wanted \in Options
  BY Values DEF Wanted, TypeOK
<1> QED
  BY <1>1, <1>2

\* The part of another's call that a generation is about.
SameFor(u) ==
    /\ calls'[u].pc = calls[u].pc
    /\ calls'[u].options = calls[u].options /\ calls'[u].file = calls[u].file

\* A call that is about to render the configuration makes up for what has changed.
LEMMA WillBeRendered ==
  ASSUME FilesInv, NEW t \in Callers, ~Generating(t), calls'[t].pc = "render",
         \A u \in Callers : u # t => SameFor(u), UNCHANGED files
  PROVE  FilesInv'
<1>1. WillRender'
  BY DEF WillRender
<1>2. UNCHANGED <<live, tmp, content, crossed, behind>>
  BY DEF files
<1>3. \A u \in Callers : Generating(u)' <=> Generating(u)
  BY DEF Generating, SameFor
<1>4. ASSUME NEW u \in Callers, Generating(u)', u \notin crossed' PROVE Single(u)'
  <2>1. Single(u) /\ u # t /\ SameFor(u)
    BY <1>2, <1>3, <1>4 DEF FilesInv
  <2>2. Prepared(u)'
    BY <1>2, <2>1 DEF Single, Prepared, SameFor
  <2> QED
    BY <1>1, <1>3, <2>1, <2>2 DEF Single
<1>5. Whole => Whole'
  BY <1>2 DEF Whole
<1> QED
  BY <1>1, <1>2, <1>3, <1>4, <1>5 DEF FilesInv, Shown

\* A step that is about something else leaves the files as they are.
LEMMA FilesKept ==
  ASSUME FilesInv, NEW t \in Callers, ~Generating(t), ~Generating(t)', calls[t].pc # "render",
         \A u \in Callers : u # t => SameFor(u), UNCHANGED files, Wanted' = Wanted
  PROVE  FilesInv'
<1>1. WillRender => WillRender'
  BY DEF WillRender, SameFor
<1>2. UNCHANGED <<live, tmp, content, crossed, behind>>
  BY DEF files
<1>3. \A u \in Callers : Generating(u)' <=> Generating(u)
  BY DEF Generating, SameFor
<1>4. ASSUME NEW u \in Callers, Generating(u)', u \notin crossed' PROVE Single(u)'
  <2>1. Single(u) /\ u # t /\ SameFor(u)
    BY <1>2, <1>3, <1>4 DEF FilesInv
  <2>2. Prepared(u)'
    BY <1>2, <2>1 DEF Single, Prepared, SameFor
  <2>3. Current(calls[u]) => Current(calls[u])'
    BY <2>1 DEF Current, SameFor
  <2> QED
    BY <1>1, <1>3, <2>1, <2>2, <2>3 DEF Single
<1>5. (Whole => Whole') /\ (Shown => Shown')
  BY <1>1, <1>2, <1>3 DEF Whole, Shown
<1> QED
  BY <1>2, <1>3, <1>4, <1>5 DEF FilesInv

\* A change that nobody renders marks every generation under way.
LEMMA FilesLeftBehind ==
  ASSUME FilesInv, NEW t \in Callers, ~Generating(t), ~Generating(t)',
         \A u \in Callers : u # t => SameFor(u), LeavesFileBehind
  PROVE  FilesInv'
<1>1. behind' /\ UNCHANGED <<live, tmp, content>> /\ crossed' = crossed \cup {u \in Callers : Generating(u)}
  BY DEF LeavesFileBehind
<1>2. \A u \in Callers : Generating(u)' <=> Generating(u)
  BY DEF Generating, SameFor
<1> QED
  BY <1>1, <1>2 DEF FilesInv

\* FilesInv is inductive.
LEMMA FilesStep == TypeOK /\ FilesInv /\ [Next]_vars => FilesInv'
<1> SUFFICES ASSUME TypeOK, FilesInv, [Next]_vars PROVE FilesInv'
  OBVIOUS
<1>0. /\ TypeOK' /\ live \in Files /\ content \in [Files -> SUBSET Options]
      /\ \A u \in Callers : calls[u] \in CallType
  BY TypeStep DEF TypeOK
<1>s. ASSUME NEW t \in Callers, Only(t) PROVE \A u \in Callers : u # t => SameFor(u)
  BY <1>s DEF Only, SameFor
<1>1. ASSUME NEW t \in Callers, MetaAccountsChanged(t) \/ BeginStart(t) PROVE FilesInv'
  BY <1>1, <1>s, AccountsBegin, StartBegins, WillBeRendered
     DEF MetaAccountsChanged, BeginStart, Issue, Generating
<1>2. ASSUME NEW t \in Callers,
             \/ BeginToggle(t) \/ BeginSetting(t) \/ Load(t) \/ BackUp(t) \/ Replace(t)
             \/ ReplaceFails(t) \/ Invalidate(t) \/ Check(t) \/ Keep(t)
      PROVE  FilesInv'
  <2>1. Only(t) /\ ~Generating(t)'
    BY <1>2, ToggleBegins, SettingBegins, LoadBegins, BackedUp, Replaced, CheckBegins, Finished
       DEF Invalidate, Keep, Generating
  <2>2. ~Generating(t) /\ calls[t].pc # "render" /\ UNCHANGED <<store, files>>
    BY <1>2 DEF BeginToggle, BeginSetting, Load, BackUp, Replace, ReplaceFails, Invalidate, Check, Keep,
                Issue, Generating
  <2>3. Wanted' = Wanted
    BY <2>2 DEF store, Wanted
  <2> QED
    BY <1>s, <2>1, <2>2, <2>3, FilesKept
<1>3. ASSUME NEW t \in Callers, Set(t) \/ SetFails(t) PROVE FilesInv'
  <2>1. ~Generating(t) /\ calls[t].pc = "set" /\ values' = Stored(calls[t]) /\ key' = key
    BY <1>3 DEF Set, SetFails, Generating
  <2>2. CASE Proceed(t, "render") /\ UNCHANGED files
    <3>1. calls'[t].pc = "render" /\ \A u \in Callers : u # t => SameFor(u)
      BY <2>2, Proceeded DEF SameFor, Steps
    <3> QED
      BY <2>1, <2>2, <3>1, WillBeRendered
  <2>3. CASE Proceed(t, "invalidate") \/ Finish(t)
    <3>1. ~Generating(t)' /\ \A u \in Callers : u # t => SameFor(u)
      <4>1. CASE Proceed(t, "invalidate")
        BY <4>1, Proceeded DEF SameFor, Steps, Generating
      <4>2. CASE Finish(t)
        BY <1>s, <4>2, Finished DEF Generating
      <4> QED
        BY <2>3, <4>1, <4>2
    <3>2. CASE LeavesFileBehind
      BY <2>1, <3>1, <3>2, FilesLeftBehind
    <3>3. CASE ~LeavesFileBehind
      <4>1. UNCHANGED files /\ calls[t].kind \notin {"provider", "beta", "bind"}
        <5>1. ~Proceed(t, "render")
          <6>1. calls'[t].pc # "render"
            BY <2>3, Proceeded, Finished DEF Steps
          <6> QED
            BY <6>1, Proceeded DEF Steps
        <5> QED
          BY <1>3, <3>3, <5>1 DEF Set, SetFails
      <4>2. Wanted' = Wanted
        BY <1>0, <2>1, <4>1 DEF Stored, Wanted, RenderConfig, BindAddress, TypeOK, Preferences
      <4> QED
        BY <2>1, <3>1, <4>1, <4>2, FilesKept
    <3> QED
      BY <3>2, <3>3
  <2> QED
    BY <1>3, <2>2, <2>3 DEF Set, SetFails
<1>4. ASSUME NEW t \in Callers, ReadExclusions(t) PROVE FilesInv'
  <2>1. /\ Only(t) /\ calls'[t].pc = "rest" /\ calls'[t].options.excluded = Wanted.excluded
        /\ UNCHANGED <<values, key, live, tmp, content, behind>> /\ calls[t].pc = "render"
    BY <1>4, ExclusionsRead, WantedIs DEF ReadExclusions, store
  <2>2. /\ \A u \in Callers : Generating(u)' <=> Generating(u) \/ u = t
        /\ ~Generating(t) /\ Wanted' = Wanted
    BY <2>1 DEF Generating, Only, Wanted
  <2>3. CASE \E u \in Callers \ {t} : Generating(u)
    <3>1. crossed' = crossed \cup {u \in Callers \ {t} : Generating(u)} \cup {t}
      BY <1>4, <2>3 DEF ReadExclusions
    <3>2. \A u \in Callers : Generating(u)' <=> u \in crossed'
      BY <2>2, <3>1 DEF FilesInv
    <3>3. \A u \in crossed' : u \in Callers
      BY <1>0 DEF TypeOK
    <3> QED
      BY <2>1, <3>1, <3>2, <3>3 DEF FilesInv
  <2>4. CASE ~\E u \in Callers \ {t} : Generating(u)
    <3>1. crossed' = crossed
      BY <1>4, <2>4 DEF ReadExclusions
    <3>2. crossed = {}
      BY <2>2, <2>4 DEF FilesInv, TypeOK
    <3>3. Current(calls[t])'
      BY <2>1, <2>2 DEF Current
    <3>4. Single(t)'
      BY <2>1, <2>2, <2>4, <3>3 DEF Single, Prepared
    <3>5. Whole => Whole'
      BY <2>1 DEF Whole
    <3>6. Shown'
      BY <2>2 DEF Shown
    <3> QED
      BY <2>1, <2>2, <2>4, <3>1, <3>2, <3>4, <3>5, <3>6 DEF FilesInv
  <2> QED
    BY <2>3, <2>4
<1>5. ASSUME NEW t \in Callers, ReadRestAndOpen(t) PROVE FilesInv'
  <2>1. /\ Only(t) /\ calls'[t].pc = "write" /\ calls[t].pc = "rest"
        /\ UNCHANGED <<values, key, live, crossed, behind>>
        /\ tmp' \in Files /\ tmp' = calls'[t].file /\ tmp' # live
        /\ content' = [content EXCEPT ![tmp'] = {}]
    BY <1>5, RestRead DEF ReadRestAndOpen, store, FilesInv
  <2>2. Wanted' = Wanted /\ (calls[t].options.excluded = Wanted.excluded => calls'[t].options = Wanted)
    BY <1>5, <2>1, RestRead, WantedIs DEF Wanted
  <2>3. /\ \A u \in Callers : Generating(u)' <=> Generating(u)
        /\ Generating(t) /\ (WillRender' <=> WillRender)
    BY <2>1 DEF Generating, Only, WillRender
  <2>4. content'[tmp'] = {} /\ content'[live] = content[live]
    BY <1>0, <2>1
  <2>5. ASSUME NEW u \in Callers, Generating(u)', u \notin crossed' PROVE Single(u)'
    <3>0. Single(u)
      BY <2>1, <2>3, <2>5 DEF FilesInv
    <3>1. Single(u) /\ u = t
      BY <2>3, <3>0 DEF Single
    <3>2. Prepared(t)'
      BY <2>1, <2>4 DEF Prepared
    <3>3. Current(calls[t]) => Current(calls[t])'
      BY <2>1, <2>2 DEF Current
    <3> QED
      BY <2>3, <3>1, <3>2, <3>3 DEF Single
  <2>6. (Whole => Whole') /\ (Shown => Shown')
    BY <2>1, <2>2, <2>3, <2>4 DEF Whole, Shown
  <2> QED
    BY <2>1, <2>3, <2>5, <2>6 DEF FilesInv
<1>6. ASSUME NEW t \in Callers, WriteTmp(t) PROVE FilesInv'
  <2>1. /\ Only(t) /\ calls'[t].pc = "rename" /\ calls[t].pc = "write"
        /\ calls'[t].options = calls[t].options /\ calls'[t].file = calls[t].file
        /\ UNCHANGED <<values, key, live, tmp, crossed, behind>>
    BY <1>6, TmpWritten DEF WriteTmp, store
  <2>2. PICK left \in {{}, content[calls[t].file]} :
           content' = [content EXCEPT ![calls[t].file] = left \cup {calls[t].options}]
    BY <1>6 DEF WriteTmp
  <2>3. /\ \A u \in Callers : Generating(u)' <=> Generating(u)
        /\ Generating(t) /\ (WillRender' <=> WillRender)
        /\ Wanted' = Wanted
    BY <2>1 DEF Generating, Only, WillRender, Wanted
  <2>4. CASE t \in crossed
    <3>1. ASSUME NEW u \in Callers, Generating(u)' PROVE u \in crossed
      <4> SUFFICES ASSUME u \notin crossed PROVE FALSE
        OBVIOUS
      <4>1. Single(u)
        BY <2>3, <3>1 DEF FilesInv
      <4> QED
        BY <2>3, <2>4, <4>1 DEF Single
    <3> QED
      BY <2>1, <2>3, <2>4, <3>1 DEF FilesInv
  <2>5. CASE t \notin crossed
    <3>0. Single(t) /\ tmp # live
      BY <2>3, <2>5 DEF FilesInv
    <3>1. /\ Single(t) /\ calls[t].file = tmp /\ tmp \in Files /\ content[tmp] = {} /\ tmp # live
          /\ \A u \in Callers : Generating(u) => u = t
      BY <2>1, <3>0 DEF Single, Prepared
    <3>2. content'[tmp] = {calls[t].options} /\ content'[live] = content[live]
      BY <1>0, <2>2, <3>1
    <3>3. Prepared(t)'
      BY <2>1, <3>1, <3>2 DEF Prepared
    <3>4. Current(calls[t]) => Current(calls[t])'
      BY <2>1, <2>3 DEF Current
    <3>5. Single(t)'
      BY <2>3, <3>1, <3>3, <3>4 DEF Single
    <3>6. (Whole => Whole') /\ (Shown => Shown')
      BY <2>1, <2>3, <3>2 DEF Whole, Shown
    <3> QED
      BY <2>1, <2>3, <3>1, <3>5, <3>6 DEF FilesInv
  <2> QED
    BY <2>4, <2>5
<1>7. ASSUME NEW t \in Callers, RenameTmp(t) \/ GenerationFails(t) PROVE FilesInv'
  <2>1. /\ Only(t) /\ Generating(t) /\ ~Generating(t)' /\ crossed' = crossed \ {t}
        /\ calls'[t].pc # "render" /\ calls[t].pc # "render" /\ Wanted' = Wanted
    BY <1>7, Configured DEF RenameTmp, GenerationFails, Generating, Only, store, Wanted
  <2>2. \A u \in Callers : Generating(u)' <=> Generating(u) /\ u # t
    BY <2>1 DEF Only, Generating
  <2>3. live' # tmp'
    <3>1. CASE RenameTmp(t)
      BY <1>0, <3>1, Values DEF RenameTmp, FilesInv, TypeOK
    <3>2. CASE GenerationFails(t)
      BY <3>2 DEF GenerationFails, FilesInv
    <3> QED
      BY <1>7, <3>1, <3>2
  <2>4. crossed' \subseteq {u \in Callers : Generating(u)'}
    BY <1>0, <2>1, <2>2 DEF FilesInv, TypeOK
  <2>5. ASSUME NEW u \in Callers, Generating(u)' PROVE u \in crossed'
    <3>1. Generating(u) /\ u # t
      BY <2>2, <2>5
    <3>2. u \in crossed
      <4> SUFFICES ASSUME u \notin crossed PROVE FALSE
        OBVIOUS
      <4>1. Single(u)
        BY <3>1 DEF FilesInv
      <4> QED
        BY <2>1, <3>1, <4>1 DEF Single
    <3> QED
      BY <2>1, <3>1, <3>2
  <2>6. behind' \/ (Whole' /\ Shown')
    <3>1. CASE GenerationFails(t)
      BY <3>1 DEF GenerationFails
    <3>2. CASE RenameTmp(t) /\ t \in crossed
      BY <3>2 DEF RenameTmp
    <3>3. CASE RenameTmp(t) /\ t \notin crossed
      <4>1. /\ Single(t) /\ tmp \in Files /\ content[tmp] = {calls[t].options} /\ calls[t].pc = "rename"
        BY <2>1, <3>3 DEF RenameTmp, FilesInv, Single, Prepared
      <4>2. tmp # NoFile
        BY <4>1, Values
      <4>3. live' = tmp /\ content' = [content EXCEPT ![live] = {}] /\ live # tmp
        BY <3>3, <4>2 DEF RenameTmp, FilesInv
      <4>4. content'[live'] = {calls[t].options} /\ calls[t].options \in Options
        BY <1>0, <4>1, <4>3 DEF CallType
      <4>5. CASE WillRender
        <5>1. WillRender'
          BY <2>1, <4>5 DEF WillRender, Only
        <5> QED
          BY <4>4, <5>1 DEF Whole, Shown
      <4>6. CASE Current(calls[t])
        BY <2>1, <4>1, <4>4, <4>6 DEF Whole, Shown, Current
      <4> QED
        BY <4>1, <4>5, <4>6 DEF Single
    <3> QED
      BY <1>7, <3>1, <3>2, <3>3
  <2> QED
    BY <2>3, <2>4, <2>5, <2>6 DEF FilesInv
<1>8. CASE Edit
  <2>1. UNCHANGED <<calls, files, values, key>>
    BY <1>8 DEF Edit, store
  <2> QED
    BY <2>1 DEF files, FilesInv, Single, Prepared, WillRender, Current, Wanted, Whole, Shown, Generating
<1>9. CASE Crash
  <2>1. UNCHANGED <<live, tmp>> /\ crossed' = {} /\ behind'
    BY <1>9 DEF Crash
  <2>2. \A u \in Callers : ~Generating(u)'
    BY <1>9, Values DEF Crash, CallType, Generating
  <2> QED
    BY <2>1, <2>2 DEF FilesInv
<1>10. CASE UNCHANGED vars
  <2>1. UNCHANGED <<calls, live, tmp, content, crossed, behind, values, key>>
    BY <1>10 DEF vars, store, files
  <2> QED
    BY <2>1 DEF FilesInv, Single, Prepared, WillRender, Current, Wanted, Whole, Shown, Generating
<1> QED
  BY <1>1, <1>2, <1>3, <1>4, <1>5, <1>6, <1>7, <1>8, <1>9, <1>10 DEF Next, Step

\* The backend never reads an empty or a half-written configuration, and once every call
\* has returned the file shows the preferences in force, unless generations overlapped,
\* a write failed or a call returned early (backend.go:147-193, calls.go:650-690).
THEOREM BackendIsUpToDate == Spec => []BackendSeesPreferences
<1>1. Init => FilesInv
  <2> SUFFICES ASSUME Init PROVE FilesInv
    OBVIOUS
  <2>1. values \in Preferences /\ key \in BOOLEAN
    BY DEF Init, Preferences
  <2>2. Wanted \in Options /\ content[live] = {Wanted} /\ live # tmp /\ crossed = {}
    BY <2>1, Values DEF Init, Wanted
  <2>3. \A t \in Callers : ~Generating(t)
    BY Values DEF Init, Generating
  <2> QED
    BY <2>2, <2>3 DEF FilesInv, Whole, Shown
<1>2. TypeOK /\ FilesInv => BackendSeesPreferences
  <2> SUFFICES ASSUME TypeOK, FilesInv PROVE BackendSeesPreferences
    OBVIOUS
  <2>1. Quiet => crossed = {} /\ ~WillRender /\ \A u \in Callers : ~Generating(u)
    BY DEF TypeOK, FilesInv, Quiet, WillRender, Generating
  <2> QED
    BY <2>1 DEF FilesInv, Whole, Shown, Wanted, BackendSeesPreferences
<1> QED
  BY <1>1, <1>2, FilesStep, TypeCorrect, PTL DEF Spec
=============================================================================
