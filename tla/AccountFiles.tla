---------------------------- MODULE AccountFiles ----------------------------
(***************************************************************************)
(* The Claude account files, auth/manager.go, auth/directory_monitor.go    *)
(* and claude/seat_files.go, with what daemon.go and calls.go make of      *)
(* them.                                                                   *)
(*                                                                         *)
(* cli-proxy-api writes every login of one e-mail address to one           *)
(* canonical file.  The daemon moves a complete canonical file to a name   *)
(* of its seat (the organization), so that the next login finds the        *)
(* canonical name free, and keeps in memory the list of the accounts it    *)
(* read.  API calls toggle and remove accounts, and a debounced directory  *)
(* watch rescans.  Nothing but the publication of a list is locked.        *)
(*                                                                         *)
(* A thread is a goroutine of the daemon at work on the directory.  A step *)
(* is one access to the file system or to the locked list.                 *)
(***************************************************************************)
EXTENDS Integers, FiniteSets

CONSTANTS Seats,      \* organizations, each with one seat on the address
          NoSeat,     \* the seat of a file without organization fields
          Threads,    \* goroutines at work at once
          MaxLogins,  \* bound: logins, each with tokens of its own
          MaxCalls,   \* bound: toggles and removals asked for
          MaxFailures \* bound: calls on the directory that fail

ASSUME AccountAssumption ==
  /\ NoSeat \notin Seats
  /\ Seats \cap {"canon", "side", "tmp", "gone"} = {}
  /\ MaxLogins \in Nat
  /\ MaxCalls \in Nat
  /\ MaxFailures \in Nat

VARIABLES
  files,    \* what each name holds
  tmp,      \* what the one temporary file of the migrations holds
  cache,    \* m.serviceAccounts[Claude]
  due,      \* the watcher has an event queued or its timer armed
  watching, \* the watcher: "no", "yes", or "failed" to start
  logging,  \* the login process: "no", or where the file it writes is linked
  th,       \* what each goroutine is at
  logins, calls, failures,
  newest,   \* history: the last tokens of each seat, the daemon must keep them
  risky,    \* history: two changes of the directory were under way at once, or the
            \* move of a suffixed file failed
  missed,   \* history: what the scans ("list") and the migrations ("move") owe the directory
            \* with no event to bring another: a change with no watcher, or a call on a file
            \* that failed, since the last listing for that part
  overtaken \* history: the list is older than the one it replaced

fileVars == <<files, tmp, cache, due, watching, logging, th, logins, calls, failures,
              newest, risky, missed, overtaken>>
history == <<newest, risky, missed, overtaken>>

Canon == "canon"                      \* claude-{email}.json
Side == "side"                        \* a suffixed name that is not a seat's
Names == {Canon, Side} \cup Seats     \* UniqueFilename of a seat is the seat

\* What a name holds: nothing, an empty file, the remains of two writes, which
\* are no JSON, or the tokens of a seat.
Only(is) == [is |-> is, seat |-> NoSeat, tok |-> 0, disabled |-> FALSE]
Absent == Only("absent")
Empty == Only("empty")
Broken == Only("broken")
Full(s, k, d) == [is |-> "full", seat |-> s, tok |-> k, disabled |-> d]
Parses(c) == c.is = "full"

\* parseAccount: what the list shows of a file.
Shown(c) == IF ~Parses(c) THEN "none" ELSE IF c.disabled THEN "off" ELSE "on"
ShownNow == [n \in Names |-> Shown(files[n])]
NoList == [n \in Names |-> "none"]
EnabledIn(list) == {n \in Names : list[n] = "on"}
Present == {n \in Names : files[n] # Absent}

\* MigrateFile moves a file whose seat is known and is not its name already.
Moves(n, c) == Parses(c) /\ c.seat \in Seats /\ c.seat # n

\* The last tokens of a seat that the directory holds, -1 for none.
Toks(fs, s) == {fs[n].tok : n \in {m \in Names : Parses(fs[m]) /\ fs[m].seat = s}}
Kept(fs) == [s \in Seats |->
               IF Toks(fs, s) = {} THEN -1
               ELSE CHOOSE k \in Toks(fs, s) : \A j \in Toks(fs, s) : j <= k]

Idle == [pc |-> "idle", name |-> Canon, data |-> Absent, fd |-> "gone",
         again |-> 0, todo |-> {}, list |-> NoList, sure |-> FALSE,
         older |-> {}, late |-> FALSE]

\* A goroutine between its read of a file and the last change it makes of it,
\* and one between its read of the directory and its publication.
Changing(t) == th[t].pc \in {"count", "write", "open", "fill", "rename", "remove"}
Scanning(t) == th[t].pc = "parse"

\* run() scans once before it starts the watcher.
Boot(t) == [u \in Threads |-> IF u = t THEN [Idle EXCEPT !.pc = "ls", !.again = 1] ELSE Idle]

FilesInit ==
  /\ \E s \in Seats :
       files = [n \in Names |->
                  IF n = Canon \/ n = s THEN Absent
                  ELSE Full(IF n = Side THEN s ELSE n, 0, FALSE)]
  /\ tmp = Absent
  /\ cache = NoList
  /\ due = FALSE
  /\ watching = "no"
  /\ logging = "no"
  /\ \E t \in Threads : th = Boot(t)
  /\ logins = 0
  /\ calls = 0
  /\ failures = 0
  /\ newest = [s \in Seats |-> 0]
  /\ risky = FALSE
  /\ missed = {}
  /\ overtaken = FALSE

-----------------------------------------------------------------------------
(* The directory and its watch *)

\* A change of the directory: the kernel tells the watcher, when it runs.
Tell(parts) ==
  /\ due' = (due \/ watching = "yes")
  /\ missed' = IF watching = "yes" THEN missed ELSE missed \cup parts
Changed == Tell({"list"})
Disturbed == Tell({"list", "move"})

\* A call of the file system that fails.
Fails == failures < MaxFailures /\ failures' = failures + 1

\* Goroutines, and the login process, that hold a file open while its name
\* goes to another file or away.
Relinked(g, n, to) ==
  [u \in Threads |-> IF g[u].fd = n THEN [g[u] EXCEPT !.fd = to] ELSE g[u]]
LoginUnlinked(n) == logging' = IF logging = n THEN "gone" ELSE logging

\* History: t enters its read-to-change section, or changes at once.
Enters(t) == risky' = (risky \/ \E u \in Threads \ {t} : Changing(u))
Overlaps == risky' = (risky \/ \E u \in Threads : Changing(u))

StartWatch(t) ==
  /\ th[t].pc = "watch"
  /\ watching' \in {"yes", "failed"}
  /\ th' = [th EXCEPT ![t] = Idle]
  /\ UNCHANGED <<files, tmp, cache, due, logging, logins, calls, failures, history>>

\* The debounce timer's goroutine: the migration, then CheckAuthStatus, which
\* begins with the migration again.
TimerFires(t) ==
  /\ due
  /\ th[t].pc = "idle"
  /\ due' = FALSE
  /\ th' = [th EXCEPT ![t] = [Idle EXCEPT !.pc = "ls", !.again = 2]]
  /\ UNCHANGED <<files, tmp, cache, watching, logging, logins, calls, failures, history>>

-----------------------------------------------------------------------------
(* MigrateCanonicalFiles *)

\* The goroutine with these names left to migrate; the last ends the part.
Migrating(r, left) ==
  [r EXCEPT !.todo = left, !.data = Absent, !.fd = "gone", !.name = Canon,
            !.again = IF left = {} THEN r.again - 1 ELSE r.again,
            !.pc = CASE left # {} -> "migrate"
                     [] left = {} /\ r.again = 2 -> "ls"
                     [] OTHER -> "readdir"]
NextName(r) == Migrating(r, r.todo \ {r.name})

\* The migration owes a move, and nothing in the directory has changed.
Skipped(n) ==
  /\ missed' = missed \cup {"move"}
  /\ risky' = (risky \/ n = Side)

ListNames(t) ==
  /\ th[t].pc = "ls"
  /\ th' = [th EXCEPT ![t] = Migrating(th[t], Present)]
  /\ missed' = missed \ {"move"}
  /\ UNCHANGED <<files, tmp, cache, due, watching, logging, logins, calls, failures,
                 newest, risky, overtaken>>

\* The directory cannot be read: the migration moves nothing.
ListFails(t) ==
  /\ th[t].pc = "ls"
  /\ Fails
  /\ th' = [th EXCEPT ![t] = Migrating(th[t], {})]
  /\ Skipped(Canon)
  /\ UNCHANGED <<files, tmp, cache, due, watching, logging, logins, calls, newest, overtaken>>

\* The files MigrateFile moves next, in the order of the names: the canonical
\* one, with its '.' after the '-' of the others, is the last.  A file that
\* stays where it is costs no step.
MovesNext(t) ==
  LET suffixed == {n \in th[t].todo \ {Canon} : Moves(n, files[n])}
  IN IF suffixed # {} THEN suffixed
     ELSE {n \in th[t].todo \cap {Canon} : Moves(n, files[n])}

\* MigrateFile up to its decision.
MigrateRead(t) ==
  /\ th[t].pc = "migrate"
  /\ IF MovesNext(t) = {}
     THEN th' = [th EXCEPT ![t] = Migrating(th[t], {})] /\ UNCHANGED risky
     ELSE /\ \E n \in MovesNext(t) :
               th' = [th EXCEPT ![t] = [th[t] EXCEPT
                        !.pc = "open", !.name = n, !.data = files[n],
                        !.todo = IF n = Canon THEN {Canon} ELSE @]]
          /\ Enters(t)
  /\ UNCHANGED <<files, tmp, cache, due, watching, logging, logins, calls, failures,
                 newest, missed, overtaken>>

\* The file cannot be read: it stays where it is.
ReadFails(t) ==
  /\ th[t].pc = "migrate"
  /\ Fails
  /\ \E n \in MovesNext(t) :
       /\ th' = [th EXCEPT ![t] =
                    Migrating(th[t], IF n = Canon THEN {} ELSE th[t].todo \ {n})]
       /\ Skipped(n)
  /\ UNCHANGED <<files, tmp, cache, due, watching, logging, logins, calls, newest, overtaken>>

\* writeRestrictedFile: open with O_TRUNC, the same name in every migration.
OpenTemp(t) ==
  /\ th[t].pc = "open"
  /\ tmp' = Empty
  /\ th' = [th EXCEPT ![t] = [th[t] EXCEPT !.pc = "fill", !.fd = "tmp"]]
  /\ Changed
  /\ UNCHANGED <<files, cache, watching, logging, logins, calls, failures,
                 newest, risky, overtaken>>

\* It cannot be opened: the file stays where it is.
OpenFails(t) ==
  /\ th[t].pc = "open"
  /\ Fails
  /\ th' = [th EXCEPT ![t] = NextName(th[t])]
  /\ Skipped(th[t].name)
  /\ UNCHANGED <<files, tmp, cache, due, watching, logging, logins, calls, newest, overtaken>>

\* What a file holds after a write from its start: the rest of a longer text
\* stays behind it.
Overwrites(old, new) == IF old \in {Empty, new} THEN {new} ELSE {new, Broken}

FillTemp(t) ==
  /\ th[t].pc = "fill"
  /\ IF th[t].fd = "tmp"
     THEN tmp' \in Overwrites(tmp, th[t].data) /\ UNCHANGED files
     ELSE IF th[t].fd \in Names
     THEN /\ \E c \in Overwrites(files[th[t].fd], th[t].data) :
               files' = [files EXCEPT ![th[t].fd] = c]
          /\ UNCHANGED tmp
     ELSE UNCHANGED <<files, tmp>>
  /\ th' = [th EXCEPT ![t] = [th[t] EXCEPT !.pc = "rename", !.fd = "gone"]]
  /\ Changed
  /\ UNCHANGED <<cache, watching, logging, logins, calls, failures, newest, risky, overtaken>>

\* The write or the rename fails: the temporary file is removed, whoever wrote it.
WriteFails_RemovesSource(t) ==
  /\ th[t].pc = "fill" \/ (th[t].pc = "rename" /\ tmp # Absent)
  /\ Fails
  /\ tmp' = Absent
  /\ LET g == [th EXCEPT ![t] = NextName(th[t])]
     IN th' = Relinked(g, "tmp", "gone")
  /\ Disturbed
  /\ risky' = (risky \/ th[t].name = Side)
  /\ files' = [files EXCEPT ![th[t].name] = Absent]
  /\ UNCHANGED <<cache, watching, logging, logins, calls, newest, overtaken>>
WriteFails(t) ==
  /\ th[t].pc = "fill" \/ (th[t].pc = "rename" /\ tmp # Absent)
  /\ Fails
  /\ tmp' = Absent
  /\ LET g == [th EXCEPT ![t] = NextName(th[t])]
     IN th' = Relinked(g, "tmp", "gone")
  /\ Disturbed
  /\ risky' = (risky \/ th[t].name = Side)
  /\ UNCHANGED <<files, cache, watching, logging, logins, calls, newest, overtaken>>

\* os.Rename over what the seat's name holds; the goroutine goes on as next.
Renames(t, next) ==
  LET dest == th[t].data.seat IN
  /\ files' = [files EXCEPT ![dest] = tmp]
  /\ tmp' = Absent
  /\ th' = [Relinked(Relinked(th, dest, "gone"), "tmp", dest) EXCEPT ![t] = next]
  /\ LoginUnlinked(dest)

\* It fails when another migration has taken the temporary file away.
RenameTemp_KeepsOld(t) ==
  /\ th[t].pc = "rename"
  /\ IF tmp = Absent \/ files[th[t].data.seat] # Absent
     THEN /\ th' = [th EXCEPT ![t] = NextName(th[t])]
          /\ UNCHANGED <<files, tmp, logging, due, missed>>
     ELSE Renames(t, [th[t] EXCEPT !.pc = "remove"]) /\ Changed
  /\ UNCHANGED <<cache, watching, logins, calls, failures, newest, risky, overtaken>>
RenameTemp(t) ==
  /\ th[t].pc = "rename"
  /\ IF tmp = Absent
     THEN /\ th' = [th EXCEPT ![t] = NextName(th[t])]
          /\ UNCHANGED <<files, tmp, logging, due, missed>>
     ELSE Renames(t, [th[t] EXCEPT !.pc = "remove"]) /\ Changed
  /\ UNCHANGED <<cache, watching, logins, calls, failures, newest, risky, overtaken>>

\* The chmod after the rename fails: the source stays.
ChmodFails(t) ==
  /\ th[t].pc = "rename"
  /\ Fails
  /\ tmp # Absent
  /\ Renames(t, NextName(th[t]))
  /\ Disturbed
  /\ risky' = (risky \/ th[t].name = Side)
  /\ UNCHANGED <<cache, watching, logins, calls, newest, overtaken>>

\* os.Remove of the file that was moved, whatever its name holds by now.
RemoveSource(t) ==
  /\ th[t].pc = "remove"
  /\ files' = [files EXCEPT ![th[t].name] = Absent]
  /\ LoginUnlinked(th[t].name)
  /\ th' = [Relinked(th, th[t].name, "gone") EXCEPT ![t] = NextName(th[t])]
  /\ Changed
  /\ UNCHANGED <<tmp, cache, watching, logins, calls, failures, newest, risky, overtaken>>

\* The source cannot be removed: the watcher has the event of the rename.
RemoveFails(t) ==
  /\ th[t].pc = "remove"
  /\ Fails
  /\ th' = [th EXCEPT ![t] = NextName(th[t])]
  /\ missed' = IF watching = "yes" THEN missed ELSE missed \cup {"move"}
  /\ risky' = (risky \/ th[t].name = Side)
  /\ UNCHANGED <<files, tmp, cache, due, watching, logging, logins, calls, newest, overtaken>>

-----------------------------------------------------------------------------
(* CheckAuthStatus after its migration *)

\* os.ReadDir and parseAccount of its names, the canonical one last and in a
\* step of its own.
ReadDir(t) ==
  /\ th[t].pc = "readdir"
  /\ th' = [th EXCEPT ![t] = [th[t] EXCEPT
              !.pc = "parse", !.todo = Present \cap {Canon}, !.late = FALSE,
              !.list = [n \in Names |-> IF n = Canon THEN "none" ELSE Shown(files[n])],
              !.older = {u \in Threads \ {t} : Scanning(u)}]]
  /\ missed' = missed \ {"list"}
  /\ UNCHANGED <<files, tmp, cache, due, watching, logging, logins, calls, failures,
                 newest, risky, overtaken>>

\* The directory, or some of its files, cannot be read: they are not in the list.
ReadDirFails(t) ==
  /\ th[t].pc = "readdir"
  /\ Fails
  /\ \E unread \in SUBSET Present \ {{}} :
       th' = [th EXCEPT ![t] = [th[t] EXCEPT
                !.pc = "parse", !.todo = (Present \ unread) \cap {Canon}, !.late = FALSE,
                !.list = [n \in Names |->
                            IF n \in unread \cup {Canon} THEN "none" ELSE Shown(files[n])],
                !.older = {u \in Threads \ {t} : Scanning(u)}]]
  /\ missed' = missed \cup {"list"}
  /\ UNCHANGED <<files, tmp, cache, due, watching, logging, logins, calls,
                 newest, risky, overtaken>>

ParseCanonical(t) ==
  /\ th[t].pc = "parse"
  /\ th[t].todo # {}
  /\ th' = [th EXCEPT ![t] = [th[t] EXCEPT
              !.todo = {}, !.list[Canon] = Shown(files[Canon])]]
  /\ UNCHANGED <<files, tmp, cache, due, watching, logging, logins, calls, failures, history>>

\* The list replaces the published one under m.mu, older or not.
Publish_ClearsPending(t) ==
  /\ th[t].pc = "parse"
  /\ th[t].todo = {}
  /\ cache' = th[t].list
  /\ overtaken' = th[t].late
  /\ th' = [u \in Threads |->
              IF u = t THEN IF watching = "no" THEN [Idle EXCEPT !.pc = "watch"] ELSE Idle
              ELSE [th[u] EXCEPT !.older = @ \ {t}, !.late = @ \/ u \in th[t].older]]
  /\ due' = FALSE
  /\ UNCHANGED <<files, tmp, watching, logging, logins, calls, failures,
                 newest, risky, missed>>
Publish(t) ==
  /\ th[t].pc = "parse"
  /\ th[t].todo = {}
  /\ cache' = th[t].list
  /\ overtaken' = th[t].late
  /\ th' = [u \in Threads |->
              IF u = t THEN IF watching = "no" THEN [Idle EXCEPT !.pc = "watch"] ELSE Idle
              ELSE [th[u] EXCEPT !.older = @ \ {t}, !.late = @ \/ u \in th[t].older]]
  /\ UNCHANGED <<files, tmp, due, watching, logging, logins, calls, failures,
                 newest, risky, missed>>

-----------------------------------------------------------------------------
(* The API: toggle and remove *)

\* findAccount takes the account from the published list.
Call(t) ==
  /\ calls < MaxCalls
  /\ watching # "no"
  /\ th[t].pc = "idle"
  /\ calls' = calls + 1
  /\ \E n \in Names, pc \in {"toggle", "delete"} :
       /\ cache[n] # "none"
       /\ th' = [th EXCEPT ![t] = [Idle EXCEPT !.pc = pc, !.name = n]]
  /\ UNCHANGED <<files, tmp, cache, due, watching, logging, logins, failures, history>>

ToggleRead(t) ==
  LET c == files[th[t].name] IN
  /\ th[t].pc = "toggle"
  /\ IF Parses(c)
     THEN /\ th' = [th EXCEPT ![t] = [th[t] EXCEPT
                      !.data = c, !.pc = IF c.disabled THEN "write" ELSE "count"]]
          /\ Enters(t)
     ELSE th' = [th EXCEPT ![t] = Idle] /\ UNCHANGED risky
  /\ UNCHANGED <<files, tmp, cache, due, watching, logging, logins, calls, failures,
                 newest, missed, overtaken>>

\* The last enabled account of the published list is not disabled.
ToggleCount_Zero(t) ==
  /\ th[t].pc = "count"
  /\ th' = [th EXCEPT ![t] =
              IF EnabledIn(cache) = {} THEN Idle
              ELSE [th[t] EXCEPT !.pc = "write", !.sure = (cache = ShownNow)]]
  /\ UNCHANGED <<files, tmp, cache, due, watching, logging, logins, calls, failures, history>>
ToggleCount(t) ==
  /\ th[t].pc = "count"
  /\ th' = [th EXCEPT ![t] =
              IF Cardinality(EnabledIn(cache)) <= 1 THEN Idle
              ELSE [th[t] EXCEPT !.pc = "write", !.sure = (cache = ShownNow)]]
  /\ UNCHANGED <<files, tmp, cache, due, watching, logging, logins, calls, failures, history>>

\* The scan that every successful change ends with.
Rescan == [Idle EXCEPT !.pc = "ls", !.again = 1]

\* A temporary file of its own and a rename, or a failure before the rename.
ToggleWrite(t) ==
  LET n == th[t].name IN
  /\ th[t].pc = "write"
  /\ files' = [files EXCEPT ![n] = [th[t].data EXCEPT !.disabled = ~@]]
  /\ LoginUnlinked(n)
  /\ th' = [Relinked(th, n, "gone") EXCEPT ![t] = Rescan]
  /\ Disturbed
  /\ UNCHANGED <<tmp, cache, watching, logins, calls, failures, newest, risky, overtaken>>

ToggleFails(t) ==
  /\ th[t].pc = "write"
  /\ Fails
  /\ th' = [th EXCEPT ![t] = Idle]
  /\ Disturbed
  /\ UNCHANGED <<files, tmp, cache, watching, logging, logins, calls,
                 newest, risky, overtaken>>

DeleteAccount(t) ==
  LET n == th[t].name IN
  /\ th[t].pc = "delete"
  /\ IF files[n] = Absent
     THEN /\ th' = [th EXCEPT ![t] = Idle]
          /\ UNCHANGED <<files, logging, due, newest, risky, missed>>
     ELSE /\ files' = [files EXCEPT ![n] = Absent]
          /\ LoginUnlinked(n)
          /\ th' = [Relinked(th, n, "gone") EXCEPT ![t] = Rescan]
          /\ newest' = Kept(files')
          /\ Disturbed
          /\ Overlaps
  /\ UNCHANGED <<tmp, cache, watching, logins, calls, failures, overtaken>>

\* The file cannot be read, or not be removed: the call ends.
CallFails(t) ==
  /\ th[t].pc \in {"toggle", "delete"}
  /\ Fails
  /\ th' = [th EXCEPT ![t] = Idle]
  /\ UNCHANGED <<files, tmp, cache, due, watching, logging, logins, calls, history>>

-----------------------------------------------------------------------------
(* The login process of cli-proxy-api, and the end of the daemon *)

LoginOpens ==
  /\ logins < MaxLogins
  /\ logging = "no"
  /\ logins' = logins + 1
  /\ files' = [files EXCEPT ![Canon] = Empty]
  /\ logging' = Canon
  /\ newest' = Kept(files')
  /\ Disturbed
  /\ Overlaps
  /\ UNCHANGED <<tmp, cache, watching, th, calls, failures, overtaken>>

LoginWrites ==
  /\ logging # "no"
  /\ \E s \in Seats \cup {NoSeat} :
       files' = IF logging = "gone" THEN files
                ELSE [files EXCEPT ![Canon] = Full(s, logins, FALSE)]
  /\ logging' = "no"
  /\ newest' = Kept(files')
  /\ Disturbed
  /\ Overlaps
  /\ UNCHANGED <<tmp, cache, watching, th, logins, calls, failures, overtaken>>

LoginDies ==
  /\ logging # "no"
  /\ logging' = "no"
  /\ UNCHANGED <<files, tmp, cache, due, watching, th, logins, calls, failures, history>>

\* The daemon dies at any step and is started again; the directory stays.
Crash ==
  /\ \E t \in Threads : th' = Boot(t)
  /\ cache' = NoList
  /\ due' = FALSE
  /\ watching' = "no"
  /\ missed' = {}
  /\ overtaken' = FALSE
  /\ UNCHANGED <<files, tmp, logging, logins, calls, failures, newest, risky>>

Migrate(t) ==
  \/ ListNames(t) \/ ListFails(t) \/ MigrateRead(t) \/ ReadFails(t)
  \/ OpenTemp(t) \/ OpenFails(t) \/ FillTemp(t) \/ WriteFails(t)
  \/ RenameTemp(t) \/ ChmodFails(t) \/ RemoveSource(t) \/ RemoveFails(t)
CheckAuthStatus(t) == ReadDir(t) \/ ReadDirFails(t) \/ ParseCanonical(t) \/ Publish(t)
ToggleAccountDisabled(t) ==
  ToggleRead(t) \/ ToggleCount(t) \/ ToggleWrite(t) \/ ToggleFails(t)

FilesNext ==
  \/ \E t \in Threads :
       \/ StartWatch(t) \/ TimerFires(t) \/ Migrate(t) \/ CheckAuthStatus(t)
       \/ Call(t) \/ ToggleAccountDisabled(t) \/ DeleteAccount(t) \/ CallFails(t)
  \/ LoginOpens \/ LoginWrites \/ LoginDies \/ Crash

FilesSpec == FilesInit /\ [][FilesNext]_fileVars

-----------------------------------------------------------------------------
(* Properties *)

Contents == [is : {"absent", "empty", "broken", "full"}, seat : Seats \cup {NoSeat},
             tok : 0 .. MaxLogins, disabled : BOOLEAN]
Lists == [Names -> {"none", "off", "on"}]

Goroutine ==
  [pc : {"idle", "watch", "ls", "migrate", "open", "fill", "rename", "remove", "readdir",
         "parse", "toggle", "count", "write", "delete"},
   name : Names, data : Contents, fd : Names \cup {"tmp", "gone"}, again : 0 .. 2,
   todo : SUBSET Names, list : Lists, sure : BOOLEAN, older : SUBSET Threads, late : BOOLEAN]

FilesTypeOK ==
  /\ files \in [Names -> Contents] /\ tmp \in Contents /\ cache \in Lists
  /\ due \in BOOLEAN /\ watching \in {"no", "yes", "failed"} /\ logging \in {"no", "gone", Canon}
  /\ th \in [Threads -> Goroutine]
  /\ \A t \in Threads : th[t].again = 0 =>
       th[t].pc \notin {"ls", "migrate", "open", "fill", "rename", "remove"}
  /\ \A t \in Threads : th[t].pc \in {"open", "fill", "rename", "remove"} =>
       th[t].data.seat \in Seats
  /\ logins \in 0 .. MaxLogins /\ calls \in 0 .. MaxCalls /\ failures \in 0 .. MaxFailures
  /\ newest \in [Seats -> -1 .. MaxLogins] /\ risky \in BOOLEAN
  /\ missed \subseteq {"list", "move"} /\ overtaken \in BOOLEAN

\* "keeps personal Max and org Claude seats on the same email from clobbering
\* each other" (seat_files.go:15): as long as no two changes of the directory
\* are under way at once (and the move of a suffixed file has not failed: its
\* next attempt overwrites what the seat got since), moving and toggling files
\* keep the last tokens of every seat and bring no removed ones back, wherever
\* else a call fails or the daemon dies and starts again.
SeatsKept == risky \/ newest = Kept(files)

\* When nobody works on the directory and the watcher has nothing left to
\* tell, the published accounts are those of the directory, unless a scan that
\* read earlier ended later, the change fell between the scan of run() and its
\* watcher, or the last scan could not read a file: the debounce and the scans'
\* own changes lose no change.
Quiet == ~due /\ \A t \in Threads : th[t].pc = "idle"
ListCatchesUp == Quiet /\ ~overtaken /\ "list" \notin missed => cache = ShownNow

\* Then no complete file of a known seat is left under another name either, so
\* that the next login finds the canonical name free: a write, rename, chmod or
\* removal that failed is tried again, its own traces bring the watcher back.
\* A read, or an open of the temporary file, that failed brings no event: the
\* file may stay where it is until something else happens in the directory.
EveryFileMoved ==
  Quiet /\ watching = "yes" /\ "move" \notin missed => \A n \in Names : ~Moves(n, files[n])

\* A toggle that counted a list which was true, alone on the directory, never
\* disables the last enabled account (manager.go:123).
OneEnabledKept ==
  [][\A t \in Threads :
       ToggleWrite(t) /\ th[t].sure /\ ~risky => EnabledIn(ShownNow') # {}]_fileVars
=============================================================================
