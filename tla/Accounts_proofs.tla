---------------------------- MODULE Accounts_proofs ----------------------------
(***************************************************************************)
(* Proofs about the accounts: their files and the published list           *)
(* (AccountFiles), for any number of seats, goroutines, logins and calls,  *)
(* then the quota cards that follow the list (UsageTracker), for any       *)
(* number of changes, refreshes and observations.                          *)
(***************************************************************************)
EXTENDS AccountFiles, UsageTracker, FiniteSetTheorems, WellFoundedInduction, TLAPS

-----------------------------------------------------------------------------
(* Names, contents and goroutines *)

\* The names are distinct, and the constants of the model have their types.
LEMMA NamesAre ==
  /\ Canon \in Names /\ Side \in Names /\ Seats \subseteq Names /\ Names = {Canon, Side} \cup Seats
  /\ Canon # Side /\ Canon \notin Seats /\ Side \notin Seats /\ NoSeat \notin Seats
  /\ "tmp" \notin Names /\ "gone" \notin Names /\ "no" # Canon /\ "gone" # Canon
  /\ 0 \in 0 .. MaxLogins /\ MaxLogins \in Nat
<1>1. Names = {Canon, Side} \cup Seats /\ Canon = "canon" /\ Side = "side"
  BY DEF Names, Canon, Side
<1>2. /\ NoSeat \notin Seats /\ "canon" \notin Seats /\ "side" \notin Seats
      /\ "tmp" \notin Seats /\ "gone" \notin Seats /\ MaxLogins \in Nat
  BY AccountAssumption
<1> QED
  BY <1>1, <1>2

\* What a name can hold, and what the daemon makes of it.
LEMMA ContentsAre ==
  /\ Absent \in Contents /\ Empty \in Contents /\ Broken \in Contents
  /\ ~Parses(Absent) /\ ~Parses(Empty) /\ ~Parses(Broken) /\ Absent # Empty
  /\ \A s \in Seats \cup {NoSeat}, k \in 0 .. MaxLogins, d \in BOOLEAN :
        /\ Full(s, k, d) \in Contents /\ Parses(Full(s, k, d))
        /\ Full(s, k, d).seat = s /\ Full(s, k, d).tok = k /\ Full(s, k, d).disabled = d
  /\ \A c \in Contents : Shown(c) \in {"none", "off", "on"}
  /\ \A n \in Names, c \in Contents : Moves(n, c) => Parses(c) /\ c.seat \in Seats /\ c.seat # n /\ c # Absent
  /\ NoList \in Lists
<1>1. /\ Absent \in Contents /\ Empty \in Contents /\ Broken \in Contents
      /\ ~Parses(Absent) /\ ~Parses(Empty) /\ ~Parses(Broken) /\ Absent # Empty
  BY NamesAre DEF Absent, Empty, Broken, Only, Contents, Parses
<1>2. \A s \in Seats \cup {NoSeat}, k \in 0 .. MaxLogins, d \in BOOLEAN :
        /\ Full(s, k, d) \in Contents /\ Parses(Full(s, k, d))
        /\ Full(s, k, d).seat = s /\ Full(s, k, d).tok = k /\ Full(s, k, d).disabled = d
  BY DEF Full, Contents, Parses
<1>3. \A c \in Contents : Shown(c) \in {"none", "off", "on"}
  BY DEF Shown
<1>4. \A n \in Names, c \in Contents : Moves(n, c) => Parses(c) /\ c.seat \in Seats /\ c.seat # n /\ c # Absent
  BY <1>1 DEF Moves
<1>5. NoList \in Lists
  BY DEF NoList, Lists
<1> QED
  BY <1>1, <1>2, <1>3, <1>4, <1>5

\* A goroutine with nothing to do, and one that begins the scan after a change.
LEMMA IdleIs ==
  /\ Idle \in Goroutine /\ Idle.pc = "idle" /\ ~Idle.sure
  /\ Rescan \in Goroutine /\ Rescan.pc = "ls" /\ Rescan.again = 1
<1>1. Idle \in Goroutine
  BY NamesAre, ContentsAre DEF Idle, Goroutine
<1>2. Idle.pc = "idle" /\ ~Idle.sure
  BY DEF Idle
<1> DEFINE once == 1
<1>3. once \in 0 .. 2 /\ Rescan = [Idle EXCEPT !.pc = "ls", !.again = once] /\ once = 1
  BY DEF Rescan
<1> HIDE DEF once
<1>4. Rescan \in Goroutine /\ Rescan.pc = "ls" /\ Rescan.again = once
  BY <1>1, <1>3 DEF Goroutine
<1> QED
  BY <1>1, <1>2, <1>3, <1>4

\* A daemon that starts: run() alone, at its first scan.
LEMMA BootIs ==
  ASSUME NEW t \in Threads
  PROVE  /\ Boot(t) \in [Threads -> Goroutine]
         /\ Boot(t)[t].pc = "ls" /\ Boot(t)[t].again = 1
         /\ \A u \in Threads \ {t} : Boot(t)[u] = Idle
<1>1. Boot(t) = [u \in Threads |-> IF u = t THEN Rescan ELSE Idle]
  BY DEF Boot, Rescan
<1> QED
  BY <1>1, IdleIs

\* What NextName and ListNames make of a goroutine.
LEMMA MigratingIs ==
  ASSUME NEW r \in Goroutine, r.again # 0, NEW left \in SUBSET Names
  PROVE  /\ Migrating(r, left) \in Goroutine
         /\ Migrating(r, left).todo = left /\ Migrating(r, left).sure = r.sure
         /\ left # {} => Migrating(r, left).pc = "migrate" /\ Migrating(r, left).again = r.again
         /\ left = {} /\ r.again = 2 => Migrating(r, left).pc = "ls" /\ Migrating(r, left).again = 1
         /\ left = {} /\ r.again # 2 => Migrating(r, left).pc = "readdir"
<1> DEFINE again == IF left = {} THEN r.again - 1 ELSE r.again
           pc == CASE left # {} -> "migrate" [] left = {} /\ r.again = 2 -> "ls" [] OTHER -> "readdir"
<1>1. r.again \in 1 .. 2
  BY DEF Goroutine
<1>2. /\ again \in 0 .. 2 /\ (left # {} => again = r.again) /\ (left = {} /\ r.again = 2 => again = 1)
      /\ (left # {} => pc = "migrate") /\ (left = {} /\ r.again = 2 => pc = "ls")
      /\ (left = {} /\ r.again # 2 => pc = "readdir")
  BY <1>1
<1>3. pc \in {"migrate", "ls", "readdir"}
  BY <1>2
<1>4. Migrating(r, left) = [r EXCEPT !.todo = left, !.data = Absent, !.fd = "gone", !.name = Canon,
                                     !.again = again, !.pc = pc]
  BY DEF Migrating
<1> HIDE DEF again, pc
<1> DEFINE new == [r EXCEPT !.todo = left, !.data = Absent, !.fd = "gone", !.name = Canon,
                            !.again = again, !.pc = pc]
<1>5. /\ new \in Goroutine /\ new.todo = left /\ new.sure = r.sure
      /\ new.pc = pc /\ new.again = again
  <2>1. new \in Goroutine
    BY <1>2, <1>3, NamesAre, ContentsAre DEF Goroutine
  <2>2. /\ new.todo = left /\ new.sure = r.sure /\ new.pc = pc /\ new.again = again
    BY DEF Goroutine
  <2> QED
    BY <2>1, <2>2
<1>6. Migrating(r, left) = new
  BY <1>4
<1> HIDE DEF new
<1> QED
  BY <1>2, <1>5, <1>6

\* The fields of a goroutine that say what it is at, all but the file it holds open.
SameWork(g, u) ==
  /\ g[u].pc = th[u].pc /\ g[u].name = th[u].name /\ g[u].data = th[u].data
  /\ g[u].again = th[u].again /\ g[u].todo = th[u].todo /\ g[u].list = th[u].list
  /\ g[u].sure = th[u].sure /\ g[u].older = th[u].older /\ g[u].late = th[u].late

\* Relinking changes nothing but the open file.
LEMMA RelinkedIs ==
  ASSUME NEW g \in [Threads -> Goroutine], NEW n, NEW to \in Names \cup {"tmp", "gone"}
  PROVE  /\ Relinked(g, n, to) \in [Threads -> Goroutine]
         /\ \A u \in Threads :
              /\ Relinked(g, n, to)[u].pc = g[u].pc /\ Relinked(g, n, to)[u].name = g[u].name
              /\ Relinked(g, n, to)[u].data = g[u].data /\ Relinked(g, n, to)[u].again = g[u].again
              /\ Relinked(g, n, to)[u].todo = g[u].todo /\ Relinked(g, n, to)[u].list = g[u].list
              /\ Relinked(g, n, to)[u].sure = g[u].sure /\ Relinked(g, n, to)[u].older = g[u].older
              /\ Relinked(g, n, to)[u].late = g[u].late
<1>1. ASSUME NEW u \in Threads
      PROVE  /\ [g[u] EXCEPT !.fd = to] \in Goroutine
             /\ [g[u] EXCEPT !.fd = to].pc = g[u].pc /\ [g[u] EXCEPT !.fd = to].name = g[u].name
             /\ [g[u] EXCEPT !.fd = to].data = g[u].data /\ [g[u] EXCEPT !.fd = to].again = g[u].again
             /\ [g[u] EXCEPT !.fd = to].todo = g[u].todo /\ [g[u] EXCEPT !.fd = to].list = g[u].list
             /\ [g[u] EXCEPT !.fd = to].sure = g[u].sure /\ [g[u] EXCEPT !.fd = to].older = g[u].older
             /\ [g[u] EXCEPT !.fd = to].late = g[u].late
  BY DEF Goroutine
<1> QED
  BY <1>1 DEF Relinked

-----------------------------------------------------------------------------
\* The last tokens of a seat exist: the tokens in the directory are bounded.
LEMMA LastToken ==
  ASSUME NEW S \in SUBSET (0 .. MaxLogins), S # {}
  PROVE  \E k \in S : \A j \in S : j <= k
<1> DEFINE T == {MaxLogins - k : k \in S}
<1>0. MaxLogins \in Nat
  BY NamesAre
<1>1. T \subseteq Nat /\ T # {}
  <2>1. \A k \in S : MaxLogins - k \in Nat
    BY <1>0
  <2> QED
    BY <2>1
<1> HIDE DEF T
<1>2. PICK m \in T : \A y \in T : ~(<<y, m>> \in OpToRel(<, Nat))
  BY <1>1, NatLessThanWellFounded, WFMin
<1>3. \A y \in T : m <= y
  <2>1. \A x, y \in Nat : x < y => <<x, y>> \in OpToRel(<, Nat)
    BY DEF OpToRel
  <2>2. ASSUME NEW y \in T PROVE m <= y
    <3>1. m \in Nat /\ y \in Nat /\ ~(y < m)
      BY <1>1, <1>2, <2>1
    <3> QED
      BY <3>1
  <2> QED
    BY <2>2
<1>4. PICK k \in S : m = MaxLogins - k
  BY DEF T
<1>5. ASSUME NEW j \in S PROVE j <= k
  <2>1. MaxLogins - j \in T
    BY DEF T
  <2> QED
    BY <1>0, <1>3, <1>4, <2>1
<1> QED
  BY <1>5

\* The last tokens of the seats are tokens, or -1.
LEMMA KeptIs ==
  ASSUME NEW fs \in [Names -> Contents]
  PROVE  Kept(fs) \in [Seats -> -1 .. MaxLogins]
<1>1. ASSUME NEW s \in Seats
      PROVE  (IF Toks(fs, s) = {} THEN -1
              ELSE CHOOSE k \in Toks(fs, s) : \A j \in Toks(fs, s) : j <= k) \in -1 .. MaxLogins
  <2>1. Toks(fs, s) \subseteq 0 .. MaxLogins
    BY DEF Toks, Contents
  <2> DEFINE S == Toks(fs, s)
  <2> HIDE DEF S
  <2>2. CASE S # {}
    <3>1. (CHOOSE k \in S : \A j \in S : j <= k) \in S
      BY <2>1, <2>2, LastToken DEF S
    <3> QED
      BY <2>1, <2>2, <3>1, NamesAre DEF S
  <2> QED
    BY <2>2, NamesAre DEF S
<1> QED
  BY <1>1 DEF Kept

-----------------------------------------------------------------------------
(* What each step makes of the goroutines. *)

OthersStay(t) == th' \in [Threads -> Goroutine] /\ \A u \in Threads \ {t} : SameWork(th', u)
Apart(t) == th' \in [Threads -> Goroutine] /\ \A u \in Threads \ {t} : th'[u] = th[u]

\* A step that sets the goroutine t and no other.
LEMMA ThSet ==
  ASSUME FilesTypeOK, NEW t \in Threads, NEW new \in Goroutine, th' = [th EXCEPT ![t] = new]
  PROVE  Apart(t) /\ th'[t] = new
  BY DEF FilesTypeOK, Apart

\* Such a step leaves the others at their work.
LEMMA ApartOthers ==
  ASSUME NEW t \in Threads, Apart(t)
  PROVE  OthersStay(t)
  BY DEF Apart, OthersStay, SameWork

\* A step that takes a name away from those who hold its file open.
LEMMA UnlinkedSet ==
  ASSUME FilesTypeOK, NEW t \in Threads, NEW new \in Goroutine, NEW n, NEW m,
         NEW to \in Names \cup {"tmp", "gone"},
         \/ th' = [Relinked(th, n, "gone") EXCEPT ![t] = new]
         \/ th' = [Relinked(Relinked(th, n, "gone"), m, to) EXCEPT ![t] = new]
  PROVE  OthersStay(t) /\ th'[t] = new
<1>1. th \in [Threads -> Goroutine]
  BY DEF FilesTypeOK
<1> DEFINE g == Relinked(th, n, "gone")
           h == Relinked(g, m, to)
<1>2. g \in [Threads -> Goroutine] /\ \A u \in Threads : SameWork(g, u)
  BY <1>1, RelinkedIs DEF SameWork
<1> HIDE DEF g
<1>3. h \in [Threads -> Goroutine] /\ \A u \in Threads : SameWork(h, u)
  BY <1>2, RelinkedIs DEF SameWork
<1>4. th' = [g EXCEPT ![t] = new] \/ th' = [h EXCEPT ![t] = new]
  BY DEF g
<1> HIDE DEF h
<1>5. ASSUME NEW f \in [Threads -> Goroutine], th' = [f EXCEPT ![t] = new],
             \A u \in Threads : SameWork(f, u)
      PROVE  OthersStay(t) /\ th'[t] = new
  BY <1>5 DEF OthersStay, SameWork
<1> QED
  BY <1>2, <1>3, <1>4, <1>5

\* A pass of the migration with these names left to do.
Passed(t, left) ==
  /\ th'[t].todo = left /\ th'[t].sure = th[t].sure
  /\ left # {} => th'[t].pc = "migrate" /\ th'[t].again = th[t].again
  /\ left = {} /\ th[t].again = 2 => th'[t].pc = "ls" /\ th'[t].again = 1
  /\ left = {} /\ th[t].again # 2 => th'[t].pc = "readdir"

\* The fields of a goroutine that a step of its migration keeps.
SameMove(t) ==
  /\ th'[t].name = th[t].name /\ th'[t].data = th[t].data /\ th'[t].again = th[t].again
  /\ th'[t].todo = th[t].todo /\ th'[t].sure = th[t].sure

\* A pass of the migration, of the goroutine t.
LEMMA PassIs ==
  ASSUME FilesTypeOK, NEW t \in Threads, NEW left \in SUBSET Names, th[t].again # 0
  PROVE  /\ Migrating(th[t], left) \in Goroutine
         /\ th'[t] = Migrating(th[t], left) => Passed(t, left)
  BY MigratingIs DEF FilesTypeOK, Passed

\* The steps that start the watcher and that its timer takes.
LEMMA WatchSteps ==
  ASSUME FilesTypeOK, NEW t \in Threads
  PROVE  /\ StartWatch(t) => Apart(t) /\ th'[t] = Idle
         /\ TimerFires(t) => Apart(t) /\ th'[t].pc = "ls" /\ th'[t].again = 2 /\ ~th'[t].sure
<1>1. ASSUME StartWatch(t) PROVE Apart(t) /\ th'[t] = Idle
  BY <1>1, IdleIs, ThSet DEF StartWatch
<1>2. ASSUME TimerFires(t)
      PROVE  Apart(t) /\ th'[t].pc = "ls" /\ th'[t].again = 2 /\ ~th'[t].sure
  <2> DEFINE twice == 2
             new == [Idle EXCEPT !.pc = "ls", !.again = twice]
  <2>1. th' = [th EXCEPT ![t] = new]
    BY <1>2 DEF TimerFires
  <2>2. twice = 2 /\ twice \in 0 .. 2
    OBVIOUS
  <2> HIDE DEF twice
  <2>3. new \in Goroutine /\ new.pc = "ls" /\ new.again = twice /\ new.sure = Idle.sure
    BY <2>2, IdleIs DEF Goroutine
  <2> HIDE DEF new
  <2> QED
    BY <2>1, <2>2, <2>3, IdleIs, ThSet
<1> QED
  BY <1>1, <1>2

\* A migration lists the names.
LEMMA ListStep ==
  ASSUME FilesTypeOK, NEW t \in Threads, ListNames(t)
  PROVE  Apart(t) /\ Passed(t, Present)
<1>1. th[t].again # 0 /\ Present \in SUBSET Names /\ th' = [th EXCEPT ![t] = Migrating(th[t], Present)]
  BY DEF ListNames, FilesTypeOK, Present
<1> QED
  BY <1>1, PassIs, ThSet

\* The migration has no file of its pass to move, or takes the next one: the canonical
\* file only when no other of the pass is left.
LEMMA ReadStep ==
  ASSUME FilesTypeOK, NEW t \in Threads, MigrateRead(t)
  PROVE  /\ Apart(t)
         /\ \/ /\ \A n \in th[t].todo : ~Moves(n, files[n])
               /\ Passed(t, {}) /\ UNCHANGED risky
            \/ /\ th'[t].pc = "open"
               /\ th'[t].name \in th[t].todo /\ th'[t].data = files[th'[t].name]
               /\ Moves(th'[t].name, th'[t].data)
               /\ th'[t].again = th[t].again /\ th'[t].sure = th[t].sure
               /\ th'[t].name # Canon => th'[t].todo = th[t].todo
               /\ th'[t].name = Canon =>
                     /\ th'[t].todo = {Canon}
                     /\ \A m \in th[t].todo \ {Canon} : ~Moves(m, files[m])
               /\ Enters(t)
<1> DEFINE suffixed == {n \in th[t].todo \ {Canon} : Moves(n, files[n])}
           movable == IF suffixed # {} THEN suffixed
                      ELSE {n \in th[t].todo \cap {Canon} : Moves(n, files[n])}
<1>1. /\ th[t] \in Goroutine /\ th[t].again # 0 /\ th[t].todo \subseteq Names
      /\ files \in [Names -> Contents]
  BY DEF FilesTypeOK, MigrateRead, Goroutine
<1>2. IF movable = {}
      THEN th' = [th EXCEPT ![t] = Migrating(th[t], {})] /\ UNCHANGED risky
      ELSE /\ \E n \in movable :
                th' = [th EXCEPT ![t] = [th[t] EXCEPT !.pc = "open", !.name = n, !.data = files[n],
                                             !.todo = IF n = Canon THEN {Canon} ELSE @]]
           /\ Enters(t)
  BY DEF MigrateRead, MovesNext
<1>3. /\ \A n \in movable : n \in th[t].todo /\ Moves(n, files[n])
      /\ Canon \in movable => \A m \in th[t].todo \ {Canon} : ~Moves(m, files[m])
      /\ movable = {} => \A n \in th[t].todo : ~Moves(n, files[n])
  OBVIOUS
<1> HIDE DEF movable
<1>4. CASE movable = {}
  <2>1. {} \in SUBSET Names
    OBVIOUS
  <2> QED
    BY <1>1, <1>2, <1>3, <1>4, <2>1, PassIs, ThSet
<1>5. CASE movable # {}
  <2>1. PICK n \in movable :
           th' = [th EXCEPT ![t] = [th[t] EXCEPT !.pc = "open", !.name = n, !.data = files[n],
                                        !.todo = IF n = Canon THEN {Canon} ELSE @]]
    BY <1>2, <1>5
  <2> DEFINE todo == IF n = Canon THEN {Canon} ELSE th[t].todo
             new == [th[t] EXCEPT !.pc = "open", !.name = n, !.data = files[n], !.todo = todo]
  <2>2. n \in th[t].todo /\ n \in Names /\ files[n] \in Contents /\ Moves(n, files[n])
    BY <1>1, <1>3
  <2>3. todo \in SUBSET Names /\ (n = Canon => todo = {Canon}) /\ (n # Canon => todo = th[t].todo)
    BY <1>1, NamesAre
  <2>4. th' = [th EXCEPT ![t] = new]
    BY <1>1, <2>1 DEF Goroutine
  <2> HIDE DEF todo
  <2>5. /\ new \in Goroutine /\ new.pc = "open" /\ new.name = n /\ new.data = files[n]
        /\ new.todo = todo /\ new.again = th[t].again /\ new.sure = th[t].sure
    BY <1>1, <2>2, <2>3 DEF Goroutine
  <2> HIDE DEF new
  <2>6. Apart(t) /\ th'[t] = new
    BY <2>4, <2>5, ThSet
  <2>7. Enters(t)
    BY <1>2, <1>5
  <2> QED
    BY <1>3, <2>2, <2>3, <2>5, <2>6, <2>7
<1> QED
  BY <1>4, <1>5

\* A call that fails before the directory has changed: the file stays, and those of a
\* seat's own name that were to be read are to be read still.
Skips(t) == ListFails(t) \/ ReadFails(t) \/ OpenFails(t) \/ RemoveFails(t)

LEMMA SkipStep ==
  ASSUME FilesTypeOK, NEW t \in Threads, Skips(t)
  PROVE  /\ Apart(t) /\ th[t].again # 0 /\ th[t].pc \in {"ls", "migrate", "open", "remove"}
         /\ UNCHANGED <<files, tmp, cache, due, watching, logging, logins, calls, newest, overtaken>>
         /\ missed' \in {missed, missed \cup {"move"}} /\ risky' \in BOOLEAN /\ (risky => risky')
         /\ th[t].pc # "remove" \/ watching # "yes" => "move" \in missed'
         /\ \E left \in SUBSET Names :
               /\ Passed(t, left)
               /\ \/ risky' \/ left = {}
                  \/ th[t].pc # "ls" /\ (Side \in th[t].todo => Side \in left)
<1>0. /\ th[t].todo \subseteq Names /\ th[t].name \in Names /\ risky \in BOOLEAN
      /\ th[t].again # 0 /\ th[t].pc \in {"ls", "migrate", "open", "remove"}
  BY DEF Skips, ListFails, ReadFails, OpenFails, RemoveFails, FilesTypeOK, Goroutine
<1>1. UNCHANGED <<files, tmp, cache, due, watching, logging, logins, calls, newest, overtaken>>
  BY DEF Skips, ListFails, ReadFails, OpenFails, RemoveFails
<1>2. /\ missed' \in {missed, missed \cup {"move"}} /\ risky' \in BOOLEAN /\ (risky => risky')
      /\ th[t].pc # "remove" \/ watching # "yes" => "move" \in missed'
  BY <1>0 DEF Skips, ListFails, ReadFails, OpenFails, RemoveFails, Skipped
<1>3. \E left \in SUBSET Names :
        /\ th' = [th EXCEPT ![t] = Migrating(th[t], left)]
        /\ \/ risky' \/ left = {}
           \/ th[t].pc # "ls" /\ (Side \in th[t].todo => Side \in left)
  <2>1. CASE ListFails(t)
    BY <2>1 DEF ListFails
  <2>2. CASE ReadFails(t)
    <3>1. PICK n \in MovesNext(t) :
             /\ th' = [th EXCEPT ![t] = Migrating(th[t], IF n = Canon THEN {} ELSE th[t].todo \ {n})]
             /\ Skipped(n)
      BY <2>2 DEF ReadFails
    <3> DEFINE left == IF n = Canon THEN {} ELSE th[t].todo \ {n}
    <3>2. th' = [th EXCEPT ![t] = Migrating(th[t], left)] /\ (n = Side => risky')
      BY <3>1 DEF Skipped
    <3>3. left \in SUBSET Names /\ (left = {} \/ n = Side \/ (Side \in th[t].todo => Side \in left))
      BY <1>0
    <3>4. th[t].pc # "ls"
      BY <2>2 DEF ReadFails
    <3> HIDE DEF left
    <3> QED
      BY <3>2, <3>3, <3>4
  <2>3. CASE OpenFails(t) \/ RemoveFails(t)
    <3>1. /\ th' = [th EXCEPT ![t] = Migrating(th[t], th[t].todo \ {th[t].name})]
          /\ th[t].name = Side => risky'
          /\ th[t].pc # "ls"
      BY <2>3 DEF OpenFails, RemoveFails, Skipped, NextName
    <3> QED
      BY <1>0, <3>1
  <2> QED
    BY <2>1, <2>2, <2>3 DEF Skips
<1>4. PICK left \in SUBSET Names :
        /\ th' = [th EXCEPT ![t] = Migrating(th[t], left)]
        /\ \/ risky' \/ left = {}
           \/ th[t].pc # "ls" /\ (Side \in th[t].todo => Side \in left)
  BY <1>3
<1>5. Apart(t) /\ Passed(t, left)
  BY <1>0, <1>4, PassIs, ThSet
<1> QED
  BY <1>0, <1>1, <1>2, <1>4, <1>5

\* A migration opens the temporary file.
LEMMA OpenStep ==
  ASSUME FilesTypeOK, NEW t \in Threads, OpenTemp(t)
  PROVE  Apart(t) /\ th'[t].pc = "fill" /\ th'[t].fd = "tmp" /\ SameMove(t)
<1> DEFINE new == [th[t] EXCEPT !.pc = "fill", !.fd = "tmp"]
<1>1. th[t] \in Goroutine /\ th' = [th EXCEPT ![t] = new]
  BY DEF OpenTemp, FilesTypeOK
<1>2. /\ new \in Goroutine /\ new.pc = "fill" /\ new.fd = "tmp" /\ new.name = th[t].name
      /\ new.data = th[t].data /\ new.again = th[t].again /\ new.todo = th[t].todo
      /\ new.sure = th[t].sure
  BY <1>1 DEF Goroutine
<1> HIDE DEF new
<1> QED
  BY <1>1, <1>2, ThSet DEF SameMove

\* A migration writes it.
LEMMA FillStep ==
  ASSUME FilesTypeOK, NEW t \in Threads, FillTemp(t)
  PROVE  Apart(t) /\ th'[t].pc = "rename" /\ SameMove(t)
<1> DEFINE new == [th[t] EXCEPT !.pc = "rename", !.fd = "gone"]
<1>1. th[t] \in Goroutine /\ th' = [th EXCEPT ![t] = new]
  BY DEF FillTemp, FilesTypeOK
<1>2. /\ new \in Goroutine /\ new.pc = "rename" /\ new.name = th[t].name
      /\ new.data = th[t].data /\ new.again = th[t].again /\ new.todo = th[t].todo
      /\ new.sure = th[t].sure
  BY <1>1 DEF Goroutine
<1> HIDE DEF new
<1> QED
  BY <1>1, <1>2, ThSet DEF SameMove

\* A migration goes on to its next name.
LEMMA NextNameIs ==
  ASSUME FilesTypeOK, NEW t \in Threads, th[t].pc \in {"fill", "rename", "remove"}
  PROVE  /\ NextName(th[t]) \in Goroutine
         /\ th'[t] = NextName(th[t]) => Passed(t, th[t].todo \ {th[t].name})
<1>1. th[t].todo \ {th[t].name} \in SUBSET Names /\ th[t].again # 0
  BY DEF FilesTypeOK, Goroutine
<1> QED
  BY <1>1, PassIs DEF NextName

\* A write that fails ends the move of this name.
LEMMA FailStep ==
  ASSUME FilesTypeOK, NEW t \in Threads, WriteFails(t)
  PROVE  OthersStay(t) /\ Passed(t, th[t].todo \ {th[t].name})
<1>1. th[t].todo \ {th[t].name} \in SUBSET Names /\ th[t] \in Goroutine /\ th[t].again # 0
  BY DEF FilesTypeOK, Goroutine, WriteFails
<1> DEFINE r == NextName(th[t])
           left == th[t].todo \ {th[t].name}
           g == [th EXCEPT ![t] = r]
<1>2. /\ r \in Goroutine /\ r.todo = left /\ r.sure = th[t].sure
      /\ left # {} => r.pc = "migrate" /\ r.again = th[t].again
      /\ left = {} /\ th[t].again = 2 => r.pc = "ls" /\ r.again = 1
      /\ left = {} /\ th[t].again # 2 => r.pc = "readdir"
  BY <1>1, MigratingIs DEF NextName
<1> HIDE DEF r, left
<1>3. g \in [Threads -> Goroutine] /\ g[t] = r /\ \A u \in Threads \ {t} : SameWork(g, u)
  BY <1>2 DEF FilesTypeOK, SameWork
<1>4. th' = Relinked(g, "tmp", "gone")
  BY DEF WriteFails, r
<1> HIDE DEF g
<1>5. /\ th' \in [Threads -> Goroutine] /\ \A u \in Threads \ {t} : SameWork(th', u)
      /\ th'[t].pc = r.pc /\ th'[t].todo = r.todo /\ th'[t].sure = r.sure /\ th'[t].again = r.again
  BY <1>3, <1>4, RelinkedIs DEF SameWork
<1> QED
  BY <1>2, <1>5 DEF OthersStay, Passed, left

\* A rename that finds the temporary file takes it; one that does not ends the move.
LEMMA RenameStep ==
  ASSUME FilesTypeOK, NEW t \in Threads, RenameTemp(t)
  PROVE  /\ tmp = Absent => Apart(t) /\ Passed(t, th[t].todo \ {th[t].name})
         /\ tmp # Absent => OthersStay(t) /\ th'[t].pc = "remove" /\ SameMove(t)
<1>1. CASE tmp = Absent
  BY <1>1, NextNameIs, ThSet DEF RenameTemp
<1>2. CASE tmp # Absent
  <2> DEFINE new == [th[t] EXCEPT !.pc = "remove"]
             dest == th[t].data.seat
  <2>0. th[t] \in Goroutine /\ dest \in Names
    BY NamesAre DEF FilesTypeOK, RenameTemp
  <2>1. /\ new \in Goroutine /\ new.pc = "remove" /\ new.name = th[t].name
        /\ new.data = th[t].data /\ new.again = th[t].again /\ new.todo = th[t].todo
        /\ new.sure = th[t].sure
    BY <2>0 DEF Goroutine
  <2>2. th' = [Relinked(Relinked(th, dest, "gone"), "tmp", dest) EXCEPT ![t] = new]
    BY <1>2 DEF RenameTemp, Renames
  <2> HIDE DEF new, dest
  <2> QED
    BY <1>2, <2>0, <2>1, <2>2, UnlinkedSet DEF SameMove
<1> QED
  BY <1>1, <1>2

\* A chmod that fails ends the move.
LEMMA ChmodStep ==
  ASSUME FilesTypeOK, NEW t \in Threads, ChmodFails(t)
  PROVE  OthersStay(t) /\ Passed(t, th[t].todo \ {th[t].name})
<1> DEFINE new == NextName(th[t])
           dest == th[t].data.seat
<1>1. new \in Goroutine /\ (th'[t] = new => Passed(t, th[t].todo \ {th[t].name}))
  BY NextNameIs DEF ChmodFails
<1>2. th' = [Relinked(Relinked(th, dest, "gone"), "tmp", dest) EXCEPT ![t] = new]
  BY DEF ChmodFails, Renames
<1>3. dest \in Names
  BY NamesAre DEF FilesTypeOK, ChmodFails
<1> HIDE DEF new, dest
<1> QED
  BY <1>1, <1>2, <1>3, UnlinkedSet

\* The removal of the source ends the move.
LEMMA RemoveStep ==
  ASSUME FilesTypeOK, NEW t \in Threads, RemoveSource(t)
  PROVE  OthersStay(t) /\ Passed(t, th[t].todo \ {th[t].name})
<1> DEFINE new == NextName(th[t])
<1>1. new \in Goroutine /\ (th'[t] = new => Passed(t, th[t].todo \ {th[t].name}))
  BY NextNameIs DEF RemoveSource
<1>2. th' = [Relinked(th, th[t].name, "gone") EXCEPT ![t] = new]
  BY DEF RemoveSource
<1> HIDE DEF new
<1> QED
  BY <1>1, <1>2, UnlinkedSet

\* The scan reads every name but the canonical one, then that one if it was there.
LEMMA ReadDirStep ==
  ASSUME FilesTypeOK, NEW t \in Threads, ReadDir(t)
  PROVE  /\ Apart(t) /\ th'[t].pc = "parse" /\ th'[t].sure = th[t].sure
         /\ th'[t].todo = Present \cap {Canon} /\ th'[t].older = {u \in Threads \ {t} : Scanning(u)}
         /\ th'[t].list = [n \in Names |-> IF n = Canon THEN "none" ELSE Shown(files[n])]
<1> DEFINE todo == Present \cap {Canon}
           read == [n \in Names |-> IF n = Canon THEN "none" ELSE Shown(files[n])]
           older == {u \in Threads \ {t} : Scanning(u)}
           new == [th[t] EXCEPT !.pc = "parse", !.todo = todo, !.late = FALSE, !.list = read,
                                !.older = older]
<1>1. th[t] \in Goroutine /\ th' = [th EXCEPT ![t] = new] /\ todo \in SUBSET Names
  BY NamesAre DEF ReadDir, FilesTypeOK
<1>2. read \in Lists
  BY ContentsAre DEF Lists, FilesTypeOK
<1>3. older \in SUBSET Threads
  OBVIOUS
<1> HIDE DEF todo, read, older
<1>4. /\ new \in Goroutine /\ new.pc = "parse" /\ new.sure = th[t].sure /\ new.todo = todo
      /\ new.older = older /\ new.list = read
  BY <1>1, <1>2, <1>3 DEF Goroutine
<1> HIDE DEF new
<1> QED
  BY <1>1, <1>4, ThSet DEF todo, read, older

\* A scan that cannot read all.
LEMMA ReadDirFailsStep ==
  ASSUME FilesTypeOK, NEW t \in Threads, ReadDirFails(t)
  PROVE  /\ Apart(t) /\ th'[t].pc = "parse" /\ th'[t].sure = th[t].sure
         /\ UNCHANGED <<files, tmp, cache, due, watching, logging, logins, calls,
                        newest, risky, overtaken>>
         /\ missed' = missed \cup {"list"} /\ th[t].pc = "readdir"
<1>1. PICK unread \in SUBSET Present \ {{}} :
         th' = [th EXCEPT ![t] = [th[t] EXCEPT
                  !.pc = "parse", !.todo = (Present \ unread) \cap {Canon}, !.late = FALSE,
                  !.list = [n \in Names |->
                              IF n \in unread \cup {Canon} THEN "none" ELSE Shown(files[n])],
                  !.older = {u \in Threads \ {t} : Scanning(u)}]]
  BY DEF ReadDirFails
<1> DEFINE todo == (Present \ unread) \cap {Canon}
           read == [n \in Names |-> IF n \in unread \cup {Canon} THEN "none" ELSE Shown(files[n])]
           older == {u \in Threads \ {t} : Scanning(u)}
           new == [th[t] EXCEPT !.pc = "parse", !.todo = todo, !.late = FALSE, !.list = read,
                                !.older = older]
<1>2. th[t] \in Goroutine /\ th' = [th EXCEPT ![t] = new] /\ todo \in SUBSET Names
  BY <1>1, NamesAre DEF FilesTypeOK
<1>3. read \in Lists
  BY ContentsAre DEF Lists, FilesTypeOK
<1>4. older \in SUBSET Threads
  OBVIOUS
<1> HIDE DEF todo, read, older
<1>5. new \in Goroutine /\ new.pc = "parse" /\ new.sure = th[t].sure
  BY <1>2, <1>3, <1>4 DEF Goroutine
<1> HIDE DEF new
<1>6. Apart(t) /\ th'[t] = new
  BY <1>2, <1>5, ThSet
<1> QED
  BY <1>5, <1>6 DEF ReadDirFails

\* The scan reads the canonical file.
LEMMA ParseStep ==
  ASSUME FilesTypeOK, NEW t \in Threads, ParseCanonical(t)
  PROVE  /\ Apart(t) /\ th'[t].pc = "parse" /\ th'[t].sure = th[t].sure
         /\ th'[t].older = th[t].older /\ th'[t].late = th[t].late
         /\ \A n \in Names \ {Canon} : th'[t].list[n] = th[t].list[n]
         /\ th'[t].list[Canon] = Shown(files[Canon])
<1> DEFINE read == [th[t].list EXCEPT ![Canon] = Shown(files[Canon])]
           new == [th[t] EXCEPT !.todo = {}, !.list = read]
<1>1. th[t] \in Goroutine /\ th[t].list \in Lists /\ Canon \in Names
  BY NamesAre DEF FilesTypeOK, Goroutine
<1>2. /\ read \in Lists /\ read[Canon] = Shown(files[Canon])
      /\ \A n \in Names \ {Canon} : read[n] = th[t].list[n]
  BY <1>1, ContentsAre DEF Lists, FilesTypeOK
<1>3. th' = [th EXCEPT ![t] = new]
  BY <1>1 DEF ParseCanonical, Goroutine
<1> HIDE DEF read
<1>4. /\ new \in Goroutine /\ new.pc = th[t].pc /\ new.sure = th[t].sure
      /\ new.older = th[t].older /\ new.late = th[t].late /\ new.list = read
  BY <1>1, <1>2 DEF Goroutine
<1> HIDE DEF new
<1>5. th[t].pc = "parse"
  BY DEF ParseCanonical
<1> QED
  BY <1>2, <1>3, <1>4, <1>5, ThSet

\* A list that is published makes those late that were read before it.
LEMMA PublishStep ==
  ASSUME FilesTypeOK, NEW t \in Threads, Publish(t)
  PROVE  /\ th' \in [Threads -> Goroutine]
         /\ watching = "no" => th'[t].pc = "watch" /\ ~th'[t].sure
         /\ watching # "no" => th'[t] = Idle
         /\ \A u \in Threads \ {t} :
              /\ th'[u].pc = th[u].pc /\ th'[u].name = th[u].name /\ th'[u].data = th[u].data
              /\ th'[u].fd = th[u].fd /\ th'[u].again = th[u].again /\ th'[u].todo = th[u].todo
              /\ th'[u].list = th[u].list /\ th'[u].sure = th[u].sure
              /\ th'[u].older = th[u].older \ {t}
              /\ (th[u].late \/ u \in th[t].older) => th'[u].late
<1> DEFINE after == [Idle EXCEPT !.pc = "watch"]
           late(u) == th[u].late \/ u \in th[t].older
           older(u) == th[u].older \ {t}
<1>0. \A u \in Threads : th[u] \in Goroutine
  BY DEF FilesTypeOK
<1>1. after \in Goroutine /\ after.pc = "watch" /\ after.sure = Idle.sure
  BY IdleIs DEF Goroutine
<1>2. th' = [u \in Threads |->
              IF u = t THEN IF watching = "no" THEN after ELSE Idle
              ELSE [th[u] EXCEPT !.older = older(u), !.late = late(u)]]
  BY DEF Publish
<1>3. \A u \in Threads : late(u) \in BOOLEAN /\ older(u) \in SUBSET Threads
  BY <1>0 DEF Goroutine
<1>4. \A u \in Threads : (th[u].late \/ u \in th[t].older) => late(u)
  OBVIOUS
<1> HIDE DEF after, late
<1>5. ASSUME NEW u \in Threads \ {t}
      PROVE  /\ th'[u] \in Goroutine
             /\ th'[u].pc = th[u].pc /\ th'[u].name = th[u].name /\ th'[u].data = th[u].data
             /\ th'[u].fd = th[u].fd /\ th'[u].again = th[u].again /\ th'[u].todo = th[u].todo
             /\ th'[u].list = th[u].list /\ th'[u].sure = th[u].sure
             /\ th'[u].older = older(u) /\ th'[u].late = late(u)
  <2> DEFINE o == older(u)
             l == late(u)
  <2>1. th'[u] = [th[u] EXCEPT !.older = o, !.late = l]
    BY <1>2
  <2>2. o \in SUBSET Threads /\ l \in BOOLEAN /\ th[u] \in Goroutine
    BY <1>0, <1>3
  <2> HIDE DEF o, l
  <2>3. /\ th'[u] \in Goroutine
        /\ th'[u].pc = th[u].pc /\ th'[u].name = th[u].name /\ th'[u].data = th[u].data
        /\ th'[u].fd = th[u].fd /\ th'[u].again = th[u].again /\ th'[u].todo = th[u].todo
        /\ th'[u].list = th[u].list /\ th'[u].sure = th[u].sure
        /\ th'[u].older = o /\ th'[u].late = l
    BY <2>1, <2>2 DEF Goroutine
  <2> QED
    BY <2>3 DEF o, l
<1>6. th'[t] = IF watching = "no" THEN after ELSE Idle
  BY <1>2
<1>7. th'[t] \in Goroutine
  BY <1>1, <1>6, IdleIs
<1>8. th' \in [Threads -> Goroutine]
  BY <1>2, <1>5, <1>7
<1> QED
  BY <1>1, <1>4, <1>5, <1>6, <1>8, IdleIs

\* A call begins with an account of the published list.
LEMMA CallStep ==
  ASSUME FilesTypeOK, NEW t \in Threads, Call(t)
  PROVE  Apart(t) /\ th'[t].pc \in {"toggle", "delete"} /\ ~th'[t].sure
<1>1. PICK n \in Names, pc \in {"toggle", "delete"} :
         th' = [th EXCEPT ![t] = [Idle EXCEPT !.pc = pc, !.name = n]]
  BY DEF Call
<1> DEFINE new == [Idle EXCEPT !.pc = pc, !.name = n]
<1>2. new \in Goroutine /\ new.pc = pc /\ new.sure = Idle.sure
  BY IdleIs DEF Goroutine
<1> HIDE DEF new
<1>3. th' = [th EXCEPT ![t] = new]
  BY <1>1 DEF new
<1> QED
  BY <1>2, <1>3, IdleIs, ThSet

\* A toggle reads its file, or ends when that is no account.
LEMMA ToggleReadStep ==
  ASSUME FilesTypeOK, NEW t \in Threads, ToggleRead(t)
  PROVE  /\ Apart(t)
         /\ \/ th'[t] = Idle /\ UNCHANGED risky
            \/ /\ Parses(files[th[t].name])
               /\ th'[t].pc \in {"write", "count"} /\ th'[t].name = th[t].name
               /\ th'[t].data = files[th[t].name] /\ th'[t].sure = th[t].sure
               /\ Enters(t)
<1> DEFINE c == files[th[t].name]
           pc == IF c.disabled THEN "write" ELSE "count"
           new == [th[t] EXCEPT !.data = c, !.pc = pc]
<1>1. th[t] \in Goroutine /\ c \in Contents
  BY DEF FilesTypeOK, Goroutine
<1>2. CASE Parses(c)
  <2>1. th' = [th EXCEPT ![t] = new] /\ Enters(t)
    BY <1>1, <1>2 DEF ToggleRead, Goroutine
  <2>2. pc \in {"write", "count"}
    OBVIOUS
  <2> HIDE DEF c, pc
  <2>3. /\ new \in Goroutine /\ new.pc = pc /\ new.name = th[t].name /\ new.data = c
        /\ new.sure = th[t].sure
    BY <1>1, <2>2 DEF Goroutine
  <2> HIDE DEF new
  <2>4. Apart(t) /\ th'[t] = new
    BY <2>1, <2>3, ThSet
  <2>5. c = files[th[t].name]
    BY DEF c
  <2> QED
    BY <1>2, <2>1, <2>2, <2>3, <2>4, <2>5
<1>3. CASE ~Parses(c)
  BY <1>3, IdleIs, ThSet DEF ToggleRead
<1> QED
  BY <1>2, <1>3

\* A toggle goes on when the published list has another enabled account.
LEMMA ToggleCountStep ==
  ASSUME FilesTypeOK, NEW t \in Threads, ToggleCount(t)
  PROVE  /\ Apart(t)
         /\ \/ th'[t] = Idle
            \/ /\ ~(Cardinality(EnabledIn(cache)) <= 1)
               /\ th'[t].pc = "write" /\ th'[t].name = th[t].name /\ th'[t].data = th[t].data
               /\ th'[t].sure => cache = ShownNow
<1> DEFINE few == Cardinality(EnabledIn(cache)) <= 1
           sure == cache = ShownNow
           new == [th[t] EXCEPT !.pc = "write", !.sure = sure]
<1>1. th[t] \in Goroutine /\ th' = [th EXCEPT ![t] = IF few THEN Idle ELSE new]
  BY DEF ToggleCount, FilesTypeOK
<1>2. sure \in BOOLEAN /\ (sure => cache = ShownNow)
  OBVIOUS
<1> HIDE DEF sure
<1>3. /\ new \in Goroutine /\ new.pc = "write" /\ new.name = th[t].name
      /\ new.data = th[t].data /\ new.sure = sure
  BY <1>1, <1>2 DEF Goroutine
<1> HIDE DEF new
<1>4. CASE few
  BY <1>1, <1>4, IdleIs, ThSet
<1>5. CASE ~few
  <2>1. Apart(t) /\ th'[t] = new
    BY <1>1, <1>3, <1>5, ThSet
  <2> QED
    BY <1>2, <1>3, <1>5, <2>1
<1> QED
  BY <1>4, <1>5

\* The steps with which a toggle and a removal end.
LEMMA ChangeSteps ==
  ASSUME FilesTypeOK, NEW t \in Threads
  PROVE  /\ ToggleWrite(t) => OthersStay(t) /\ th'[t] = Rescan
         /\ ToggleFails(t) \/ CallFails(t) => Apart(t) /\ th'[t] = Idle
         /\ DeleteAccount(t) =>
               /\ files[th[t].name] = Absent => Apart(t) /\ th'[t] = Idle
               /\ files[th[t].name] # Absent => OthersStay(t) /\ th'[t] = Rescan
<1>1. ASSUME ToggleWrite(t) PROVE OthersStay(t) /\ th'[t] = Rescan
  <2>1. th' = [Relinked(th, th[t].name, "gone") EXCEPT ![t] = Rescan]
    BY <1>1 DEF ToggleWrite
  <2> QED
    BY <2>1, IdleIs, UnlinkedSet
<1>2. ASSUME ToggleFails(t) \/ CallFails(t) PROVE Apart(t) /\ th'[t] = Idle
  BY <1>2, IdleIs, ThSet DEF ToggleFails, CallFails
<1>3. ASSUME DeleteAccount(t), files[th[t].name] = Absent PROVE Apart(t) /\ th'[t] = Idle
  BY <1>3, IdleIs, ThSet DEF DeleteAccount
<1>4. ASSUME DeleteAccount(t), files[th[t].name] # Absent PROVE OthersStay(t) /\ th'[t] = Rescan
  <2>1. th' = [Relinked(th, th[t].name, "gone") EXCEPT ![t] = Rescan]
    BY <1>4 DEF DeleteAccount
  <2> QED
    BY <2>1, IdleIs, UnlinkedSet
<1> QED
  BY <1>1, <1>2, <1>3, <1>4

\* What a step tells of a change, and the end of an open file's name.
LEMMA TellIs ==
  ASSUME FilesTypeOK, NEW parts \in SUBSET {"list", "move"}
  PROVE  /\ Tell(parts) => /\ due' \in BOOLEAN /\ missed' \subseteq {"list", "move"}
                           /\ watching = "yes" => due'
                           /\ watching # "yes" => parts \subseteq missed'
                           /\ watching # "yes" => due' = due
                           /\ missed \subseteq missed'
         /\ \A n : LoginUnlinked(n) => logging' \in {"no", "gone", Canon} /\ logging' \in {"gone", logging}
<1>1. ASSUME Tell(parts)
      PROVE  /\ due' \in BOOLEAN /\ missed' \subseteq {"list", "move"}
             /\ watching = "yes" => due'
             /\ watching # "yes" => parts \subseteq missed'
             /\ watching # "yes" => due' = due
             /\ missed \subseteq missed'
  BY <1>1 DEF Tell, FilesTypeOK
<1>2. ASSUME NEW n, LoginUnlinked(n)
      PROVE  logging' \in {"no", "gone", Canon} /\ logging' \in {"gone", logging}
  BY <1>2 DEF LoginUnlinked, FilesTypeOK
<1> QED
  BY <1>1, <1>2

-----------------------------------------------------------------------------
(* Types *)

\* A goroutine that migrates has a pass to do, and a seat to move its file to.
Proper(r) ==
  /\ r.again = 0 => r.pc \notin {"ls", "migrate", "open", "fill", "rename", "remove"}
  /\ r.pc \in {"open", "fill", "rename", "remove"} => r.data.seat \in Seats

ThTyped == th \in [Threads -> Goroutine] /\ \A t \in Threads : Proper(th[t])

\* A step of t keeps the goroutines in shape when it keeps t so.
LEMMA ThKept ==
  ASSUME FilesTypeOK, NEW t \in Threads, OthersStay(t), Proper(th'[t])
  PROVE  ThTyped'
<1>1. \A u \in Threads \ {t} : Proper(th'[u])
  BY DEF OthersStay, SameWork, FilesTypeOK, Proper
<1> QED
  BY <1>1 DEF OthersStay, ThTyped

\* The shapes a step leaves its goroutine in.
LEMMA ProperSteps ==
  ASSUME FilesTypeOK, NEW t \in Threads
  PROVE  /\ Proper(Idle) /\ Proper(Rescan)
         /\ \A left \in SUBSET Names : th[t].again # 0 /\ Passed(t, left) => Proper(th'[t])
         /\ SameMove(t) /\ th'[t].pc \in {"fill", "rename", "remove"}
               /\ th[t].pc \in {"open", "fill", "rename"} => Proper(th'[t])
<1>1. Proper(Idle) /\ Proper(Rescan)
  BY IdleIs DEF Proper
<1>2. \A left \in SUBSET Names : th[t].again # 0 /\ Passed(t, left) => Proper(th'[t])
  BY DEF Passed, Proper
<1>3. SameMove(t) /\ th'[t].pc \in {"fill", "rename", "remove"} /\ th[t].pc \in {"open", "fill", "rename"}
         => Proper(th'[t])
  BY DEF SameMove, Proper, FilesTypeOK
<1> QED
  BY <1>1, <1>2, <1>3

\* Every step keeps the goroutines in shape.
LEMMA ThStep ==
  ASSUME FilesTypeOK, [FilesNext]_fileVars
  PROVE  ThTyped'
<1>1. ASSUME NEW t \in Threads,
             StartWatch(t) \/ TimerFires(t) \/ Call(t) \/ ToggleRead(t) \/ ToggleCount(t)
             \/ ReadDir(t) \/ ReadDirFails(t) \/ ParseCanonical(t) \/ CallFails(t)
      PROVE  ThTyped'
  <2>1. Apart(t) /\ th'[t].pc \in {"idle", "toggle", "delete", "write", "count", "parse", "ls"}
    BY <1>1, WatchSteps, CallStep, ToggleReadStep, ToggleCountStep, ReadDirStep, ReadDirFailsStep,
       ParseStep, ChangeSteps, IdleIs
  <2>2. CASE TimerFires(t)
    BY <2>2, WatchSteps, ApartOthers, ThKept DEF Proper
  <2>3. CASE ~TimerFires(t)
    <3>1. th'[t].pc # "ls"
      BY <1>1, <2>3, WatchSteps, CallStep, ToggleReadStep, ToggleCountStep, ReadDirStep,
         ReadDirFailsStep, ParseStep, ChangeSteps, IdleIs
    <3> QED
      BY <2>1, <3>1, ApartOthers, ThKept DEF Proper
  <2> QED
    BY <2>2, <2>3
<1>2. ASSUME NEW t \in Threads,
             ListNames(t) \/ WriteFails(t) \/ ChmodFails(t) \/ RemoveSource(t) \/ Skips(t)
      PROVE  ThTyped'
  <2>1. OthersStay(t) /\ th[t].again # 0 /\ \E left \in SUBSET Names : Passed(t, left)
    <3>1. th[t].todo \ {th[t].name} \in SUBSET Names /\ Present \in SUBSET Names
      BY DEF FilesTypeOK, Goroutine, Present
    <3>2. th[t].again # 0
      BY <1>2, SkipStep DEF ListNames, WriteFails, ChmodFails, RemoveSource, FilesTypeOK
    <3>3. ASSUME ListNames(t) PROVE OthersStay(t) /\ Passed(t, Present)
      BY <3>3, ListStep, ApartOthers
    <3>4. ASSUME WriteFails(t) \/ ChmodFails(t) \/ RemoveSource(t)
          PROVE  OthersStay(t) /\ Passed(t, th[t].todo \ {th[t].name})
      BY <3>4, FailStep, ChmodStep, RemoveStep
    <3>5. ASSUME Skips(t) PROVE OthersStay(t) /\ \E left \in SUBSET Names : Passed(t, left)
      BY <3>5, SkipStep, ApartOthers
    <3> QED
      BY <1>2, <3>1, <3>2, <3>3, <3>4, <3>5
  <2> QED
    BY <2>1, ProperSteps, ThKept
<1>3. ASSUME NEW t \in Threads, MigrateRead(t) PROVE ThTyped'
  <2>1. th[t].again # 0 /\ files \in [Names -> Contents] /\ th[t].todo \subseteq Names
    BY <1>3 DEF MigrateRead, FilesTypeOK, Goroutine
  <2>2. CASE Passed(t, {})
    <3>1. {} \in SUBSET Names
      OBVIOUS
    <3> QED
      BY <1>3, <2>1, <2>2, <3>1, ReadStep, ApartOthers, ProperSteps, ThKept
  <2>3. CASE /\ th'[t].pc = "open" /\ th'[t].name \in th[t].todo
             /\ th'[t].data = files[th'[t].name] /\ Moves(th'[t].name, th'[t].data)
             /\ th'[t].again = th[t].again
    <3>1. th'[t].data.seat \in Seats
      BY <2>1, <2>3, ContentsAre
    <3> QED
      BY <1>3, <2>1, <2>3, <3>1, ReadStep, ApartOthers, ThKept DEF Proper
  <2> QED
    BY <1>3, <2>2, <2>3, ReadStep
<1>4. ASSUME NEW t \in Threads, OpenTemp(t) \/ FillTemp(t) PROVE ThTyped'
  <2>1. Apart(t) /\ SameMove(t) /\ th'[t].pc \in {"fill", "rename"} /\ th[t].pc \in {"open", "fill"}
    BY <1>4, OpenStep, FillStep DEF OpenTemp, FillTemp
  <2> QED
    BY <2>1, ApartOthers, ProperSteps, ThKept
<1>5. ASSUME NEW t \in Threads, RenameTemp(t) PROVE ThTyped'
  <2>1. th[t].again # 0 /\ th[t].pc = "rename" /\ th[t].todo \ {th[t].name} \in SUBSET Names
    BY <1>5 DEF RenameTemp, FilesTypeOK, Goroutine
  <2> QED
    BY <1>5, <2>1, RenameStep, ApartOthers, ProperSteps, ThKept
<1>6. ASSUME NEW t \in Threads, Publish(t) PROVE ThTyped'
  <2>1. \A u \in Threads \ {t} : Proper(th'[u])
    BY <1>6, PublishStep DEF FilesTypeOK, Proper
  <2>2. Proper(th'[t])
    BY <1>6, PublishStep, ProperSteps DEF Proper
  <2> QED
    BY <1>6, <2>1, <2>2, PublishStep DEF ThTyped
<1>7. ASSUME NEW t \in Threads, ToggleWrite(t) \/ ToggleFails(t) \/ DeleteAccount(t) PROVE ThTyped'
  <2>1. OthersStay(t) /\ (th'[t] = Idle \/ th'[t] = Rescan)
    BY <1>7, ChangeSteps, ApartOthers
  <2> QED
    BY <2>1, ProperSteps, ThKept
<1>8. ASSUME UNCHANGED th PROVE ThTyped'
  BY <1>8 DEF FilesTypeOK, ThTyped, Proper
<1>9. CASE Crash
  <2>1. PICK t \in Threads : th' = Boot(t)
    BY <1>9 DEF Crash
  <2> QED
    BY <2>1, BootIs, IdleIs DEF ThTyped, Proper
<1> QED
  BY <1>1, <1>2, <1>3, <1>4, <1>5, <1>6, <1>7, <1>8, <1>9
     DEF FilesNext, Migrate, CheckAuthStatus, ToggleAccountDisabled, LoginOpens, LoginWrites, LoginDies,
         fileVars, Skips

\* The type invariant is inductive.
LEMMA FilesTypeStep == FilesTypeOK /\ [FilesNext]_fileVars => FilesTypeOK'
<1> SUFFICES ASSUME FilesTypeOK, [FilesNext]_fileVars PROVE FilesTypeOK'
  OBVIOUS
<1>0. th' \in [Threads -> Goroutine] /\ \A t \in Threads : Proper(th'[t])
  BY ThStep DEF ThTyped
<1> DEFINE Directory == files' \in [Names -> Contents] /\ tmp' \in Contents
           Histories == /\ newest' \in [Seats -> -1 .. MaxLogins] /\ risky' \in BOOLEAN
                        /\ missed' \subseteq {"list", "move"} /\ overtaken' \in BOOLEAN
           Rest == /\ cache' \in Lists /\ due' \in BOOLEAN /\ watching' \in {"no", "yes", "failed"}
                   /\ logging' \in {"no", "gone", Canon}
                   /\ logins' \in 0 .. MaxLogins /\ calls' \in 0 .. MaxCalls
<1>a. /\ \A t \in Threads : th[t].name \in Names /\ th[t].data \in Contents /\ th[t].list \in Lists
      /\ files \in [Names -> Contents] /\ tmp \in Contents
  BY DEF FilesTypeOK, Goroutine
<1>b. ASSUME UNCHANGED <<files, tmp>> PROVE Directory
  BY <1>a, <1>b
<1>c. ASSUME UNCHANGED <<newest, risky, missed, overtaken>> PROVE Histories
  BY <1>c DEF FilesTypeOK
<1>d. ASSUME UNCHANGED <<cache, due, watching, logging, logins, calls>> PROVE Rest
  BY <1>d DEF FilesTypeOK
<1>e. Changed \/ Disturbed => due' \in BOOLEAN /\ missed' \subseteq {"list", "move"}
  BY TellIs DEF Changed, Disturbed
<1>f. \A n : LoginUnlinked(n) => logging' \in {"no", "gone", Canon}
  BY TellIs
<1>g. ASSUME NEW t \in Threads PROVE Enters(t) \/ Overlaps => risky' \in BOOLEAN
  BY <1>g DEF Enters, Overlaps, FilesTypeOK
<1>h. files' \in [Names -> Contents] => Kept(files') \in [Seats -> -1 .. MaxLogins]
  BY KeptIs
<1>i. failures' \in 0 .. MaxFailures
  <2>1. ASSUME Fails PROVE failures' \in 0 .. MaxFailures
    BY <2>1, AccountAssumption DEF Fails, FilesTypeOK
  <2>2. ASSUME UNCHANGED failures PROVE failures' \in 0 .. MaxFailures
    BY <2>2 DEF FilesTypeOK
  <2>3. ASSUME NEW t \in Threads, Migrate(t) PROVE Fails \/ UNCHANGED failures
    BY <2>3 DEF Migrate, ListNames, ListFails, MigrateRead, ReadFails, OpenTemp, OpenFails, FillTemp,
       WriteFails, RenameTemp, ChmodFails, RemoveSource, RemoveFails
  <2>4. ASSUME NEW t \in Threads, CheckAuthStatus(t) \/ ToggleAccountDisabled(t)
        PROVE  Fails \/ UNCHANGED failures
    BY <2>4 DEF CheckAuthStatus, ReadDir, ReadDirFails, ParseCanonical, Publish,
       ToggleAccountDisabled, ToggleRead, ToggleCount, ToggleWrite, ToggleFails
  <2>5. ASSUME NEW t \in Threads,
               StartWatch(t) \/ TimerFires(t) \/ Call(t) \/ DeleteAccount(t) \/ CallFails(t)
        PROVE  Fails \/ UNCHANGED failures
    BY <2>5 DEF StartWatch, TimerFires, Call, DeleteAccount, CallFails
  <2>6. ASSUME LoginOpens \/ LoginWrites \/ LoginDies \/ Crash \/ UNCHANGED fileVars
        PROVE  UNCHANGED failures
    BY <2>6 DEF LoginOpens, LoginWrites, LoginDies, Crash, fileVars
  <2> QED
    BY <2>1, <2>2, <2>3, <2>4, <2>5, <2>6 DEF FilesNext
<1>1. Directory
  <2>1. ASSUME NEW t \in Threads, FillTemp(t) PROVE Directory
    <3>1. \A c, d \in Contents : Overwrites(c, d) \subseteq Contents
      BY ContentsAre DEF Overwrites
    <3> QED
      BY <1>a, <2>1, <3>1 DEF FillTemp
  <2>2. ASSUME NEW t \in Threads, OpenTemp(t) \/ WriteFails(t) PROVE Directory
    BY <1>a, <2>2, ContentsAre DEF OpenTemp, WriteFails
  <2>3. ASSUME NEW t \in Threads, RenameTemp(t) \/ ChmodFails(t) PROVE Directory
    <3>1. CASE RenameTemp(t) /\ tmp = Absent
      BY <1>b, <3>1 DEF RenameTemp
    <3>2. CASE tmp # Absent
      BY <1>a, <2>3, <3>2, ContentsAre DEF RenameTemp, ChmodFails, Renames
    <3> QED
      BY <2>3, <3>1, <3>2 DEF ChmodFails
  <2>4. ASSUME NEW t \in Threads, RemoveSource(t) \/ DeleteAccount(t) PROVE Directory
    BY <1>a, <2>4, ContentsAre DEF RemoveSource, DeleteAccount
  <2>5. ASSUME NEW t \in Threads, ToggleWrite(t) PROVE Directory
    <3> DEFINE off == ~th[t].data.disabled
               new == [th[t].data EXCEPT !.disabled = off]
    <3>1. off \in BOOLEAN
      OBVIOUS
    <3>2. files' = [files EXCEPT ![th[t].name] = new] /\ UNCHANGED tmp
      BY <1>a, <2>5 DEF ToggleWrite, Contents
    <3> HIDE DEF off
    <3>3. new \in Contents
      BY <1>a, <3>1 DEF Contents
    <3> QED
      BY <1>a, <3>2, <3>3
  <2>6. CASE LoginOpens
    BY <1>a, <2>6, ContentsAre DEF LoginOpens
  <2>7. CASE LoginWrites
    <3>1. PICK s \in Seats \cup {NoSeat} :
             files' = IF logging = "gone" THEN files ELSE [files EXCEPT ![Canon] = Full(s, logins, FALSE)]
      BY <2>7 DEF LoginWrites
    <3>2. Full(s, logins, FALSE) \in Contents /\ UNCHANGED tmp
      BY <2>7, ContentsAre DEF LoginWrites, FilesTypeOK
    <3> QED
      BY <1>a, <3>1, <3>2
  <2>8. ASSUME UNCHANGED <<files, tmp>> PROVE Directory
    BY <1>b, <2>8
  <2>9. ASSUME NEW t \in Threads, Skips(t) \/ ReadDirFails(t) \/ CallFails(t) PROVE Directory
    BY <1>b, <2>9, SkipStep DEF ReadDirFails, CallFails
  <2> QED
    BY <2>1, <2>2, <2>3, <2>4, <2>5, <2>6, <2>7, <2>8, <2>9
       DEF FilesNext, StartWatch, TimerFires, Migrate, ListNames, MigrateRead, CheckAuthStatus, ReadDir,
           ParseCanonical, Publish, Call, ToggleAccountDisabled, ToggleRead, ToggleCount, ToggleFails,
           LoginDies, Crash, fileVars, Skips
<1>2. Histories /\ Rest
  <2> USE DEF history
  <2>1. ASSUME NEW t \in Threads,
               StartWatch(t) \/ TimerFires(t) \/ ListNames(t) \/ ReadDir(t) \/ ParseCanonical(t)
               \/ ToggleCount(t)
        PROVE  Histories /\ Rest
    BY <2>1 DEF StartWatch, TimerFires, ListNames, ReadDir, ParseCanonical, ToggleCount, FilesTypeOK
  <2>11. ASSUME NEW t \in Threads, Call(t) PROVE Histories /\ Rest
    <3>1. calls' \in 0 .. MaxCalls
      BY <2>11, AccountAssumption DEF Call, FilesTypeOK
    <3> QED
      BY <2>11, <3>1 DEF Call, FilesTypeOK
  <2>2. ASSUME NEW t \in Threads, MigrateRead(t) \/ ToggleRead(t) PROVE Histories /\ Rest
    <3>1. risky' \in BOOLEAN
      BY <1>g, <2>2, ReadStep, ToggleReadStep DEF FilesTypeOK
    <3> QED
      BY <2>2, <3>1 DEF MigrateRead, ToggleRead, FilesTypeOK
  <2>3. ASSUME NEW t \in Threads, OpenTemp(t) \/ FillTemp(t) \/ RemoveSource(t) \/ ToggleWrite(t) \/ ToggleFails(t)
        PROVE  Histories /\ Rest
    BY <1>e, <1>f, <2>3 DEF OpenTemp, FillTemp, RemoveSource, ToggleWrite, ToggleFails, FilesTypeOK
  <2>4. ASSUME NEW t \in Threads, WriteFails(t) PROVE Histories /\ Rest
    BY <1>e, <2>4 DEF WriteFails, FilesTypeOK
  <2>5. ASSUME NEW t \in Threads, RenameTemp(t) \/ ChmodFails(t) PROVE Histories /\ Rest
    BY <1>e, <1>f, <2>5 DEF RenameTemp, ChmodFails, Renames, FilesTypeOK
  <2>13. ASSUME NEW t \in Threads, Skips(t) \/ ReadDirFails(t) \/ CallFails(t) PROVE Histories /\ Rest
    BY <2>13, SkipStep DEF ReadDirFails, CallFails, FilesTypeOK
  <2>6. ASSUME NEW t \in Threads, Publish(t) PROVE Histories /\ Rest
    <3>1. cache' \in Lists /\ overtaken' \in BOOLEAN
      BY <1>a, <2>6 DEF Publish, FilesTypeOK, Goroutine
    <3> QED
      BY <2>6, <3>1 DEF Publish, FilesTypeOK
  <2>7. ASSUME NEW t \in Threads, DeleteAccount(t) PROVE Histories /\ Rest
    <3>1. CASE files[th[t].name] = Absent
      BY <2>7, <3>1 DEF DeleteAccount, FilesTypeOK
    <3>2. CASE files[th[t].name] # Absent
      BY <1>1, <1>e, <1>f, <1>g, <1>h, <2>7, <3>2 DEF DeleteAccount, FilesTypeOK
    <3> QED
      BY <3>1, <3>2
  <2>8. CASE LoginOpens \/ LoginWrites
    <3>1. newest' \in [Seats -> -1 .. MaxLogins]
      BY <1>1, <1>h, <2>8 DEF LoginOpens, LoginWrites
    <3>2. risky' \in BOOLEAN /\ due' \in BOOLEAN /\ missed' \subseteq {"list", "move"}
      BY <1>e, <2>8 DEF LoginOpens, LoginWrites, Overlaps, FilesTypeOK
    <3>3. logins' \in 0 .. MaxLogins
      <4>1. logins \in 0 .. MaxLogins /\ MaxLogins \in Nat
        BY AccountAssumption DEF FilesTypeOK
      <4>2. CASE LoginOpens
        <5>1. logins < MaxLogins /\ logins' = logins + 1
          BY <4>2 DEF LoginOpens
        <5> QED
          BY <4>1, <5>1
      <4>3. CASE LoginWrites
        BY <4>1, <4>3 DEF LoginWrites
      <4> QED
        BY <2>8, <4>2, <4>3
    <3>4. logging' \in {"no", "gone", Canon} /\ UNCHANGED <<cache, watching, calls, overtaken>>
      BY <2>8 DEF LoginOpens, LoginWrites
    <3> QED
      BY <3>1, <3>2, <3>3, <3>4 DEF FilesTypeOK
  <2>9. CASE LoginDies
    BY <2>9 DEF LoginDies, FilesTypeOK
  <2>12. CASE Crash
    BY <2>12, ContentsAre DEF Crash, FilesTypeOK
  <2>10. CASE UNCHANGED fileVars
    BY <2>10 DEF fileVars, FilesTypeOK
  <2> QED
    BY <2>1, <2>2, <2>3, <2>4, <2>5, <2>6, <2>7, <2>8, <2>9, <2>10, <2>11, <2>12, <2>13
       DEF FilesNext, Migrate, CheckAuthStatus, ToggleAccountDisabled, Skips
<1> QED
  BY <1>0, <1>1, <1>2, <1>i DEF FilesTypeOK, Proper

\* The initial states are typed.
LEMMA InitTyped == FilesInit => FilesTypeOK
<1> SUFFICES ASSUME FilesInit PROVE FilesTypeOK
  OBVIOUS
<1>1. PICK s \in Seats :
        files = [n \in Names |-> IF n = Canon \/ n = s THEN Absent
                                 ELSE Full(IF n = Side THEN s ELSE n, 0, FALSE)]
  BY DEF FilesInit
<1>2. ASSUME NEW n \in Names PROVE files[n] \in Contents
  <2>1. n # Canon => (IF n = Side THEN s ELSE n) \in Seats \cup {NoSeat}
    BY NamesAre
  <2> QED
    BY <1>1, <2>1, ContentsAre, NamesAre
<1>3. files \in [Names -> Contents]
  BY <1>1, <1>2
<1>4. PICK t \in Threads : th = Boot(t)
  BY DEF FilesInit
<1>5. th \in [Threads -> Goroutine] /\ \A u \in Threads : Proper(th[u])
  BY <1>4, BootIs, IdleIs DEF Proper
<1>6. /\ newest = [q \in Seats |-> 0] /\ 0 \in -1 .. MaxLogins
      /\ logins \in 0 .. MaxLogins /\ calls \in 0 .. MaxCalls /\ failures \in 0 .. MaxFailures
  BY AccountAssumption DEF FilesInit
<1>7. newest \in [Seats -> -1 .. MaxLogins]
  BY <1>6
<1>8. /\ tmp \in Contents /\ cache \in Lists /\ due \in BOOLEAN
      /\ watching \in {"no", "yes", "failed"} /\ logging \in {"no", "gone", Canon}
      /\ risky \in BOOLEAN /\ missed \subseteq {"list", "move"} /\ overtaken \in BOOLEAN
  BY ContentsAre DEF FilesInit
<1> QED
  BY <1>3, <1>5, <1>6, <1>7, <1>8 DEF FilesTypeOK, Proper

\* Every variable keeps its type, and a migration has a seat to move its file to.
THEOREM FilesTyped == FilesSpec => []FilesTypeOK
  BY InitTyped, FilesTypeStep, PTL DEF FilesSpec

-----------------------------------------------------------------------------
(* The published list *)

\* A scan of the directory is to come: the watcher has an event, or a goroutine is on
\* its way to read the directory.
Ahead(t) == th[t].pc \in {"ls", "migrate", "open", "fill", "rename", "remove", "readdir"}
WillScan == due \/ \E t \in Threads : Ahead(t)

\* The scan that read the directory last: what it has read is so still, and every
\* other scan under way is older.
LatestScan(t) ==
  /\ Scanning(t)
  /\ \A n \in Names \ {Canon} : th[t].list[n] = Shown(files[n])
  /\ th[t].todo = {} => th[t].list[Canon] = Shown(files[Canon])
  /\ \A u \in Threads \ {t} : Scanning(u) => u \in th[t].older

\* Unless a scan is to come or the watcher has missed a change, the list is under way,
\* or published and only late scans are left to overtake it.
ListInv ==
  \/ WillScan \/ "list" \in missed
  \/ \E t \in Threads : LatestScan(t)
  \/ (\A u \in Threads : Scanning(u) => th[u].late) /\ (overtaken \/ cache = ShownNow)

\* What is told of a change, and a goroutine on its way, leave a scan to come.
LEMMA ScanAhead ==
  ASSUME FilesTypeOK,
         \/ Changed \/ Disturbed
         \/ \E t \in Threads : Ahead(t)'
  PROVE  ListInv'
<1>1. CASE Changed \/ Disturbed
  <2>1. due' \/ "list" \in missed'
    BY <1>1, TellIs DEF Changed, Disturbed, FilesTypeOK
  <2> QED
    BY <2>1 DEF ListInv, WillScan
<1>2. CASE \E t \in Threads : Ahead(t)'
  BY <1>2 DEF ListInv, WillScan
<1> QED
  BY <1>1, <1>2

\* A step that is about something else keeps the list as it is.
LEMMA ListKept ==
  ASSUME ListInv, NEW t \in Threads, Apart(t), ~Ahead(t), ~Scanning(t), ~Scanning(t)',
         UNCHANGED <<files, cache, due, missed, overtaken>>
  PROVE  ListInv'
<1>1. WillScan => WillScan'
  BY DEF WillScan, Ahead, Apart
<1>2. \A u \in Threads : Scanning(u)' <=> Scanning(u)
  BY DEF Apart, Scanning
<1>3. \A u \in Threads : Scanning(u) => th'[u] = th[u]
  BY DEF Apart
<1>4. \A u \in Threads : LatestScan(u) => LatestScan(u)'
  BY <1>2, <1>3 DEF LatestScan
<1>5. cache = ShownNow => cache' = ShownNow'
  BY DEF ShownNow
<1> QED
  BY <1>1, <1>2, <1>3, <1>4, <1>5 DEF ListInv

\* ListInv is inductive.
LEMMA ListStepKept == FilesTypeOK /\ ListInv /\ [FilesNext]_fileVars => ListInv'
<1> SUFFICES ASSUME FilesTypeOK, ListInv, [FilesNext]_fileVars PROVE ListInv'
  OBVIOUS
<1>0. files \in [Names -> Contents] /\ \A t \in Threads : th[t] \in Goroutine
  BY DEF FilesTypeOK
<1>1. ASSUME NEW t \in Threads,
             \/ OpenTemp(t) \/ FillTemp(t) \/ WriteFails(t) \/ ChmodFails(t) \/ RemoveSource(t)
             \/ ToggleWrite(t) \/ ToggleFails(t)
      PROVE  ListInv'
  BY <1>1, ScanAhead
     DEF OpenTemp, FillTemp, WriteFails, ChmodFails, RemoveSource, ToggleWrite, ToggleFails
<1>2. CASE LoginOpens \/ LoginWrites
  BY <1>2, ScanAhead DEF LoginOpens, LoginWrites
<1>3. ASSUME NEW t \in Threads, TimerFires(t) \/ ListNames(t) \/ MigrateRead(t) \/ Skips(t) PROVE ListInv'
  <2>1. Ahead(t)'
    BY <1>3, WatchSteps, ListStep, ReadStep, SkipStep DEF Ahead, Passed
  <2> QED
    BY <2>1, ScanAhead
<1>4. ASSUME NEW t \in Threads, RenameTemp(t) PROVE ListInv'
  <2>1. Ahead(t)'
    BY <1>4, RenameStep DEF Ahead, Passed
  <2> QED
    BY <2>1, ScanAhead
<1>5. ASSUME NEW t \in Threads,
             StartWatch(t) \/ Call(t) \/ CallFails(t) \/ ToggleRead(t) \/ ToggleCount(t)
      PROVE  ListInv'
  <2>1. Apart(t) /\ ~Scanning(t)'
    BY <1>5, WatchSteps, CallStep, ChangeSteps, ToggleReadStep, ToggleCountStep, IdleIs DEF Scanning
  <2>2. ~Ahead(t) /\ ~Scanning(t) /\ UNCHANGED <<files, cache, due, missed, overtaken>>
    BY <1>5 DEF StartWatch, Call, CallFails, ToggleRead, ToggleCount, Ahead, Scanning, history
  <2> QED
    BY <2>1, <2>2, ListKept
<1>6. ASSUME NEW t \in Threads, DeleteAccount(t) PROVE ListInv'
  <2>1. CASE files[th[t].name] = Absent
    <3>1. Apart(t) /\ ~Scanning(t)'
      BY <1>6, <2>1, ChangeSteps, IdleIs DEF Scanning
    <3>2. ~Ahead(t) /\ ~Scanning(t) /\ UNCHANGED <<files, cache, due, missed, overtaken>>
      BY <1>6, <2>1 DEF DeleteAccount, Ahead, Scanning
    <3> QED
      BY <3>1, <3>2, ListKept
  <2>2. CASE files[th[t].name] # Absent
    BY <1>6, <2>2, ScanAhead DEF DeleteAccount
  <2> QED
    BY <2>1, <2>2
<1>7. ASSUME NEW t \in Threads, ReadDir(t) PROVE ListInv'
  <2>1. /\ Apart(t) /\ th'[t].pc = "parse" /\ UNCHANGED files
        /\ th'[t].todo = Present \cap {Canon} /\ th'[t].older = {u \in Threads \ {t} : Scanning(u)}
        /\ th'[t].list = [n \in Names |-> IF n = Canon THEN "none" ELSE Shown(files[n])]
    BY <1>7, ReadDirStep DEF ReadDir
  <2>2. \A n \in Names \ {Canon} : th'[t].list[n] = Shown(files'[n])
    BY <2>1
  <2>3. th'[t].todo = {} => th'[t].list[Canon] = Shown(files'[Canon])
    <3>1. SUFFICES ASSUME Present \cap {Canon} = {} PROVE Shown(files[Canon]) = "none"
      BY <2>1, <3>1, NamesAre
    <3>2. files[Canon] = Absent
      BY <3>1, NamesAre DEF Present
    <3> QED
      BY <3>2, ContentsAre DEF Shown
  <2>4. \A u \in Threads \ {t} : Scanning(u)' => u \in th'[t].older
    BY <2>1 DEF Apart, Scanning
  <2>5. LatestScan(t)'
    BY <2>1, <2>2, <2>3, <2>4 DEF LatestScan, Scanning
  <2> QED
    BY <2>5 DEF ListInv
<1>8. ASSUME NEW t \in Threads, ParseCanonical(t) PROVE ListInv'
  <2>1. /\ Apart(t) /\ th'[t].pc = "parse" /\ th[t].pc = "parse"
        /\ th'[t].older = th[t].older /\ th'[t].late = th[t].late
        /\ \A n \in Names \ {Canon} : th'[t].list[n] = th[t].list[n]
        /\ th'[t].list[Canon] = Shown(files[Canon])
        /\ UNCHANGED <<files, cache, due, missed, overtaken>>
    BY <1>8, ParseStep DEF ParseCanonical, history
  <2>2. WillScan => WillScan'
    BY <2>1 DEF WillScan, Ahead, Apart
  <2>3. \A u \in Threads : /\ Scanning(u)' <=> Scanning(u)
                           /\ th'[u].late = th[u].late /\ th'[u].older = th[u].older
    BY <2>1 DEF Apart, Scanning
  <2>4. \A u \in Threads : LatestScan(u) => LatestScan(u)'
    <3>1. LatestScan(t) => LatestScan(t)'
      BY <2>1, <2>3 DEF LatestScan
    <3>2. ASSUME NEW u \in Threads \ {t} PROVE LatestScan(u) => LatestScan(u)'
      <4>1. th'[u] = th[u] /\ UNCHANGED files
        BY <2>1 DEF Apart
      <4> QED
        BY <2>3, <4>1 DEF LatestScan
    <3> QED
      BY <3>1, <3>2
  <2>5. cache = ShownNow => cache' = ShownNow'
    BY <2>1 DEF ShownNow
  <2> QED
    BY <2>1, <2>2, <2>3, <2>4, <2>5 DEF ListInv
<1>9. ASSUME NEW t \in Threads, Publish(t) PROVE ListInv'
  <2>1. /\ th[t].pc = "parse" /\ th[t].todo = {} /\ cache' = th[t].list /\ overtaken' = th[t].late
        /\ UNCHANGED <<files, due, missed>>
    BY <1>9 DEF Publish
  <2>2. /\ th'[t].pc \in {"watch", "idle"}
        /\ \A u \in Threads \ {t} :
              /\ th'[u].pc = th[u].pc /\ th'[u].todo = th[u].todo /\ th'[u].list = th[u].list
              /\ th'[u].older = th[u].older \ {t}
              /\ (th[u].late \/ u \in th[t].older) => th'[u].late
    BY <1>9, PublishStep, IdleIs
  <2>3. WillScan => WillScan'
    BY <2>1, <2>2 DEF WillScan, Ahead
  <2>4. \A u \in Threads : Scanning(u)' <=> Scanning(u) /\ u # t
    BY <2>2 DEF Scanning
  <2>5. ASSUME NEW u \in Threads \ {t}, LatestScan(u) PROVE LatestScan(u)'
    BY <2>1, <2>2, <2>4, <2>5 DEF LatestScan
  <2>6. CASE LatestScan(t)
    <3>1. \A u \in Threads : Scanning(u)' => th'[u].late
      BY <2>2, <2>4, <2>6 DEF LatestScan
    <3>2. cache' = ShownNow'
      <4>1. th[t].list \in Lists
        BY <1>0 DEF Goroutine
      <4>2. \A n \in Names : th[t].list[n] = Shown(files'[n])
        BY <2>1, <2>6 DEF LatestScan
      <4> QED
        BY <2>1, <4>1, <4>2 DEF Lists, ShownNow
    <3> QED
      BY <3>1, <3>2 DEF ListInv
  <2>7. CASE \A u \in Threads : Scanning(u) => th[u].late
    <3>1. \A u \in Threads : Scanning(u)' => th'[u].late
      BY <2>2, <2>4, <2>7
    <3>2. overtaken'
      BY <2>1, <2>7 DEF Scanning
    <3> QED
      BY <3>1, <3>2 DEF ListInv
  <2> QED
    BY <2>1, <2>3, <2>5, <2>6, <2>7 DEF ListInv
<1>10. CASE Crash
  <2>1. \E t \in Threads : Ahead(t)'
    BY <1>10, BootIs DEF Crash, Ahead
  <2> QED
    BY <2>1, ScanAhead
<1>11. CASE LoginDies \/ UNCHANGED fileVars
  <2>1. UNCHANGED <<files, cache, due, missed, overtaken, th>>
    BY <1>11 DEF LoginDies, fileVars, history
  <2> QED
    BY <2>1 DEF ListInv, WillScan, Ahead, LatestScan, Scanning, ShownNow
<1>12. ASSUME NEW t \in Threads, ReadDirFails(t) PROVE ListInv'
  BY <1>12 DEF ReadDirFails, ListInv
<1> QED
  BY <1>1, <1>2, <1>3, <1>4, <1>5, <1>6, <1>7, <1>8, <1>9, <1>10, <1>11, <1>12
     DEF FilesNext, Migrate, CheckAuthStatus, ToggleAccountDisabled, Skips

\* When nobody works on the directory and the watcher has nothing left to tell, the
\* published accounts are those of the directory, unless an earlier scan ended later, a
\* change fell between the scan of run() and its watcher, or the last listing could not
\* read all (auth/manager.go:78-116,
\* auth/directory_monitor.go:104-147).
THEOREM PublishedIsCurrent == FilesSpec => []ListCatchesUp
<1>1. FilesInit => ListInv
  BY BootIs DEF FilesInit, ListInv, WillScan, Ahead
<1>2. ListInv => ListCatchesUp
  BY DEF ListInv, ListCatchesUp, Quiet, WillScan, Ahead, LatestScan, Scanning
<1> QED
  BY <1>1, <1>2, ListStepKept, FilesTyped, PTL DEF FilesSpec

-----------------------------------------------------------------------------
(* The migration *)

Movable == {n \in Names : Moves(n, files[n])}
Moving(t) == th[t].pc \in {"open", "fill", "rename", "remove"}

\* A goroutine whose temporary file is its own work.
Ready(t) ==
  Moving(t) =>
    /\ Moves(th[t].name, th[t].data)
    /\ th[t].pc = "fill" => tmp = Empty /\ th[t].fd = "tmp"
    /\ th[t].pc = "rename" => tmp = th[t].data

\* A goroutine that will list the names once more, is about to tell the watcher of a
\* change, or has every file that is left to move on its list.
MoveAhead(t) ==
  \/ th[t].pc \in {"ls", "open"}
  \/ (Moving(t) \/ th[t].pc = "migrate") /\ th[t].again = 2
  \/ th[t].pc = "migrate" /\ Movable \subseteq th[t].todo

MoveYes == "move" \in missed \/ due \/ Movable = {} \/ \E t \in Threads : MoveAhead(t)

\* run() before its watcher: it is alone on the directory, and what it has not seen
\* for its migration the history has missed.
Boots(t) ==
  /\ \A u \in Threads \ {t} : th[u].pc = "idle"
  /\ Ready(t)
  /\ \/ th[t].pc = "ls"
     \/ (Moving(t) \/ th[t].pc = "migrate") /\ ("move" \in missed \/ Movable \subseteq th[t].todo)
     \/ th[t].pc \in {"readdir", "parse", "watch"} /\ ("move" \in missed \/ Movable = {})

MoveInv ==
  /\ watching = "yes" => MoveYes
  /\ watching = "no" => \E t \in Threads : Boots(t)
  /\ watching # "no" => \A t \in Threads : th[t].pc # "watch"
  /\ watching # "yes" => ~due

\* With the watcher at work, no step loses sight of a file that is left to move.
LEMMA MoveYesStep ==
  ASSUME FilesTypeOK, watching = "yes", MoveYes, FilesNext, ~Crash
  PROVE  MoveYes'
<1>1. ASSUME Changed \/ Disturbed PROVE MoveYes'
  BY <1>1, TellIs DEF Changed, Disturbed, MoveYes
<1>2. ASSUME NEW t \in Threads, UNCHANGED <<files, due, missed>>, ~MoveAhead(t) \/ MoveAhead(t)',
             \A u \in Threads \ {t} : SameWork(th', u)
      PROVE  MoveYes'
  <2>1. Movable' = Movable
    BY <1>2 DEF Movable
  <2>2. \A u \in Threads \ {t} : MoveAhead(u) => MoveAhead(u)'
    BY <1>2, <2>1 DEF MoveAhead, SameWork, Moving
  <2> QED
    BY <1>2, <2>1, <2>2 DEF MoveYes
<1>3. ASSUME NEW t \in Threads,
             \/ OpenTemp(t) \/ FillTemp(t) \/ WriteFails(t) \/ ChmodFails(t) \/ RemoveSource(t)
             \/ ToggleWrite(t) \/ ToggleFails(t)
      PROVE  MoveYes'
  BY <1>1, <1>3
     DEF OpenTemp, FillTemp, WriteFails, ChmodFails, RemoveSource, ToggleWrite, ToggleFails
<1>4. CASE LoginOpens \/ LoginWrites
  BY <1>1, <1>4 DEF LoginOpens, LoginWrites
<1>5. ASSUME NEW t \in Threads, TimerFires(t) PROVE MoveYes'
  BY <1>5, WatchSteps DEF MoveYes, MoveAhead
<1>6. ASSUME NEW t \in Threads, ListNames(t) PROVE MoveYes'
  <2>1. Passed(t, Present) /\ UNCHANGED files
    BY <1>6, ListStep DEF ListNames
  <2>2. Movable' \subseteq Present
    BY <2>1, ContentsAre DEF Movable, Present, FilesTypeOK
  <2> QED
    BY <2>1, <2>2 DEF MoveYes, MoveAhead, Passed
<1>7. ASSUME NEW t \in Threads, MigrateRead(t) PROVE MoveYes'
  <2>1. CASE th'[t].pc = "open"
    BY <2>1 DEF MoveYes, MoveAhead
  <2>2. CASE (\A n \in th[t].todo : ~Moves(n, files[n])) /\ Passed(t, {})
    <3>1. Apart(t) /\ UNCHANGED <<files, due, missed>> /\ th[t].pc = "migrate"
      BY <1>7, ReadStep DEF MigrateRead
    <3>2. CASE Movable = {}
      BY <3>1, <3>2 DEF MoveYes, Movable
    <3>3. CASE Movable # {}
      <4>1. ~(Movable \subseteq th[t].todo)
        BY <2>2, <3>3 DEF Movable
      <4>2. MoveAhead(t) => th[t].again = 2
        BY <3>1, <4>1 DEF MoveAhead
      <4>3. MoveAhead(t) => MoveAhead(t)'
        BY <2>2, <4>2 DEF MoveAhead, Passed
      <4> QED
        BY <1>2, <3>1, <4>3, ApartOthers DEF OthersStay
    <3> QED
      BY <3>2, <3>3
  <2> QED
    BY <1>7, <2>1, <2>2, ReadStep
<1>8. ASSUME NEW t \in Threads, RenameTemp(t) PROVE MoveYes'
  <2>1. CASE tmp # Absent
    BY <1>1, <1>8, <2>1 DEF RenameTemp
  <2>2. CASE tmp = Absent
    <3>1. /\ Apart(t) /\ Passed(t, th[t].todo \ {th[t].name}) /\ th[t].pc = "rename"
          /\ UNCHANGED <<files, due, missed>>
      BY <1>8, <2>2, RenameStep DEF RenameTemp
    <3>2. MoveAhead(t) => MoveAhead(t)'
      BY <3>1 DEF MoveAhead, Passed, Moving
    <3> QED
      BY <1>2, <3>1, <3>2, ApartOthers DEF OthersStay
  <2> QED
    BY <2>1, <2>2
<1>9. ASSUME NEW t \in Threads,
             \/ StartWatch(t) \/ ParseCanonical(t) \/ Call(t) \/ CallFails(t)
             \/ ToggleRead(t) \/ ToggleCount(t)
      PROVE  MoveYes'
  <2>1. /\ UNCHANGED <<files, due, missed>>
        /\ th[t].pc \in {"watch", "parse", "idle", "toggle", "count", "delete"}
    BY <1>9 DEF StartWatch, ParseCanonical, Call, CallFails, ToggleRead, ToggleCount, history
  <2>2. OthersStay(t)
    BY <1>9, WatchSteps, ParseStep, CallStep, ChangeSteps, ToggleReadStep, ToggleCountStep, ApartOthers
  <2> QED
    BY <1>2, <2>1, <2>2 DEF OthersStay, MoveAhead, Moving
<1>10. ASSUME NEW t \in Threads, ReadDir(t) \/ ReadDirFails(t) \/ Publish(t) PROVE MoveYes'
  <2>1. /\ UNCHANGED <<files, due>> /\ missed' \in {missed, missed \ {"list"}, missed \cup {"list"}}
        /\ th[t].pc \in {"readdir", "parse"}
    BY <1>10 DEF ReadDir, ReadDirFails, Publish
  <2>2. \A u \in Threads \ {t} :
           th'[u].pc = th[u].pc /\ th'[u].again = th[u].again /\ th'[u].todo = th[u].todo
    <3>1. CASE ReadDir(t) \/ ReadDirFails(t)
      BY <3>1, ReadDirStep, ReadDirFailsStep DEF Apart
    <3>2. CASE Publish(t)
      BY <3>2, PublishStep
    <3> QED
      BY <1>10, <3>1, <3>2
  <2>3. Movable' = Movable
    BY <2>1 DEF Movable
  <2>4. \A u \in Threads : MoveAhead(u) => MoveAhead(u)'
    BY <2>1, <2>2, <2>3 DEF MoveAhead, Moving
  <2> QED
    BY <2>1, <2>3, <2>4 DEF MoveYes
<1>11. ASSUME NEW t \in Threads, DeleteAccount(t) PROVE MoveYes'
  <2>1. CASE files[th[t].name] = Absent
    <3>1. Apart(t) /\ UNCHANGED <<files, due, missed>> /\ th[t].pc = "delete"
      BY <1>11, <2>1, ChangeSteps DEF DeleteAccount
    <3> QED
      BY <1>2, <3>1, ApartOthers DEF OthersStay, MoveAhead, Moving
  <2>2. CASE files[th[t].name] # Absent
    BY <1>1, <1>11, <2>2 DEF DeleteAccount
  <2> QED
    BY <2>1, <2>2
<1>12. CASE LoginDies
  BY <1>12 DEF LoginDies, history, MoveYes, MoveAhead, Moving, Movable
<1>13. ASSUME NEW t \in Threads, Skips(t) PROVE MoveYes'
  <2>1. CASE th[t].pc # "remove"
    BY <1>13, <2>1, SkipStep DEF MoveYes
  <2>2. CASE th[t].pc = "remove"
    <3>1. PICK left \in SUBSET Names : Passed(t, left)
      BY <1>13, SkipStep
    <3>2. Apart(t) /\ UNCHANGED <<files, due>> /\ missed' \in {missed, missed \cup {"move"}}
      BY <1>13, SkipStep
    <3>3. MoveAhead(t) => MoveAhead(t)'
      BY <2>2, <3>1 DEF MoveAhead, Passed, Moving
    <3>4. CASE "move" \in missed'
      BY <3>4 DEF MoveYes
    <3>5. CASE UNCHANGED missed
      BY <1>2, <3>2, <3>3, <3>5, ApartOthers DEF OthersStay
    <3> QED
      BY <3>2, <3>4, <3>5
  <2> QED
    BY <2>1, <2>2
<1> QED
  BY <1>3, <1>4, <1>5, <1>6, <1>7, <1>8, <1>9, <1>10, <1>11, <1>12, <1>13
     DEF FilesNext, Migrate, CheckAuthStatus, ToggleAccountDisabled, Skips

\* Before its watcher, run() keeps sight of the files it has still to move: nobody else
\* works on the directory, and what a login writes meanwhile counts as missed.
LEMMA BootsStep ==
  ASSUME FilesTypeOK, watching = "no", ~due, NEW t \in Threads, Boots(t), FilesNext,
         ~Crash, ~StartWatch(t)
  PROVE  Boots(t)' /\ watching' = "no" /\ ~due'
<1>0. /\ th[t] \in Goroutine /\ th[t].todo \in SUBSET Names /\ files \in [Names -> Contents]
      /\ \A u \in Threads \ {t} : th[u].pc = "idle"
  BY DEF FilesTypeOK, Goroutine, Boots
<1>1. Changed \/ Disturbed => ~due' /\ ("move" \in missed => "move" \in missed')
  BY TellIs DEF Changed, Disturbed
<1>2. Disturbed => "move" \in missed'
  BY TellIs DEF Disturbed
<1>3. ASSUME NEW left \in SUBSET Names, Passed(t, left), th[t].again # 0, OthersStay(t),
             "move" \in missed' \/ Movable' \subseteq left
      PROVE  Boots(t)'
  <2>1. \A u \in Threads \ {t} : th'[u].pc = "idle"
    BY <1>0, <1>3 DEF OthersStay, SameWork
  <2>2. th'[t].pc \in {"migrate", "ls", "readdir"}
    BY <1>3 DEF Passed
  <2>3. CASE left # {}
    BY <1>3, <2>1, <2>3 DEF Boots, Ready, Moving, Passed
  <2>4. CASE left = {}
    BY <1>3, <2>1, <2>2, <2>4 DEF Boots, Ready, Moving, Passed
  <2> QED
    BY <2>3, <2>4
<1>4. CASE ListNames(t)
  <2>1. /\ Apart(t) /\ Passed(t, Present) /\ th[t].again # 0 /\ UNCHANGED <<files, watching, due>>
        /\ Present \in SUBSET Names
    BY <1>4, ListStep DEF ListNames, FilesTypeOK, Present
  <2>2. Movable' \subseteq Present
    BY <1>0, <2>1, ContentsAre DEF Movable, Present
  <2> QED
    BY <1>3, <2>1, <2>2, ApartOthers
<1>5. CASE MigrateRead(t)
  <2>1. /\ Apart(t) /\ th[t].pc = "migrate" /\ th[t].again # 0
        /\ UNCHANGED <<files, tmp, watching, due, missed>> /\ Movable' = Movable
    BY <1>5, ReadStep DEF MigrateRead, FilesTypeOK, Movable
  <2>2. "move" \in missed \/ Movable \subseteq th[t].todo
    BY <2>1 DEF Boots
  <2>3. CASE (\A n \in th[t].todo : ~Moves(n, files[n])) /\ Passed(t, {})
    <3>1. "move" \in missed' \/ Movable' \subseteq {}
      BY <2>1, <2>2, <2>3 DEF Movable
    <3>2. {} \in SUBSET Names
      OBVIOUS
    <3> QED
      BY <1>3, <2>1, <2>3, <3>1, <3>2, ApartOthers
  <2>4. CASE /\ th'[t].pc = "open" /\ th'[t].name \in th[t].todo
             /\ Moves(th'[t].name, th'[t].data)
             /\ th'[t].name # Canon => th'[t].todo = th[t].todo
             /\ th'[t].name = Canon =>
                  th'[t].todo = {Canon} /\ \A m \in th[t].todo \ {Canon} : ~Moves(m, files[m])
    <3>1. "move" \in missed' \/ Movable' \subseteq th'[t].todo
      BY <2>1, <2>2, <2>4 DEF Movable
    <3>2. \A u \in Threads \ {t} : th'[u].pc = "idle"
      BY <1>0, <2>1 DEF Apart
    <3> QED
      BY <2>1, <2>4, <3>1, <3>2 DEF Boots, Ready, Moving
  <2> QED
    BY <1>5, <2>1, <2>3, <2>4, ReadStep
<1>6. CASE OpenTemp(t) \/ FillTemp(t)
  <2>1. /\ Apart(t) /\ SameMove(t) /\ Moving(t)
        /\ OpenTemp(t) => th'[t].pc = "fill" /\ th'[t].fd = "tmp"
        /\ FillTemp(t) => th'[t].pc = "rename"
    BY <1>6, OpenStep, FillStep DEF OpenTemp, FillTemp, Moving
  <2>2. /\ OpenTemp(t) => tmp' = Empty /\ UNCHANGED files
        /\ FillTemp(t) => tmp' = th[t].data /\ UNCHANGED files
    BY <2>1 DEF OpenTemp, FillTemp, Boots, Ready, Overwrites
  <2>3. Changed /\ UNCHANGED watching
    BY <1>6 DEF OpenTemp, FillTemp
  <2>4. Movable' = Movable
    BY <1>6, <2>2 DEF Movable
  <2>5. \A u \in Threads \ {t} : th'[u].pc = "idle"
    BY <1>0, <2>1 DEF Apart
  <2>6. Ready(t)'
    BY <1>6, <2>1, <2>2 DEF Boots, Ready, SameMove, Moving
  <2>7. Moving(t)' /\ ("move" \in missed' \/ Movable' \subseteq th'[t].todo)
    BY <1>1, <1>6, <2>1, <2>3, <2>4 DEF Boots, SameMove, Moving
  <2> QED
    BY <1>1, <2>3, <2>5, <2>6, <2>7 DEF Boots
<1>7. CASE WriteFails(t) \/ ChmodFails(t)
  <2>1. /\ OthersStay(t) /\ Passed(t, th[t].todo \ {th[t].name}) /\ th[t].again # 0
        /\ Disturbed /\ UNCHANGED watching
    BY <1>7, FailStep, ChmodStep DEF WriteFails, ChmodFails, FilesTypeOK
  <2>2. th[t].todo \ {th[t].name} \in SUBSET Names
    BY <1>0
  <2> QED
    BY <1>1, <1>2, <1>3, <2>1, <2>2
<1>8. CASE RenameTemp(t)
  <2>1. tmp = th[t].data /\ Moves(th[t].name, th[t].data) /\ Moving(t) /\ th[t].name \in Names
    BY <1>0, <1>8 DEF RenameTemp, Boots, Ready, Moving, Goroutine
  <2>2. tmp # Absent /\ th[t].data.seat \in Seats
    BY <2>1, ContentsAre DEF FilesTypeOK
  <2>3. /\ OthersStay(t) /\ SameMove(t) /\ th'[t].pc = "remove" /\ Changed /\ UNCHANGED watching
        /\ files' = [files EXCEPT ![th[t].data.seat] = tmp]
    BY <1>8, <2>2, RenameStep DEF RenameTemp, Renames
  <2>4. Movable' \subseteq Movable
    BY <1>0, <2>1, <2>2, <2>3 DEF Movable, Moves
  <2>5. \A u \in Threads \ {t} : th'[u].pc = "idle"
    BY <1>0, <2>3 DEF OthersStay, SameWork
  <2>6. Moving(t)' /\ ("move" \in missed' \/ Movable' \subseteq th'[t].todo)
    BY <1>1, <2>1, <2>3, <2>4 DEF Boots, SameMove, Moving
  <2> QED
    BY <1>1, <2>1, <2>3, <2>5, <2>6 DEF Boots, Ready, SameMove, Moving
<1>9. CASE RemoveSource(t)
  <2>1. /\ OthersStay(t) /\ Passed(t, th[t].todo \ {th[t].name}) /\ th[t].again # 0
        /\ Changed /\ UNCHANGED watching /\ Moving(t)
        /\ files' = [files EXCEPT ![th[t].name] = Absent]
    BY <1>9, RemoveStep DEF RemoveSource, FilesTypeOK, Moving
  <2>2. ~Moves(th[t].name, Absent)
    BY ContentsAre DEF Moves
  <2>3. Movable' \subseteq Movable \ {th[t].name}
    BY <1>0, <2>1, <2>2 DEF Movable
  <2>4. "move" \in missed' \/ Movable' \subseteq th[t].todo \ {th[t].name}
    BY <1>1, <2>1, <2>3 DEF Boots, Moving
  <2>5. th[t].todo \ {th[t].name} \in SUBSET Names
    BY <1>0
  <2> QED
    BY <1>1, <1>3, <2>1, <2>4, <2>5
<1>10. CASE ReadDir(t) \/ ReadDirFails(t) \/ ParseCanonical(t) \/ Publish(t)
  <2>1. /\ UNCHANGED <<files, watching, due>> /\ missed' \in {missed, missed \ {"list"}, missed \cup {"list"}}
        /\ th[t].pc \in {"readdir", "parse"}
    BY <1>10 DEF ReadDir, ReadDirFails, ParseCanonical, Publish, history
  <2>2. th'[t].pc \in {"parse", "watch"} /\ \A u \in Threads \ {t} : th'[u].pc = "idle"
    <3>1. CASE ReadDir(t) \/ ReadDirFails(t)
      <4>1. CASE ReadDir(t)
        <5>1. Apart(t) /\ th'[t].pc = "parse"
          BY <4>1, ReadDirStep
        <5> QED
          BY <1>0, <5>1 DEF Apart
      <4>2. CASE ReadDirFails(t)
        <5>1. Apart(t) /\ th'[t].pc = "parse"
          BY <4>2, ReadDirFailsStep
        <5> QED
          BY <1>0, <5>1 DEF Apart
      <4> QED
        BY <3>1, <4>1, <4>2
    <3>2. CASE ParseCanonical(t)
      BY <1>0, <3>2, ParseStep DEF Apart
    <3>3. CASE Publish(t)
      BY <1>0, <3>3, PublishStep
    <3> QED
      BY <1>10, <3>1, <3>2, <3>3
  <2>3. "move" \in missed' \/ Movable' = {}
    BY <2>1 DEF Boots, Movable, Moving
  <2> QED
    BY <2>1, <2>2, <2>3 DEF Boots, Ready, Moving
<1>11. CASE LoginOpens \/ LoginWrites
  <2>1. UNCHANGED <<th, tmp, watching>> /\ Disturbed
    BY <1>11 DEF LoginOpens, LoginWrites
  <2> QED
    BY <1>1, <1>2, <2>1 DEF Boots, Ready, Moving
<1>12. CASE LoginDies
  BY <1>12 DEF LoginDies, history, Boots, Ready, Moving, Movable
<1>13. ASSUME NEW u \in Threads,
              \/ TimerFires(u) \/ Call(u) \/ ToggleRead(u) \/ ToggleCount(u) \/ ToggleWrite(u)
              \/ ToggleFails(u) \/ DeleteAccount(u) \/ CallFails(u)
       PROVE  FALSE
  <2>1. th[t].pc \in {"ls", "open", "fill", "rename", "remove", "migrate", "readdir", "parse", "watch"}
    BY DEF Boots, Moving
  <2> QED
    BY <1>0, <1>13, <2>1
       DEF TimerFires, Call, ToggleRead, ToggleCount, ToggleWrite, ToggleFails, DeleteAccount, CallFails
<1>14. ASSUME NEW u \in Threads, Migrate(u) \/ CheckAuthStatus(u) PROVE u = t
  <2>1. th[u].pc # "idle"
    BY <1>14 DEF Migrate, ListNames, ListFails, MigrateRead, ReadFails, OpenTemp, OpenFails, FillTemp,
       WriteFails, RenameTemp, ChmodFails, RemoveSource, RemoveFails, CheckAuthStatus, ReadDir,
       ReadDirFails, ParseCanonical, Publish
  <2> QED
    BY <1>0, <2>1
<1>15. ASSUME NEW u \in Threads, StartWatch(u) PROVE u = t
  BY <1>0, <1>15 DEF StartWatch
<1>16. CASE Skips(t)
  <2>1. PICK left \in SUBSET Names : Passed(t, left)
    BY <1>16, SkipStep
  <2>2. /\ Apart(t) /\ th[t].again # 0 /\ UNCHANGED <<watching, due>> /\ "move" \in missed'
    BY <1>16, SkipStep
  <2> QED
    BY <1>3, <2>1, <2>2, ApartOthers
<1> QED
  BY <1>4, <1>5, <1>6, <1>7, <1>8, <1>9, <1>10, <1>11, <1>12, <1>13, <1>14, <1>15, <1>16
     DEF FilesNext, Migrate, CheckAuthStatus, ToggleAccountDisabled, Skips

\* MoveInv is inductive.
LEMMA MoveStep == FilesTypeOK /\ MoveInv /\ [FilesNext]_fileVars => MoveInv'
<1> SUFFICES ASSUME FilesTypeOK, MoveInv, [FilesNext]_fileVars PROVE MoveInv'
  OBVIOUS
<1>1. CASE Crash
  <2>1. PICK t \in Threads : th' = Boot(t)
    BY <1>1 DEF Crash
  <2>2. Boots(t)'
    BY <2>1, BootIs, IdleIs DEF Boots, Ready, Moving
  <2> QED
    BY <1>1, <2>2 DEF Crash, MoveInv
<1>2. CASE UNCHANGED fileVars
  BY <1>2 DEF fileVars, MoveInv, MoveYes, MoveAhead, Movable, Boots, Ready, Moving
<1>3. ASSUME NEW t \in Threads, StartWatch(t) PROVE MoveInv'
  <2>1. /\ th[t].pc = "watch" /\ watching' \in {"yes", "failed"} /\ UNCHANGED <<files, due, missed>>
        /\ th'[t].pc = "idle" /\ \A u \in Threads \ {t} : th'[u] = th[u]
    BY <1>3, WatchSteps, IdleIs DEF StartWatch, Apart, history
  <2>2. PICK b \in Threads : Boots(b)
    BY <2>1 DEF MoveInv
  <2>3. b = t
    BY <2>1, <2>2 DEF Boots
  <2>4. watching = "no" /\ ~due
    BY <2>1 DEF MoveInv, FilesTypeOK
  <2>5. "move" \in missed \/ Movable = {}
    BY <2>1, <2>2, <2>3 DEF Boots, Moving
  <2>6. MoveYes'
    BY <2>1, <2>5 DEF MoveYes, Movable
  <2>7. \A u \in Threads : th'[u].pc # "watch"
    BY <2>1, <2>2, <2>3 DEF Boots
  <2> QED
    BY <2>1, <2>4, <2>6, <2>7 DEF MoveInv
<1>4. CASE FilesNext /\ ~Crash /\ watching = "no" /\ \A t \in Threads : ~StartWatch(t)
  <2>1. PICK t \in Threads : Boots(t)
    BY <1>4 DEF MoveInv
  <2>2. ~due
    BY <1>4 DEF MoveInv
  <2> QED
    BY <1>4, <2>1, <2>2, BootsStep DEF MoveInv
<1>5. CASE FilesNext /\ ~Crash /\ watching # "no" /\ \A t \in Threads : ~StartWatch(t)
  <2>1. UNCHANGED watching
    BY <1>5 DEF FilesNext, TimerFires, Migrate, ListNames, ListFails, MigrateRead, ReadFails, OpenTemp,
       OpenFails, FillTemp, WriteFails, RenameTemp, ChmodFails, RemoveSource, RemoveFails,
       CheckAuthStatus, ReadDir, ReadDirFails, ParseCanonical, Publish, Call, CallFails,
       ToggleAccountDisabled, ToggleRead, ToggleCount, ToggleWrite, ToggleFails, DeleteAccount,
       LoginOpens, LoginWrites, LoginDies
  <2>2. watching = "yes" => MoveYes'
    BY <1>5, MoveYesStep DEF MoveInv
  <2>3. \A t \in Threads : th'[t].pc # "watch"
    <3>1. ASSUME UNCHANGED th PROVE \A t \in Threads : th'[t].pc # "watch"
      BY <1>5, <3>1 DEF MoveInv
    <3>2. ASSUME NEW t \in Threads, OthersStay(t), th'[t].pc # "watch"
          PROVE  \A u \in Threads : th'[u].pc # "watch"
      BY <1>5, <3>2 DEF MoveInv, OthersStay, SameWork
    <3>3. ASSUME NEW t \in Threads,
                 \/ TimerFires(t) \/ ReadDir(t) \/ ReadDirFails(t) \/ ParseCanonical(t) \/ Call(t)
                 \/ ToggleRead(t) \/ ToggleCount(t)
          PROVE  OthersStay(t) /\ th'[t].pc # "watch"
      BY <3>3, WatchSteps, ReadDirStep, ReadDirFailsStep, ParseStep, CallStep, ToggleReadStep,
         ToggleCountStep, IdleIs, ApartOthers
    <3>4. ASSUME NEW t \in Threads, Migrate(t) PROVE OthersStay(t) /\ th'[t].pc # "watch"
      <4>1. CASE Skips(t)
        BY <4>1, SkipStep, ApartOthers DEF Passed
      <4>2. CASE ~Skips(t)
        BY <3>4, <4>2, ListStep, ReadStep, OpenStep, FillStep, FailStep, RenameStep, ChmodStep,
           RemoveStep, ApartOthers DEF Migrate, Passed, Skips
      <4> QED
        BY <4>1, <4>2
    <3>5. ASSUME NEW t \in Threads, Publish(t) PROVE \A u \in Threads : th'[u].pc # "watch"
      BY <1>5, <3>5, PublishStep, IdleIs DEF MoveInv
    <3>6. ASSUME NEW t \in Threads,
                 ToggleWrite(t) \/ ToggleFails(t) \/ DeleteAccount(t) \/ CallFails(t)
          PROVE  OthersStay(t) /\ th'[t].pc # "watch"
      BY <3>6, ChangeSteps, IdleIs, ApartOthers
    <3> QED
      BY <1>5, <3>1, <3>2, <3>3, <3>4, <3>5, <3>6
         DEF FilesNext, CheckAuthStatus, ToggleAccountDisabled, LoginOpens, LoginWrites, LoginDies
  <2>4. watching # "yes" => ~due'
    <3>1. ASSUME watching # "yes" PROVE ~due'
      <4>1. ~due /\ (Changed \/ Disturbed => ~due')
        BY <3>1, TellIs DEF MoveInv, Changed, Disturbed
      <4>2. ASSUME UNCHANGED due \/ Changed \/ Disturbed PROVE ~due'
        BY <4>1, <4>2
      <4> QED
        BY <1>5, <4>2 DEF FilesNext, TimerFires, Migrate, ListNames, ListFails, MigrateRead, ReadFails,
           OpenTemp, OpenFails, FillTemp, WriteFails, RenameTemp, ChmodFails, RemoveSource, RemoveFails,
           CheckAuthStatus, ReadDir, ReadDirFails, ParseCanonical, Publish, Call, CallFails,
           ToggleAccountDisabled, ToggleRead, ToggleCount, ToggleWrite, ToggleFails, DeleteAccount,
           LoginOpens, LoginWrites, LoginDies
    <3> QED
      BY <3>1
  <2> QED
    BY <1>5, <2>1, <2>2, <2>3, <2>4 DEF MoveInv
<1> QED
  BY <1>1, <1>2, <1>3, <1>4, <1>5

\* When nobody works on the directory, the watcher is at work with nothing to tell, no
\* change came before it and no listing, read or open has failed since the last pass, no
\* complete file of a known seat is left under another name, whatever writes, renames,
\* chmods and removals have failed (claude/seat_files.go:119-190, 410-434).
THEOREM AllFilesMoved == FilesSpec => []EveryFileMoved
<1>1. FilesInit => MoveInv
  <2> SUFFICES ASSUME FilesInit PROVE MoveInv
    OBVIOUS
  <2>1. PICK t \in Threads : th = Boot(t)
    BY DEF FilesInit
  <2>2. Boots(t)
    BY <2>1, BootIs, IdleIs DEF Boots, Ready, Moving
  <2> QED
    BY <2>2 DEF FilesInit, MoveInv
<1>2. MoveInv => EveryFileMoved
  BY DEF MoveInv, EveryFileMoved, Quiet, MoveYes, MoveAhead, Movable, Moving
<1> QED
  BY <1>1, <1>2, MoveStep, FilesTyped, PTL DEF FilesSpec

-----------------------------------------------------------------------------
(* The tokens *)

\* The directory fs after so many logins: a seat's name holds its own seat, the file of
\* the last login has the newest tokens of all, and a suffixed file none older than
\* its seat's.
TokensOrdered(fs, last) ==
  /\ \A n \in Names : Parses(fs[n]) => fs[n].tok <= last
  /\ \A s \in Seats : Parses(fs[s]) => fs[s].seat = s
  /\ \A n \in Names : Parses(fs[Canon]) /\ Parses(fs[n]) => fs[n].tok <= fs[Canon].tok
  /\ Parses(fs[Side]) => fs[Side].seat \in Seats
  /\ \A s \in Seats : Parses(fs[Side]) /\ fs[Side].seat = s /\ Parses(fs[s]) => fs[s].tok <= fs[Side].tok

\* In such a directory the last tokens of a seat are in the first of its three names.
Holds(fs, n, s) == Parses(fs[n]) /\ fs[n].seat = s
LastOf(fs, s) ==
  IF Holds(fs, Canon, s) THEN fs[Canon].tok
  ELSE IF Holds(fs, Side, s) THEN fs[Side].tok
  ELSE IF Holds(fs, s, s) THEN fs[s].tok ELSE -1

LEMMA KeptAt ==
  ASSUME NEW fs \in [Names -> Contents], NEW last \in 0 .. MaxLogins, TokensOrdered(fs, last)
  PROVE  Kept(fs) = [s \in Seats |-> LastOf(fs, s)]
<1>1. ASSUME NEW s \in Seats
      PROVE  (IF Toks(fs, s) = {} THEN -1
              ELSE CHOOSE k \in Toks(fs, s) : \A j \in Toks(fs, s) : j <= k) = LastOf(fs, s)
  <2> DEFINE S == Toks(fs, s)
  <2>0. /\ \A n \in Names : fs[n].tok \in 0 .. MaxLogins
        /\ Canon \in Names /\ Side \in Names /\ s \in Names /\ 0 .. MaxLogins \subseteq Int
    BY NamesAre DEF Contents
  <2>1. \A k : k \in S <=> \E n \in Names : Holds(fs, n, s) /\ k = fs[n].tok
    BY DEF Toks, Holds
  <2>2. \A n \in Names : Holds(fs, n, s) => n \in {Canon, Side, s}
    BY NamesAre DEF TokensOrdered, Holds
  <2>3. S \subseteq 0 .. MaxLogins
    BY <2>0, <2>1
  <2> HIDE DEF S
  <2>4. ASSUME NEW m \in S, \A j \in S : j <= m PROVE (CHOOSE k \in S : \A j \in S : j <= k) = m
    <3>1. \A k \in S : (\A j \in S : j <= k) => k = m
      BY <2>0, <2>3, <2>4
    <3> QED
      BY <2>4, <3>1
  <2>5. CASE Holds(fs, Canon, s)
    <3>1. fs[Canon].tok \in S /\ \A j \in S : j <= fs[Canon].tok
      BY <2>0, <2>1, <2>5 DEF TokensOrdered, Holds
    <3> QED
      BY <2>4, <2>5, <3>1 DEF LastOf, S
  <2>6. CASE ~Holds(fs, Canon, s) /\ Holds(fs, Side, s)
    <3>1. fs[Side].tok \in S
      BY <2>0, <2>1, <2>6
    <3>2. fs[Side].tok <= fs[Side].tok
      BY <2>0
    <3>3. Holds(fs, s, s) => fs[s].tok <= fs[Side].tok
      BY <2>6 DEF TokensOrdered, Holds
    <3>4. \A j \in S : j <= fs[Side].tok
      BY <2>1, <2>2, <2>6, <3>2, <3>3
    <3> QED
      BY <2>4, <2>6, <3>1, <3>4 DEF LastOf, S
  <2>7. CASE ~Holds(fs, Canon, s) /\ ~Holds(fs, Side, s) /\ Holds(fs, s, s)
    <3>1. fs[s].tok \in S /\ \A j \in S : j <= fs[s].tok
      BY <2>0, <2>1, <2>2, <2>7
    <3> QED
      BY <2>4, <2>7, <3>1 DEF LastOf, S
  <2>8. CASE ~Holds(fs, Canon, s) /\ ~Holds(fs, Side, s) /\ ~Holds(fs, s, s)
    <3>1. S = {}
      BY <2>1, <2>2, <2>8
    <3> QED
      BY <2>8, <3>1 DEF LastOf, S
  <2> QED
    BY <2>5, <2>6, <2>7, <2>8
<1> QED
  BY <1>1 DEF Kept

\* What a goroutine knows of the files it works on, as long as it is alone.
Hand(t) ==
  /\ Changing(t) => Parses(files[th[t].name]) /\ th[t].data = files[th[t].name]
  /\ Ready(t)
  /\ Moving(t) /\ th[t].name = Canon => th[t].todo \subseteq {Canon}
  /\ th[t].pc = "remove" => files[th[t].data.seat] = th[t].data
  /\ (Moving(t) \/ th[t].pc = "migrate") /\ Side \notin th[t].todo => ~Parses(files[Side])
  /\ th[t].pc = "toggle" => ~th[t].sure
  /\ th[t].pc = "write" /\ th[t].sure => \E m \in Names \ {th[t].name} : Shown(files[m]) = "on"

Alone == \A t, u \in Threads : Changing(t) /\ Changing(u) => t = u

SeatInv ==
  /\ newest = Kept(files)
  /\ TokensOrdered(files, logins)
  /\ logging = Canon => files[Canon] = Empty
  /\ \A t \in Threads : Hand(t)
  /\ Alone

\* Goroutines that keep what they are at, on a directory that stays or with no change
\* of their own under way.
SameHand(u) ==
  /\ th'[u].pc = th[u].pc /\ th'[u].name = th[u].name /\ th'[u].data = th[u].data
  /\ th'[u].fd = th[u].fd /\ th'[u].todo = th[u].todo /\ th'[u].sure = th[u].sure

LEMMA HandKept ==
  ASSUME NEW u \in Threads, Hand(u), UNCHANGED <<files, tmp>>, SameHand(u)
  PROVE  Hand(u)' /\ (Changing(u)' <=> Changing(u))
  BY DEF Hand, SameHand, Ready, Changing, Moving

LEMMA HandAway ==
  ASSUME NEW u \in Threads, Hand(u), SameWork(th', u), ~Changing(u),
         Parses(files'[Side]) => Parses(files[Side])
  PROVE  Hand(u)' /\ ~Changing(u)'
  BY DEF Hand, SameWork, Ready, Changing, Moving

\* A step of one goroutine that leaves the directory as it is.
LEMMA SeatKept ==
  ASSUME SeatInv, NEW t \in Threads, Hand(t)',
         UNCHANGED <<files, tmp, logging, logins, newest>>,
         Changing(t)' => Changing(t) \/ \A u \in Threads \ {t} : ~Changing(u),
         \A u \in Threads \ {t} : SameHand(u)
  PROVE  SeatInv'
<1>1. \A u \in Threads \ {t} : Hand(u)' /\ (Changing(u)' <=> Changing(u))
  BY HandKept DEF SeatInv
<1>2. Alone'
  BY <1>1 DEF Alone, SeatInv
<1> QED
  BY <1>1, <1>2 DEF SeatInv

\* A step that changes the directory with no other goroutine's change under way.
LEMMA SeatChanged ==
  ASSUME FilesTypeOK, FilesTypeOK', SeatInv, NEW t \in Threads, Hand(t)', OthersStay(t),
         \A u \in Threads \ {t} : ~Changing(u),
         TokensOrdered(files', logins'),
         \/ newest' = Kept(files')
         \/ UNCHANGED newest /\ \A s \in Seats : LastOf(files', s) = LastOf(files, s),
         Parses(files'[Side]) => Parses(files[Side]),
         logging' = Canon => files'[Canon] = Empty
  PROVE  SeatInv'
<1>1. \A u \in Threads \ {t} : Hand(u)' /\ ~Changing(u)'
  BY HandAway DEF SeatInv, OthersStay
<1>2. newest' = Kept(files')
  <2>1. Kept(files) = [s \in Seats |-> LastOf(files, s)] /\ Kept(files') = [s \in Seats |-> LastOf(files', s)]
    BY KeptAt DEF SeatInv, FilesTypeOK
  <2> QED
    BY <2>1 DEF SeatInv
<1>3. Alone'
  BY <1>1 DEF Alone
<1> QED
  BY <1>1, <1>2, <1>3 DEF SeatInv

\* A published list that counts more than one enabled account has one under another name.
LEMMA OtherEnabled ==
  ASSUME NEW name, NEW S, ~(Cardinality(S) <= 1)
  PROVE  \E m \in S : m # name
<1> SUFFICES ASSUME S \subseteq {name} PROVE FALSE
  OBVIOUS
<1>1. CASE S = {}
  BY <1>1, FS_EmptySet
<1>2. CASE S = {name}
  BY <1>2, FS_Singleton
<1> QED
  BY <1>1, <1>2

\* The steps of a goroutine that read: the directory stays as it is.
LEMMA SeatReads ==
  ASSUME FilesTypeOK, SeatInv, ~risky', NEW t \in Threads,
         \/ StartWatch(t) \/ TimerFires(t) \/ ListNames(t) \/ MigrateRead(t) \/ OpenTemp(t) \/ FillTemp(t)
         \/ WriteFails(t) \/ CheckAuthStatus(t) \/ Call(t) \/ ToggleRead(t) \/ ToggleCount(t) \/ ToggleFails(t)
         \/ Skips(t) \/ CallFails(t)
  PROVE  SeatInv'
<1>0. /\ th[t] \in Goroutine /\ th[t].todo \in SUBSET Names /\ th[t].name \in Names
      /\ files \in [Names -> Contents] /\ Hand(t) /\ TokensOrdered(files, logins)
  BY DEF FilesTypeOK, Goroutine, SeatInv
<1>1. ASSUME Apart(t), UNCHANGED <<files, tmp, logging, logins, newest>>, Hand(t)',
             Changing(t)' => Changing(t) \/ \A u \in Threads \ {t} : ~Changing(u)
      PROVE  SeatInv'
  BY <1>1, SeatKept DEF Apart, SameHand
<1>2. CASE StartWatch(t) \/ TimerFires(t) \/ Call(t) \/ ToggleFails(t) \/ CallFails(t)
  <2>1. /\ Apart(t) /\ th'[t].pc \in {"idle", "ls", "toggle", "delete"} /\ ~th'[t].sure
        /\ UNCHANGED <<files, tmp, logging, logins, newest>>
    <3>1. CASE StartWatch(t)
      BY <3>1, WatchSteps, IdleIs DEF StartWatch, history
    <3>2. CASE TimerFires(t)
      BY <3>2, WatchSteps DEF TimerFires, history
    <3>3. CASE Call(t)
      BY <3>3, CallStep DEF Call, history
    <3>4. CASE ToggleFails(t) \/ CallFails(t)
      BY <3>4, ChangeSteps, IdleIs DEF ToggleFails, CallFails, history
    <3> QED
      BY <1>2, <3>1, <3>2, <3>3, <3>4
  <2>2. Hand(t)' /\ ~Changing(t)'
    BY <2>1 DEF Hand, Ready, Changing, Moving
  <2> QED
    BY <1>1, <2>1, <2>2
<1>3. CASE CheckAuthStatus(t)
  <2>1. UNCHANGED <<files, tmp, logging, logins, newest>>
    BY <1>3 DEF CheckAuthStatus, ReadDir, ReadDirFails, ParseCanonical, Publish, history
  <2>2. /\ th'[t].pc \in {"parse", "watch", "idle"}
        /\ \A u \in Threads \ {t} : SameHand(u)
    <3>1. CASE ReadDir(t) \/ ReadDirFails(t)
      BY <3>1, ReadDirStep, ReadDirFailsStep DEF Apart, SameHand
    <3>2. CASE ParseCanonical(t)
      BY <3>2, ParseStep DEF Apart, SameHand
    <3>3. CASE Publish(t)
      BY <3>3, PublishStep, IdleIs DEF SameHand
    <3> QED
      BY <1>3, <3>1, <3>2, <3>3 DEF CheckAuthStatus
  <2>3. Hand(t)' /\ ~Changing(t)'
    BY <2>2 DEF Hand, Ready, Changing, Moving
  <2> QED
    BY <2>1, <2>2, <2>3, SeatKept
<1>4. CASE ListNames(t)
  <2>1. /\ Apart(t) /\ Passed(t, Present) /\ th[t].pc = "ls"
        /\ UNCHANGED <<files, tmp, logging, logins, newest>>
    BY <1>4, ListStep DEF ListNames
  <2>2. th'[t].pc \in {"migrate", "ls", "readdir"} /\ th'[t].todo = Present
    BY <2>1 DEF Passed
  <2>3. Side \notin Present => ~Parses(files'[Side])
    BY <2>1, NamesAre, ContentsAre DEF Present
  <2>4. Hand(t)' /\ ~Changing(t)'
    BY <2>2, <2>3 DEF Hand, Ready, Changing, Moving
  <2> QED
    BY <1>1, <2>1, <2>4
<1>5. CASE MigrateRead(t)
  <2>1. Apart(t) /\ th[t].pc = "migrate" /\ UNCHANGED <<files, tmp, logging, logins, newest>>
    BY <1>5, ReadStep DEF MigrateRead
  <2>2. CASE Passed(t, {})
    <3>1. th'[t].pc \in {"ls", "readdir"}
      BY <2>2 DEF Passed
    <3>2. Hand(t)' /\ ~Changing(t)'
      BY <3>1 DEF Hand, Ready, Changing, Moving
    <3> QED
      BY <1>1, <2>1, <3>2
  <2>3. CASE /\ th'[t].pc = "open"
             /\ th'[t].name \in th[t].todo /\ th'[t].data = files[th'[t].name]
             /\ Moves(th'[t].name, th'[t].data)
             /\ th'[t].name # Canon => th'[t].todo = th[t].todo
             /\ th'[t].name = Canon => th'[t].todo = {Canon} /\ \A m \in th[t].todo \ {Canon} : ~Moves(m, files[m])
             /\ Enters(t)
    <3>1. \A u \in Threads \ {t} : ~Changing(u)
      BY <2>3 DEF Enters
    <3>2. Side \notin th'[t].todo => ~Parses(files[Side])
      <4>1. Side \notin th[t].todo => ~Parses(files[Side])
        BY <1>0, <2>1 DEF Hand
      <4>2. Side \in th[t].todo /\ ~Moves(Side, files[Side]) => ~Parses(files[Side])
        BY <1>0, NamesAre DEF Moves, TokensOrdered
      <4>3. Side # Canon
        BY NamesAre
      <4> QED
        BY <2>3, <4>1, <4>2, <4>3
    <3>3. Parses(th'[t].data)
      BY <2>3 DEF Moves
    <3>4. Hand(t)'
      BY <2>1, <2>3, <3>2, <3>3 DEF Hand, Ready, Changing, Moving
    <3> QED
      BY <1>1, <2>1, <3>1, <3>4
  <2> QED
    BY <1>5, <2>2, <2>3, ReadStep
<1>6. ASSUME OpenTemp(t) \/ FillTemp(t) PROVE SeatInv'
  <2>1. /\ Apart(t) /\ SameMove(t) /\ Moving(t) /\ Changing(t)
        /\ OpenTemp(t) => th'[t].pc = "fill" /\ th'[t].fd = "tmp"
        /\ FillTemp(t) => th'[t].pc = "rename"
    BY <1>6, OpenStep, FillStep DEF OpenTemp, FillTemp, Moving, Changing
  <2>2. /\ OpenTemp(t) => tmp' = Empty /\ UNCHANGED <<files, logging, logins, newest>>
        /\ FillTemp(t) => tmp' = th[t].data /\ UNCHANGED <<files, logging, logins, newest>>
    BY <1>0, <2>1 DEF OpenTemp, FillTemp, Hand, Ready, Overwrites
  <2>3. Hand(t)'
    BY <1>0, <1>6, <2>1, <2>2 DEF Hand, Ready, SameMove, Moving, Changing
  <2>4. \A u \in Threads \ {t} : ~Changing(u)
    BY <2>1 DEF SeatInv, Alone
  <2>5. \A u \in Threads \ {t} : Hand(u)' /\ ~Changing(u)'
    BY <1>6, <2>1, <2>2, <2>4, ApartOthers, HandAway DEF OthersStay, SeatInv
  <2>6. UNCHANGED <<files, logging, logins, newest>>
    BY <1>6, <2>2
  <2>7. Alone'
    BY <2>5 DEF Alone
  <2> QED
    BY <2>3, <2>5, <2>6, <2>7 DEF SeatInv
<1>7. CASE WriteFails(t)
  <2>1. /\ OthersStay(t) /\ Passed(t, th[t].todo \ {th[t].name}) /\ th[t].pc \in {"fill", "rename"}
        /\ UNCHANGED <<files, logging, logins, newest>> /\ th[t].name # Side
    BY <1>7, FailStep DEF WriteFails
  <2>2. th'[t].pc \in {"migrate", "ls", "readdir"} /\ th'[t].todo = th[t].todo \ {th[t].name}
    BY <2>1 DEF Passed
  <2>3. Side \notin th'[t].todo => ~Parses(files'[Side])
    BY <1>0, <2>1, <2>2 DEF Hand, Moving
  <2>4. Hand(t)' /\ ~Changing(t)'
    BY <2>2, <2>3 DEF Hand, Ready, Changing, Moving
  <2>5. \A u \in Threads \ {t} : ~Changing(u)
    BY <2>1 DEF SeatInv, Alone, Changing
  <2>6. \A u \in Threads \ {t} : Hand(u)' /\ ~Changing(u)'
    BY <2>1, <2>5, HandAway DEF OthersStay, SeatInv
  <2>7. Alone'
    BY <2>4, <2>6 DEF Alone
  <2> QED
    BY <2>1, <2>4, <2>6, <2>7 DEF SeatInv
<1>8. CASE ToggleRead(t)
  <2>1. Apart(t) /\ th[t].pc = "toggle" /\ UNCHANGED <<files, tmp, logging, logins, newest>>
    BY <1>8, ToggleReadStep DEF ToggleRead
  <2>2. CASE th'[t] = Idle
    <3>1. Hand(t)' /\ ~Changing(t)'
      BY <2>2, IdleIs DEF Hand, Ready, Changing, Moving
    <3> QED
      BY <1>1, <2>1, <3>1
  <2>3. CASE /\ Parses(files[th[t].name])
             /\ th'[t].pc \in {"write", "count"} /\ th'[t].name = th[t].name
             /\ th'[t].data = files[th[t].name] /\ th'[t].sure = th[t].sure
             /\ Enters(t)
    <3>1. \A u \in Threads \ {t} : ~Changing(u)
      BY <2>3 DEF Enters
    <3>2. ~th'[t].sure
      BY <1>0, <2>1, <2>3 DEF Hand
    <3>3. Hand(t)'
      BY <2>1, <2>3, <3>2 DEF Hand, Ready, Changing, Moving
    <3> QED
      BY <1>1, <2>1, <3>1, <3>3
  <2> QED
    BY <1>8, <2>2, <2>3, ToggleReadStep
<1>9. CASE ToggleCount(t)
  <2>1. /\ Apart(t) /\ th[t].pc = "count" /\ Changing(t)
        /\ UNCHANGED <<files, tmp, logging, logins, newest>>
    BY <1>9, ToggleCountStep DEF ToggleCount, history, Changing
  <2>2. CASE th'[t] = Idle
    <3>1. Hand(t)' /\ ~Changing(t)'
      BY <2>2, IdleIs DEF Hand, Ready, Changing, Moving
    <3> QED
      BY <1>1, <2>1, <3>1
  <2>3. CASE /\ ~(Cardinality(EnabledIn(cache)) <= 1)
             /\ th'[t].pc = "write" /\ th'[t].name = th[t].name /\ th'[t].data = th[t].data
             /\ th'[t].sure => cache = ShownNow
    <3>1. PICK m \in EnabledIn(cache) : m # th[t].name
      BY <2>3, OtherEnabled
    <3>2. th'[t].sure => m \in Names \ {th'[t].name} /\ Shown(files'[m]) = "on"
      BY <2>1, <2>3, <3>1 DEF EnabledIn, ShownNow
    <3>3. Parses(files[th[t].name]) /\ th[t].data = files[th[t].name]
      BY <1>0, <2>1 DEF Hand
    <3>4. Hand(t)'
      BY <2>1, <2>3, <3>2, <3>3 DEF Hand, Ready, Changing, Moving
    <3> QED
      BY <1>1, <2>1, <3>4
  <2> QED
    BY <1>9, <2>2, <2>3, ToggleCountStep
<1>10. CASE Skips(t)
  <2>1. PICK left \in SUBSET Names :
           /\ Passed(t, left)
           /\ \/ risky' \/ left = {}
              \/ th[t].pc # "ls" /\ (Side \in th[t].todo => Side \in left)
    BY <1>10, SkipStep
  <2>2. /\ Apart(t) /\ th[t].pc \in {"ls", "migrate", "open", "remove"}
        /\ UNCHANGED <<files, tmp, logging, logins, newest>>
    BY <1>10, SkipStep
  <2>3. th'[t].pc \in {"migrate", "ls", "readdir"} /\ th'[t].todo = left
    BY <2>1 DEF Passed
  <2>4. th'[t].pc = "migrate" /\ Side \notin left => ~Parses(files'[Side])
    BY <1>0, <2>1, <2>2 DEF Hand, Moving, Passed
  <2>5. Hand(t)' /\ ~Changing(t)'
    BY <2>3, <2>4 DEF Hand, Ready, Changing, Moving
  <2> QED
    BY <1>1, <2>2, <2>5
<1> QED
  BY <1>2, <1>3, <1>4, <1>5, <1>6, <1>7, <1>8, <1>9, <1>10

\* The steps of a goroutine that change the directory.  The rename puts the tokens of
\* the source under its seat's name, where they are the last of the seat already.
LEMMA SeatRenames ==
  ASSUME FilesTypeOK, FilesTypeOK', SeatInv, ~risky', NEW t \in Threads,
         RenameTemp(t) \/ ChmodFails(t)
  PROVE  SeatInv'
<1> DEFINE n == th[t].name
           dest == th[t].data.seat
<1>1. /\ n \in Names /\ files \in [Names -> Contents] /\ files' \in [Names -> Contents]
      /\ Hand(t) /\ TokensOrdered(files, logins) /\ logins \in Nat
      /\ \A m \in Names : files[m].tok \in Int
  BY NamesAre DEF FilesTypeOK, Goroutine, SeatInv, Contents
<1>2. Moving(t) /\ Changing(t) /\ th[t].pc = "rename"
  BY DEF RenameTemp, ChmodFails, Moving, Changing
<1>3. /\ Parses(files[n]) /\ th[t].data = files[n] /\ Moves(n, th[t].data) /\ tmp = files[n]
      /\ Side \notin th[t].todo => ~Parses(files[Side])
      /\ n = Canon => th[t].todo \subseteq {Canon}
  BY <1>1, <1>2 DEF Hand, Ready
<1>4. dest \in Seats /\ dest # n /\ files[n].seat = dest /\ tmp # Absent /\ dest \in Names
  BY <1>3, ContentsAre, NamesAre DEF Moves
<1>5. n \in {Canon, Side}
  BY <1>1, <1>3, <1>4, NamesAre DEF TokensOrdered
<1>6. n = Canon => ~Parses(files[Side])
  BY <1>3, NamesAre
<1>7. /\ files' = [files EXCEPT ![dest] = files[n]]
      /\ LoginUnlinked(dest) /\ UNCHANGED <<logins, newest>>
  BY <1>3, <1>4 DEF RenameTemp, ChmodFails, Renames
<1>8. /\ OthersStay(t)
      /\ \/ th'[t].pc = "remove" /\ SameMove(t)
         \/ Passed(t, th[t].todo \ {n}) /\ n # Side
  BY <1>4, RenameStep, ChmodStep DEF ChmodFails
<1> HIDE DEF n, dest
<1>9. /\ files'[dest] = files[n] /\ files'[Canon] = files[Canon] /\ files'[Side] = files[Side]
      /\ \A m \in Names \ {dest} : files'[m] = files[m]
  BY <1>1, <1>4, <1>7, NamesAre
<1>10. TokensOrdered(files', logins')
  <2>1. \A m \in Names : Parses(files'[m]) => files'[m].tok <= logins'
    BY <1>1, <1>3, <1>4, <1>7, <1>9 DEF TokensOrdered
  <2>2. \A s \in Seats : Parses(files'[s]) => files'[s].seat = s
    BY <1>1, <1>4, <1>9, NamesAre DEF TokensOrdered
  <2>3. \A m \in Names : Parses(files'[Canon]) /\ Parses(files'[m]) => files'[m].tok <= files'[Canon].tok
    BY <1>1, <1>3, <1>4, <1>9 DEF TokensOrdered
  <2>4. Parses(files'[Side]) => files'[Side].seat \in Seats
    BY <1>1, <1>9 DEF TokensOrdered
  <2>5. ASSUME NEW s \in Seats, Parses(files'[Side]), files'[Side].seat = s, Parses(files'[s])
        PROVE  files'[s].tok <= files'[Side].tok
    <3>1. n = Side /\ s = dest
      BY <1>4, <1>5, <1>6, <1>9, <2>5
    <3>2. files[Side].tok <= files[Side].tok
      BY <1>1, NamesAre
    <3> QED
      BY <1>9, <3>1, <3>2
  <2> QED
    BY <2>1, <2>2, <2>3, <2>4, <2>5 DEF TokensOrdered
<1>11. ASSUME NEW s \in Seats PROVE LastOf(files', s) = LastOf(files, s)
  <2>1. CASE s # dest
    BY <1>9, <2>1, NamesAre DEF LastOf, Holds
  <2>2. CASE s = dest
    <3>1. Holds(files, n, s)
      BY <1>3, <1>4, <2>2 DEF Holds
    <3> QED
      BY <1>5, <1>9, <3>1 DEF LastOf, Holds
  <2> QED
    BY <2>1, <2>2
<1>12. Hand(t)'
  <2>1. files'[n] = files[n] /\ files'[dest] = files[n]
    BY <1>1, <1>4, <1>9
  <2>2. Side \notin th[t].todo => ~Parses(files'[Side])
    BY <1>3, <1>9
  <2>3. CASE th'[t].pc = "remove" /\ SameMove(t)
    <3>1. th'[t].name = n /\ th'[t].data = files[n] /\ th'[t].todo = th[t].todo /\ th'[t].data.seat = dest
      BY <1>3, <1>4, <2>3 DEF SameMove, n
    <3> QED
      BY <1>3, <2>1, <2>2, <2>3, <3>1 DEF Hand, Ready, Moving, Changing
  <2>4. CASE Passed(t, th[t].todo \ {n}) /\ n # Side
    <3>1. th'[t].pc \in {"migrate", "ls", "readdir"} /\ th'[t].todo = th[t].todo \ {n}
      BY <2>4 DEF Passed
    <3> QED
      BY <2>2, <2>4, <3>1 DEF Hand, Ready, Moving, Changing
  <2> QED
    BY <1>8, <2>3, <2>4
<1>13. \A u \in Threads \ {t} : ~Changing(u)
  BY <1>2 DEF SeatInv, Alone
<1>14. logging' = Canon => files'[Canon] = Empty
  BY <1>7, <1>9, NamesAre DEF LoginUnlinked, SeatInv
<1> QED
  BY <1>7, <1>8, <1>9, <1>10, <1>11, <1>12, <1>13, <1>14, SeatChanged

\* The removal takes the source away when its seat's name has the same tokens.
LEMMA SeatRemoves ==
  ASSUME FilesTypeOK, FilesTypeOK', SeatInv, NEW t \in Threads, RemoveSource(t)
  PROVE  SeatInv'
<1> DEFINE n == th[t].name
           dest == th[t].data.seat
<1>1. /\ n \in Names /\ files \in [Names -> Contents] /\ th[t].todo \in SUBSET Names
      /\ Hand(t) /\ TokensOrdered(files, logins)
  BY DEF FilesTypeOK, Goroutine, SeatInv
<1>2. Moving(t) /\ Changing(t) /\ th[t].pc = "remove"
  BY DEF RemoveSource, Moving, Changing
<1>3. /\ Parses(files[n]) /\ th[t].data = files[n] /\ Moves(n, files[n]) /\ files[dest] = files[n]
      /\ Side \notin th[t].todo => ~Parses(files[Side])
      /\ n = Canon => th[t].todo \subseteq {Canon}
  BY <1>1, <1>2 DEF Hand, Ready
<1>4. dest \in Seats /\ dest # n /\ files[n].seat = dest /\ dest \in Names
  BY <1>3, NamesAre DEF Moves
<1>5. n \in {Canon, Side}
  BY <1>1, <1>3, <1>4, NamesAre DEF TokensOrdered
<1>6. n = Canon => ~Parses(files[Side])
  BY <1>3, NamesAre
<1>7. /\ files' = [files EXCEPT ![n] = Absent]
      /\ LoginUnlinked(n) /\ UNCHANGED <<logins, newest>>
  BY DEF RemoveSource
<1>8. OthersStay(t) /\ Passed(t, th[t].todo \ {n})
  BY RemoveStep
<1> HIDE DEF n, dest
<1>9. files'[n] = Absent /\ ~Parses(files'[n]) /\ \A m \in Names \ {n} : files'[m] = files[m]
  BY <1>1, <1>7, ContentsAre
<1>10. TokensOrdered(files', logins')
  BY <1>1, <1>7, <1>9, NamesAre DEF TokensOrdered
<1>11. ASSUME NEW s \in Seats PROVE LastOf(files', s) = LastOf(files, s)
  <2>0. s \in Names /\ s # n /\ Canon \in Names /\ Side \in Names /\ Canon # Side
    BY <1>5, NamesAre
  <2>1. files'[s] = files[s]
    BY <1>9, <2>0
  <2>2. CASE n = Canon
    <3>1. ~Holds(files, Side, s) /\ ~Holds(files', Side, s) /\ ~Holds(files', Canon, s)
      BY <1>6, <1>9, <2>0, <2>2 DEF Holds
    <3>2. Holds(files, Canon, s) => s = dest /\ files[s] = files[Canon]
      BY <1>3, <1>4, <2>2 DEF Holds
    <3> QED
      BY <2>1, <3>1, <3>2 DEF LastOf, Holds
  <2>3. CASE n = Side
    <3>1. ~Holds(files', Side, s) /\ files'[Canon] = files[Canon]
      BY <1>9, <2>0, <2>3 DEF Holds
    <3>2. Holds(files, Side, s) => s = dest /\ files[s] = files[Side]
      BY <1>3, <1>4, <2>3 DEF Holds
    <3> QED
      BY <2>1, <3>1, <3>2 DEF LastOf, Holds
  <2> QED
    BY <1>5, <2>2, <2>3
<1>12. Hand(t)'
  <2>1. th'[t].pc \in {"migrate", "ls", "readdir"} /\ th'[t].todo = th[t].todo \ {n}
    BY <1>8 DEF Passed
  <2>2. Side \notin th[t].todo \ {n} => ~Parses(files'[Side])
    BY <1>3, <1>9, NamesAre
  <2> QED
    BY <2>1, <2>2 DEF Hand, Ready, Moving, Changing
<1>13. \A u \in Threads \ {t} : ~Changing(u)
  BY <1>2 DEF SeatInv, Alone
<1>14. logging' = Canon => files'[Canon] = Empty
  <2>1. ASSUME logging' = Canon PROVE logging = Canon /\ n # Canon
    BY <1>7, <2>1, NamesAre DEF LoginUnlinked
  <2> QED
    BY <1>9, <2>1, NamesAre DEF SeatInv
<1>15. Parses(files'[Side]) => Parses(files[Side])
  BY <1>9, NamesAre
<1> QED
  BY <1>7, <1>8, <1>10, <1>11, <1>12, <1>13, <1>14, <1>15, SeatChanged

\* A toggle changes the flag of the file it read, and nothing else of it.
LEMMA SeatToggles ==
  ASSUME FilesTypeOK, FilesTypeOK', SeatInv, NEW t \in Threads, ToggleWrite(t)
  PROVE  SeatInv'
<1> DEFINE n == th[t].name
           new == [th[t].data EXCEPT !.disabled = ~@]
<1>1. /\ n \in Names /\ files \in [Names -> Contents] /\ th[t].data \in Contents
      /\ Hand(t) /\ TokensOrdered(files, logins)
  BY DEF FilesTypeOK, Goroutine, SeatInv
<1>2. Changing(t) /\ th[t].pc = "write"
  BY DEF ToggleWrite, Changing
<1>3. Parses(files[n]) /\ th[t].data = files[n]
  BY <1>1, <1>2 DEF Hand
<1>4. new.is = files[n].is /\ new.seat = files[n].seat /\ new.tok = files[n].tok
  BY <1>1, <1>3 DEF Contents
<1>5. files' = [files EXCEPT ![n] = new] /\ LoginUnlinked(n) /\ UNCHANGED <<logins, newest>>
  BY DEF ToggleWrite
<1>6. OthersStay(t) /\ th'[t] = Rescan
  BY ChangeSteps
<1> HIDE DEF n, new
<1>7. \A m \in Names : /\ files'[m].is = files[m].is
                       /\ files'[m].seat = files[m].seat /\ files'[m].tok = files[m].tok
  BY <1>1, <1>4, <1>5
<1>8. \A m \in Names : Parses(files'[m]) <=> Parses(files[m])
  BY <1>7 DEF Parses
<1>9. TokensOrdered(files', logins')
  BY <1>1, <1>5, <1>7, <1>8, NamesAre DEF TokensOrdered
<1>10. \A s \in Seats : LastOf(files', s) = LastOf(files, s)
  BY <1>7, <1>8, NamesAre DEF LastOf, Holds
<1>11. Hand(t)'
  BY <1>6, IdleIs DEF Hand, Ready, Moving, Changing
<1>12. \A u \in Threads \ {t} : ~Changing(u)
  BY <1>2 DEF SeatInv, Alone
<1>13. logging' = Canon => files'[Canon] = Empty
  <2>1. ASSUME logging' = Canon PROVE logging = Canon /\ n # Canon
    BY <1>5, <2>1, NamesAre DEF LoginUnlinked
  <2> QED
    BY <1>1, <1>5, <2>1, NamesAre DEF SeatInv
<1> QED
  BY <1>5, <1>6, <1>8, <1>9, <1>10, <1>11, <1>12, <1>13, NamesAre, SeatChanged

\* A removal of an account with nothing else under way.
LEMMA SeatDeletes ==
  ASSUME FilesTypeOK, FilesTypeOK', SeatInv, ~risky', NEW t \in Threads, DeleteAccount(t)
  PROVE  SeatInv'
<1> DEFINE n == th[t].name
<1>1. n \in Names /\ files \in [Names -> Contents] /\ TokensOrdered(files, logins)
  BY DEF FilesTypeOK, Goroutine, SeatInv
<1>2. CASE files[n] = Absent
  <2>1. /\ Apart(t) /\ th'[t] = Idle /\ UNCHANGED <<files, tmp, logging, logins, newest>>
    BY <1>2, ChangeSteps DEF DeleteAccount
  <2>2. Hand(t)' /\ ~Changing(t)'
    BY <2>1, IdleIs DEF Hand, Ready, Moving, Changing
  <2> QED
    BY <2>1, <2>2, SeatKept DEF Apart, SameHand
<1>3. CASE files[n] # Absent
  <2>1. /\ OthersStay(t) /\ th'[t] = Rescan /\ files' = [files EXCEPT ![n] = Absent]
        /\ LoginUnlinked(n) /\ UNCHANGED logins /\ newest' = Kept(files') /\ Overlaps
    BY <1>3, ChangeSteps DEF DeleteAccount
  <2> HIDE DEF n
  <2>2. ~Parses(files'[n]) /\ \A m \in Names \ {n} : files'[m] = files[m]
    BY <1>1, <2>1, ContentsAre
  <2>3. TokensOrdered(files', logins')
    BY <1>1, <2>1, <2>2, NamesAre DEF TokensOrdered
  <2>4. Hand(t)'
    BY <2>1, IdleIs DEF Hand, Ready, Moving, Changing
  <2>5. \A u \in Threads \ {t} : ~Changing(u)
    BY <2>1 DEF Overlaps
  <2>6. logging' = Canon => files'[Canon] = Empty
    <3>1. ASSUME logging' = Canon PROVE logging = Canon /\ n # Canon
      BY <2>1, <3>1, NamesAre DEF LoginUnlinked
    <3> QED
      BY <2>2, <3>1, NamesAre DEF SeatInv
  <2>7. Parses(files'[Side]) => Parses(files[Side])
    BY <2>2, NamesAre
  <2> QED
    BY <2>1, <2>3, <2>4, <2>5, <2>6, <2>7, SeatChanged
<1> QED
  BY <1>2, <1>3

\* The login process at its file, with no change of the daemon under way.
LEMMA SeatLogins ==
  ASSUME FilesTypeOK, FilesTypeOK', SeatInv, ~risky', LoginOpens \/ LoginWrites
  PROVE  SeatInv'
<1>1. /\ files \in [Names -> Contents] /\ TokensOrdered(files, logins) /\ logins \in Nat
      /\ Canon \in Names /\ \A m \in Names : files[m].tok \in Nat
  BY NamesAre DEF FilesTypeOK, SeatInv, Contents
<1>2. UNCHANGED <<th, tmp>> /\ newest' = Kept(files') /\ \A t \in Threads : ~Changing(t)
  BY DEF LoginOpens, LoginWrites, Overlaps
<1>3. /\ \A m \in Names \ {Canon} : files'[m] = files[m]
      /\ TokensOrdered(files', logins')
      /\ logging' = Canon => files'[Canon] = Empty
  <2>1. CASE LoginOpens
    <3>1. files' = [files EXCEPT ![Canon] = Empty] /\ logins' = logins + 1
      BY <2>1 DEF LoginOpens
    <3>2. ~Parses(files'[Canon]) /\ files'[Canon] = Empty /\ \A m \in Names \ {Canon} : files'[m] = files[m]
      BY <1>1, <3>1, ContentsAre
    <3>3. \A m \in Names : Parses(files'[m]) => files'[m].tok <= logins'
      BY <1>1, <3>1, <3>2 DEF TokensOrdered
    <3>4. TokensOrdered(files', logins')
      BY <1>1, <3>2, <3>3, NamesAre DEF TokensOrdered
    <3> QED
      BY <3>2, <3>4
  <2>2. CASE LoginWrites
    <3>1. PICK s \in Seats \cup {NoSeat} :
             files' = IF logging = "gone" THEN files ELSE [files EXCEPT ![Canon] = Full(s, logins, FALSE)]
      BY <2>2 DEF LoginWrites
    <3>2. logging' = "no" /\ logins' = logins /\ "no" # Canon
      BY <2>2, NamesAre DEF LoginWrites
    <3>3. CASE logging = "gone"
      BY <1>1, <3>1, <3>2, <3>3
    <3>4. CASE logging # "gone"
      <4>1. /\ files'[Canon].tok = logins /\ \A m \in Names \ {Canon} : files'[m] = files[m]
        <5>1. logins \in 0 .. MaxLogins
          BY DEF FilesTypeOK
        <5>2. Full(s, logins, FALSE).tok = logins
          BY <5>1 DEF Full
        <5> QED
          BY <1>1, <3>1, <3>4, <5>2
      <4>2. \A m \in Names : Parses(files'[m]) => files'[m].tok <= logins
        BY <1>1, <4>1 DEF TokensOrdered
      <4>3. TokensOrdered(files', logins')
        BY <1>1, <3>2, <4>1, <4>2, NamesAre DEF TokensOrdered
      <4> QED
        BY <3>2, <4>1, <4>3
    <3> QED
      BY <3>3, <3>4
  <2> QED
    BY <2>1, <2>2
<1>4. \A t \in Threads : Hand(t)' /\ ~Changing(t)'
  <2>1. files'[Side] = files[Side]
    BY <1>3, NamesAre
  <2>2. \A t \in Threads : SameWork(th', t)
    BY <1>2 DEF SameWork
  <2> QED
    BY <1>2, <2>1, <2>2, HandAway DEF SeatInv
<1>5. Alone'
  BY <1>4 DEF Alone
<1> QED
  BY <1>2, <1>3, <1>4, <1>5 DEF SeatInv

\* As long as nothing risky has happened, SeatInv is inductive.
LEMMA SeatStep == FilesTypeOK /\ (risky \/ SeatInv) /\ [FilesNext]_fileVars => (risky \/ SeatInv)'
<1> SUFFICES ASSUME FilesTypeOK, risky \/ SeatInv, [FilesNext]_fileVars, ~risky' PROVE SeatInv'
  OBVIOUS
<1>1. risky => risky'
  <2> USE DEF history, Enters, Overlaps
  <2>1. ASSUME NEW t \in Threads,
               StartWatch(t) \/ TimerFires(t) \/ CheckAuthStatus(t) \/ Call(t)
        PROVE  risky => risky'
    BY <2>1 DEF StartWatch, TimerFires, CheckAuthStatus, ReadDir, ReadDirFails, ParseCanonical, Publish, Call
  <2>2. ASSUME NEW t \in Threads, Migrate(t)
        PROVE  risky => risky'
    BY <2>2 DEF Migrate, ListNames, ListFails, MigrateRead, ReadFails, OpenTemp, OpenFails, FillTemp,
       WriteFails, RenameTemp, ChmodFails, RemoveSource, RemoveFails, Skipped
  <2>3. ASSUME NEW t \in Threads, ToggleAccountDisabled(t) \/ DeleteAccount(t) \/ CallFails(t)
        PROVE  risky => risky'
    BY <2>3 DEF ToggleAccountDisabled, ToggleRead, ToggleCount, ToggleWrite, ToggleFails, DeleteAccount,
       CallFails
  <2>4. ASSUME LoginOpens \/ LoginWrites \/ LoginDies \/ Crash \/ UNCHANGED fileVars
        PROVE  risky => risky'
    BY <2>4 DEF LoginOpens, LoginWrites, LoginDies, Crash, fileVars
  <2> QED
    BY <2>1, <2>2, <2>3, <2>4 DEF FilesNext
<1>2. SeatInv /\ FilesTypeOK'
  BY <1>1, FilesTypeStep
<1>3. ASSUME NEW t \in Threads,
             \/ StartWatch(t) \/ TimerFires(t) \/ CheckAuthStatus(t) \/ Call(t) \/ Migrate(t)
             \/ ToggleAccountDisabled(t) \/ DeleteAccount(t) \/ CallFails(t)
      PROVE  SeatInv'
  BY <1>2, <1>3, SeatReads, SeatRenames, SeatRemoves, SeatToggles, SeatDeletes
     DEF Migrate, ToggleAccountDisabled, Skips
<1>4. CASE LoginOpens \/ LoginWrites
  BY <1>2, <1>4, SeatLogins
<1>5. CASE LoginDies \/ UNCHANGED fileVars
  <2>1. /\ UNCHANGED <<files, tmp, th, logins, newest>> /\ logging' \in {"no", logging}
    BY <1>5 DEF LoginDies, history, fileVars
  <2>2. \A t \in Threads : Hand(t)' /\ (Changing(t)' <=> Changing(t))
    BY <1>2, <2>1, HandKept DEF SeatInv, SameHand
  <2>3. Alone'
    BY <1>2, <2>2 DEF Alone, SeatInv
  <2> QED
    BY <1>2, <2>1, <2>2, <2>3, NamesAre DEF SeatInv
<1>6. CASE Crash
  <2>1. PICK t \in Threads : th' = Boot(t)
    BY <1>6 DEF Crash
  <2>2. \A u \in Threads : th'[u].pc \in {"ls", "idle"}
    BY <2>1, BootIs, IdleIs
  <2>3. \A u \in Threads : Hand(u)' /\ ~Changing(u)'
    BY <2>2 DEF Hand, Ready, Moving, Changing
  <2>4. UNCHANGED <<files, logging, logins, newest>> /\ Alone'
    BY <1>6, <2>3 DEF Crash, Alone
  <2> QED
    BY <1>2, <2>3, <2>4 DEF SeatInv
<1> QED
  BY <1>3, <1>4, <1>5, <1>6 DEF FilesNext

\* SeatInv holds at first.
LEMMA SeatsInit == FilesInit => SeatInv
<1> SUFFICES ASSUME FilesInit PROVE SeatInv
  OBVIOUS
<1>1. PICK s \in Seats :
        files = [n \in Names |-> IF n = Canon \/ n = s THEN Absent
                                 ELSE Full(IF n = Side THEN s ELSE n, 0, FALSE)]
  BY DEF FilesInit
<1>2. FilesTypeOK /\ logins = 0 /\ newest = [q \in Seats |-> 0]
  BY InitTyped DEF FilesInit
<1>3. /\ files[Canon] = Absent /\ files[s] = Absent /\ files[Side] = Full(s, 0, FALSE)
      /\ \A q \in Seats \ {s} : files[q] = Full(q, 0, FALSE)
  BY <1>1, NamesAre
<1>4. /\ ~Parses(files[Canon]) /\ ~Parses(files[s])
      /\ Parses(files[Side]) /\ files[Side].seat = s /\ files[Side].tok = 0
      /\ \A q \in Seats \ {s} : Parses(files[q]) /\ files[q].seat = q /\ files[q].tok = 0
  <2>1. \A q : /\ Parses(Full(q, 0, FALSE))
               /\ Full(q, 0, FALSE).seat = q /\ Full(q, 0, FALSE).tok = 0
    BY DEF Full, Parses
  <2>2. ~Parses(Absent)
    BY ContentsAre
  <2> QED
    BY <1>3, <2>1, <2>2
<1>5. TokensOrdered(files, logins)
  <2>1. \A n \in Names : Parses(files[n]) => files[n].tok <= 0
    BY <1>4, NamesAre
  <2> QED
    BY <1>2, <1>4, <2>1 DEF TokensOrdered
<1>6. \A q \in Seats : LastOf(files, q) = 0
  BY <1>4 DEF LastOf, Holds
<1>7. newest = Kept(files)
  <2>1. Kept(files) = [q \in Seats |-> LastOf(files, q)]
    BY <1>2, <1>5, KeptAt DEF FilesTypeOK
  <2> QED
    BY <1>2, <1>6, <2>1
<1>8. PICK t \in Threads : th = Boot(t)
  BY DEF FilesInit
<1>9. \A u \in Threads : th[u].pc \in {"ls", "idle"}
  BY <1>8, BootIs, IdleIs
<1>10. (\A u \in Threads : Hand(u)) /\ Alone
  BY <1>9 DEF Hand, Ready, Moving, Changing, Alone
<1>11. logging # Canon
  BY NamesAre DEF FilesInit
<1> QED
  BY <1>5, <1>7, <1>10, <1>11 DEF SeatInv

\* Moving and toggling files keep the last tokens of every seat and bring no removed
\* ones back, wherever a write fails or the daemon dies, as long as no two changes of
\* the directory are under way at once (claude/seat_files.go:119-236,
\* auth/manager.go:119-176).
THEOREM TokensAreKept == FilesSpec => []SeatsKept
<1>1. SeatInv => SeatsKept
  BY DEF SeatInv, SeatsKept
<1>2. risky => SeatsKept
  BY DEF SeatsKept
<1> QED
  BY <1>1, <1>2, SeatsInit, SeatStep, FilesTyped, PTL DEF FilesSpec

\* A toggle that counted a true list, alone on the directory, never disables the last
\* enabled account (auth/manager.go:119-137).
THEOREM LastOneStaysEnabled == FilesSpec => OneEnabledKept
<1>1. ASSUME FilesTypeOK, risky \/ SeatInv, [FilesNext]_fileVars
      PROVE  [\A t \in Threads :
                 ToggleWrite(t) /\ th[t].sure /\ ~risky => EnabledIn(ShownNow') # {}]_fileVars
  <2> SUFFICES ASSUME NEW t \in Threads, ToggleWrite(t), th[t].sure, ~risky
               PROVE  EnabledIn(ShownNow') # {}
    BY <1>1
  <2>1. Hand(t) /\ files \in [Names -> Contents]
    BY <1>1 DEF SeatInv, FilesTypeOK
  <2>2. PICK m \in Names \ {th[t].name} : Shown(files[m]) = "on"
    BY <2>1 DEF Hand, ToggleWrite
  <2>3. files'[m] = files[m]
    BY <2>1, <2>2 DEF ToggleWrite
  <2>4. ShownNow'[m] = "on"
    BY <2>2, <2>3 DEF ShownNow
  <2> QED
    BY <2>2, <2>4 DEF EnabledIn
<1> QED
  BY <1>1, SeatsInit, SeatStep, FilesTyped, PTL DEF FilesSpec, OneEnabledKept

-----------------------------------------------------------------------------
(* The quota cards: records and types *)

\* How a refresh changes the record of one call.
LEMMA JobSet ==
  ASSUME TypeOK, NEW r \in Refreshes, NEW new \in JobRecord, job' = [job EXCEPT ![r] = new]
  PROVE  /\ job' \in [Refreshes -> JobRecord] /\ job'[r] = new
         /\ \A q \in Refreshes : q # r => job'[q] = job[q]
  BY DEF TypeOK

\* The records of a refresh that was called and of one that ended.
LEMMA Records == /\ Ended \in JobRecord /\ Ended.pc = "ended"
                 /\ \A sel \in SUBSET Accounts : Called(sel) \in JobRecord /\ Called(sel).pc = "called"
<1>1. 0 \in 0 .. MaxObs /\ NoJob \in JobRecord
  BY UsageAssumption DEF NoJob, JobRecord
<1>2. Ended \in JobRecord /\ Ended.pc = "ended"
  BY <1>1 DEF Ended, JobRecord
<1>3. ASSUME NEW sel \in SUBSET Accounts
      PROVE  Called(sel) \in JobRecord /\ Called(sel).pc = "called"
  BY <1>1 DEF Called, JobRecord
<1> QED
  BY <1>2, <1>3

\* The record of a refresh that has its generation.
Running(r) == [job[r] EXCEPT !.pc = "run", !.gen = generation', !.meta = obs,
                             !.busy = ("claude" \in job[r].sel)]

\* A refresh takes its generation.
LEMMA Began ==
  ASSUME TypeOK, NEW r \in Refreshes, generation' = generation + 1
  PROVE  /\ Running(r) \in JobRecord /\ Running(r).pc = "run"
         /\ Running(r).gen = generation' /\ Running(r).sel = job[r].sel
<1>1. job[r] \in JobRecord /\ obs \in 0 .. MaxObs /\ generation' \in Nat
  BY DEF TypeOK
<1>2. ("claude" \in job[r].sel) \in BOOLEAN
  OBVIOUS
<1> DEFINE busy == ("claude" \in job[r].sel)
<1>3. Running(r) = [job[r] EXCEPT !.pc = "run", !.gen = generation', !.meta = obs, !.busy = busy]
  BY DEF Running
<1>4. busy \in BOOLEAN
  BY <1>2
<1> HIDE DEF busy
<1> QED
  BY <1>1, <1>3, <1>4 DEF JobRecord

\* The fields that TypeOK types besides the calls of Refresh.
Others ==
  /\ obs \in 0..MaxObs
  /\ list \subseteq Accounts
  /\ usageSig \subseteq Accounts
  /\ hand \in [Scans -> HandRecord]
  /\ generation \in Nat
  /\ refreshin \in BOOLEAN
  /\ cards \in [Accounts -> Cards]
  /\ latest \subseteq Accounts
  /\ update \in [Updates -> UpdateRecord]
  /\ crossed \in BOOLEAN /\ mixed \in BOOLEAN

\* The type invariant is inductive.
LEMMA TypeStep == TypeOK /\ [Next]_vars => TypeOK'
<1> SUFFICES ASSUME TypeOK, [Next]_vars PROVE TypeOK'
  OBVIOUS
<1>0. Others /\ job \in [Refreshes -> JobRecord]
  BY DEF TypeOK, Others
<1> SUFFICES Others' /\ job' \in [Refreshes -> JobRecord]
  BY DEF TypeOK, Others
<1> USE DEF daemonVars, trackerVars
<1>a. NoCard \in Cards /\ Loading \in Cards
  BY DEF NoCard, Loading, Cards
<1>1. ASSUME NEW h \in Scans, Scan(h) PROVE Others' /\ job' \in [Refreshes -> JobRecord]
  <2>1. hand' \in [Scans -> HandRecord]
    BY <1>0, <1>1 DEF Scan, Others, HandRecord
  <2>2. crossed' \in BOOLEAN /\ mixed' \in BOOLEAN
    BY <1>1 DEF Scan
  <2> QED
    BY <1>0, <1>1, <2>1, <2>2 DEF Scan, Others
<1>2. ASSUME NEW h \in Scans, Sign(h) PROVE Others' /\ job' \in [Refreshes -> JobRecord]
  <2>1. hand' \in [Scans -> HandRecord]
    BY <1>0, <1>2 DEF Sign, Others, HandRecord
  <2> QED
    BY <1>0, <1>2, <2>1 DEF Sign, Others
<1>3. ASSUME NEW h \in Scans, NEW r \in Refreshes, RefreshUsage(h, r)
      PROVE  Others' /\ job' \in [Refreshes -> JobRecord]
  <2>1. hand' \in [Scans -> HandRecord] /\ usageSig' \subseteq Accounts
    BY <1>0, <1>3 DEF RefreshUsage, Others, HandRecord
  <2>2. job' \in [Refreshes -> JobRecord]
    BY <1>0, <1>3, Records DEF RefreshUsage, Spawns, Others
  <2> QED
    BY <1>0, <1>3, <2>1, <2>2 DEF RefreshUsage, Others
<1>4. ASSUME NEW r \in Refreshes, CallRefresh(r) PROVE Others' /\ job' \in [Refreshes -> JobRecord]
  <2>1. job' \in [Refreshes -> JobRecord]
    BY <1>0, <1>4, Records DEF CallRefresh, Spawns, Others
  <2>2. crossed' \in BOOLEAN
    BY <1>4 DEF CallRefresh
  <2> QED
    BY <1>0, <1>4, <2>1, <2>2 DEF CallRefresh, Others
<1>5. ASSUME NEW r \in Refreshes, Begin(r) PROVE Others' /\ job' \in [Refreshes -> JobRecord]
  <2>1. generation' = generation + 1 /\ latest' = job[r].sel
    BY <1>5 DEF Begin
  <2>2. job' = [job EXCEPT ![r] = Ended] \/ job' = [job EXCEPT ![r] = Running(r)]
    BY <1>5 DEF Begin, Running
  <2>3. job' \in [Refreshes -> JobRecord]
    BY <2>1, <2>2, JobSet, Records, Began
  <2>4. cards' \in [Accounts -> Cards] /\ refreshin' \in BOOLEAN
    BY <1>5, <1>a DEF Begin
  <2>5. mixed' \in BOOLEAN
    BY <1>0, <1>5 DEF Begin, Others
  <2>6. latest' \subseteq Accounts
    BY <1>0, <2>1 DEF JobRecord
  <2>7. generation' \in Nat
    BY <1>0, <2>1 DEF Others
  <2> QED
    BY <1>0, <1>5, <2>3, <2>4, <2>5, <2>6, <2>7 DEF Begin, Others
<1>6. ASSUME NEW r \in Refreshes, Fetch(r) PROVE Others' /\ job' \in [Refreshes -> JobRecord]
  <2>1. [job[r] EXCEPT !.busy = FALSE] \in JobRecord
    BY <1>0 DEF JobRecord
  <2>2. job' \in [Refreshes -> JobRecord]
    BY <1>0, <1>6, <2>1 DEF Fetch
  <2> QED
    BY <1>0, <1>6, <2>2 DEF Fetch, Others
<1>7. ASSUME NEW r \in Refreshes, Complete(r) PROVE Others' /\ job' \in [Refreshes -> JobRecord]
  <2>1. job' \in [Refreshes -> JobRecord]
    BY <1>0, <1>7, Records DEF Complete
  <2>2. job[r].gen \in Nat /\ job[r].meta \in 0..MaxObs
    BY <1>0 DEF JobRecord
  <2>3. <<"fetched", job[r].gen>> \in Cards /\ <<"observed", job[r].meta>> \in Cards
    BY <2>2 DEF Cards
  <2>4. Results(r) \in [Accounts -> Cards]
    BY <1>a, <2>3 DEF Results
  <2>5. cards' \in [Accounts -> Cards] /\ refreshin' \in BOOLEAN
    BY <1>0, <1>7, <2>4 DEF Complete, Others
  <2> QED
    BY <1>0, <1>7, <2>1, <2>5 DEF Complete, Others
<1>8. ASSUME NEW u \in Updates, Observe(u) PROVE Others' /\ job' \in [Refreshes -> JobRecord]
  <2>1. update' \in [Updates -> UpdateRecord]
    BY <1>0, <1>8 DEF Observe, Others, UpdateRecord
  <2>2. obs' \in 0..MaxObs
    BY <1>8, UsageAssumption DEF Observe, Updates
  <2>3. mixed' \in BOOLEAN
    BY <1>8 DEF Observe
  <2> QED
    BY <1>0, <1>8, <2>1, <2>2, <2>3 DEF Observe, Others
<1>9. ASSUME NEW u \in Updates, UpdateRead(u) PROVE Others' /\ job' \in [Refreshes -> JobRecord]
  <2> DEFINE on == ("meta" \in list)
  <2>1. on \in BOOLEAN /\ update' = [update EXCEPT ![u] = [pc |-> "replace", on |-> on, seen |-> obs]]
    BY <1>9 DEF UpdateRead
  <2> HIDE DEF on
  <2>2. update' \in [Updates -> UpdateRecord]
    BY <1>0, <2>1 DEF Others, UpdateRecord
  <2> QED
    BY <1>0, <1>9, <2>2 DEF UpdateRead, Others
<1>10. ASSUME NEW u \in Updates, UpdateReplace(u) PROVE Others' /\ job' \in [Refreshes -> JobRecord]
  <2>1. update' \in [Updates -> UpdateRecord]
    BY <1>0, <1>10, UsageAssumption DEF UpdateReplace, Others, UpdateRecord
  <2>2. <<"observed", update[u].seen>> \in Cards
    BY <1>0 DEF Others, UpdateRecord, Cards
  <2>3. cards' \in [Accounts -> Cards]
    BY <1>0, <1>10, <1>a, <2>2 DEF UpdateReplace, Others
  <2> QED
    BY <1>0, <1>10, <2>1, <2>3 DEF UpdateReplace, Others
<1>11. CASE UNCHANGED vars
  BY <1>0, <1>11 DEF vars, Others
<1> QED
  BY <1>1, <1>2, <1>3, <1>4, <1>5, <1>6, <1>7, <1>8, <1>9, <1>10, <1>11
     DEF Next, Handler, Refresh, UpdateMeta

\* Every variable keeps its type.
THEOREM TypeCorrect == Spec => []TypeOK
<1>1. Init => TypeOK
  <2> SUFFICES ASSUME Init PROVE TypeOK
    OBVIOUS
  <2>1. job \in [Refreshes -> JobRecord]
    BY Records, UsageAssumption DEF Init, NoJob, JobRecord
  <2>2. hand \in [Scans -> HandRecord] /\ update \in [Updates -> UpdateRecord]
    BY UsageAssumption DEF Init, HandRecord, UpdateRecord
  <2>3. cards \in [Accounts -> Cards]
    BY DEF Init, Cards, NoCard
  <2>4. 0 \in 0 .. MaxObs
    BY UsageAssumption
  <2>5. /\ obs \in 0 .. MaxObs /\ generation \in Nat /\ refreshin \in BOOLEAN
        /\ list \subseteq Accounts /\ usageSig \subseteq Accounts /\ latest \subseteq Accounts
        /\ crossed \in BOOLEAN /\ mixed \in BOOLEAN
    BY <2>4 DEF Init
  <2> QED
    BY <2>1, <2>2, <2>3, <2>5 DEF TypeOK
<1> QED
  BY <1>1, TypeStep, PTL DEF Spec

-----------------------------------------------------------------------------
\* The refreshes that have a generation have different ones, none of them from the
\* future, and the one with the last has the last selection.
Generations ==
  \A r \in Refreshes : job[r].pc = "run" =>
     /\ job[r].gen <= generation
     /\ job[r].gen = generation => job[r].sel = latest
     /\ \A q \in Refreshes : job[q].pc = "run" /\ job[q].gen = job[r].gen => q = r

CardsInv == Generations /\ CardsOfLatest

\* CardsInv is inductive.
LEMMA CardsStep == TypeOK /\ CardsInv /\ [Next]_vars => CardsInv'
<1> SUFFICES ASSUME TypeOK, CardsInv, [Next]_vars PROVE CardsInv'
  OBVIOUS
<1> USE DEF daemonVars, trackerVars
<1>0. /\ job \in [Refreshes -> JobRecord] /\ generation \in Nat
      /\ cards \in [Accounts -> Cards] /\ latest \subseteq Accounts
  BY DEF TypeOK
<1>a. NoCard # Loading /\ \A k, n : <<k, n>> = Loading => k = "loading"
  BY DEF NoCard, Loading
\* What neither begins nor ends a refresh, nor touches its card.
<1>1. ASSUME UNCHANGED <<generation, refreshin, latest, cards>>,
             \A q \in Refreshes : /\ (job'[q].pc = "run") = (job[q].pc = "run")
                                  /\ job[q].pc = "run" => /\ job'[q].gen = job[q].gen
                                                          /\ job'[q].sel = job[q].sel
      PROVE  CardsInv'
  <2>1. Generations'
    BY <1>1 DEF CardsInv, Generations
  <2>2. CardsOfLatest'
    BY <1>1 DEF CardsInv, CardsOfLatest
  <2> QED
    BY <2>1, <2>2 DEF CardsInv
<1>2. ASSUME NEW r \in Refreshes, Spawns(r), UNCHANGED <<generation, refreshin, latest, cards>>,
             list \subseteq Accounts
      PROVE  CardsInv'
  BY <1>1, <1>2, JobSet, Records DEF Spawns
<1>3. ASSUME NEW h \in Scans, Scan(h) \/ Handler(h) PROVE CardsInv'
  <2>1. CASE Scan(h) \/ Sign(h)
    BY <1>1, <2>1 DEF Scan, Sign
  <2>2. ASSUME NEW r \in Refreshes, RefreshUsage(h, r) PROVE CardsInv'
    BY <1>2, <2>2 DEF RefreshUsage, TypeOK
  <2> QED
    BY <1>3, <2>1, <2>2 DEF Handler
<1>4. ASSUME NEW r \in Refreshes, CallRefresh(r) PROVE CardsInv'
  BY <1>2, <1>4 DEF CallRefresh, TypeOK
<1>5. ASSUME NEW r \in Refreshes, Begin(r) PROVE CardsInv'
  <2>1. generation' = generation + 1 /\ latest' = job[r].sel /\ job[r].pc = "called"
    BY <1>5 DEF Begin
  <2>2. \A q \in Refreshes : job[q].pc = "run" => job[q].gen < generation' /\ job[q].gen \in Nat
    BY <1>0, <2>1 DEF CardsInv, Generations, JobRecord
  <2>3. CASE job[r].sel = {}
    <3>1. /\ \A a \in Accounts : cards'[a] = NoCard
          /\ refreshin' = FALSE /\ job' = [job EXCEPT ![r] = Ended]
      BY <1>5, <2>3 DEF Begin
    <3>2. job'[r].pc = "ended" /\ \A q \in Refreshes : q # r => job'[q] = job[q]
      BY <3>1, JobSet, Records
    <3>3. Generations'
      BY <1>0, <2>1, <2>2, <3>2 DEF CardsInv, Generations
    <3>4. \A q \in Refreshes : ~(job'[q].pc = "run" /\ job'[q].gen = generation')
      BY <1>0, <2>1, <2>2, <3>2
    <3>5. "claude" \notin latest' /\ "claude" \in Accounts
      BY <2>1, <2>3 DEF Accounts
    <3>6. CardsOfLatest'
      BY <1>a, <3>1, <3>4, <3>5 DEF CardsOfLatest
    <3> QED
      BY <3>3, <3>6 DEF CardsInv
  <2>4. CASE job[r].sel # {}
    <3>1. /\ cards' = [a \in Accounts |-> IF a \in job[r].sel THEN Loading ELSE NoCard]
          /\ refreshin' = TRUE /\ job' = [job EXCEPT ![r] = Running(r)]
      BY <1>5, <2>4 DEF Begin, Running
    <3>2. /\ job'[r].pc = "run" /\ job'[r].gen = generation' /\ job'[r].sel = latest'
          /\ \A q \in Refreshes : q # r => job'[q] = job[q]
      BY <2>1, <3>1, JobSet, Began
    <3>3. Generations'
      BY <1>0, <2>1, <2>2, <3>2 DEF CardsInv, Generations
    <3>4. "claude" \in Accounts
      BY DEF Accounts
    <3>5. cards'["claude"] # NoCard <=> "claude" \in latest'
      <4>1. CASE "claude" \in job[r].sel
        BY <1>a, <2>1, <3>1, <3>4, <4>1
      <4>2. CASE "claude" \notin job[r].sel
        BY <1>a, <2>1, <3>1, <3>4, <4>2
      <4> QED
        BY <4>1, <4>2
    <3>6. cards'["claude"] \in {NoCard, Loading}
      BY <3>1, <3>4
    <3>7. \E q \in Refreshes : job'[q].pc = "run" /\ job'[q].gen = generation'
      BY <3>2
    <3>8. CardsOfLatest'
      BY <3>1, <3>5, <3>6, <3>7 DEF CardsOfLatest
    <3> QED
      BY <3>3, <3>8 DEF CardsInv
  <2> QED
    BY <2>3, <2>4
<1>6. ASSUME NEW r \in Refreshes, Fetch(r) PROVE CardsInv'
  <2>1. [job[r] EXCEPT !.busy = FALSE] \in JobRecord
    BY <1>0 DEF JobRecord
  <2>2. \A q \in Refreshes : /\ job'[q].pc = job[q].pc /\ job'[q].gen = job[q].gen
                             /\ job'[q].sel = job[q].sel
    BY <1>0, <1>6, <2>1 DEF Fetch, JobRecord
  <2> QED
    BY <1>1, <1>6, <2>2 DEF Fetch
<1>7. ASSUME NEW r \in Refreshes, Complete(r) PROVE CardsInv'
  <2>1. /\ job' = [job EXCEPT ![r] = Ended] /\ job[r].pc = "run"
        /\ UNCHANGED <<generation, latest>>
    BY <1>7 DEF Complete, Fetched
  <2>2. job'[r].pc = "ended" /\ \A q \in Refreshes : q # r => job'[q] = job[q]
    BY <2>1, JobSet, Records
  <2>3. Generations'
    BY <2>1, <2>2 DEF CardsInv, Generations
  <2>4. CASE job[r].gen = generation
    <3>1. cards' = Results(r) /\ refreshin' = FALSE /\ job[r].sel = latest
      BY <1>7, <2>1, <2>4 DEF Complete, CardsInv, Generations
    <3>2. \A q \in Refreshes : ~(job'[q].pc = "run" /\ job'[q].gen = generation')
      BY <2>1, <2>2, <2>4 DEF CardsInv, Generations
    <3>3. "claude" \in Accounts
      BY DEF Accounts
    <3>4. cards'["claude"] = IF "claude" \in latest THEN <<"fetched", generation>> ELSE NoCard
      BY <2>4, <3>1, <3>3 DEF Results
    <3>5. \A a \in Accounts : cards'[a] # Loading
      BY <1>a, <3>1 DEF Results, Accounts
    <3>6. <<"fetched", generation>> # NoCard
      BY DEF NoCard
    <3>7. CardsOfLatest'
      BY <2>1, <3>1, <3>2, <3>4, <3>5, <3>6 DEF CardsOfLatest
    <3> QED
      BY <2>3, <3>7 DEF CardsInv
  <2>5. CASE job[r].gen # generation
    <3>1. UNCHANGED <<cards, refreshin>>
      BY <1>7, <2>5 DEF Complete
    <3>2. (\E q \in Refreshes : job'[q].pc = "run" /\ job'[q].gen = generation')
             <=> (\E q \in Refreshes : job[q].pc = "run" /\ job[q].gen = generation)
      <4>1. \A q \in Refreshes : job'[q].pc = "run" /\ job'[q].gen = generation'
                                   => job[q].pc = "run" /\ job[q].gen = generation
        BY <2>1, <2>2
      <4>2. \A q \in Refreshes : job[q].pc = "run" /\ job[q].gen = generation
                                   => job'[q].pc = "run" /\ job'[q].gen = generation'
        BY <2>1, <2>2, <2>5
      <4> QED
        BY <4>1, <4>2
    <3>3. CardsOfLatest'
      BY <2>1, <3>1, <3>2 DEF CardsInv, CardsOfLatest
    <3> QED
      BY <2>3, <3>3 DEF CardsInv
  <2> QED
    BY <2>4, <2>5
<1>8. ASSUME NEW u \in Updates, Observe(u) \/ UpdateRead(u) PROVE CardsInv'
  BY <1>1, <1>8 DEF Observe, UpdateRead
<1>9. ASSUME NEW u \in Updates, UpdateReplace(u) PROVE CardsInv'
  <2>1. /\ UNCHANGED <<generation, refreshin, latest, job>>
        /\ cards'["claude"] = cards["claude"]
        /\ cards'["meta"] # Loading
        /\ Accounts = {"claude", "meta"}
    BY <1>0, <1>9, <1>a DEF UpdateReplace, Accounts
  <2>2. Generations'
    BY <2>1 DEF CardsInv, Generations
  <2>3. CardsOfLatest'
    BY <2>1 DEF CardsInv, CardsOfLatest
  <2> QED
    BY <2>2, <2>3 DEF CardsInv
<1>10. CASE UNCHANGED vars
  BY <1>1, <1>10 DEF vars
<1> QED
  BY <1>3, <1>4, <1>5, <1>6, <1>7, <1>8, <1>9, <1>10 DEF Next, Refresh, UpdateMeta

\* Nothing runs and nothing is shown before the first refresh.
LEMMA InitCards == Init => CardsInv
<1> SUFFICES ASSUME Init PROVE CardsInv
  OBVIOUS
<1>1. \A r \in Refreshes : job[r].pc # "run"
  BY DEF Init, Called, NoJob
<1>2. cards["claude"] = NoCard /\ \A a \in Accounts : cards[a] # Loading
  BY DEF Init, Accounts, NoCard, Loading
<1>3. refreshin = FALSE /\ latest = {}
  BY DEF Init
<1>4. CardsOfLatest
  BY <1>1, <1>2, <1>3 DEF CardsOfLatest
<1> QED
  BY <1>1, <1>4 DEF CardsInv, Generations

\* The cards are those of the refresh that began last, however many overlap
\* (tracker.go:123-200).
THEOREM CardsAreLatest == Spec => []CardsOfLatest
<1>1. Init => CardsInv
  BY InitCards
<1>2. CardsInv => CardsOfLatest
  BY DEF CardsInv
<1> QED
  BY <1>1, <1>2, CardsStep, TypeCorrect, PTL DEF Spec

-----------------------------------------------------------------------------
NoAnswer == \A h \in Scans : ~Answering(h)
NoWaiting == \A r \in Refreshes : ~Waiting(r)
NoUpdate == \A u \in Updates : ~Updating(u)
NoReading == \A r \in Refreshes : ~HoldsMeta(r)

\* As long as no two answers to list changes were under way at once: there is one
\* answer, it holds the current list in its hands, and when it is given first
\* usageSig and then the selection is that list.
Answers ==
  ~crossed =>
    /\ \A r \in Refreshes : Waiting(r) => job[r].sel = list
    /\ \A g, h \in Scans : Answering(g) /\ Answering(h) => g = h
    /\ NoAnswer \/ NoWaiting
    /\ \A h \in Scans : hand[h].pc = "set" => hand[h].sig = list
    /\ NoAnswer => usageSig = list
    /\ NoWaiting => latest = usageSig

\* As long as no two readings of the observations were under way at once: there
\* is one, it is of the last observation, and the refresh that holds it is the
\* one that may publish it.
Readings ==
  ~mixed =>
    /\ \A u, v \in Updates : Updating(u) /\ Updating(v) => u = v
    /\ \A q, r \in Refreshes : HoldsMeta(q) /\ HoldsMeta(r) => q = r
    /\ NoUpdate \/ (NoReading /\ NoAnswer)
    /\ \A u \in Updates : update[u].pc = "replace" =>
          (update[u].on <=> "meta" \in list) /\ update[u].seen = obs
    /\ \A r \in Refreshes : HoldsMeta(r) =>
          /\ job[r].meta = obs
          /\ "meta" \in latest => job[r].gen = generation

\* With both, the card of a selected Meta account shows the last observation when
\* nobody is about to write it.
MetaCard ==
  (~crossed /\ ~mixed /\ NoWaiting /\ NoUpdate /\ NoReading /\ "meta" \in latest)
    => cards["meta"] = <<"observed", obs>>

CatchUpInv == Answers /\ Readings /\ MetaCard

\* How a step changes the record of one handler, and of one update.
LEMMA HandSet ==
  ASSUME TypeOK, NEW h \in Scans, NEW new, hand' = [hand EXCEPT ![h] = new]
  PROVE  hand'[h] = new /\ \A g \in Scans : g # h => hand'[g] = hand[g]
  BY DEF TypeOK

\* How the step of an update changes its record.
LEMMA UpdateSet ==
  ASSUME TypeOK, NEW u \in Updates, NEW new, update' = [update EXCEPT ![u] = new]
  PROVE  update'[u] = new /\ \A v \in Updates : v # u => update'[v] = update[v]
  BY DEF TypeOK

\* A spawned refresh waits with the list in its hands and holds no reading.
LEMMA SpawnStep ==
  ASSUME TypeOK, NEW r \in Refreshes, Spawns(r)
  PROVE  /\ Waiting(r)' /\ job'[r].sel = list /\ ~Waiting(r) /\ ~NoWaiting'
         /\ \A q \in Refreshes : q # r => job'[q] = job[q]
         /\ \A q \in Refreshes : HoldsMeta(q)' <=> HoldsMeta(q)
         /\ \A q \in Refreshes : HoldsMeta(q) => job'[q] = job[q]
<1>1. Called(list) \in JobRecord /\ Called(list).pc = "called" /\ Called(list).sel = list
  BY Records DEF TypeOK, Called, NoJob
<1>2. job'[r] = Called(list) /\ \A q \in Refreshes : q # r => job'[q] = job[q]
  BY <1>1, JobSet DEF Spawns
<1>3. job[r].pc = "none"
  BY DEF Spawns
<1> QED
  BY <1>1, <1>2, <1>3 DEF Waiting, HoldsMeta, NoWaiting

\* What a step that changes no handler, no update and no call of Refresh beyond its
\* busy flag does to the invariant, and the observations and histories with it.
LEMMA CatchUpKept ==
  ASSUME CatchUpInv,
         UNCHANGED <<obs, list, usageSig, generation, latest, crossed, mixed, hand, update>>,
         cards'["meta"] = cards["meta"],
         \A q \in Refreshes : /\ job'[q].pc = job[q].pc /\ job'[q].sel = job[q].sel
                              /\ job'[q].meta = job[q].meta /\ job'[q].gen = job[q].gen
  PROVE  CatchUpInv'
<1>1. \A q \in Refreshes : (Waiting(q)' <=> Waiting(q)) /\ (HoldsMeta(q)' <=> HoldsMeta(q))
  BY DEF Waiting, HoldsMeta
<1>2. \A h \in Scans : Answering(h)' <=> Answering(h)
  BY DEF Answering
<1>3. \A u \in Updates : Updating(u)' <=> Updating(u)
  BY DEF Updating
<1>4. (NoWaiting' <=> NoWaiting) /\ (NoReading' <=> NoReading)
      /\ (NoAnswer' <=> NoAnswer) /\ (NoUpdate' <=> NoUpdate)
  BY <1>1, <1>2, <1>3 DEF NoWaiting, NoReading, NoAnswer, NoUpdate
<1>5. Answers'
  BY <1>1, <1>2, <1>4 DEF CatchUpInv, Answers
<1>6. Readings'
  BY <1>1, <1>3, <1>4 DEF CatchUpInv, Readings
<1>7. MetaCard'
  BY <1>4 DEF CatchUpInv, MetaCard
<1> QED
  BY <1>5, <1>6, <1>7 DEF CatchUpInv

\* CatchUpInv, step by step: a scan publishes another list.
LEMMA CatchUpScan ==
  ASSUME TypeOK, CatchUpInv, NEW h \in Scans, Scan(h)
  PROVE  CatchUpInv'
<1>1. /\ UNCHANGED <<obs, usageSig, generation, cards, job, latest, update>>
      /\ hand[h].pc = "none" /\ hand'[h].pc = "sign"
      /\ \A g \in Scans : g # h => hand'[g] = hand[g]
  BY HandSet DEF Scan, trackerVars, TypeOK, HandRecord
<1>2. ~crossed' => ~crossed /\ NoAnswer /\ NoWaiting
  BY DEF Scan, NoAnswer, NoWaiting
<1>3. ~mixed' => ~mixed /\ NoUpdate
  BY DEF Scan, NoUpdate
<1>4. \A g \in Scans : Answering(g)' <=> g = h \/ Answering(g)
  BY <1>1 DEF Answering
<1>5. (NoWaiting' <=> NoWaiting) /\ (NoReading' <=> NoReading) /\ (NoUpdate' <=> NoUpdate)
      /\ ~NoAnswer'
  BY <1>1, <1>4 DEF NoWaiting, NoReading, NoUpdate, NoAnswer, Waiting, HoldsMeta, Updating
<1>6. Answers'
  <2> SUFFICES ASSUME ~crossed' PROVE Answers'
    BY DEF Answers
  <2>1. \A r \in Refreshes : ~Waiting(r)'
    BY <1>2, <1>5 DEF NoWaiting
  <2>2. \A g \in Scans : Answering(g)' => g = h
    BY <1>2, <1>4 DEF NoAnswer
  <2>3. \A g \in Scans : hand'[g].pc # "set"
    BY <1>1, <2>2 DEF Answering
  <2>4. latest' = usageSig'
    BY <1>1, <1>2 DEF CatchUpInv, Answers
  <2> QED
    BY <1>2, <1>5, <2>1, <2>2, <2>3, <2>4 DEF Answers
<1>7. Readings'
  <2> SUFFICES ASSUME ~mixed' PROVE Readings'
    BY DEF Readings
  <2>1. \A u \in Updates : ~Updating(u)' /\ update'[u].pc # "replace"
    BY <1>1, <1>3 DEF NoUpdate, Updating
  <2>2. NoUpdate'
    BY <1>3, <1>5
  <2>3. \A r \in Refreshes : HoldsMeta(r)' <=> HoldsMeta(r)
    BY <1>1 DEF HoldsMeta
  <2>4. /\ \A q, r \in Refreshes : HoldsMeta(q)' /\ HoldsMeta(r)' => q = r
        /\ \A r \in Refreshes : HoldsMeta(r)' =>
              job'[r].meta = obs' /\ ("meta" \in latest' => job'[r].gen = generation')
    BY <1>1, <1>3, <2>3 DEF CatchUpInv, Readings
  <2> QED
    BY <2>1, <2>2, <2>4 DEF Readings
<1>8. MetaCard'
  BY <1>1, <1>2, <1>3, <1>5 DEF CatchUpInv, MetaCard
<1> QED
  BY <1>6, <1>7, <1>8 DEF CatchUpInv

\* A handler compares the signature of the list.
LEMMA CatchUpSign ==
  ASSUME TypeOK, CatchUpInv, NEW h \in Scans, Sign(h)
  PROVE  CatchUpInv'
<1>1. /\ UNCHANGED <<obs, list, usageSig, generation, cards, job, latest, update, crossed, mixed>>
      /\ hand[h].pc = "sign"
      /\ \A g \in Scans : g # h => hand'[g] = hand[g]
      /\ hand'[h] = IF list = usageSig THEN [pc |-> "ended", sig |-> {}]
                                       ELSE [pc |-> "set", sig |-> list]
  BY HandSet DEF Sign, trackerVars
<1>2. /\ list = usageSig => hand'[h].pc = "ended"
      /\ list # usageSig => hand'[h].pc = "set" /\ hand'[h].sig = list
  BY <1>1
<1>3. Answering(h) /\ (Answering(h)' <=> list # usageSig)
      /\ \A g \in Scans : g # h => (Answering(g)' <=> Answering(g))
  BY <1>1, <1>2 DEF Answering
<1>4. (NoWaiting' <=> NoWaiting) /\ (NoReading' <=> NoReading) /\ (NoUpdate' <=> NoUpdate)
  BY <1>1 DEF NoWaiting, NoReading, NoUpdate, Waiting, HoldsMeta, Updating
<1>5. ~NoAnswer /\ (NoAnswer' => list = usageSig)
  BY <1>3 DEF NoAnswer
<1>6. Answers'
  <2> SUFFICES ASSUME ~crossed' PROVE Answers'
    BY DEF Answers
  <2>1. NoWaiting /\ latest = usageSig
        /\ \A g \in Scans : Answering(g) => g = h
    BY <1>1, <1>3, <1>5 DEF CatchUpInv, Answers
  <2>2. \A g \in Scans : Answering(g)' => g = h
    BY <1>3, <2>1
  <2>3. \A g \in Scans : hand'[g].pc = "set" => hand'[g].sig = list'
    BY <1>1, <1>2, <2>2 DEF Answering
  <2>4. \A r \in Refreshes : ~Waiting(r)'
    BY <1>4, <2>1 DEF NoWaiting
  <2> QED
    BY <1>1, <1>4, <1>5, <2>1, <2>2, <2>3, <2>4 DEF Answers
<1>7. Readings'
  <2> SUFFICES ASSUME ~mixed' PROVE Readings'
    BY DEF Readings
  <2>1. NoUpdate'
    BY <1>1, <1>4, <1>5 DEF CatchUpInv, Readings
  <2>2. \A r \in Refreshes : HoldsMeta(r)' <=> HoldsMeta(r)
    BY <1>1 DEF HoldsMeta
  <2>3. \A u \in Updates : (Updating(u)' <=> Updating(u)) /\ update'[u] = update[u]
    BY <1>1 DEF Updating
  <2> QED
    BY <1>1, <2>1, <2>2, <2>3 DEF CatchUpInv, Readings
<1>8. MetaCard'
  BY <1>1, <1>4 DEF CatchUpInv, MetaCard
<1> QED
  BY <1>6, <1>7, <1>8 DEF CatchUpInv

\* A handler stores its signature and asks for a refresh.
LEMMA CatchUpRefreshUsage ==
  ASSUME TypeOK, CatchUpInv, NEW h \in Scans, NEW r \in Refreshes, RefreshUsage(h, r)
  PROVE  CatchUpInv'
<1>1. /\ UNCHANGED <<obs, list, generation, cards, latest, update, crossed, mixed>>
      /\ hand[h].pc = "set" /\ hand'[h].pc = "ended" /\ usageSig' = hand[h].sig
      /\ \A g \in Scans : g # h => hand'[g] = hand[g]
  <2>1. hand'[h] = [pc |-> "ended", sig |-> {}] /\ \A g \in Scans : g # h => hand'[g] = hand[g]
    BY HandSet DEF RefreshUsage
  <2>2. hand'[h].pc = "ended"
    BY <2>1
  <2> QED
    BY <2>1, <2>2 DEF RefreshUsage, trackerVars
<1>2. /\ Waiting(r)' /\ job'[r].sel = list /\ ~NoWaiting'
      /\ \A q \in Refreshes : q # r => job'[q] = job[q]
      /\ \A q \in Refreshes : HoldsMeta(q)' <=> HoldsMeta(q)
      /\ \A q \in Refreshes : HoldsMeta(q) => job'[q] = job[q]
  BY SpawnStep DEF RefreshUsage
<1>3. Answering(h) /\ ~Answering(h)' /\ ~NoAnswer
      /\ \A g \in Scans : g # h => (Answering(g)' <=> Answering(g))
  BY <1>1 DEF Answering, NoAnswer
<1>4. \A u \in Updates : (Updating(u)' <=> Updating(u)) /\ update'[u] = update[u]
  BY <1>1 DEF Updating
<1>5. Answers'
  <2> SUFFICES ASSUME ~crossed' PROVE Answers'
    BY DEF Answers
  <2>1. NoWaiting /\ usageSig' = list
        /\ \A g \in Scans : Answering(g) => g = h
    BY <1>1, <1>3 DEF CatchUpInv, Answers
  <2>2. \A g \in Scans : ~Answering(g)' /\ hand'[g].pc # "set"
    BY <1>3, <2>1 DEF Answering
  <2>3. \A q \in Refreshes : Waiting(q)' => job'[q].sel = list'
    BY <1>1, <1>2, <2>1 DEF NoWaiting, Waiting
  <2>4. NoAnswer'
    BY <2>2 DEF NoAnswer
  <2> QED
    BY <1>1, <1>2, <2>1, <2>2, <2>3, <2>4 DEF Answers
<1>6. Readings'
  <2> SUFFICES ASSUME ~mixed' PROVE Readings'
    BY DEF Readings
  <2>1. NoUpdate'
    BY <1>1, <1>3, <1>4 DEF CatchUpInv, Readings, NoUpdate
  <2> QED
    BY <1>1, <1>2, <1>4, <2>1 DEF CatchUpInv, Readings
<1>7. MetaCard'
  BY <1>2 DEF MetaCard
<1> QED
  BY <1>5, <1>6, <1>7 DEF CatchUpInv

\* A call, or run(), asks for a refresh.
LEMMA CatchUpCallRefresh ==
  ASSUME TypeOK, CatchUpInv, NEW r \in Refreshes, CallRefresh(r)
  PROVE  CatchUpInv'
<1>1. UNCHANGED <<obs, list, usageSig, hand, generation, cards, latest, update, mixed>>
  BY DEF CallRefresh, trackerVars, daemonVars
<1>2. /\ Waiting(r)' /\ job'[r].sel = list /\ ~NoWaiting'
      /\ \A q \in Refreshes : q # r => job'[q] = job[q]
      /\ \A q \in Refreshes : HoldsMeta(q)' <=> HoldsMeta(q)
      /\ \A q \in Refreshes : HoldsMeta(q) => job'[q] = job[q]
  BY SpawnStep DEF CallRefresh
<1>3. ~crossed' => ~crossed /\ NoAnswer
  BY DEF CallRefresh, NoAnswer
<1>4. /\ \A g \in Scans : Answering(g)' <=> Answering(g)
      /\ \A u \in Updates : (Updating(u)' <=> Updating(u)) /\ update'[u] = update[u]
  BY <1>1 DEF Updating, Answering
<1>5. (NoAnswer' <=> NoAnswer) /\ (NoUpdate' <=> NoUpdate) /\ (NoReading' <=> NoReading)
  BY <1>2, <1>4 DEF NoAnswer, NoUpdate, NoReading
<1>6. Answers'
  <2> SUFFICES ASSUME ~crossed' PROVE Answers'
    BY DEF Answers
  <2>1. \A q \in Refreshes : Waiting(q)' => job'[q].sel = list'
    BY <1>1, <1>2, <1>3 DEF CatchUpInv, Answers, Waiting
  <2>2. \A g \in Scans : ~Answering(g)' /\ hand'[g].pc # "set"
    BY <1>1, <1>3, <1>4 DEF NoAnswer, Answering
  <2>3. usageSig' = list'
    BY <1>1, <1>3 DEF CatchUpInv, Answers
  <2> QED
    BY <1>2, <1>3, <1>5, <2>1, <2>2, <2>3 DEF Answers
<1>7. Readings'
  BY <1>1, <1>2, <1>4, <1>5 DEF CatchUpInv, Readings
<1>8. MetaCard'
  BY <1>2 DEF MetaCard
<1> QED
  BY <1>6, <1>7, <1>8 DEF CatchUpInv

\* A refresh begins.
LEMMA CatchUpBegin ==
  ASSUME TypeOK, CardsInv, CatchUpInv, NEW r \in Refreshes, Begin(r)
  PROVE  CatchUpInv'
<1>1. /\ UNCHANGED <<obs, list, usageSig, hand, update, crossed>>
      /\ job[r].pc = "called" /\ latest' = job[r].sel /\ generation' = generation + 1
  BY DEF Begin, daemonVars
<1>2. /\ ~Waiting(r)' /\ Waiting(r) /\ ~HoldsMeta(r)
      /\ \A q \in Refreshes : q # r => job'[q] = job[q]
      /\ HoldsMeta(r)' => /\ "meta" \in latest' /\ job'[r].meta = obs /\ job'[r].gen = generation'
                          /\ ~mixed' => ~mixed /\ NoUpdate /\ NoReading
      /\ ~HoldsMeta(r)' => "meta" \notin latest' /\ (~mixed' => ~mixed)
  <2>1. Waiting(r) /\ ~HoldsMeta(r)
    BY <1>1 DEF Waiting, HoldsMeta
  <2>2. CASE job[r].sel = {}
    <3>1. job'[r].pc = "ended" /\ \A q \in Refreshes : q # r => job'[q] = job[q]
      BY <2>2, JobSet, Records DEF Begin
    <3>2. mixed' = mixed
      BY <2>2 DEF Begin
    <3> QED
      BY <1>1, <2>1, <2>2, <3>1, <3>2 DEF Waiting, HoldsMeta
  <2>3. CASE job[r].sel # {}
    <3>1. job' = [job EXCEPT ![r] = Running(r)]
      BY <2>3 DEF Begin, Running
    <3>2. /\ job'[r] = Running(r) /\ \A q \in Refreshes : q # r => job'[q] = job[q]
          /\ job'[r].pc = "run" /\ job'[r].gen = generation' /\ job'[r].sel = job[r].sel
      BY <1>1, <3>1, JobSet, Began
    <3>3. job'[r].meta = obs
      BY <3>2 DEF Running, TypeOK, JobRecord
    <3>4. /\ ~mixed' => ~mixed
          /\ "meta" \in job[r].sel /\ ~mixed' => NoUpdate /\ NoReading
      BY <2>3 DEF Begin, NoUpdate, NoReading
    <3> QED
      BY <1>1, <2>1, <3>2, <3>3, <3>4 DEF Waiting, HoldsMeta
  <2> QED
    BY <2>2, <2>3
<1>3. \A q \in Refreshes : q # r =>
        (Waiting(q)' <=> Waiting(q)) /\ (HoldsMeta(q)' <=> HoldsMeta(q))
  BY <1>2 DEF Waiting, HoldsMeta
<1>4. /\ \A g \in Scans : Answering(g)' <=> Answering(g)
      /\ \A u \in Updates : (Updating(u)' <=> Updating(u)) /\ update'[u] = update[u]
  BY <1>1 DEF Updating, Answering
<1>5. (NoAnswer' <=> NoAnswer) /\ (NoUpdate' <=> NoUpdate) /\ ~NoWaiting
  BY <1>2, <1>4 DEF NoAnswer, NoUpdate, NoWaiting
<1>6. Answers'
  <2> SUFFICES ASSUME ~crossed' PROVE Answers'
    BY DEF Answers
  <2>1. NoAnswer /\ usageSig = list /\ job[r].sel = list
    BY <1>1, <1>2, <1>5 DEF CatchUpInv, Answers
  <2>2. \A q \in Refreshes : Waiting(q)' => job'[q].sel = list'
    BY <1>1, <1>2, <1>3 DEF CatchUpInv, Answers
  <2>3. \A g \in Scans : ~Answering(g)' /\ hand'[g].pc # "set"
    BY <1>1, <1>4, <2>1 DEF NoAnswer, Answering
  <2> QED
    BY <1>1, <1>5, <2>1, <2>2, <2>3 DEF Answers
<1>7. Readings'
  <2> SUFFICES ASSUME ~mixed' PROVE Readings'
    BY DEF Readings
  <2>1. CASE HoldsMeta(r)'
    <3>1. NoUpdate /\ \A q \in Refreshes : ~HoldsMeta(q)
      BY <1>2, <2>1 DEF NoReading
    <3>2. \A q \in Refreshes : HoldsMeta(q)' => q = r
      BY <1>3, <3>1
    <3>3. \A u \in Updates : ~Updating(u)' /\ update'[u].pc # "replace"
      BY <1>4, <3>1 DEF NoUpdate, Updating
    <3> QED
      BY <1>1, <1>2, <1>5, <2>1, <3>1, <3>2, <3>3 DEF Readings
  <2>2. CASE ~HoldsMeta(r)'
    <3>1. \A q \in Refreshes : HoldsMeta(q)' <=> HoldsMeta(q)
      BY <1>2, <1>3, <2>2
    <3>2. NoReading' <=> NoReading
      BY <3>1 DEF NoReading
    <3>3. \A q \in Refreshes : HoldsMeta(q)' => job'[q] = job[q]
      BY <1>2, <2>2
    <3> QED
      BY <1>1, <1>2, <1>4, <1>5, <2>2, <3>1, <3>2, <3>3 DEF CatchUpInv, Readings
  <2> QED
    BY <2>1, <2>2
<1>8. MetaCard'
  BY <1>2 DEF MetaCard, NoReading
<1> QED
  BY <1>6, <1>7, <1>8 DEF CatchUpInv

\* A refresh has its cards of Claude.
LEMMA CatchUpFetch ==
  ASSUME TypeOK, CatchUpInv, NEW r \in Refreshes, Fetch(r)
  PROVE  CatchUpInv'
<1>1. [job[r] EXCEPT !.busy = FALSE] \in JobRecord
  BY DEF TypeOK, JobRecord
<1>2. \A q \in Refreshes : /\ job'[q].pc = job[q].pc /\ job'[q].sel = job[q].sel
                           /\ job'[q].meta = job[q].meta /\ job'[q].gen = job[q].gen
  BY <1>1 DEF Fetch, TypeOK, JobRecord
<1>3. /\ UNCHANGED <<obs, list, usageSig, generation, latest, crossed, mixed, hand, update>>
      /\ cards'["meta"] = cards["meta"]
  BY DEF Fetch, daemonVars, trackerVars
<1> QED
  BY <1>2, <1>3, CatchUpKept

\* A refresh ends, with its cards if none began after it.
LEMMA CatchUpComplete ==
  ASSUME TypeOK, CardsInv, CatchUpInv, NEW r \in Refreshes, Complete(r)
  PROVE  CatchUpInv'
<1>1. /\ UNCHANGED <<obs, list, usageSig, hand, generation, update, latest, crossed, mixed>>
      /\ job[r].pc = "run" /\ job' = [job EXCEPT ![r] = Ended]
      /\ job[r].gen = generation => cards' = Results(r)
      /\ job[r].gen # generation => cards' = cards
  BY DEF Complete, Fetched, daemonVars
<1>2. job'[r].pc = "ended" /\ \A q \in Refreshes : q # r => job'[q] = job[q]
  BY <1>1, JobSet, Records
<1>3. /\ \A q \in Refreshes : Waiting(q)' <=> Waiting(q)
      /\ ~HoldsMeta(r)'
      /\ \A q \in Refreshes : HoldsMeta(q)' => HoldsMeta(q) /\ q # r
      /\ \A q \in Refreshes : HoldsMeta(q) /\ q # r => HoldsMeta(q)'
  BY <1>1, <1>2 DEF Waiting, HoldsMeta
<1>4. /\ \A g \in Scans : Answering(g)' <=> Answering(g)
      /\ \A u \in Updates : (Updating(u)' <=> Updating(u)) /\ update'[u] = update[u]
  BY <1>1 DEF Updating, Answering
<1>5. /\ (NoAnswer' <=> NoAnswer) /\ (NoUpdate' <=> NoUpdate) /\ (NoWaiting' <=> NoWaiting)
      /\ NoReading => NoReading'
      /\ HoldsMeta(r) \/ (NoReading' <=> NoReading)
  BY <1>3, <1>4 DEF NoAnswer, NoUpdate, NoWaiting, NoReading
<1>6. Answers'
  BY <1>1, <1>2, <1>3, <1>4, <1>5 DEF CatchUpInv, Answers, Waiting
<1>7. Readings'
  BY <1>1, <1>2, <1>3, <1>4, <1>5 DEF CatchUpInv, Readings
<1>8. MetaCard'
  <2> SUFFICES ASSUME ~crossed', ~mixed', NoWaiting', NoUpdate', NoReading', "meta" \in latest'
               PROVE  cards'["meta"] = <<"observed", obs'>>
    BY DEF MetaCard
  <2>1. "meta" \in Accounts
    BY DEF Accounts
  <2>2. CASE HoldsMeta(r)
    <3>1. job[r].meta = obs /\ job[r].gen = generation /\ "meta" \in job[r].sel
      BY <1>1, <2>2 DEF CatchUpInv, Readings, HoldsMeta
    <3>2. cards'["meta"] = <<"observed", obs>>
      BY <1>1, <2>1, <3>1 DEF Results
    <3> QED
      BY <1>1, <3>2
  <2>3. CASE ~HoldsMeta(r)
    <3>1. job[r].gen # generation
      BY <1>1, <2>3 DEF CardsInv, Generations, HoldsMeta
    <3> QED
      BY <1>1, <1>5, <2>3, <3>1 DEF CatchUpInv, MetaCard
  <2> QED
    BY <2>2, <2>3
<1> QED
  BY <1>6, <1>7, <1>8 DEF CatchUpInv

\* The proxy records an observation.
LEMMA CatchUpObserve ==
  ASSUME TypeOK, CatchUpInv, NEW u \in Updates, Observe(u)
  PROVE  CatchUpInv'
<1>1. /\ UNCHANGED <<list, usageSig, hand, generation, job, cards, latest, crossed>>
      /\ update'[u].pc = "read" /\ \A v \in Updates : v # u => update'[v] = update[v]
  BY UpdateSet DEF Observe, daemonVars, trackerVars, TypeOK, UpdateRecord
<1>2. ~mixed' => ~mixed /\ NoUpdate /\ NoReading /\ NoAnswer
  BY DEF Observe, NoUpdate, NoReading, NoAnswer
<1>3. /\ \A g \in Scans : Answering(g)' <=> Answering(g)
      /\ \A q \in Refreshes : (Waiting(q)' <=> Waiting(q)) /\ (HoldsMeta(q)' <=> HoldsMeta(q))
      /\ \A v \in Updates : Updating(v)' <=> v = u \/ Updating(v)
  BY <1>1 DEF Answering, Waiting, HoldsMeta, Updating
<1>4. /\ (NoAnswer' <=> NoAnswer) /\ (NoWaiting' <=> NoWaiting) /\ (NoReading' <=> NoReading)
      /\ ~NoUpdate'
  BY <1>3 DEF NoAnswer, NoUpdate, NoWaiting, NoReading
<1>5. Answers'
  BY <1>1, <1>3, <1>4 DEF CatchUpInv, Answers
<1>6. Readings'
  <2> SUFFICES ASSUME ~mixed' PROVE Readings'
    BY DEF Readings
  <2>1. \A v \in Updates : (Updating(v)' => v = u) /\ update'[v].pc # "replace"
    BY <1>1, <1>2, <1>3 DEF NoUpdate, Updating
  <2>2. \A q \in Refreshes : ~HoldsMeta(q)'
    BY <1>2, <1>3 DEF NoReading
  <2> QED
    BY <1>2, <1>4, <2>1, <2>2 DEF Readings
<1>7. MetaCard'
  BY <1>4 DEF MetaCard
<1> QED
  BY <1>5, <1>6, <1>7 DEF CatchUpInv

\* The handler of an observation reads the list and the store.
LEMMA CatchUpRead ==
  ASSUME TypeOK, CatchUpInv, NEW u \in Updates, UpdateRead(u)
  PROVE  CatchUpInv'
<1> DEFINE on == ("meta" \in list)
<1>1. /\ UNCHANGED <<obs, list, usageSig, hand, generation, job, cards, latest, crossed, mixed>>
      /\ update[u].pc = "read" /\ update'[u] = [pc |-> "replace", on |-> on, seen |-> obs]
      /\ \A v \in Updates : v # u => update'[v] = update[v]
  BY UpdateSet DEF UpdateRead, daemonVars, trackerVars
<1>2. on \in BOOLEAN /\ (on <=> "meta" \in list)
  OBVIOUS
<1> HIDE DEF on
<1>3. update'[u].pc = "replace" /\ update'[u].on = on /\ update'[u].seen = obs
  BY <1>1
<1>4. (update'[u].on <=> "meta" \in list') /\ update'[u].seen = obs'
  BY <1>1, <1>2, <1>3
<1>5. /\ \A g \in Scans : Answering(g)' <=> Answering(g)
      /\ \A q \in Refreshes : (Waiting(q)' <=> Waiting(q)) /\ (HoldsMeta(q)' <=> HoldsMeta(q))
      /\ Updating(u) /\ \A v \in Updates : Updating(v)' <=> Updating(v)
  BY <1>1, <1>3 DEF Answering, Waiting, HoldsMeta, Updating
<1>6. /\ (NoAnswer' <=> NoAnswer) /\ (NoWaiting' <=> NoWaiting) /\ (NoReading' <=> NoReading)
      /\ (NoUpdate' <=> NoUpdate) /\ ~NoUpdate
  BY <1>5 DEF NoAnswer, NoUpdate, NoWaiting, NoReading
<1>7. Answers'
  BY <1>1, <1>5, <1>6 DEF CatchUpInv, Answers
<1>8. Readings'
  <2> SUFFICES ASSUME ~mixed' PROVE Readings'
    BY DEF Readings
  <2>1. \A v \in Updates : update'[v].pc = "replace" =>
          (update'[v].on <=> "meta" \in list') /\ update'[v].seen = obs'
    BY <1>1, <1>4 DEF CatchUpInv, Readings
  <2> QED
    BY <1>1, <1>5, <1>6, <2>1 DEF CatchUpInv, Readings
<1>9. MetaCard'
  BY <1>6 DEF MetaCard
<1> QED
  BY <1>7, <1>8, <1>9 DEF CatchUpInv

\* It replaces the card of Meta.
LEMMA CatchUpReplace ==
  ASSUME TypeOK, CatchUpInv, NEW u \in Updates, UpdateReplace(u)
  PROVE  CatchUpInv'
<1>1. /\ UNCHANGED <<obs, list, usageSig, hand, generation, job, latest, crossed, mixed>>
      /\ update[u].pc = "replace" /\ update'[u] = [pc |-> "ended", on |-> FALSE, seen |-> 0]
      /\ \A v \in Updates : v # u => update'[v] = update[v]
  BY UpdateSet DEF UpdateReplace, daemonVars
<1>2. update'[u].pc = "ended"
  BY <1>1
<1>3. update[u].on => cards'["meta"] = <<"observed", update[u].seen>>
  BY DEF UpdateReplace, TypeOK, Accounts
<1>4. /\ \A g \in Scans : Answering(g)' <=> Answering(g)
      /\ \A q \in Refreshes : (Waiting(q)' <=> Waiting(q)) /\ (HoldsMeta(q)' <=> HoldsMeta(q))
      /\ Updating(u) /\ \A v \in Updates : Updating(v)' <=> Updating(v) /\ v # u
  BY <1>1, <1>2 DEF Answering, Waiting, HoldsMeta, Updating
<1>5. /\ (NoAnswer' <=> NoAnswer) /\ (NoWaiting' <=> NoWaiting) /\ (NoReading' <=> NoReading)
      /\ ~NoUpdate
  BY <1>4 DEF NoAnswer, NoUpdate, NoWaiting, NoReading
<1>6. Answers'
  BY <1>1, <1>4, <1>5 DEF CatchUpInv, Answers
<1>7. Readings'
  <2> SUFFICES ASSUME ~mixed' PROVE Readings'
    BY DEF Readings
  <2>1. \A v \in Updates : ~Updating(v)' /\ update'[v].pc # "replace"
    BY <1>1, <1>2, <1>4 DEF CatchUpInv, Readings, Updating
  <2>2. NoReading' /\ NoAnswer'
    BY <1>1, <1>5 DEF CatchUpInv, Readings
  <2>3. \A q \in Refreshes : ~HoldsMeta(q)'
    BY <2>2 DEF NoReading
  <2> QED
    BY <2>1, <2>2, <2>3 DEF Readings
<1>8. MetaCard'
  <2> SUFFICES ASSUME ~crossed', ~mixed', NoWaiting', "meta" \in latest'
               PROVE  cards'["meta"] = <<"observed", obs'>>
    BY DEF MetaCard
  <2>1. NoAnswer
    BY <1>1, <1>5 DEF CatchUpInv, Readings
  <2>2. latest = list
    BY <1>1, <1>5, <2>1 DEF CatchUpInv, Answers
  <2>3. update[u].on /\ update[u].seen = obs
    BY <1>1, <2>2 DEF CatchUpInv, Readings
  <2> QED
    BY <1>1, <1>3, <2>3
<1> QED
  BY <1>6, <1>7, <1>8 DEF CatchUpInv

\* Every step keeps the invariant behind CatchesUp.
LEMMA CatchUpStep == TypeOK /\ CardsInv /\ CatchUpInv /\ [Next]_vars => CatchUpInv'
<1> SUFFICES ASSUME TypeOK, CardsInv, CatchUpInv, [Next]_vars PROVE CatchUpInv'
  OBVIOUS
<1>1. ASSUME NEW h \in Scans, Scan(h) \/ Handler(h) PROVE CatchUpInv'
  BY <1>1, CatchUpScan, CatchUpSign, CatchUpRefreshUsage DEF Handler
<1>2. ASSUME NEW r \in Refreshes, CallRefresh(r) \/ Refresh(r) PROVE CatchUpInv'
  BY <1>2, CatchUpCallRefresh, CatchUpBegin, CatchUpFetch, CatchUpComplete DEF Refresh
<1>3. ASSUME NEW u \in Updates, Observe(u) \/ UpdateMeta(u) PROVE CatchUpInv'
  BY <1>3, CatchUpObserve, CatchUpRead, CatchUpReplace DEF UpdateMeta
<1>4. CASE UNCHANGED vars
  BY <1>4, CatchUpKept DEF vars
<1> QED
  BY <1>1, <1>2, <1>3, <1>4 DEF Next

\* When the answers to list changes are given, the last selection is the list, and
\* when the readings of the observations have been written, an enabled Meta account
\* shows the last one (daemon.go:240-285, tracker.go:133-249).
THEOREM UsageCatchesUp == Spec => []CatchesUp
<1>1. Init => CardsInv /\ CatchUpInv
  <2> SUFFICES ASSUME Init PROVE CardsInv /\ CatchUpInv
    OBVIOUS
  <2>1. /\ \A r \in Refreshes : job[r].pc # "run" /\ (Waiting(r) => job[r].sel = list)
        /\ 1 \in Refreshes /\ Waiting(1)
    BY UsageAssumption DEF Init, Called, NoJob, Waiting, Refreshes
  <2>2. /\ \A h \in Scans : ~Answering(h) /\ hand[h].pc # "set"
        /\ \A u \in Updates : ~Updating(u) /\ update[u].pc # "replace"
        /\ \A r \in Refreshes : ~HoldsMeta(r)
    BY <2>1 DEF Init, Answering, Updating, HoldsMeta
  <2>3. NoAnswer /\ NoUpdate /\ NoReading /\ ~NoWaiting /\ usageSig = list
    BY <2>1, <2>2 DEF NoAnswer, NoUpdate, NoReading, NoWaiting, Init
  <2>4. CardsInv
    BY InitCards
  <2> QED
    BY <2>1, <2>2, <2>3, <2>4 DEF CatchUpInv, Answers, Readings, MetaCard
<1>2. CatchUpInv => CatchesUp
  <2> SUFFICES ASSUME CatchUpInv, Settled PROVE CatchesUp
    BY DEF CatchesUp
  <2>1. NoAnswer /\ NoWaiting /\ ~crossed
    BY DEF Settled, NoAnswer, NoWaiting
  <2>2. latest = list
    BY <2>1 DEF CatchUpInv, Answers
  <2>3. ASSUME \A r \in Refreshes : job[r].pc # "run", \A u \in Updates : ~Updating(u),
               ~mixed, "meta" \in list
        PROVE  cards["meta"] = <<"observed", obs>>
    BY <2>1, <2>2, <2>3 DEF CatchUpInv, MetaCard, NoUpdate, NoReading, HoldsMeta
  <2> QED
    BY <2>2, <2>3 DEF CatchesUp
<1> QED
  BY <1>1, <1>2, CardsStep, CatchUpStep, TypeCorrect, PTL DEF Spec
================================================================================
